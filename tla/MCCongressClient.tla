-------------------------- MODULE MCCongressClient --------------------------
(* A bill whose actions list a roll call twice, and two workers.           *)
EXTENDS CongressClient, TLC

CONSTANTS bill, actions, vote, roster, m1, m2

Part(kind, pages, number, names) ==
  [kind |-> kind, pages |-> pages, number |-> number, names |-> names]

Listed ==
  << Part("head", <<bill>>, 0, {m1}),
     Part("actions", <<actions>>, 0, {}),
     Part("roll", <<vote, roster>>, 7, {m1, m2}),
     Part("roll", <<vote, roster>>, 7, {m1, m2}) >>
=============================================================================
