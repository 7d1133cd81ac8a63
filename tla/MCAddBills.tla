----------------------------- MODULE MCAddBills -----------------------------
(* Two bills that share a member; the first had two roll calls. A third    *)
(* states no day of approval.                                              *)
EXTENDS AddBills

CONSTANTS b1, b2, b3, m1, m2

Names == [b \in {b1, b2, b3} |-> IF b = b1 THEN {m1, m2} ELSE {m2}]

TwoCalls == [b \in {b1, b2, b3} |-> IF b = b1 THEN <<{m1}, {m1, m2}>> ELSE <<{m2}>>]

AnyAsk == {{b1, b2}, {b1, b3}, {b2}}
=============================================================================
