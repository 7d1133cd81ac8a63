----------------------- MODULE MCRedesignationWindow -----------------------
(* A law that moves paragraph 3 to 4, and 4 to 5.                          *)
EXTENDS RedesignationWindow

CONSTANTS p3, p4, p5, s1, s2, c1, c2

Prints(text, provisions) == [text |-> text, provisions |-> provisions]

(* Two statements of one move, each in its own subsection, which holds the *)
(* paragraphs of before or after.                                          *)
Statements == <<s1, s2>>
States == [s \in {s1, s2} |-> {<<p3, p4>>}]
In == [s \in {s1, s2} |-> IF s = s1 THEN c1 ELSE c2]

TwoSubsections ==
  {[d \in Date |-> [c \in {c1, c2} |-> IF c = c1 THEN one[d] ELSE two[d]]] :
     one \in [Date -> {Prints(1, {p3, p4}), Prints(2, {p3, p4})}],
     two \in [Date -> {Prints(1, {p3}), Prints(1, {p4})}]}

(* One statement in one subsection, which is not there, holds the          *)
(* paragraphs of before or after, or those a run of renumberings leaves.   *)
OneStatement == <<s1>>
OneStates == [s \in {s1} |-> {<<p3, p4>>, <<p4, p5>>}]
OneIn == [s \in {s1} |-> c1]

AnyPrinting ==
  [Date -> [{c1} -> {Prints(0, {}), Prints(1, {p3, p4}), Prints(2, {p3, p4}),
                     Prints(1, {p3, p4, p5}), Prints(2, {p4, p5})}]]
=============================================================================
