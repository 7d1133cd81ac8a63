---------------------------- MODULE MCPrintings ----------------------------
EXTENDS Printings

Node(path, above) == [path |-> path, above |-> above, words |-> 0]

(* One provision in another; two beside each other; two with one number.   *)
Nested == <<Node(<<>>, 0), Node(<<"a">>, 1), Node(<<"a", "a">>, 2)>>

Beside == <<Node(<<>>, 0), Node(<<"a">>, 1), Node(<<"b">>, 1)>>

Doubled == <<Node(<<>>, 0), Node(<<"a">>, 1), Node(<<"a">>, 1)>>

AnyFirst == {Nested, Beside, Doubled}
=============================================================================
