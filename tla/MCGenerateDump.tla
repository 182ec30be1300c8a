--------------------------- MODULE MCGenerateDump ---------------------------
(* GenerateDump for TLC: one or two calls, texts of four and three bytes.  *)
EXTENDS GenerateDump, TLC

CONSTANTS c1, c2, h1, h2

OneHandler  == [c \in Callers |-> h1]
TwoHandlers == [c \in Callers |-> IF c = c1 THEN h1 ELSE h2]

\* The second crash may write less than the first, or more.
Texts == c1 :> <<"h1", "H1", Caret, "t1">> @@ c2 :> <<"h2", Caret, "t2">>

Descriptors == 0..7
=============================================================================
