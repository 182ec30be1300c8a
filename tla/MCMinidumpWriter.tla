-------------------------- MODULE MCMinidumpWriter --------------------------
(* MinidumpWriter for TLC: small processes, each part of them once, with and *)
(* without failing calls.                                                    *)
EXTENDS MinidumpWriter, TLC

\* /a, and a name with a character of two bytes.
Short == <<1, 1>>
Umlaut == <<1, 2, 1>>
\* A byte that is not UTF-8.
Broken == <<1, 0>>

Module(n, s) == [id |-> n, name |-> s]

\* Everything a dump can hold.
Rich ==
  [threads |-> <<4096, 0>>, crashed |-> 1, ip |-> 256,
   modules |-> <<Module(20, Umlaut), Module(0, Short)>>, app |-> <<100>>, os |-> Short,
   files |-> <<5000, 1000, 0, 40, 0, 320, 9000>>, dynamic |-> TRUE,
   links |-> <<Short, Umlaut>>, later |-> <<Short, Umlaut>>,
   byPath |-> TRUE, refused |-> FALSE, kernelBug |-> FALSE, fails |-> FALSE]

\* Nothing but one thread, whose stack cannot be found.
Poor ==
  [Rich EXCEPT !.threads = <<0>>, !.ip = 0, !.modules = <<>>, !.app = <<>>,
               !.files = [k \in 1 .. 7 |-> 0], !.dynamic = FALSE,
               !.links = <<>>, !.later = <<>>]

Bodies ==
  {Rich, [Rich EXCEPT !.crashed = 2], [Rich EXCEPT !.crashed = 0],
   [Rich EXCEPT !.links = <<>>, !.later = <<>>],
   [Rich EXCEPT !.modules[1].name = Broken],
   [Rich EXCEPT !.links[2] = Broken, !.later[2] = Broken],
   Poor, [Poor EXCEPT !.dynamic = TRUE], [Poor EXCEPT !.refused = TRUE]}

MCInputs ==
  {[b EXCEPT !.byPath = p, !.kernelBug = k, !.fails = f] :
     b \in Bodies, p, k, f \in BOOLEAN}
=============================================================================
