--------------------------- MODULE MCWholeWriter ---------------------------
(* LinuxDumper and WholeWriter for TLC: one process of 128 bytes with all    *)
(* kinds of mappings, what its stacks may hold, and what may be odd about it. *)
EXTENDS WholeWriter, TLC

L(start, end, offset, exec, path) ==
  [kind |-> "mapping", start |-> start, end |-> end, offset |-> offset, exec |-> exec, path |-> path]

Odd(kind, line) == [line EXCEPT !.kind = kind]

\* a: lld's segments; then a stack; p: packed, with a hole, and a library whose
\* moved range covers that stack; the gate; m: the program; l: a name that is
\* too long; a line that is too long; z: never seen.
Maps ==
  << L(8, 12, 0, FALSE, "a"), L(12, 20, 4, TRUE, "a"), L(20, 24, 12, FALSE, "a"),
     L(24, 40, 0, FALSE, NoName),
     Odd("other", L(40, 44, 0, FALSE, NoName)),
     L(44, 48, 0, TRUE, "p"), L(52, 56, 8, TRUE, "p"), L(56, 60, 0, TRUE, NoName),
     L(64, 72, 0, FALSE, "m"), L(72, 80, 8, TRUE, "m"),
     L(80, 88, 0, FALSE, NoName), L(92, 96, 0, TRUE, "l"), L(96, 100, 4, TRUE, "l"),
     Odd("overlong", L(100, 104, 0, TRUE, NoName)), L(104, 108, 0, TRUE, "z") >>

Plainly == [dyn |-> TRUE, loads |-> {0, 8}, dynamic |-> 2, packed |-> FALSE]
Packed == [Plainly EXCEPT !.loads = {16, 20}, !.packed = TRUE]

At(sp, ip) == [sp |-> sp, ip |-> ip]

Aux1(type, value) == [type |-> type, value |-> value]

F(readable, s) == [readable |-> readable, text |-> s]

SimpleReport ==
  [sdk |-> 23, head |-> <<"h", "h">>, method |-> "named", symbol |-> <<"s">>, thread |-> <<"t">>,
   again |-> TRUE, loads |-> TRUE, starts |-> TRUE,
   frames |-> <<F(TRUE, <<"f", "0">>), F(FALSE, <<>>), F(TRUE, <<"f", "1">>)>>,
   next |-> <<2, 3, 0>>]

Base ==
  [auxv |-> <<Aux1(33, 56), Aux1(40, 1), Aux1(9, 74), Aux1(0, 0), Aux1(9, 10)>>,
   maps |-> Maps,
   elf |-> 8 :> Plainly @@ 44 :> Packed @@ 64 :> [Plainly EXCEPT !.dyn = FALSE],
   memory |-> <<2, 10>>,
   context |-> At(29, 46),
   threads |-> <<At(34, 13), At(25, 50), At(26, 13), At(42, 13), At(86, 9)>>,
   crashed |-> 1, principal |-> 13, skip |-> FALSE, sanitize |-> TRUE, tight |-> FALSE,
   given |-> <<>>, report |-> SimpleReport]

\* Small numbers, pointers into every mapping, at the edges and beside them.
Words == {2, 4, 126, 10, 20, 30, 46, 57, 79, 84, 94, 106, 42, 124}

Stacks == {[Base EXCEPT !.memory = <<v, w>>, !.tight = t] : v, w \in Words, t \in BOOLEAN}

Skips ==
  {[Base EXCEPT !.memory = <<v, 2>>, !.skip = TRUE, !.sanitize = FALSE, !.principal = q,
                !.context.ip = ip] :
     v \in {2, 10, 20, 46}, q \in {2, 13, 46}, ip \in {13, 19, 20, 46}}

OwnModule ==
  [from |-> 0, to |-> 0, start |-> 64, size |-> 16, offset |-> 0, exec |-> TRUE, name |-> "g"]

Oddities ==
  {[Base EXCEPT !.elf[44].dynamic = 3], [Base EXCEPT !.elf[64] = Packed],
   [Base EXCEPT !.auxv = <<>>], [Base EXCEPT !.auxv[2].type = 0], [Base EXCEPT !.maps = <<>>],
   [Base EXCEPT !.auxv[3].value = 60], [Base EXCEPT !.auxv[3].value = 9],
   [Base EXCEPT !.crashed = 0], [Base EXCEPT !.given = <<OwnModule>>],
   [Base EXCEPT !.context.ip = 41], [Base EXCEPT !.context.ip = 61]}

Reports ==
  {[SimpleReport EXCEPT !.sdk = sdk, !.method = method, !.head = head, !.next = next,
                        !.frames[1].readable = readable] :
     sdk \in {19, 23, 28}, method \in {"none", "named", "nameless"},
     head \in {<<"h", "h">>, <<"h", Caret>>, [k \in 1 .. 9 |-> "h"]},
     next \in {<<2, 3, 0>>, <<2, 1, 0>>, <<2, 2, 0>>, <<0, 0, 0>>}, readable \in BOOLEAN}
  \cup {[SimpleReport EXCEPT !.again = FALSE], [SimpleReport EXCEPT !.loads = FALSE],
        [SimpleReport EXCEPT !.starts = FALSE]}

MCUnknown == <<"u">>

MCInputs == Stacks \cup Skips \cup Oddities \cup {[Base EXCEPT !.report = r] : r \in Reports}
=============================================================================
