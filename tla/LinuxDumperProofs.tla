------------------------- MODULE LinuxDumperProofs -------------------------
(***************************************************************************)
(* Theorems about LinuxDumper, whatever the maps file, the auxiliary vector, *)
(* the libraries and the threads are: the list of mappings is the maps file, *)
(* the main program comes first in the module list, and, where no library is *)
(* moved up by its bias, a stack is taken from the mapping it is in and what *)
(* is left of it when it is sanitized points to code or to the stack.        *)
(***************************************************************************)
EXTENDS LinuxDumper, WellFoundedInduction, TLAPS

\* A least element of a set of numbers, FindMapping's loop, is one of them.
LEMMA LeastIsIn ==
  ASSUME NEW S \in SUBSET Nat, S # {}
  PROVE  Least(S) \in S /\ \A j \in S : Least(S) <= j
<1> DEFINE R == OpToRel(<, Nat)
<1>1. \A y, x \in Nat : y < x => <<y, x>> \in R
  BY DEF OpToRel
<1>2. IsWellFoundedOn(R, Nat)
  BY NatLessThanWellFounded
<1> HIDE DEF R
<1>3. PICK x \in S : \A y \in S : <<y, x>> \notin R
  BY <1>2, WFMin, Zenon
<1>4. ASSUME NEW y \in S
      PROVE  x <= y
  <2>1. x \in Nat /\ y \in Nat
    OBVIOUS
  <2>2. ~(y < x)
    BY <1>1, <1>3, <2>1, Zenon
  <2> QED BY <2>1, <2>2
<1> QED BY <1>4, Zenon DEF Least

\* A sum of addresses is an address.
LEMMA ModIsAddress ==
  ASSUME NEW a \in Int, NEW b \in Nat \ {0}
  PROVE  a % b \in 0 .. b - 1
OBVIOUS

\* One element of a sequence is replaced.
LEMMA ReplaceOne ==
  ASSUME NEW S, NEW s \in Seq(S), NEW i \in 1 .. Len(s), NEW e \in S, NEW t, t = [s EXCEPT ![i] = e]
  PROVE  /\ t \in Seq(S) /\ DOMAIN t = 1 .. Len(s) /\ t[i] = e
         /\ \A j \in 1 .. Len(s) : t[j] \in S /\ (j # i => t[j] = s[j])
OBVIOUS
-----------------------------------------------------------------------------
(* The inductive invariant.                                                 *)

\* Mapping m holds line k, and byte a of a mapping of that name is of line k.
Holds(m, k) ==
  /\ m.from <= input.maps[k].start /\ input.maps[k].end <= m.to
  /\ input.maps[k].exec => m.exec
  /\ input.maps[k].path \in Paths \ LongPaths => m.name = input.maps[k].path

Backs(k, a, name) == InLine(a, k) /\ name \in {input.maps[k].path, Gate, NoName}

Covers(K) ==
  /\ \A k \in K : \E i \in DOMAIN mappings : Holds(mappings[i], k)
  /\ \A i \in DOMAIN mappings : \A a \in mappings[i].from .. mappings[i].to - 1 :
       \E k \in K : Backs(k, a, mappings[i].name)

Apart ==
  \A i, j \in DOMAIN mappings :
    i # j => mappings[i].to <= mappings[j].from \/ mappings[j].to <= mappings[i].from

Seen == {k \in 1 .. n - 1 : input.maps[k].kind = "mapping"}

\* While lines are read the mappings are in the order of the lines, below those
\* that are still to come, and have not been moved.
Reading ==
  /\ n - 1 <= Len(input.maps)
  /\ \A k \in 1 .. n - 1 : input.maps[k].kind # "overlong"
  /\ \A i \in DOMAIN mappings :
       /\ mappings[i].start = mappings[i].from
       /\ mappings[i].from < mappings[i].to
       /\ mappings[i].size = mappings[i].to - mappings[i].from
       /\ \A k \in n .. Len(input.maps) : mappings[i].to <= input.maps[k].start
  /\ Covers(Seen)
  /\ Apart

IInv ==
  /\ input \in Inputs /\ n \in Nat \ {0} /\ mappings \in Seq(Mapping)
  /\ phase = "auxv" => mappings = <<>>
  /\ phase = "maps" => Reading
  /\ phase \in {"late", "threads", "dumped"} => Covers(LinesRead) /\ Apart

\* What DumperAssumption says of the maps file.
LEMMA FileFacts ==
  ASSUME input \in Inputs
  PROVE  /\ Process(input) /\ Ordered(input.maps)
         /\ Len(input.maps) \in Nat /\ DOMAIN input.maps = 1 .. Len(input.maps)
         /\ \A k \in DOMAIN input.maps : input.maps[k] \in Line
<1>1. Process(input) /\ Ordered(input.maps)
  BY DumperAssumption
<1>2. input.maps \in Seq(Line)
  BY <1>1 DEF Process
<1> QED BY <1>1, <1>2

LEMMA InitStep == ASSUME Init PROVE IInv
BY DEF Init, IInv
-----------------------------------------------------------------------------
(* The steps.                                                               *)

\* A step that keeps the mappings, in a phase that has them.
LEMMA KeepStep ==
  ASSUME IInv, UNCHANGED <<input, mappings>>, n' \in Nat \ {0},
         \/ phase = "auxv" /\ phase' = "auxv"
         \/ phase' = "failed"
         \/ phase \in {"late", "threads", "dumped"} /\ phase' \in {"late", "threads", "dumped"}
  PROVE  IInv'
<1>1. Covers(LinesRead) => Covers(LinesRead)'
  <2>1. LinesRead' = LinesRead
    BY DEF LinesRead
  <2>2. ASSUME NEW m, NEW k PROVE Holds(m, k)' <=> Holds(m, k)
    BY DEF Holds
  <2>3. ASSUME NEW k, NEW a, NEW name PROVE Backs(k, a, name)' <=> Backs(k, a, name)
    BY DEF Backs, InLine
  <2> QED BY <2>1, <2>2, <2>3 DEF Covers
<1>2. Apart => Apart'
  BY Zenon DEF Apart
<1> QED BY <1>1, <1>2 DEF IInv

LEMMA ReadAuxvStep == ASSUME IInv, ReadAuxEntry \/ AuxvRead PROVE IInv'
<1>0. n \in Nat \ {0}
  BY DEF IInv
<1>1. CASE ReadAuxEntry
  <2>1. n' \in Nat \ {0} /\ phase = "auxv" /\ phase' = "auxv" /\ UNCHANGED <<input, mappings>>
    BY <1>0, <1>1 DEF ReadAuxEntry
  <2> QED BY <2>1, KeepStep
<1>2. CASE AuxvRead /\ phase' = "failed"
  <2>1. n' \in Nat \ {0} /\ UNCHANGED <<input, mappings>>
    BY <1>2 DEF AuxvRead
  <2> QED BY <1>2, <2>1, KeepStep
<1>3. CASE AuxvRead /\ phase' = "maps"
  <2>1. n' = 1 /\ mappings' = <<>> /\ input' = input
    BY <1>3 DEF AuxvRead, IInv
  <2>2. Len(input.maps) \in Nat
    BY FileFacts DEF IInv
  <2>3. Reading'
    BY <2>1, <2>2 DEF Reading, Covers, Seen, Apart
  <2> QED BY <1>3, <2>1, <2>3 DEF IInv
<1> QED BY <1>1, <1>2, <1>3 DEF AuxvRead

\* The line that is read, against those before and after it.
LEMMA LineFacts ==
  ASSUME IInv, ReadLine
  PROVE  /\ n \in Nat \ {0} /\ n' = n + 1 /\ input' = input /\ phase' = "maps" /\ Reading
         /\ n \in 1 .. Len(input.maps) /\ Len(input.maps) \in Nat
         /\ input.maps[n] \in Line /\ input.maps[n].kind # "overlong"
         /\ input.maps[n].start < input.maps[n].end
         /\ \A i \in DOMAIN mappings : mappings[i].to <= input.maps[n].start
         /\ \A k \in n + 1 .. Len(input.maps) : input.maps[n].end <= input.maps[k].start
<1>1. /\ n \in Nat \ {0} /\ n' = n + 1 /\ input' = input /\ phase = "maps" /\ phase' = "maps" /\ Reading
      /\ n <= Len(input.maps) /\ input.maps[n].kind # "overlong"
  BY DEF IInv, ReadLine, MapsLeft
<1>2. /\ Ordered(input.maps) /\ Len(input.maps) \in Nat /\ DOMAIN input.maps = 1 .. Len(input.maps)
      /\ \A k \in DOMAIN input.maps : input.maps[k] \in Line
  BY FileFacts DEF IInv
<1>3. n \in DOMAIN input.maps
  BY <1>1, <1>2
<1>4. input.maps[n] \in Line /\ input.maps[n].start < input.maps[n].end
  BY <1>2, <1>3 DEF Ordered
<1>5. \A k \in n + 1 .. Len(input.maps) : input.maps[n].end <= input.maps[k].start
  BY <1>1, <1>2, <1>3 DEF Ordered
<1>6. \A i \in DOMAIN mappings : mappings[i].to <= input.maps[n].start
  <2>1. n \in n .. Len(input.maps)
    BY <1>1, <1>2
  <2> QED BY <1>1, <2>1 DEF Reading
<1> QED BY <1>1, <1>2, <1>3, <1>4, <1>5, <1>6

\* What is left of Reading' once the mappings are known.
LEMMA FileStaysRead ==
  ASSUME IInv, ReadLine
  PROVE  /\ n' - 1 <= Len(input.maps)'
         /\ \A k \in 1 .. n' - 1 : input.maps[k].kind # "overlong"
         /\ Seen' = IF input.maps[n].kind = "mapping" THEN Seen \cup {n} ELSE Seen
         /\ \A k \in n' .. Len(input.maps) : k \in n + 1 .. Len(input.maps)
<1>1. /\ n \in Nat \ {0} /\ n' = n + 1 /\ input' = input /\ n \in 1 .. Len(input.maps)
      /\ Len(input.maps) \in Nat /\ input.maps[n].kind # "overlong"
      /\ \A k \in 1 .. n - 1 : input.maps[k].kind # "overlong"
  BY LineFacts DEF Reading
<1>2. 1 .. n' - 1 = (1 .. n - 1) \cup {n}
  BY <1>1
<1>3. Seen' = {k \in (1 .. n - 1) \cup {n} : input.maps[k].kind = "mapping"}
  BY <1>1, <1>2 DEF Seen
<1> QED BY <1>1, <1>2, <1>3 DEF Seen

\* A line that is not one of a mapping.
LEMMA OtherLineStep ==
  ASSUME IInv, ReadLine, input.maps[n].kind # "mapping"
  PROVE  IInv'
<1>1. mappings' = mappings /\ input' = input /\ phase' = "maps" /\ n' = n + 1 /\ n \in Nat \ {0}
  BY LineFacts DEF ReadLine
<1>2. Seen' = Seen
  BY FileStaysRead
<1>3. Covers(Seen)'
  <2>1. Covers(Seen)
    BY LineFacts DEF Reading
  <2>2. ASSUME NEW m, NEW k PROVE Holds(m, k)' <=> Holds(m, k)
    BY <1>1 DEF Holds
  <2>3. ASSUME NEW k, NEW a, NEW name PROVE Backs(k, a, name)' <=> Backs(k, a, name)
    BY <1>1 DEF Backs, InLine
  <2> QED BY <1>1, <1>2, <2>1, <2>2, <2>3 DEF Covers
<1>4. Apart'
  BY <1>1, LineFacts DEF Reading, Apart
<1>5. ASSUME NEW i \in DOMAIN mappings
      PROVE  /\ mappings[i].start = mappings[i].from
             /\ mappings[i].from < mappings[i].to
             /\ mappings[i].size = mappings[i].to - mappings[i].from
             /\ \A k \in n' .. Len(input.maps) : mappings[i].to <= input.maps[k].start
  <2>1. n' .. Len(input.maps) \subseteq n .. Len(input.maps)
    BY <1>1, LineFacts
  <2> QED BY <2>1, LineFacts DEF Reading
<1>6. Reading'
  BY <1>1, <1>3, <1>4, <1>5, FileStaysRead DEF Reading
<1> QED BY <1>1, <1>6 DEF IInv

\* The fields of a new mapping.
LEMMA NewMappingFields ==
  ASSUME IInv, ReadLine, NEW m, m = NewMapping(input.maps[n])
  PROVE  /\ m \in Mapping
         /\ m.from = input.maps[n].start /\ m.to = input.maps[n].end /\ m.start = m.from
         /\ m.size = m.to - m.from /\ m.exec = input.maps[n].exec
         /\ m.name \in {input.maps[n].path, Gate, NoName}
         /\ input.maps[n].path \in Paths \ LongPaths => m.name = input.maps[n].path
<1> DEFINE line == input.maps[n]
<1>1. /\ line \in Line /\ line.start < line.end
  BY LineFacts
<1>2. /\ line.start \in 0 .. Space - 1 /\ line.end \in 0 .. Space - 1 /\ line.offset \in Nat
      /\ line.exec \in BOOLEAN /\ line.path \in Paths \cup {NoName}
  BY <1>1, Zenon DEF Line
<1>3. Space \in Nat /\ NoName \notin Paths /\ Gate \notin Paths /\ LongPaths \subseteq Paths /\ Gate # NoName
  BY DumperAssumption
<1>4. NameOf(line) \in {line.path, Gate, NoName} /\ (line.path # NoName => NameOf(line) = line.path)
  BY DEF NameOf
<1>5. m = [from |-> line.start, to |-> line.end, start |-> line.start, size |-> line.end - line.start,
           offset |-> IF NameOf(line) = Gate THEN 0 ELSE line.offset,
           exec |-> line.exec,
           name |-> IF NameOf(line) \in LongPaths THEN NoName ELSE NameOf(line)]
  BY DEF NewMapping
<1> HIDE DEF line
<1>6. line.start \in Nat /\ line.end \in Nat /\ line.end - line.start \in 0 .. Space - 1
  BY <1>1, <1>2, <1>3
<1>7. m.name \in {line.path, Gate, NoName} /\ m.name \in Paths \cup {Gate, NoName}
  BY <1>2, <1>4, <1>5
<1>8. line.path \in Paths \ LongPaths => m.name = line.path
  BY <1>3, <1>4, <1>5
<1>9. (IF NameOf(line) = Gate THEN 0 ELSE line.offset) \in Nat
  BY <1>2
<1>10. m \in Mapping
  BY <1>2, <1>5, <1>6, <1>7, <1>9 DEF Mapping
<1> QED BY <1>5, <1>7, <1>8, <1>10 DEF line

\* A line that begins a mapping.
LEMMA NewLineStep ==
  ASSUME IInv, ReadLine, mappings' = Append(mappings, NewMapping(input.maps[n])),
         input.maps[n].kind = "mapping"
  PROVE  IInv'
<1> DEFINE m == NewMapping(input.maps[n])
           L == Len(mappings)
<1>1. /\ m \in Mapping
      /\ m.from = input.maps[n].start /\ m.to = input.maps[n].end /\ m.start = m.from
      /\ m.size = m.to - m.from /\ m.exec = input.maps[n].exec
      /\ m.name \in {input.maps[n].path, Gate, NoName}
      /\ input.maps[n].path \in Paths \ LongPaths => m.name = input.maps[n].path
  BY NewMappingFields
<1>2. /\ n \in Nat \ {0} /\ n' = n + 1 /\ input' = input /\ phase' = "maps" /\ Reading
      /\ n \in 1 .. Len(input.maps) /\ Len(input.maps) \in Nat
      /\ input.maps[n].start < input.maps[n].end
      /\ \A i \in DOMAIN mappings : mappings[i].to <= input.maps[n].start
      /\ \A k \in n + 1 .. Len(input.maps) : input.maps[n].end <= input.maps[k].start
  BY LineFacts
<1>3. mappings \in Seq(Mapping)
  BY DEF IInv
<1> HIDE DEF m
<1>4. /\ L \in Nat /\ DOMAIN mappings = 1 .. L /\ DOMAIN mappings' = 1 .. L + 1
      /\ mappings' \in Seq(Mapping) /\ mappings'[L + 1] = m
      /\ \A i \in 1 .. L : mappings'[i] = mappings[i]
  BY <1>1, <1>3 DEF m
<1> HIDE DEF L
<1>5. Seen' = Seen \cup {n}
  BY FileStaysRead
<1>6. ASSUME NEW mm, NEW k PROVE Holds(mm, k)' <=> Holds(mm, k)
  BY <1>2 DEF Holds
<1>7. ASSUME NEW k, NEW a, NEW name PROVE Backs(k, a, name)' <=> Backs(k, a, name)
  BY <1>2 DEF Backs, InLine
<1>8. input.maps[n].start \in Nat /\ input.maps[n].end \in Nat
  BY LineFacts DEF Line
<1>9. Covers(Seen)'
  <2>1. Covers(Seen)
    BY <1>2 DEF Reading
  <2>2. Holds(m, n)
    BY <1>1, <1>8 DEF Holds
  <2>3. ASSUME NEW a \in m.from .. m.to - 1 PROVE Backs(n, a, m.name)
    BY <1>1, <1>8 DEF Backs, InLine
  <2>4. \A k \in Seen' : \E i \in DOMAIN mappings' : Holds(mappings'[i], k)
    BY <1>4, <1>5, <2>1, <2>2 DEF Covers
  <2>5. ASSUME NEW i \in DOMAIN mappings', NEW a \in mappings'[i].from .. mappings'[i].to - 1
        PROVE  \E k \in Seen' : Backs(k, a, mappings'[i].name)
    <3>1. CASE i = L + 1
      BY <1>4, <1>5, <2>3, <3>1
    <3>2. CASE i \in 1 .. L
      BY <1>4, <1>5, <2>1, <3>2 DEF Covers
    <3> QED BY <1>4, <3>1, <3>2
  <2> QED BY <1>6, <1>7, <2>4, <2>5 DEF Covers
<1>10. Apart'
  <2>1. Apart
    BY <1>2 DEF Reading
  <2>2. ASSUME NEW i \in 1 .. L PROVE mappings'[i].to <= m.from
    BY <1>1, <1>2, <1>4
  <2>3. ASSUME NEW i \in DOMAIN mappings', NEW j \in DOMAIN mappings', i # j
        PROVE  mappings'[i].to <= mappings'[j].from \/ mappings'[j].to <= mappings'[i].from
    <3>1. CASE i \in 1 .. L /\ j \in 1 .. L
      BY <1>4, <2>1, <2>3, <3>1 DEF Apart
    <3>2. CASE i \in 1 .. L /\ j = L + 1
      BY <1>4, <2>2, <3>2
    <3>3. CASE j \in 1 .. L /\ i = L + 1
      BY <1>4, <2>2, <3>3
    <3> QED BY <1>4, <2>3, <3>1, <3>2, <3>3
  <2> QED BY <2>3, Zenon DEF Apart
<1>11. ASSUME NEW i \in DOMAIN mappings'
       PROVE  /\ mappings'[i].start = mappings'[i].from
              /\ mappings'[i].from < mappings'[i].to
              /\ mappings'[i].size = mappings'[i].to - mappings'[i].from
              /\ \A k \in n' .. Len(input.maps) : mappings'[i].to <= input.maps[k].start
  <2>1. CASE i = L + 1
    BY <1>1, <1>2, <1>4, <2>1
  <2>2. CASE i \in 1 .. L
    <3>1. n' .. Len(input.maps) \subseteq n .. Len(input.maps)
      BY <1>2
    <3> QED BY <1>2, <1>4, <2>2, <3>1 DEF Reading
  <2> QED BY <1>4, <2>1, <2>2
<1>12. Reading'
  BY <1>2, <1>9, <1>10, <1>11, FileStaysRead DEF Reading
<1> QED BY <1>2, <1>4, <1>12 DEF IInv

\* A line that continues the last mapping.
LEMMA GrowStep ==
  ASSUME IInv, ReadLine, Continues(input.maps[n]),
         mappings' = [mappings EXCEPT ![Len(mappings)] = Grown(@, input.maps[n])],
         input.maps[n].kind = "mapping"
  PROVE  IInv'
<1> DEFINE line == input.maps[n]
           L == Len(mappings)
           old == mappings[L]
           m == Grown(old, line)
<1>1. /\ n \in Nat \ {0} /\ n' = n + 1 /\ input' = input /\ phase' = "maps" /\ Reading
      /\ n \in 1 .. Len(input.maps) /\ Len(input.maps) \in Nat
      /\ line \in Line /\ line.start < line.end
      /\ \A i \in DOMAIN mappings : mappings[i].to <= line.start
      /\ \A k \in n + 1 .. Len(input.maps) : line.end <= input.maps[k].start
  BY LineFacts
<1>2. mappings \in Seq(Mapping) /\ mappings # <<>>
  BY DEF IInv, Continues
<1>3. L \in Nat \ {0} /\ DOMAIN mappings = 1 .. L /\ L \in DOMAIN mappings /\ old \in Mapping
  BY <1>2
<1>4. /\ line.start \in 0 .. Space - 1 /\ line.end \in 0 .. Space - 1 /\ line.exec \in BOOLEAN
      /\ Space \in Nat /\ line.path \in Paths \cup {NoName} /\ NoName \notin Paths
  BY <1>1, DumperAssumption, Zenon DEF Line
<1>4a. line.start \in Nat /\ line.end \in Nat
  BY <1>4
<1>5. /\ old.from \in Nat /\ old.to \in Nat /\ old.exec \in BOOLEAN
      /\ old.start = old.from /\ old.size = old.to - old.from /\ old.from < old.to
  BY <1>1, <1>3 DEF Mapping, Reading
<1>6. line.start = old.to /\ NameOf(line) # NoName /\ old.name = NameOf(line)
  <2>1. line.start = old.start + old.size /\ NameOf(line) # NoName /\ old.name = NameOf(line)
    BY DEF Continues, LastOf
  <2> QED BY <1>5, <2>1
<1>7. /\ old.name \in {line.path, Gate, NoName}
      /\ line.path \in Paths \ LongPaths => old.name = line.path
  BY <1>4, <1>6 DEF NameOf
<1>8. m = [old EXCEPT !.to = line.end, !.size = line.end - old.start, !.exec = @ \/ line.exec]
  BY DEF Grown
<1> HIDE DEF line, old, m
<1>9. /\ m.from = old.from /\ m.to = line.end /\ m.start = old.start /\ m.name = old.name
      /\ m.size = m.to - m.from
  BY <1>3, <1>5, <1>8 DEF Mapping
<1>10. m.exec = (old.exec \/ line.exec)
  BY <1>3, <1>8, Zenon DEF Mapping
<1>11. m \in Mapping
  <2>1. line.end - old.start \in 0 .. Space - 1 /\ line.end \in Nat
    BY <1>1, <1>4, <1>5, <1>6
  <2>2. (old.exec \/ line.exec) \in BOOLEAN
    OBVIOUS
  <2>3. m = [from |-> old.from, to |-> line.end, start |-> old.start, size |-> line.end - old.start,
             offset |-> old.offset, exec |-> old.exec \/ line.exec, name |-> old.name]
    BY <1>3, <1>8 DEF Mapping
  <2>4. /\ old.from \in Nat /\ old.start \in 0 .. Space - 1 /\ old.offset \in Nat
        /\ old.name \in Paths \cup {Gate, NoName}
    BY <1>3, Zenon DEF Mapping
  <2> QED BY <2>1, <2>2, <2>3, <2>4, Zenon DEF Mapping
<1>12. /\ mappings' \in Seq(Mapping) /\ DOMAIN mappings' = 1 .. L /\ mappings'[L] = m
       /\ \A i \in 1 .. L : mappings'[i] \in Mapping /\ (i # L => mappings'[i] = mappings[i])
  <2>1. mappings' = [mappings EXCEPT ![L] = m]
    BY Zenon DEF m, old, line
  <2>2. L \in 1 .. Len(mappings)
    BY <1>3
  <2>3. /\ mappings' \in Seq(Mapping) /\ DOMAIN mappings' = 1 .. Len(mappings) /\ mappings'[L] = m
        /\ \A j \in 1 .. Len(mappings) : mappings'[j] \in Mapping /\ (j # L => mappings'[j] = mappings[j])
    BY <1>2, <1>11, <2>1, <2>2, ReplaceOne
  <2> QED BY <2>3
<1> HIDE DEF L
<1>13. Seen' = Seen \cup {n}
  BY FileStaysRead
<1>14. ASSUME NEW mm, NEW k PROVE Holds(mm, k)' <=> Holds(mm, k)
  BY <1>1 DEF Holds
<1>15. ASSUME NEW k, NEW a, NEW name PROVE Backs(k, a, name)' <=> Backs(k, a, name)
  BY <1>1 DEF Backs, InLine
<1>16. Covers(Seen) /\ Apart
  BY <1>1 DEF Reading
<1>17. Covers(Seen)'
  <2>1. Holds(m, n)
    BY <1>1, <1>4, <1>5, <1>6, <1>7, <1>9, <1>10 DEF Holds, line
  <2>2. ASSUME NEW k \in Seen, Holds(old, k) PROVE Holds(m, k)
    <3>1. /\ old.from <= input.maps[k].start /\ input.maps[k].end <= old.to
          /\ input.maps[k].exec => old.exec
          /\ input.maps[k].path \in Paths \ LongPaths => old.name = input.maps[k].path
      BY <2>2 DEF Holds
    <3>2. input.maps[k].end \in Nat
      <4>1. k \in DOMAIN input.maps
        BY <1>1, FileFacts DEF Seen, IInv
      <4> QED BY <4>1, FileFacts DEF Line, IInv
    <3>3. input.maps[k].end <= m.to
      BY <1>1, <1>5, <1>6, <1>9, <1>4a, <3>1, <3>2
    <3>4. input.maps[k].exec => m.exec
      BY <1>10, <3>1, Zenon
    <3> QED BY <1>9, <3>1, <3>3, <3>4 DEF Holds
  <2>3. ASSUME NEW k \in Seen' PROVE \E i \in DOMAIN mappings' : Holds(mappings'[i], k)
    <3>1. CASE k = n
      BY <1>3, <1>12, <2>1, <3>1
    <3>2. CASE k \in Seen
      <4>1. PICK i \in DOMAIN mappings : Holds(mappings[i], k)
        BY <1>16, <3>2 DEF Covers
      <4>2. CASE i = L
        BY <1>3, <1>12, <2>2, <3>2, <4>1, <4>2 DEF old
      <4>3. CASE i # L
        BY <1>3, <1>12, <4>1, <4>3
      <4> QED BY <4>2, <4>3
    <3> QED BY <1>13, <2>3, <3>1, <3>2
  <2>4. ASSUME NEW i \in DOMAIN mappings', NEW a \in mappings'[i].from .. mappings'[i].to - 1
        PROVE  \E k \in Seen' : Backs(k, a, mappings'[i].name)
    <3>1. CASE i = L /\ a >= line.start
      <4>1. a \in line.start .. line.end - 1
        BY <1>3, <1>4, <1>5, <1>9, <1>12, <2>4, <3>1
      <4>2. Backs(n, a, m.name)
        BY <1>4, <1>7, <1>9, <4>1 DEF Backs, InLine, line
      <4> QED BY <1>12, <1>13, <3>1, <4>2
    <3>2. CASE i = L /\ a < line.start
      <4>1. a \in old.from .. old.to - 1
        BY <1>3, <1>4, <1>5, <1>6, <1>9, <1>12, <2>4, <3>2
      <4>2. \E k \in Seen : Backs(k, a, old.name)
        BY <1>3, <1>16, <4>1 DEF Covers, old
      <4> QED BY <1>9, <1>12, <1>13, <3>2, <4>2
    <3>3. CASE i # L
      <4>1. i \in DOMAIN mappings /\ mappings'[i] = mappings[i]
        BY <1>3, <1>12, <3>3
      <4> QED BY <1>13, <1>16, <2>4, <4>1 DEF Covers
    <3>4. a \in Int /\ line.start \in Int
      <4>1. mappings'[i] \in Mapping
        BY <1>12
      <4>2. mappings'[i].from \in Nat /\ mappings'[i].to \in Nat
        BY <4>1 DEF Mapping
      <4> QED BY <1>4, <2>4, <4>2
    <3> QED BY <3>1, <3>2, <3>3, <3>4
  <2> QED BY <1>14, <1>15, <2>3, <2>4 DEF Covers
<1>18. Apart'
  <2>1. ASSUME NEW i \in 1 .. L - 1 PROVE mappings'[i].to <= m.from
    <3>1. i \in DOMAIN mappings /\ mappings'[i] = mappings[i] /\ i # L
      BY <1>3, <1>12
    <3>2. mappings[i].to <= old.from \/ old.to <= mappings[i].from
      BY <1>3, <1>16, <3>1 DEF Apart, old
    <3>3. mappings[i].from < mappings[i].to /\ mappings[i].to <= line.start
      BY <1>1, <3>1 DEF Reading
    <3>4. mappings[i] \in Mapping
      BY <1>2, <3>1
    <3>5. mappings[i].from \in Nat /\ mappings[i].to \in Nat
      BY <3>4 DEF Mapping
    <3> QED BY <1>4, <1>5, <1>6, <1>9, <3>1, <3>2, <3>3, <3>5
  <2>2. ASSUME NEW i \in DOMAIN mappings', NEW j \in DOMAIN mappings', i # j
        PROVE  mappings'[i].to <= mappings'[j].from \/ mappings'[j].to <= mappings'[i].from
    <3>1. CASE i # L /\ j # L
      BY <1>3, <1>12, <1>16, <2>2, <3>1 DEF Apart
    <3>2. CASE i # L /\ j = L
      BY <1>3, <1>12, <2>1, <3>2
    <3>3. CASE j # L /\ i = L
      BY <1>3, <1>12, <2>1, <3>3
    <3> QED BY <2>2, <3>1, <3>2, <3>3
  <2> QED BY <2>2, Zenon DEF Apart
<1>19. ASSUME NEW i \in DOMAIN mappings'
       PROVE  /\ mappings'[i].start = mappings'[i].from
              /\ mappings'[i].from < mappings'[i].to
              /\ mappings'[i].size = mappings'[i].to - mappings'[i].from
              /\ \A k \in n' .. Len(input.maps) : mappings'[i].to <= input.maps[k].start
  <2>1. CASE i = L
    <3>1. m.from < m.to
      BY <1>1, <1>4, <1>5, <1>6, <1>9
    <3> QED BY <1>1, <1>5, <1>9, <1>12, <2>1, <3>1
  <2>2. CASE i # L
    <3>1. n' .. Len(input.maps) \subseteq n .. Len(input.maps)
      BY <1>1
    <3>2. i \in DOMAIN mappings /\ mappings'[i] = mappings[i]
      BY <1>3, <1>12, <2>2
    <3> QED BY <1>1, <3>1, <3>2 DEF Reading
  <2> QED BY <2>1, <2>2
<1>20. Reading'
  BY <1>1, <1>17, <1>18, <1>19, FileStaysRead DEF Reading
<1> QED BY <1>1, <1>12, <1>20 DEF IInv

LEMMA ReadLineStep == ASSUME IInv, ReadLine PROVE IInv'
<1>1. CASE input.maps[n].kind # "mapping"
  BY <1>1, OtherLineStep
<1>2. CASE input.maps[n].kind = "mapping" /\ Continues(input.maps[n])
  <2>1. mappings' = [mappings EXCEPT ![Len(mappings)] = Grown(@, input.maps[n])]
    BY <1>2 DEF ReadLine
  <2> QED BY <1>2, <2>1, GrowStep
<1>3. CASE input.maps[n].kind = "mapping" /\ ~Continues(input.maps[n])
  <2>1. mappings' = Append(mappings, NewMapping(input.maps[n]))
    BY <1>3 DEF ReadLine
  <2> QED BY <1>3, <2>1, NewLineStep
<1> QED BY <1>1, <1>2, <1>3

\* What FindMapping finds is an index.
LEMMA FindMappingIndex ==
  ASSUME mappings \in Seq(Mapping), NEW a
  PROVE  FindMapping(a) = 0 \/ FindMapping(a) \in DOMAIN mappings
<1> DEFINE found == {i \in DOMAIN mappings :
                       mappings[i].start <= a /\ a - mappings[i].start < mappings[i].size}
<1>1. found \in SUBSET Nat
  OBVIOUS
<1>2. FindMapping(a) = IF found = {} THEN 0 ELSE Least(found)
  BY DEF FindMapping
<1>3. CASE found # {}
  <2>1. Least(found) \in found
    <3> HIDE DEF found
    <3> QED BY <1>1, <1>3, LeastIsIn
  <2> QED BY <1>2, <1>3, <2>1
<1> QED BY <1>2, <1>3

\* Mappings that are those of before in another order.
LEMMA ReorderKeeps ==
  ASSUME input' = input, Covers(LinesRead), Apart,
         DOMAIN mappings' = DOMAIN mappings,
         NEW Old, Old \in [DOMAIN mappings -> DOMAIN mappings],
         \A i \in DOMAIN mappings : \E j \in DOMAIN mappings : Old[j] = i,
         \A i, j \in DOMAIN mappings : Old[i] = Old[j] => i = j,
         \A j \in DOMAIN mappings :
           /\ mappings'[j].from = mappings[Old[j]].from /\ mappings'[j].to = mappings[Old[j]].to
           /\ mappings'[j].exec = mappings[Old[j]].exec /\ mappings'[j].name = mappings[Old[j]].name
  PROVE  Covers(LinesRead)' /\ Apart'
<1>1. LinesRead' = LinesRead
  BY DEF LinesRead
<1>2. ASSUME NEW k, NEW m PROVE Holds(m, k)' <=> Holds(m, k)
  BY DEF Holds
<1>3. ASSUME NEW k, NEW a, NEW name PROVE Backs(k, a, name)' <=> Backs(k, a, name)
  BY DEF Backs, InLine
<1>4. ASSUME NEW k \in LinesRead PROVE \E j \in DOMAIN mappings' : Holds(mappings'[j], k)
  <2>1. PICK i \in DOMAIN mappings : Holds(mappings[i], k)
    BY DEF Covers
  <2>2. PICK j \in DOMAIN mappings : Old[j] = i
    OBVIOUS
  <2>3. Holds(mappings'[j], k)
    BY <2>1, <2>2 DEF Holds
  <2> QED BY <2>3
<1>5. ASSUME NEW j \in DOMAIN mappings', NEW a \in mappings'[j].from .. mappings'[j].to - 1
      PROVE  \E k \in LinesRead : Backs(k, a, mappings'[j].name)
  <2>1. a \in mappings[Old[j]].from .. mappings[Old[j]].to - 1 /\ Old[j] \in DOMAIN mappings
    OBVIOUS
  <2>2. \E k \in LinesRead : Backs(k, a, mappings[Old[j]].name)
    BY <2>1 DEF Covers
  <2>3. mappings'[j].name = mappings[Old[j]].name
    OBVIOUS
  <2> QED BY <2>2, <2>3
<1>6. Covers(LinesRead)'
  BY <1>1, <1>2, <1>3, <1>4, <1>5 DEF Covers
<1>7. ASSUME NEW i \in DOMAIN mappings', NEW j \in DOMAIN mappings', i # j
      PROVE  mappings'[i].to <= mappings'[j].from \/ mappings'[j].to <= mappings'[i].from
  <2>1. Old[i] # Old[j] /\ Old[i] \in DOMAIN mappings /\ Old[j] \in DOMAIN mappings
    BY <1>7
  <2> QED BY <2>1 DEF Apart
<1> QED BY <1>6, <1>7, Zenon DEF Apart

\* When the file is read, the lines seen are those there are to see.
LEMMA SeenIsRead ==
  ASSUME IInv, phase = "maps", ~MapsLeft
  PROVE  LinesRead = Seen
<1>1. /\ n \in Nat \ {0} /\ n - 1 <= Len(input.maps) /\ Len(input.maps) \in Nat
      /\ DOMAIN input.maps = 1 .. Len(input.maps)
      /\ \A k \in 1 .. n - 1 : input.maps[k].kind # "overlong"
  BY FileFacts DEF IInv, Reading
<1>2. n <= Len(input.maps) => input.maps[n].kind = "overlong"
  BY DEF MapsLeft
<1>3. ASSUME NEW k \in LinesRead PROVE k \in Seen
  <2>1. k \in 1 .. Len(input.maps) /\ input.maps[k].kind = "mapping"
        /\ \A j \in 1 .. k : input.maps[j].kind # "overlong"
    BY <1>1 DEF LinesRead
  <2>2. CASE n <= k
    BY <1>1, <1>2, <2>1, <2>2
  <2>3. CASE k < n
    BY <1>1, <2>1, <2>3 DEF Seen
  <2> QED BY <1>1, <2>1, <2>2, <2>3
<1>4. ASSUME NEW k \in Seen PROVE k \in LinesRead
  BY <1>1 DEF Seen, LinesRead
<1> QED BY <1>3, <1>4

LEMMA EntryFirstStep == ASSUME IInv, EntryFirst PROVE IInv'
<1> DEFINE i == FindMapping(Aux(AtEntry))
<1>1. /\ mappings \in Seq(Mapping) /\ Covers(LinesRead) /\ Apart /\ input' = input /\ n' = 1
      /\ input \in Inputs /\ phase' \in {"late", "failed"}
  <2>1. /\ phase = "maps" /\ ~MapsLeft /\ input' = input /\ n' = 1 /\ phase' \in {"late", "failed"}
    BY DEF EntryFirst
  <2>2. LinesRead = Seen
    BY <2>1, SeenIsRead
  <2> QED BY <2>1, <2>2 DEF IInv, Reading
<1>2. CASE mappings' = mappings
  <2>1. DOMAIN mappings = 1 .. Len(mappings)
    BY <1>1
  <2> DEFINE Old == [j \in DOMAIN mappings |-> j]
  <2>2. /\ Old \in [DOMAIN mappings -> DOMAIN mappings] /\ \A j \in DOMAIN mappings : Old[j] = j
    OBVIOUS
  <2> HIDE DEF Old
  <2>3. Covers(LinesRead)' /\ Apart'
    BY <1>1, <1>2, <2>2, ReorderKeeps
  <2> QED BY <1>1, <1>2, <2>3 DEF IInv
<1>3. CASE mappings' = ToFront(mappings, i) /\ i # 0
  <2>1. i \in DOMAIN mappings /\ DOMAIN mappings = 1 .. Len(mappings) /\ Len(mappings) \in Nat
    BY <1>1, <1>3, FindMappingIndex
  <2> HIDE DEF i
  <2> DEFINE Old == [j \in DOMAIN mappings |-> IF j = 1 THEN i ELSE IF j <= i THEN j - 1 ELSE j]
  <2>2. Old \in [DOMAIN mappings -> DOMAIN mappings]
    BY <2>1
  <2>3. \A k \in DOMAIN mappings : \E j \in DOMAIN mappings : Old[j] = k
    <3> SUFFICES ASSUME NEW k \in DOMAIN mappings PROVE \E j \in DOMAIN mappings : Old[j] = k
      OBVIOUS
    <3>1. CASE k = i
      BY <2>1, <3>1
    <3>2. CASE k < i
      <4>1. k + 1 \in DOMAIN mappings /\ Old[k + 1] = k
        BY <2>1, <3>2
      <4> QED BY <4>1
    <3>3. CASE i < k
      BY <2>1, <3>3
    <3> QED BY <2>1, <3>1, <3>2, <3>3
  <2>4. \A j, k \in DOMAIN mappings : Old[j] = Old[k] => j = k
    BY <2>1
  <2>5. /\ DOMAIN mappings' = DOMAIN mappings
        /\ \A j \in DOMAIN mappings : mappings'[j] = mappings[Old[j]]
    BY <1>3, <2>1 DEF ToFront
  <2>6. mappings' \in Seq(Mapping)
    <3> HIDE DEF Old
    <3>1. \A j \in 1 .. Len(mappings) : mappings[Old[j]] \in Mapping
      BY <1>1, <2>1, <2>2
    <3>2. mappings' = [j \in 1 .. Len(mappings) |-> mappings'[j]]
      BY <1>3, <2>1 DEF ToFront
    <3> QED BY <2>1, <2>5, <3>1, <3>2
  <2> HIDE DEF Old
  <2>7. Covers(LinesRead)' /\ Apart'
    BY <1>1, <2>2, <2>3, <2>4, <2>5, ReorderKeeps
  <2> QED BY <1>1, <2>6, <2>7 DEF IInv
<1>4. mappings' = mappings \/ (mappings' = ToFront(mappings, i) /\ i # 0)
  BY DEF EntryFirst
<1> QED BY <1>2, <1>3, <1>4

\* What is made of a library's own range are addresses again.
LEMMA BiasedFields ==
  ASSUME input \in Inputs, NEW m \in Mapping, HasLibrary(m)
  PROVE  /\ Biased(m) \in Mapping /\ Biased(m).from = m.from /\ Biased(m).to = m.to
         /\ Biased(m).exec = m.exec /\ Biased(m).name = m.name
<1> DEFINE elf  == input.elf[m.start]
           bias == EffectiveLoadBias(elf, m.start)
           size == (m.size + m.start - bias) % Space
<1>1. Space \in Nat \ {0}
  BY DumperAssumption
<1>2. elf.loads \in SUBSET Nat
  BY DumperAssumption DEF HasLibrary, Process, Elf
<1>3. m.start \in 0 .. Space - 1 /\ m.size \in 0 .. Space - 1
  BY DEF Mapping
<1> HIDE DEF elf
<1>4. MinOr(elf.loads, Space - 1) \in Nat
  BY <1>1, <1>2, LeastIsIn DEF MinOr
<1>5. bias \in 0 .. Space - 1
  <2>1. (m.start - MinOr(elf.loads, Space - 1)) \in Int
    BY <1>3, <1>4
  <2>2. (m.start - MinOr(elf.loads, Space - 1)) % Space \in 0 .. Space - 1
    BY <1>1, <2>1, ModIsAddress
  <2>3. bias = m.start \/ bias = (m.start - MinOr(elf.loads, Space - 1)) % Space
    BY DEF EffectiveLoadBias
  <2> QED BY <1>3, <2>2, <2>3
<1>6. Biased(m) = [m EXCEPT !.size = (@ + m.start - bias) % Space, !.start = bias]
  BY DEF Biased, elf
<1> HIDE DEF bias
<1>7. size \in 0 .. Space - 1
  <2>1. m.size + m.start - bias \in Int
    BY <1>3, <1>5
  <2> QED BY <1>1, <2>1, ModIsAddress
<1>8. Biased(m) = [m EXCEPT !.size = size, !.start = bias]
  BY <1>6
<1> HIDE DEF size
<1>9. Biased(m) = [from |-> m.from, to |-> m.to, start |-> bias, size |-> size, offset |-> m.offset,
                   exec |-> m.exec, name |-> m.name]
  BY <1>8 DEF Mapping
<1>10. /\ m.from \in Nat /\ m.to \in Nat /\ m.offset \in Nat /\ m.exec \in BOOLEAN
       /\ m.name \in Paths \cup {Gate, NoName}
  BY Zenon DEF Mapping
<1>11. ASSUME NEW s, NEW z, s \in 0 .. Space - 1, z \in 0 .. Space - 1, NEW b,
              b = [from |-> m.from, to |-> m.to, start |-> s, size |-> z, offset |-> m.offset,
                   exec |-> m.exec, name |-> m.name]
       PROVE  b \in Mapping /\ b.exec = m.exec
  BY <1>10, <1>11, Zenon DEF Mapping
<1>12. Biased(m).from = m.from /\ Biased(m).to = m.to /\ Biased(m).name = m.name
  BY <1>9
<1> QED BY <1>5, <1>7, <1>9, <1>11, <1>12

LEMMA LatePostprocessStep == ASSUME IInv, LatePostprocess PROVE IInv'
<1>1. /\ n \in Nat \ {0} /\ n' = n + 1 /\ n <= Len(mappings) /\ input' = input /\ input \in Inputs
      /\ phase = "late" /\ phase' = "late" /\ mappings \in Seq(Mapping) /\ Covers(LinesRead) /\ Apart
  BY DEF IInv, LatePostprocess
<1>2. CASE ~HasLibrary(mappings[n])
  <2>1. UNCHANGED <<input, mappings>> /\ n' \in Nat \ {0}
    BY <1>1, <1>2 DEF LatePostprocess
  <2> QED BY <1>1, <2>1, KeepStep
<1>3. CASE HasLibrary(mappings[n])
  <2> DEFINE m == mappings[n]
             b == Biased(m)
  <2>1. n \in 1 .. Len(mappings) /\ m \in Mapping
    BY <1>1
  <2>2. b \in Mapping /\ b.from = m.from /\ b.to = m.to /\ b.name = m.name
    BY <1>1, <1>3, <2>1, BiasedFields
  <2>3. b.exec = m.exec
    BY <1>1, <1>3, <2>1, BiasedFields, Zenon
  <2>4. mappings' = [mappings EXCEPT ![n] = b]
    BY <1>3, Zenon DEF LatePostprocess
  <2> HIDE DEF b
  <2>5. /\ mappings' \in Seq(Mapping) /\ DOMAIN mappings' = 1 .. Len(mappings) /\ mappings'[n] = b
        /\ \A j \in 1 .. Len(mappings) : j # n => mappings'[j] = mappings[j]
    BY <1>1, <2>1, <2>2, <2>4, ReplaceOne
  <2>6. DOMAIN mappings = 1 .. Len(mappings)
    BY <1>1
  <2> DEFINE Old == [j \in DOMAIN mappings |-> j]
  <2>7. Old \in [DOMAIN mappings -> DOMAIN mappings] /\ \A j \in DOMAIN mappings : Old[j] = j
    OBVIOUS
  <2> HIDE DEF Old
  <2>8. \A j \in DOMAIN mappings :
          mappings'[j].from = mappings[j].from /\ mappings'[j].to = mappings[j].to
          /\ mappings'[j].name = mappings[j].name
    BY <2>2, <2>5, <2>6
  <2>9. \A j \in DOMAIN mappings : mappings'[j].exec = mappings[j].exec
    BY <2>3, <2>5, <2>6, Zenon
  <2>10. /\ \A i \in DOMAIN mappings : \E j \in DOMAIN mappings : Old[j] = i
         /\ \A i, j \in DOMAIN mappings : Old[i] = Old[j] => i = j
    BY <2>7
  <2>11. \A j \in DOMAIN mappings :
           /\ mappings'[j].from = mappings[Old[j]].from /\ mappings'[j].to = mappings[Old[j]].to
           /\ mappings'[j].exec = mappings[Old[j]].exec /\ mappings'[j].name = mappings[Old[j]].name
    BY <2>7, <2>8, <2>9
  <2>12. Covers(LinesRead)' /\ Apart'
    BY <1>1, <2>5, <2>6, <2>7, <2>10, <2>11, ReorderKeeps
  <2> QED BY <1>1, <2>5, <2>12 DEF IInv
<1> QED BY <1>2, <1>3

LEMMA OtherSteps == ASSUME IInv, LateInitDone \/ WriteThread \/ WriteMappings PROVE IInv'
<1>1. n \in Nat \ {0}
  BY DEF IInv
<1>2. CASE LateInitDone
  <2>1. n' \in Nat \ {0} /\ phase = "late" /\ phase' \in {"failed", "threads"} /\ UNCHANGED <<input, mappings>>
    BY <1>2 DEF LateInitDone
  <2> QED BY <2>1, KeepStep
<1>3. CASE WriteThread
  <2>1. n' \in Nat \ {0} /\ phase = "threads" /\ phase' = "threads" /\ UNCHANGED <<input, mappings>>
    BY <1>1, <1>3 DEF WriteThread
  <2> QED BY <2>1, KeepStep
<1>4. CASE WriteMappings
  <2>1. n' \in Nat \ {0} /\ phase = "threads" /\ phase' = "dumped" /\ UNCHANGED <<input, mappings>>
    BY <1>1, <1>4 DEF WriteMappings
  <2> QED BY <2>1, KeepStep
<1> QED BY <1>2, <1>3, <1>4
-----------------------------------------------------------------------------
LEMMA NextStep == ASSUME IInv, [Next]_vars PROVE IInv'
<1>1. CASE Next
  BY <1>1, ReadAuxvStep, ReadLineStep, EntryFirstStep, LatePostprocessStep, OtherSteps DEF Next
<1>2. CASE UNCHANGED vars
  <2>1. UNCHANGED <<input, mappings, n, phase>>
    BY <1>2 DEF vars
  <2>2. CASE phase = "maps"
    <3>1. Reading
      BY <2>2 DEF IInv
    <3>2. Seen' = Seen
      BY <2>1 DEF Seen
    <3>3. ASSUME NEW m, NEW k PROVE Holds(m, k)' <=> Holds(m, k)
      BY <2>1 DEF Holds
    <3>4. ASSUME NEW k, NEW a, NEW name PROVE Backs(k, a, name)' <=> Backs(k, a, name)
      BY <2>1 DEF Backs, InLine
    <3>5. Covers(Seen)'
      BY <2>1, <3>1, <3>2, <3>3, <3>4 DEF Covers, Reading
    <3>6. Apart'
      BY <2>1, <3>1 DEF Apart, Reading
    <3>7. Reading'
      BY <2>1, <3>1, <3>5, <3>6 DEF Reading
    <3> QED BY <2>1, <2>2, <3>7 DEF IInv
  <2>3. CASE phase # "maps"
    <3>1. LinesRead' = LinesRead
      BY <2>1 DEF LinesRead
    <3>2. ASSUME NEW m, NEW k PROVE Holds(m, k)' <=> Holds(m, k)
      BY <2>1 DEF Holds
    <3>3. ASSUME NEW k, NEW a, NEW name PROVE Backs(k, a, name)' <=> Backs(k, a, name)
      BY <2>1 DEF Backs, InLine
    <3>4. Covers(LinesRead) => Covers(LinesRead)'
      BY <2>1, <3>1, <3>2, <3>3 DEF Covers
    <3>5. Apart => Apart'
      BY <2>1, Zenon DEF Apart
    <3> QED BY <2>1, <2>3, <3>4, <3>5 DEF IInv
  <2> QED BY <2>2, <2>3
<1> QED BY <1>1, <1>2

\* Mappings that are apart share no byte.
LEMMA InvImplies == IInv => MappingsAreLines
<1> SUFFICES ASSUME IInv, phase \in {"late", "threads", "dumped"} PROVE MappingsAreLines
  BY DEF MappingsAreLines
<1>1. Covers(LinesRead) /\ Apart /\ mappings \in Seq(Mapping)
  BY DEF IInv
<1>2. ASSUME NEW i \in DOMAIN mappings, NEW a \in mappings[i].from .. mappings[i].to - 1,
             NEW j \in DOMAIN mappings, Contains(j, a)
      PROVE  j = i
  <2>1. mappings[i] \in Mapping /\ mappings[j] \in Mapping
    BY <1>1
  <2>2. /\ mappings[i].from \in Nat /\ mappings[i].to \in Nat
        /\ mappings[j].from \in Nat /\ mappings[j].to \in Nat
    BY <2>1 DEF Mapping
  <2>3. mappings[j].from <= a /\ a < mappings[j].to
    BY <1>2 DEF Contains
  <2> QED BY <1>1, <2>2, <2>3 DEF Apart
<1>3. \A k \in LinesRead : \E i \in DOMAIN mappings :
        /\ mappings[i].from <= input.maps[k].start /\ input.maps[k].end <= mappings[i].to
        /\ input.maps[k].exec => mappings[i].exec
        /\ input.maps[k].path \in Paths \ LongPaths => mappings[i].name = input.maps[k].path
  BY <1>1, Zenon DEF Covers, Holds
<1>4. \A i \in DOMAIN mappings : \A a \in mappings[i].from .. mappings[i].to - 1 :
        \E k \in LinesRead : InLine(a, k) /\ mappings[i].name \in {input.maps[k].path, Gate, NoName}
  BY <1>1, Zenon DEF Covers, Backs
<1> QED BY <1>2, <1>3, <1>4, Zenon DEF MappingsAreLines

\* EnumerateMappings, LatePostprocessMappings: however the lines of the maps file
\* are merged, moved and extended, every line read has its mapping, every byte of a
\* mapping has its line, and no two mappings overlap.
THEOREM MappingsTheorem == Spec => []MappingsAreLines
<1>1. Init => IInv
  BY InitStep
<1>2. IInv /\ [Next]_vars => IInv'
  BY NextStep
<1> QED BY <1>1, <1>2, InvImplies, PTL DEF Spec
-----------------------------------------------------------------------------
(* What is computed step by step.                                            *)

\* Induction, as a fact about sets.
LEMMA SetInduction ==
  ASSUME NEW S \in SUBSET Nat, 0 \in S, \A k \in S : k + 1 \in S
  PROVE  S = Nat
<1> SUFFICES ASSUME NEW x \in Nat, x \notin S PROVE FALSE
  OBVIOUS
<1> DEFINE T == Nat \ S
<1>1. T \in SUBSET Nat /\ T # {}
  OBVIOUS
<1> HIDE DEF T
<1>2. Least(T) \in T /\ \A j \in T : Least(T) <= j
  BY <1>1, LeastIsIn
<1>3. Least(T) \in Nat /\ Least(T) \notin S /\ Least(T) # 0
  BY <1>2 DEF T
<1>4. Least(T) - 1 \in Nat /\ Least(T) - 1 \notin T
  BY <1>2, <1>3
<1>5. Least(T) - 1 \in S
  BY <1>4 DEF T
<1> QED BY <1>3, <1>5

\* h is computed from z by the steps of G.
Run(h, V, z, L, G) == h \in [0 .. L -> V] /\ h[0] = z /\ \A k \in 1 .. L : h[k] = G[k][h[k - 1]]

\* Functions that are computed step by step exist.
LEMMA Iterates ==
  ASSUME NEW V, NEW z \in V, NEW L \in Nat, NEW G, G \in [1 .. L -> [V -> V]]
  PROVE  \E h : Run(h, V, z, L, G)
<1> DEFINE Upto(h, m) == h[0] = z /\ \A k \in 1 .. m : h[k] = G[k][h[k - 1]]
           S == {m \in Nat : m <= L => \E h \in [0 .. m -> V] : Upto(h, m)}
<1>1. 0 \in S
  <2>1. [k \in 0 .. 0 |-> z] \in [0 .. 0 -> V] /\ Upto([k \in 0 .. 0 |-> z], 0)
    OBVIOUS
  <2> QED BY <2>1
<1>2. ASSUME NEW m \in S PROVE m + 1 \in S
  <2>0. m \in Nat /\ m + 1 \in Nat
    OBVIOUS
  <2> SUFFICES ASSUME m + 1 <= L PROVE \E h \in [0 .. m + 1 -> V] : Upto(h, m + 1)
    BY <2>0, Zenon
  <2>1. PICK h \in [0 .. m -> V] : Upto(h, m)
    BY <2>0
  <2>2. h[m] \in V /\ m + 1 \in 1 .. L
    BY <2>0
  <2>3. G[m + 1][h[m]] \in V
    BY <2>2
  <2> DEFINE v == G[m + 1][h[m]]
             g == [k \in 0 .. m + 1 |-> IF k = m + 1 THEN v ELSE h[k]]
  <2> HIDE DEF v
  <2>4. g \in [0 .. m + 1 -> V]
    BY <2>0, <2>3 DEF v
  <2>5. g[0] = z /\ g[m + 1] = v /\ \A k \in 0 .. m : g[k] = h[k]
    BY <2>0, <2>1
  <2> HIDE DEF g
  <2>6. Upto(g, m + 1)
    <3> SUFFICES ASSUME NEW k \in 1 .. m + 1 PROVE g[k] = G[k][g[k - 1]]
      BY <2>5
    <3>1. CASE k = m + 1
      <4>1. k - 1 = m /\ m \in 0 .. m
        BY <2>0, <3>1
      <4> QED BY <2>5, <3>1, <4>1 DEF v
    <3>2. CASE k # m + 1
      <4>1. k \in 1 .. m /\ k \in 0 .. m /\ k - 1 \in 0 .. m
        BY <2>0, <3>2
      <4> QED BY <2>1, <2>5, <4>1
    <3> QED BY <3>1, <3>2
  <2> QED BY <2>4, <2>6
<1>3. S = Nat
  <2>1. S \in SUBSET Nat
    OBVIOUS
  <2> HIDE DEF S
  <2> QED BY <1>1, <1>2, <2>1, SetInduction
<1>4. L \in S
  BY <1>3
<1> QED BY <1>4 DEF Run
-----------------------------------------------------------------------------
(* Where the mappings are, and how far their own ranges have been moved.     *)

\* What LatePostprocessMappings takes for granted: the segments of a packed library
\* begin at or below the address it is mapped to, so that its bias is no wrapped sum.
NoneIsMovedUp ==
  \A in \in Inputs : \A a \in DOMAIN in.elf :
    in.elf[a].packed => \E v \in in.elf[a].loads : v <= a

\* Whole pages; the library's own range starts lower, if at all, and ends there too.
Paged(m) ==
  /\ m.from < m.to /\ m.to < Space
  /\ m.from % PageSize = 0 /\ m.to % PageSize = 0
  /\ NoneIsMovedUp => m.start <= m.from /\ m.size = m.to - m.start

\* A mapping without a file is one line: nothing was merged into it.
Alone(m, K) ==
  m.name \in {Gate, NoName} =>
    \E k \in K : /\ m.from = input.maps[k].start /\ m.to = input.maps[k].end
                 /\ m.exec <=> input.maps[k].exec

GateAt(m) == m.name = Gate => m.from = Aux(AtSysinfo)

\* The order of the file, from one place of the list on.
Rising(first) ==
  \A i, j \in DOMAIN mappings : first <= i /\ i < j => mappings[i].to <= mappings[j].from

\* The entry point is in the first mapping, or in none.
EntryIsFirst == Aux(AtEntry) # 0 => \A i \in DOMAIN mappings : Contains(i, Aux(AtEntry)) => i = 1

Shape ==
  /\ phase = "maps" =>
       /\ Rising(1)
       /\ \A i \in DOMAIN mappings :
            Paged(mappings[i]) /\ GateAt(mappings[i]) /\ Alone(mappings[i], Seen)
  /\ phase \in {"late", "threads", "dumped"} =>
       /\ Rising(2) /\ EntryIsFirst
       /\ \A i \in DOMAIN mappings : Paged(mappings[i]) /\ Alone(mappings[i], LinesRead)
  /\ phase \in {"auxv", "maps", "late"} => stack = NoStack /\ ipMemory = NoStack

\* Most steps keep the shape.
LEMMA SameShape ==
  ASSUME Shape, UNCHANGED <<input, auxv, mappings>>,
         phase' = phase \/ (phase = "auxv" /\ phase' = "failed"),
         phase = "maps" => Seen' = Seen,
         phase \in {"auxv", "maps", "late"} => UNCHANGED <<stack, ipMemory>>
  PROVE  Shape'
<1>1. LinesRead' = LinesRead
  BY DEF LinesRead
<1>2. ASSUME NEW m, NEW K PROVE Alone(m, K)' <=> Alone(m, K)
  BY DEF Alone
<1>3. ASSUME NEW m PROVE GateAt(m)' <=> GateAt(m)
  BY DEF GateAt, Aux
<1>4. EntryIsFirst' <=> EntryIsFirst
  BY DEF EntryIsFirst, Contains, Aux
<1>5. ASSUME NEW k PROVE Rising(k)' <=> Rising(k)
  BY DEF Rising
<1>6. CASE phase = "maps"
  BY <1>2, <1>3, <1>5, <1>6 DEF Shape
<1>7. CASE phase \in {"late", "threads", "dumped"}
  BY <1>1, <1>2, <1>4, <1>5, <1>7 DEF Shape
<1>8. CASE phase \notin {"maps", "late", "threads", "dumped"}
  BY <1>8 DEF Shape
<1> QED
  BY <1>6, <1>7, <1>8

\* The list of which the last element has been appended or replaced.
LEMMA LastShape ==
  ASSUME IInv, Shape, ReadLine, NEW L \in Nat \ {0},
         DOMAIN mappings' = 1 .. L, DOMAIN mappings \subseteq 1 .. L,
         \A i \in 1 .. L - 1 : i \in DOMAIN mappings /\ mappings'[i] = mappings[i],
         NEW m, m = mappings'[L], m \in Mapping, Paged(m), GateAt(m), Alone(m, Seen'),
         \A i \in 1 .. L - 1 : mappings[i].to <= m.from
  PROVE  Shape'
<1>1. /\ phase = "maps" /\ phase' = "maps" /\ auxv' = auxv /\ input' = input
      /\ stack' = stack /\ ipMemory' = ipMemory
  BY DEF ReadLine
<1>2. /\ Rising(1)
      /\ \A i \in DOMAIN mappings :
           Paged(mappings[i]) /\ GateAt(mappings[i]) /\ Alone(mappings[i], Seen)
  BY <1>1 DEF Shape
<1>3. Seen \subseteq Seen'
  BY FileStaysRead
<1>4. ASSUME NEW i \in 1 .. L
      PROVE  Paged(mappings'[i]) /\ GateAt(mappings'[i]) /\ Alone(mappings'[i], Seen')
  <2>1. CASE i = L
    BY <2>1
  <2>2. CASE i # L
    <3>1. i \in 1 .. L - 1
      BY <2>2
    <3>2. ASSUME NEW a, Alone(a, Seen) PROVE Alone(a, Seen')
      BY <1>3, <3>2 DEF Alone
    <3> QED
      BY <1>2, <3>1, <3>2
  <2> QED
    BY <2>1, <2>2
<1>5. ASSUME NEW i \in 1 .. L
      PROVE  Paged(mappings[i])' /\ GateAt(mappings[i])' /\ Alone(mappings[i], Seen)'
  BY <1>1, <1>4 DEF Paged, GateAt, Aux, Alone
<1>6. Rising(1)'
  <2> SUFFICES ASSUME NEW i \in 1 .. L, NEW j \in 1 .. L, i < j
               PROVE  mappings'[i].to <= mappings'[j].from
    BY DEF Rising
  <2>1. i \in 1 .. L - 1 /\ (j = L \/ j \in 1 .. L - 1)
    OBVIOUS
  <2> QED
    BY <1>2, <2>1 DEF Rising
<1> QED
  BY <1>1, <1>2, <1>5, <1>6 DEF Shape

LEMMA NewLineShape ==
  ASSUME IInv, Shape, ReadLine, mappings' = Append(mappings, NewMapping(input.maps[n])),
         input.maps[n].kind = "mapping"
  PROVE  Shape'
<1> DEFINE line == input.maps[n]
           m == NewMapping(line)
           L == Len(mappings) + 1
<1>1. /\ m \in Mapping
      /\ m.from = line.start /\ m.to = line.end /\ m.start = m.from
      /\ m.size = m.to - m.from /\ m.name \in {line.path, Gate, NoName}
  BY NewMappingFields
<1>2. m.exec = line.exec
  BY DEF NewMapping
<1>3. m.name = Gate => m.from = Aux(AtSysinfo)
  <2>1. m.name = IF NameOf(line) \in LongPaths THEN NoName ELSE NameOf(line)
    BY DEF NewMapping
  <2>2. line.path \in Paths \cup {NoName} /\ Gate \notin Paths /\ Gate # NoName
    BY LineFacts, DumperAssumption, Zenon DEF Line
  <2>3. m.from = line.start
    BY <1>1
  <2> QED
    BY <2>1, <2>2, <2>3 DEF NameOf
<1>4. /\ mappings \in Seq(Mapping) /\ n \in 1 .. Len(input.maps)
      /\ line \in Line /\ line.start < line.end
      /\ \A i \in DOMAIN mappings : mappings[i].to <= line.start
  BY LineFacts DEF IInv
<1>5. line.start % PageSize = 0 /\ line.end % PageSize = 0
  BY <1>4, FileFacts DEF Ordered, IInv
<1>6. line.end \in 0 .. Space - 1 /\ line.start \in Nat /\ Space \in Nat
  <2>1. line.end \in 0 .. Space - 1 /\ line.start \in 0 .. Space - 1
    BY <1>4, Zenon DEF Line
  <2> QED
    BY <2>1, DumperAssumption
<1>7. /\ L \in Nat \ {0} /\ DOMAIN mappings = 1 .. L - 1 /\ DOMAIN mappings' = 1 .. L
      /\ mappings'[L] = m /\ \A i \in 1 .. L - 1 : mappings'[i] = mappings[i]
  BY <1>1, <1>4
<1> HIDE DEF m, L, line
<1>8. Paged(m)
  <2>1. m.start = m.from /\ m.size = m.to - m.start
    BY <1>1
  <2>2. m.to < Space
    BY <1>1, <1>6
  <2> QED
    BY <1>1, <1>4, <1>5, <1>6, <2>1, <2>2 DEF Paged
<1>9. Alone(m, Seen')
  <2>1. n \in Seen'
    BY FileStaysRead
  <2> QED
    BY <1>1, <1>2, <2>1 DEF Alone, line
<1>10. GateAt(m)
  BY <1>3 DEF GateAt
<1> QED
  BY <1>1, <1>4, <1>7, <1>8, <1>9, <1>10, LastShape

LEMMA GrowShape ==
  ASSUME IInv, Shape, ReadLine, Continues(input.maps[n]),
         mappings' = [mappings EXCEPT ![Len(mappings)] = Grown(@, input.maps[n])],
         input.maps[n].kind = "mapping"
  PROVE  Shape'
<1> DEFINE line == input.maps[n]
           L == Len(mappings)
           old == mappings[L]
           m == Grown(old, line)
<1>1. /\ mappings \in Seq(Mapping) /\ n \in 1 .. Len(input.maps) /\ phase = "maps"
      /\ line \in Line /\ line.start < line.end
      /\ \A i \in DOMAIN mappings : mappings[i].to <= line.start
  BY LineFacts DEF IInv, ReadLine
<1>2. mappings # <<>> /\ NameOf(line) # NoName /\ old.name = NameOf(line)
      /\ line.start = old.start + old.size
  BY DEF Continues, LastOf
<1>3. L \in Nat \ {0} /\ DOMAIN mappings = 1 .. L /\ L \in DOMAIN mappings /\ old \in Mapping
  BY <1>1, <1>2
<1>4. /\ line.start \in Nat /\ line.end \in Nat /\ line.end < Space
      /\ line.path \in Paths \cup {NoName}
  <2>1. /\ line.end \in 0 .. Space - 1 /\ line.start \in 0 .. Space - 1
        /\ line.path \in Paths \cup {NoName}
    BY <1>1, Zenon DEF Line
  <2>2. Space \in Nat
    BY DumperAssumption
  <2> HIDE DEF line
  <2> QED
    BY <2>1, <2>2
<1>5. line.start % PageSize = 0 /\ line.end % PageSize = 0
  BY <1>1, FileFacts DEF Ordered, IInv
<1>6. /\ old.from \in Nat /\ old.to \in Nat /\ old.start = old.from /\ old.size = old.to - old.from
      /\ old.from < old.to /\ Paged(old) /\ GateAt(old) /\ Alone(old, Seen) /\ Rising(1)
  BY <1>1, <1>3 DEF Mapping, Shape, IInv, Reading
<1>7. line.start = old.to
  BY <1>2, <1>6
<1>8. m = [old EXCEPT !.to = line.end, !.size = line.end - old.start, !.exec = @ \/ line.exec]
  BY DEF Grown
<1> HIDE DEF m
<1>9. /\ m.from = old.from /\ m.to = line.end /\ m.start = old.start /\ m.name = old.name
      /\ m.size = m.to - m.start
  BY <1>3, <1>8 DEF Mapping
<1> HIDE DEF line, old
<1>10. m.name # NoName /\ m.name # Gate
  <2>1. m.name = NameOf(line)
    BY <1>2, <1>9
  <2>2. ASSUME NameOf(line) = Gate PROVE FALSE
    <3>1. line.start = Aux(AtSysinfo)
      BY <1>4, <2>2, DumperAssumption DEF NameOf
    <3>2. old.from = Aux(AtSysinfo)
      BY <1>2, <1>6, <2>2 DEF GateAt
    <3> QED
      BY <1>6, <1>7, <3>1, <3>2
  <2> QED
    BY <1>2, <2>1, <2>2
<1>11. Paged(m)
  <2>1. m.from < m.to
    BY <1>1, <1>4, <1>6, <1>7, <1>9
  <2> QED
    BY <1>4, <1>5, <1>6, <1>9, <2>1 DEF Paged
<1>12. GateAt(m) /\ Alone(m, Seen')
  BY <1>10 DEF GateAt, Alone
<1>13. /\ DOMAIN mappings' = 1 .. L /\ mappings'[L] = m /\ mappings' \in Seq(Mapping)
       /\ \A i \in 1 .. L - 1 : i \in DOMAIN mappings /\ mappings'[i] = mappings[i]
  <2>1. mappings' = [mappings EXCEPT ![L] = m]
    BY Zenon DEF m, old, line
  <2>2. IInv'
    BY ReadLineStep
  <2>3. mappings' \in Seq(Mapping)
    BY <2>2 DEF IInv
  <2>4. L \in DOMAIN mappings
    BY <1>3
  <2>5. DOMAIN mappings' = DOMAIN mappings /\ mappings'[L] = m
    BY <2>1, <2>4, Zenon
  <2>6. \A i \in DOMAIN mappings : i # L => mappings'[i] = mappings[i]
    BY <2>1, Zenon
  <2> HIDE DEF L
  <2>7. \A i \in 1 .. L - 1 : i \in DOMAIN mappings /\ i # L
    BY <1>3
  <2> QED
    BY <1>3, <2>3, <2>5, <2>6, <2>7
<1> HIDE DEF L
<1>14. m \in Mapping
  BY <1>3, <1>13
<1>15. \A i \in 1 .. L - 1 : mappings[i].to <= m.from
  BY <1>3, <1>6, <1>9 DEF Rising, old
<1> QED
  BY <1>3, <1>11, <1>12, <1>13, <1>14, <1>15, LastShape

LEMMA ReadLineShape == ASSUME IInv, Shape, ReadLine PROVE Shape'
<1>1. CASE input.maps[n].kind # "mapping"
  <2>1. UNCHANGED <<input, phase, auxv, mappings, stack, ipMemory>> /\ Seen' = Seen
    BY <1>1, FileStaysRead DEF ReadLine
  <2> QED
    BY <2>1, SameShape
<1>2. CASE input.maps[n].kind = "mapping" /\ Continues(input.maps[n])
  <2>1. mappings' = [mappings EXCEPT ![Len(mappings)] = Grown(@, input.maps[n])]
    BY <1>2 DEF ReadLine
  <2> QED
    BY <1>2, <2>1, GrowShape
<1>3. CASE input.maps[n].kind = "mapping" /\ ~Continues(input.maps[n])
  <2>1. mappings' = Append(mappings, NewMapping(input.maps[n]))
    BY <1>3 DEF ReadLine
  <2> QED
    BY <1>3, <2>1, NewLineShape
<1> QED
  BY <1>1, <1>2, <1>3

\* FindMapping and FindMappingNoBias find the mapping an address is in.
LEMMA FoundNoBias ==
  ASSUME mappings \in Seq(Mapping), Apart, NEW a \in Nat
  PROVE  /\ FindMappingNoBias(a) # 0 =>
              FindMappingNoBias(a) \in DOMAIN mappings /\ Contains(FindMappingNoBias(a), a)
         /\ \A i \in DOMAIN mappings : Contains(i, a) => FindMappingNoBias(a) = i
<1> DEFINE found == {i \in DOMAIN mappings : mappings[i].from <= a /\ a < mappings[i].to}
<1>1. found \in SUBSET Nat /\ found \subseteq DOMAIN mappings /\ 0 \notin found
  OBVIOUS
<1>2. FindMappingNoBias(a) = IF found = {} THEN 0 ELSE Least(found)
  BY DEF FindMappingNoBias
<1>3. \A i : i \in found => Contains(i, a) /\ i \in DOMAIN mappings
  BY <1>1 DEF Contains
<1>4. \A i \in DOMAIN mappings : Contains(i, a) => i \in found
  BY DEF Contains
<1>5. ASSUME NEW i \in found, NEW j \in found PROVE i = j
  <2>1. i \in DOMAIN mappings /\ j \in DOMAIN mappings /\ mappings[i] \in Mapping /\ mappings[j] \in Mapping
    OBVIOUS
  <2>2. /\ mappings[i].from \in Nat /\ mappings[i].to \in Nat
        /\ mappings[j].from \in Nat /\ mappings[j].to \in Nat
    BY <2>1 DEF Mapping
  <2>3. /\ mappings[i].from <= a /\ a < mappings[i].to
        /\ mappings[j].from <= a /\ a < mappings[j].to
    OBVIOUS
  <2> HIDE DEF found
  <2> QED
    BY <2>1, <2>2, <2>3 DEF Apart
<1> HIDE DEF found
<1>6. found # {} => Least(found) \in found
  BY <1>1, LeastIsIn
<1> QED
  BY <1>2, <1>3, <1>4, <1>5, <1>6

AuxOK == DOMAIN auxv \subseteq 0 .. AtMax /\ \A t \in DOMAIN auxv : auxv[t] \in 0 .. Space - 1

LEMMA AuxStep == ASSUME IInv, AuxOK, Next PROVE AuxOK'
<1>1. CASE ReadAuxEntry
  <2> DEFINE e == input.auxv[n]
             Entry == [type : Nat, value : 0 .. Space - 1]
  <2>1. input.auxv \in Seq(Entry)
    BY FileFacts DEF Process, IInv
  <2> HIDE DEF Entry
  <2>2. e \in Entry
    BY <1>1, <2>1 DEF IInv, ReadAuxEntry, AuxLeft
  <2> HIDE DEF e
  <2>3. e.type \in Nat /\ e.value \in 0 .. Space - 1
    BY <2>2, Zenon DEF Entry
  <2>4. CASE e.type <= AtMax
    <3>1. auxv' = [t \in DOMAIN auxv \cup {e.type} |-> IF t = e.type THEN e.value ELSE auxv[t]]
      BY <1>1, <2>4 DEF ReadAuxEntry, e
    <3>2. DOMAIN auxv' = DOMAIN auxv \cup {e.type}
      BY <3>1
    <3>3. e.type \in 0 .. AtMax
      BY <2>3, <2>4 DEF AtMax, AtSysinfo
    <3>4. \A t \in DOMAIN auxv' : auxv'[t] = e.value \/ (t \in DOMAIN auxv /\ auxv'[t] = auxv[t])
      BY <3>1
    <3> QED
      BY <2>3, <3>2, <3>3, <3>4 DEF AuxOK
  <2>5. CASE ~(e.type <= AtMax)
    BY <1>1, <2>5 DEF ReadAuxEntry, AuxOK, e
  <2> QED
    BY <2>4, <2>5
<1>2. CASE ~ReadAuxEntry
  <2>1. auxv' = auxv
    BY <1>2 DEF Next, AuxvRead, ReadLine, EntryFirst, LatePostprocess, LateInitDone, WriteThread,
                WriteMappings
  <2> QED
    BY <2>1 DEF AuxOK
<1> QED
  BY <1>1, <1>2

LEMMA AuxIsAddress == ASSUME AuxOK, NEW t PROVE Aux(t) \in Nat
<1>1. t \in DOMAIN auxv => auxv[t] \in 0 .. Space - 1
  BY DEF AuxOK
<1> QED
  BY <1>1, DumperAssumption DEF Aux

\* Where no mapping has been moved FindMapping finds the same.
LEMMA FoundWhileReading ==
  ASSUME mappings \in Seq(Mapping), Apart, NEW a \in Nat,
         \A i \in DOMAIN mappings : /\ mappings[i].start = mappings[i].from
                                    /\ mappings[i].size = mappings[i].to - mappings[i].from
  PROVE  FindMapping(a) = FindMappingNoBias(a)
<1> DEFINE moved == {i \in DOMAIN mappings : mappings[i].start <= a /\ a - mappings[i].start < mappings[i].size}
           found == {i \in DOMAIN mappings : mappings[i].from <= a /\ a < mappings[i].to}
<1>1. ASSUME NEW i \in DOMAIN mappings PROVE i \in moved <=> i \in found
  <2>1. mappings[i] \in Mapping
    OBVIOUS
  <2>2. mappings[i].from \in Nat /\ mappings[i].to \in Nat
    BY <2>1 DEF Mapping
  <2> QED
    BY <2>2
<1>2. moved = found
  BY <1>1
<1> QED
  BY <1>2 DEF FindMapping, FindMappingNoBias

LEMMA EntryShape == ASSUME IInv, Shape, AuxOK, EntryFirst PROVE Shape'
<1> DEFINE e == Aux(AtEntry)
           i == FindMapping(e)
           L == Len(mappings)
<1>1. /\ phase = "maps" /\ ~MapsLeft /\ input' = input /\ auxv' = auxv
      /\ phase' \in {"late", "failed"} /\ UNCHANGED <<stack, ipMemory>>
      /\ mappings' = IF e = 0 \/ i = 0 THEN mappings ELSE ToFront(mappings, i)
  BY DEF EntryFirst
<1>2. /\ mappings \in Seq(Mapping) /\ Reading /\ Apart /\ LinesRead = Seen
      /\ L \in Nat /\ DOMAIN mappings = 1 .. L
  BY <1>1, SeenIsRead DEF IInv, Reading
<1>3. LinesRead' = LinesRead
  BY <1>1 DEF LinesRead
<1>4. /\ Rising(1) /\ stack' = NoStack /\ ipMemory' = NoStack
      /\ \A j \in DOMAIN mappings : Paged(mappings[j]) /\ Alone(mappings[j], LinesRead)
  BY <1>1, <1>2 DEF Shape
<1>5. e \in Nat
  BY AuxIsAddress
<1>6. i = FindMappingNoBias(e)
  BY <1>2, <1>5, FoundWhileReading DEF Reading
<1> HIDE DEF e, i, L
<1>7. /\ i # 0 => i \in DOMAIN mappings
      /\ \A j \in DOMAIN mappings : Contains(j, e) => j = i
  BY <1>2, <1>5, <1>6, FoundNoBias
<1>8. ASSUME NEW Old \in [DOMAIN mappings -> DOMAIN mappings],
             \A j, k \in DOMAIN mappings : 1 < j /\ j < k => Old[j] < Old[k],
             \A j \in DOMAIN mappings : e # 0 /\ Contains(Old[j], e) => j = 1,
             DOMAIN mappings' = DOMAIN mappings,
             \A j \in DOMAIN mappings : mappings'[j] = mappings[Old[j]]
      PROVE  Shape'
  <2>1. Rising(2)'
    <3> SUFFICES ASSUME NEW j \in DOMAIN mappings, NEW k \in DOMAIN mappings, 2 <= j, j < k
                 PROVE  mappings'[j].to <= mappings'[k].from
      BY <1>8 DEF Rising
    <3>1. Old[j] < Old[k] /\ Old[j] \in DOMAIN mappings /\ Old[k] \in DOMAIN mappings
      BY <1>2, <1>8
    <3>2. 1 <= Old[j]
      BY <1>2, <3>1
    <3> QED
      BY <1>4, <1>8, <3>1, <3>2 DEF Rising
  <2>2. EntryIsFirst'
    <3> SUFFICES ASSUME e # 0, NEW j \in DOMAIN mappings, Contains(j, e)' PROVE j = 1
      BY <1>1, <1>8 DEF EntryIsFirst, Aux, e
    <3>1. e' = e
      BY <1>1 DEF e, Aux
    <3>2. Contains(Old[j], e)
      BY <1>2, <1>8, <3>1 DEF Contains
    <3> QED
      BY <1>8, <3>2
  <2>3. ASSUME NEW j \in DOMAIN mappings
        PROVE  Paged(mappings[j])' /\ Alone(mappings[j], LinesRead)'
    <3>1. Paged(mappings'[j]) /\ Alone(mappings'[j], LinesRead)
      BY <1>4, <1>8
    <3> QED
      BY <1>1, <1>3, <3>1 DEF Paged, Alone
  <2> QED
    BY <1>1, <1>4, <1>8, <2>1, <2>2, <2>3 DEF Shape
<1>9. CASE mappings' = mappings /\ (e = 0 \/ i = 0)
  <2> DEFINE Old == [j \in DOMAIN mappings |-> j]
  <2>1. /\ Old \in [DOMAIN mappings -> DOMAIN mappings] /\ \A j \in DOMAIN mappings : Old[j] = j
    OBVIOUS
  <2> HIDE DEF Old
  <2>2. \A j \in DOMAIN mappings : e # 0 /\ Contains(Old[j], e) => j = 1
    BY <1>2, <1>7, <1>9, <2>1
  <2> QED
    BY <1>8, <1>9, <2>1, <2>2
<1>10. CASE mappings' = ToFront(mappings, i) /\ i # 0
  <2>1. i \in 1 .. L
    BY <1>2, <1>7, <1>10
  <2> DEFINE Old == [j \in DOMAIN mappings |-> IF j = 1 THEN i ELSE IF j <= i THEN j - 1 ELSE j]
  <2>2. Old \in [DOMAIN mappings -> DOMAIN mappings]
    BY <1>2, <2>1
  <2>3. \A j, k \in DOMAIN mappings : 1 < j /\ j < k => Old[j] < Old[k]
    BY <1>2, <2>1
  <2>4. \A j \in DOMAIN mappings : Old[j] = i => j = 1
    BY <1>2, <2>1
  <2>5. /\ DOMAIN mappings' = DOMAIN mappings
        /\ \A j \in DOMAIN mappings : mappings'[j] = mappings[Old[j]]
    BY <1>2, <1>10, <2>1 DEF ToFront
  <2> HIDE DEF Old
  <2>6. \A j \in DOMAIN mappings : e # 0 /\ Contains(Old[j], e) => j = 1
    BY <1>7, <2>2, <2>4
  <2> QED
    BY <1>8, <2>2, <2>3, <2>5, <2>6
<1> QED
  BY <1>1, <1>9, <1>10

\* A library is only ever made longer at its lower end.
LEMMA BiasedPaged ==
  ASSUME input \in Inputs, NEW m \in Mapping, HasLibrary(m), Paged(m)
  PROVE  Paged(Biased(m))
<1> DEFINE elf  == input.elf[m.start]
           least == MinOr(elf.loads, Space - 1)
           bias == EffectiveLoadBias(elf, m.start)
           size == (m.size + m.start - bias) % Space
<1>1. Space \in Nat \ {0} /\ elf.loads \in SUBSET Nat
  BY DumperAssumption DEF HasLibrary, Process, Elf
<1>2. /\ Biased(m) \in Mapping /\ Biased(m).from = m.from /\ Biased(m).to = m.to
  BY BiasedFields
<1>3. Biased(m) = [m EXCEPT !.size = size, !.start = bias]
  BY DEF Biased
<1>4. /\ m.start \in 0 .. Space - 1 /\ m.size \in 0 .. Space - 1 /\ m.from \in Nat /\ m.to \in Nat
  BY DEF Mapping
<1>5. Biased(m).start = bias /\ Biased(m).size = size
  BY <1>3 DEF Mapping
<1>6. ASSUME NoneIsMovedUp PROVE bias \in Nat /\ bias <= m.start
  <2>1. CASE ~elf.packed
    <3>1. bias = m.start
      BY <2>1 DEF EffectiveLoadBias
    <3> QED
      BY <1>1, <1>4, <3>1
  <2>2. CASE elf.packed
    <3>1. PICK v \in elf.loads : v <= m.start
      BY <1>6, <2>2 DEF NoneIsMovedUp, HasLibrary
    <3> HIDE DEF elf
    <3>2. least \in Nat /\ least <= v
      BY <1>1, <3>1, LeastIsIn DEF MinOr
    <3>3. v \in Nat
      BY <1>1, <3>1
    <3> HIDE DEF least
    <3>4. (m.start - least) \in 0 .. Space - 1
      BY <1>1, <1>4, <3>1, <3>2, <3>3
    <3>5. (m.start - least) % Space = m.start - least
      BY <1>1, <3>4
    <3>6. bias = m.start \/ bias = m.start - least
      BY <3>5 DEF EffectiveLoadBias, least
    <3> QED
      BY <1>1, <1>4, <3>2, <3>4, <3>6
  <2> QED
    BY <2>1, <2>2
<1> HIDE DEF bias
<1>7. ASSUME NoneIsMovedUp PROVE size = m.to - bias
  <2>1. m.size + m.start - bias = m.to - bias
    BY <1>4, <1>6, <1>7 DEF Paged
  <2>2. m.to - bias \in 0 .. Space - 1
    BY <1>1, <1>4, <1>6, <1>7 DEF Paged
  <2> QED
    BY <1>1, <2>1, <2>2
<1> HIDE DEF size
<1>8. NoneIsMovedUp => Biased(m).start <= Biased(m).from /\ Biased(m).size = Biased(m).to - Biased(m).start
  BY <1>2, <1>4, <1>5, <1>6, <1>7 DEF Paged
<1> QED
  BY <1>2, <1>8 DEF Paged

LEMMA LateShape == ASSUME IInv, Shape, LatePostprocess PROVE Shape'
<1>1. /\ phase = "late" /\ phase' = "late" /\ input' = input /\ auxv' = auxv
      /\ UNCHANGED <<stack, ipMemory>> /\ input \in Inputs
      /\ mappings \in Seq(Mapping) /\ n \in 1 .. Len(mappings)
  BY DEF LatePostprocess, IInv
<1>2. CASE ~HasLibrary(mappings[n])
  <2>1. UNCHANGED mappings
    BY <1>2 DEF LatePostprocess
  <2> QED
    BY <1>1, <2>1, SameShape
<1>3. CASE HasLibrary(mappings[n])
  <2> DEFINE m == mappings[n]
             b == Biased(m)
  <2>1. m \in Mapping /\ Paged(m)
    BY <1>1 DEF Shape
  <2>2. /\ b \in Mapping /\ b.from = m.from /\ b.to = m.to /\ b.name = m.name /\ Paged(b)
    BY <1>1, <1>3, <2>1, BiasedFields, BiasedPaged
  <2>3. b.exec = m.exec
    BY <1>1, <1>3, <2>1, BiasedFields, Zenon
  <2>4. mappings' = [mappings EXCEPT ![n] = b]
    BY <1>3, Zenon DEF LatePostprocess
  <2> HIDE DEF b
  <2>5. /\ DOMAIN mappings' = DOMAIN mappings /\ mappings'[n] = b
        /\ \A j \in DOMAIN mappings : j # n => mappings'[j] = mappings[j]
    BY <1>1, <2>4
  <2>6. LinesRead' = LinesRead
    BY <1>1 DEF LinesRead
  <2>7. ASSUME NEW j \in DOMAIN mappings
        PROVE  /\ mappings'[j].from = mappings[j].from /\ mappings'[j].to = mappings[j].to
               /\ mappings'[j].name = mappings[j].name
               /\ mappings'[j].exec = mappings[j].exec
               /\ Paged(mappings'[j])
    <3>1. CASE j = n
      <4>1. mappings'[j] = b /\ mappings[j] = m
        BY <2>5, <3>1
      <4> HIDE DEF m
      <4> QED
        BY <2>2, <2>3, <4>1, Zenon
    <3>2. CASE j # n
      <4>1. mappings'[j] = mappings[j] /\ Paged(mappings[j])
        BY <1>1, <2>5, <3>2 DEF Shape
      <4> QED
        BY <4>1, Zenon
    <3> QED
      BY <3>1, <3>2
  <2>8. Rising(2)' /\ EntryIsFirst'
    <3>1. Rising(2) /\ EntryIsFirst
      BY <1>1 DEF Shape
    <3> QED
      BY <1>1, <2>5, <2>7, <3>1 DEF Rising, EntryIsFirst, Contains, Aux
  <2>9. ASSUME NEW j \in DOMAIN mappings
        PROVE  Paged(mappings[j])' /\ Alone(mappings[j], LinesRead)'
    <3>1. Alone(mappings[j], LinesRead)
      BY <1>1 DEF Shape
    <3>2. ASSUME mappings[j].name \in {Gate, NoName}
          PROVE  \E k \in LinesRead :
                   /\ mappings'[j].from = input.maps[k].start /\ mappings'[j].to = input.maps[k].end
                   /\ mappings'[j].exec <=> input.maps[k].exec
      <4>1. PICK k \in LinesRead :
              /\ mappings[j].from = input.maps[k].start /\ mappings[j].to = input.maps[k].end
              /\ mappings[j].exec <=> input.maps[k].exec
        BY <3>1, <3>2 DEF Alone
      <4> QED
        BY <2>7, <4>1, Zenon
    <3>3. Alone(mappings[j], LinesRead)'
      BY <1>1, <2>6, <2>7, <3>2, Zenon DEF Alone
    <3> QED
      BY <2>7, <3>3 DEF Paged
  <2> QED
    BY <1>1, <2>5, <2>8, <2>9 DEF Shape
<1> QED
  BY <1>2, <1>3

LEMMA OtherShape ==
  ASSUME IInv, Shape, AuxvRead \/ ReadAuxEntry \/ LateInitDone \/ WriteThread \/ WriteMappings
  PROVE  Shape'
<1>1. CASE ReadAuxEntry
  BY <1>1 DEF ReadAuxEntry, Shape
<1>2. CASE AuxvRead
  <2>1. mappings' = <<>> /\ phase' \in {"failed", "maps"} /\ UNCHANGED <<stack, ipMemory>>
        /\ stack = NoStack /\ ipMemory = NoStack
    BY <1>2 DEF AuxvRead, IInv, Shape
  <2> QED
    BY <2>1 DEF Shape, Rising
<1>3. CASE LateInitDone \/ WriteThread \/ WriteMappings
  <2>1. /\ phase \in {"late", "threads"} /\ phase' \in {"failed", "threads", "dumped"}
        /\ UNCHANGED <<input, auxv, mappings>>
    BY <1>3 DEF LateInitDone, WriteThread, WriteMappings
  <2>2. LinesRead' = LinesRead
    BY <2>1 DEF LinesRead
  <2>3. ASSUME NEW m, NEW K PROVE Alone(m, K)' <=> Alone(m, K)
    BY <2>1 DEF Alone
  <2>4. EntryIsFirst' <=> EntryIsFirst
    BY <2>1 DEF EntryIsFirst, Contains, Aux
  <2>5. Rising(2)' <=> Rising(2)
    BY <2>1 DEF Rising
  <2> QED
    BY <2>1, <2>2, <2>3, <2>4, <2>5 DEF Shape
<1> QED
  BY <1>1, <1>2, <1>3

ListInv == IInv /\ AuxOK /\ Shape

LEMMA ListStep == ASSUME ListInv, [Next]_vars PROVE ListInv'
<1>1. IInv'
  BY NextStep DEF ListInv
<1>2. AuxOK'
  <2>1. CASE UNCHANGED vars
    BY <2>1 DEF vars, AuxOK, ListInv
  <2> QED
    BY <2>1, AuxStep DEF ListInv
<1>3. Shape'
  <2>1. CASE UNCHANGED vars
    <3>1. UNCHANGED <<input, auxv, mappings, phase, n, stack, ipMemory>>
      BY <2>1 DEF vars
    <3>2. Seen' = Seen
      BY <3>1 DEF Seen
    <3> QED
      BY <3>1, <3>2, SameShape DEF ListInv
  <2>2. CASE Next
    BY <2>2, OtherShape, ReadLineShape, EntryShape, LateShape DEF Next, ListInv
  <2> QED
    BY <2>1, <2>2
<1> QED
  BY <1>1, <1>2, <1>3 DEF ListInv

LEMMA ListAlways == Spec => []ListInv
<1>1. Init => ListInv
  BY InitStep DEF Init, ListInv, AuxOK, Shape
<1> QED
  BY <1>1, ListStep, PTL DEF Spec

\* The modules that are taken of the list: they begin with its first, if it is one.
LEMMA ModulesFacts ==
  ASSUME mappings \in Seq(Mapping)
  PROVE  /\ OwnModules \in Seq(Mapping)
         /\ mappings # <<>> /\ IsModule(mappings[1]) =>
              OwnModules # <<>> /\ OwnModules[1] = mappings[1]
<1> DEFINE L == Len(mappings)
           V == Seq(Mapping)
           G == [k \in 1 .. L |-> [v \in V |-> IF IsModule(mappings[k]) THEN Append(v, mappings[k]) ELSE v]]
           Step(g) == [k \in 0 .. L |->
                         IF k = 0 THEN <<>>
                         ELSE IF IsModule(mappings[k]) THEN Append(g[k - 1], mappings[k]) ELSE g[k - 1]]
           f == CHOOSE g : g = Step(g)
<1>1. L \in Nat /\ \A k \in 1 .. L : mappings[k] \in Mapping
  OBVIOUS
<1>2. OwnModules = f[L]
  BY DEF OwnModules
<1>3. \A k \in 1 .. L : \A v \in V : (IF IsModule(mappings[k]) THEN Append(v, mappings[k]) ELSE v) \in V
  BY <1>1
<1> HIDE DEF L, f
<1>4. PICK h \in [0 .. L -> V] : h[0] = <<>> /\ \A k \in 1 .. L : h[k] = G[k][h[k - 1]]
  <2> DEFINE z == <<>>
  <2>1. z \in V /\ G \in [1 .. L -> [V -> V]] /\ L \in Nat
    BY <1>1, <1>3
  <2> HIDE DEF G, V, z
  <2>2. \E h : Run(h, V, z, L, G)
    BY <2>1, Iterates
  <2> QED
    BY <2>2 DEF Run, z
<1>5. h = Step(h)
  <2>1. ASSUME NEW k \in 0 .. L, k # 0
        PROVE  h[k] = IF IsModule(mappings[k]) THEN Append(h[k - 1], mappings[k]) ELSE h[k - 1]
    <3>1. k \in 1 .. L /\ k - 1 \in 0 .. L
      BY <1>1, <2>1
    <3>2. h[k - 1] \in V
      BY <3>1
    <3> QED
      BY <1>4, <3>1, <3>2
  <2> HIDE DEF V
  <2>2. h = [k \in 0 .. L |-> h[k]]
    OBVIOUS
  <2> QED
    BY <1>4, <2>1, <2>2
<1>6. f = Step(f)
  <2> HIDE DEF Step
  <2> QED
    BY <1>5 DEF f
<1>7. /\ f[0] = <<>>
      /\ \A k \in 1 .. L : f[k] = IF IsModule(mappings[k]) THEN Append(f[k - 1], mappings[k]) ELSE f[k - 1]
  <2>1. \A k \in 0 .. L : f[k] = Step(f)[k]
    BY <1>6, Zenon
  <2>2. 0 \in 0 .. L /\ \A k \in 1 .. L : k \in 0 .. L /\ k # 0
    BY <1>1
  <2> QED
    BY <2>1, <2>2
<1> DEFINE Main(v) == IsModule(mappings[1]) => v # <<>> /\ v[1] = mappings[1]
           S == {k \in Nat : k <= L => f[k] \in V /\ (1 <= k => Main(f[k]))}
<1>8. 0 \in S
  <2>1. f[0] \in V
    BY <1>7
  <2> HIDE DEF Main, V
  <2> QED
    BY <2>1
<1>9. ASSUME NEW k \in S PROVE k + 1 \in S
  <2> SUFFICES ASSUME k + 1 <= L PROVE f[k + 1] \in V /\ Main(f[k + 1])
    OBVIOUS
  <2>1. k \in Nat /\ k + 1 \in 1 .. L /\ (k + 1) - 1 = k
    BY <1>1
  <2>2. f[k] \in V /\ (1 <= k => Main(f[k]))
    BY <1>1, <2>1
  <2>3. f[k + 1] = IF IsModule(mappings[k + 1]) THEN Append(f[k], mappings[k + 1]) ELSE f[k]
    BY <1>7, <2>1
  <2>4. f[k + 1] \in V
    BY <1>1, <2>1, <2>2, <2>3
  <2>5. ASSUME k = 0 PROVE Main(f[k + 1])
    <3>1. f[k] = <<>> /\ k + 1 = 1 /\ mappings[1] \in Mapping
      BY <1>1, <1>7, <2>1, <2>5
    <3>2. IsModule(mappings[1]) => f[k + 1] = Append(<<>>, mappings[1])
      BY <2>3, <3>1
    <3>3. \A x : Append(<<>>, x) = <<x>>
      OBVIOUS
    <3> QED
      BY <3>2, <3>3
  <2>6. ASSUME k # 0 PROVE Main(f[k + 1])
    <3>1. Main(f[k]) /\ mappings[k + 1] \in Mapping
      BY <1>1, <2>1, <2>2, <2>6
    <3>2. \A v \in V, x \in Mapping : v # <<>> => Append(v, x) # <<>> /\ Append(v, x)[1] = v[1]
      OBVIOUS
    <3> HIDE DEF V
    <3> QED
      BY <2>2, <2>3, <3>1, <3>2
  <2> HIDE DEF Main, V
  <2> QED
    BY <2>4, <2>5, <2>6
<1>10. S = Nat
  <2>1. S \in SUBSET Nat
    OBVIOUS
  <2> HIDE DEF S
  <2> QED
    BY <1>8, <1>9, <2>1, SetInduction
<1>11. L \in S
  BY <1>1, <1>10
<1>12. f[L] \in V /\ (1 <= L => Main(f[L]))
  BY <1>1, <1>11
<1>13. mappings # <<>> => 1 <= L
  BY <1>1 DEF L
<1> QED
  BY <1>2, <1>12, <1>13

LEMMA MainStep == ASSUME ListInv, MainIsFirst, Next PROVE MainIsFirst'
<1>1. CASE WriteMappings
  <2> DEFINE e == Aux(AtEntry)
             i == FindMappingNoBias(e)
  <2>1. /\ phase = "threads" /\ UNCHANGED <<input, auxv, mappings>>
        /\ modules' = OwnModules \o input.given
    BY <1>1 DEF WriteMappings
  <2>2. /\ mappings \in Seq(Mapping) /\ Apart /\ EntryIsFirst /\ e \in Nat
        /\ input.given \in Seq(Mapping)
    BY <2>1, AuxIsAddress, FileFacts DEF ListInv, IInv, Shape, Process
  <2>3. ASSUME e # 0, i # 0, IsModule(mappings[i])
        PROVE  modules' # <<>> /\ modules'[1] = mappings[i]
    <3>1. i \in DOMAIN mappings /\ Contains(i, e)
      BY <2>2, <2>3, FoundNoBias
    <3>2. i = 1 /\ mappings # <<>>
      BY <2>2, <2>3, <3>1 DEF EntryIsFirst
    <3>3. OwnModules \in Seq(Mapping) /\ OwnModules # <<>> /\ OwnModules[1] = mappings[1]
      BY <2>2, <2>3, <3>2, ModulesFacts
    <3> HIDE DEF i, e
    <3> QED
      BY <2>1, <2>2, <3>2, <3>3
  <2>4. e' = e /\ i' = i /\ (IsModule(mappings[i]) <=> IsModule(mappings[i])')
    BY <2>1 DEF Aux, FindMappingNoBias, IsModule, ShouldInclude, Given
  <2> QED
    BY <2>1, <2>3, <2>4 DEF MainIsFirst
<1>2. CASE ~WriteMappings
  <2>1. phase' # "dumped"
    BY <1>2 DEF Next, ReadAuxEntry, AuxvRead, ReadLine, EntryFirst, LatePostprocess, LateInitDone, WriteThread
  <2> QED
    BY <2>1 DEF MainIsFirst
<1> QED
  BY <1>1, <1>2

\* The main program is the first module of a dump, wherever its lines are in the maps
\* file and whatever is merged, moved or left out, when it is a module at all.
THEOREM MainTheorem == Spec => []MainIsFirst
<1>1. Init => MainIsFirst
  BY DEF Init, MainIsFirst
<1>2. ListInv /\ MainIsFirst /\ [Next]_vars => MainIsFirst'
  <2>1. ASSUME MainIsFirst, UNCHANGED vars PROVE MainIsFirst'
    BY <2>1 DEF vars, MainIsFirst, FindMappingNoBias, Aux, IsModule, ShouldInclude, Given
  <2> QED
    BY <2>1, MainStep
<1> QED
  BY <1>1, <1>2, ListAlways, PTL DEF Spec
-----------------------------------------------------------------------------
(* What is copied of a stack.                                                *)

\* Multiples of a number.
LEMMA Product ==
  ASSUME NEW b \in Nat \ {0}, NEW k \in Nat
  PROVE  b * k \in Nat /\ (b * k) % b = 0 /\ (b * k) \div b = k
OBVIOUS

LEMMA Quotient ==
  ASSUME NEW a \in Nat, NEW b \in Nat \ {0}, a % b = 0
  PROVE  a \div b \in Nat /\ a = b * (a \div b) /\ a = (a \div b) * b
OBVIOUS

LEMMA MultipleOfMultiple ==
  ASSUME NEW a \in Nat, NEW b \in Nat \ {0}, NEW c \in Nat \ {0}, a % b = 0, b % c = 0
  PROVE  a % c = 0
<1>1. PICK k \in Nat : a = b * k
  BY Quotient
<1>2. PICK l \in Nat : b = c * l
  BY Quotient
<1>3. a = c * (l * k) /\ l * k \in Nat
  BY <1>1, <1>2
<1> QED
  BY <1>3, Product

LEMMA SumOfMultiples ==
  ASSUME NEW a \in Nat, NEW x \in Nat, NEW b \in Nat \ {0}, a % b = 0, x % b = 0
  PROVE  (a + x) % b = 0
<1>1. PICK k \in Nat : a = b * k
  BY Quotient
<1>2. PICK l \in Nat : x = b * l
  BY Quotient
<1>3. a + x = b * (k + l) /\ k + l \in Nat
  BY <1>1, <1>2
<1> QED
  BY <1>3, Product

LEMMA NextMultiple ==
  ASSUME NEW a \in Nat, NEW x \in Nat, NEW b \in Nat \ {0}, a % b = 0, x % b = 0, a < x
  PROVE  a + b <= x /\ (x - a) % b = 0 /\ x - a \in Nat
<1>1. PICK k \in Nat : a = b * k
  BY Quotient
<1>2. PICK l \in Nat : x = b * l
  BY Quotient
<1>3. k < l
  BY <1>1, <1>2
<1>4. k + 1 <= l /\ k + 1 \in Nat /\ l - k \in Nat
  BY <1>3
<1>5. b * (k + 1) <= b * l
  BY <1>4
<1>6. b * (k + 1) = a + b /\ x - a = b * (l - k)
  BY <1>1, <1>2, <1>4
<1> QED
  BY <1>2, <1>4, <1>5, <1>6, Product

LEMMA RoundsDown ==
  ASSUME NEW a \in Nat, NEW b \in Nat \ {0}
  PROVE  /\ a - (a % b) \in Nat /\ a - (a % b) <= a /\ a < a - (a % b) + b
         /\ (a - (a % b)) % b = 0
OBVIOUS

\* PageOf.
LEMMA PageFacts ==
  ASSUME NEW a \in Nat
  PROVE  /\ PageOf(a) \in Nat /\ PageOf(a) <= a /\ a < PageOf(a) + PageSize
         /\ PageOf(a) % PageSize = 0
         /\ \A x \in Nat : x % PageSize = 0 /\ x <= a => x <= PageOf(a)
<1> DEFINE p == PageOf(a)
           P == PageSize
<1>1. P \in Nat \ {0}
  BY DumperAssumption
<1>2. p = a - (a % P)
  BY DEF PageOf
<1> HIDE DEF p, P
<1>3. p \in Nat /\ p <= a /\ a < p + P /\ p % P = 0
  BY <1>1, <1>2, RoundsDown
<1>4. ASSUME NEW x \in Nat, x % P = 0, x <= a PROVE x <= p
  <2>1. CASE p < x
    <3>1. p + P <= x
      BY <1>1, <1>3, <1>4, <2>1, NextMultiple
    <3> QED
      BY <1>1, <1>3, <1>4, <3>1
  <2> QED
    BY <1>3, <2>1
<1> QED
  BY <1>3, <1>4 DEF p, P

\* The piece of a stack that is taken of a thread that is limited.
LEMMA ChunkFacts ==
  ASSUME NEW sp \in Nat
  PROVE  /\ Chunk(sp) \in Nat /\ Chunk(sp) % ExtraLen = 0
         /\ PageOf(sp) <= Chunk(sp) /\ Chunk(sp) <= sp /\ sp <= Chunk(sp) + ExtraLen
<1> DEFINE p == PageOf(sp)
           E == ExtraLen
           N == PageSize \div ExtraLen
           Fits(a) == a + E >= sp /\ (a = p \/ a < sp)
           A == {p + k * E : k \in 0 .. N}
<1>1. E \in Nat \ {0} /\ PageSize \in Nat \ {0} /\ PageSize % E = 0
  BY DumperAssumption
<1>2. p \in Nat /\ p <= sp /\ sp < p + PageSize /\ p % PageSize = 0
  BY PageFacts
<1>3. N \in Nat /\ PageSize = N * E
  BY <1>1, Quotient
<1>4. Chunk(sp) = CHOOSE a \in A : Fits(a)
  BY DEF Chunk
<1> HIDE DEF p, E, N
<1>5. \E a \in A : Fits(a)
  <2>1. CASE sp <= p + E
    <3>1. p + 0 * E = p /\ 0 \in 0 .. N
      BY <1>1, <1>2, <1>3
    <3> QED
      BY <2>1, <3>1
  <2>2. CASE p + E < sp
    <3> DEFINE d == sp - p - 1
               k == d \div E
    <3>1. d \in Nat /\ d < N * E
      BY <1>1, <1>2, <1>3, <2>2
    <3> HIDE DEF d
    <3>2. k \in Nat /\ k * E <= d /\ d < k * E + E
      BY <1>1, <3>1
    <3> HIDE DEF k
    <3>3. k <= N
      <4>1. CASE N < k
        <5>1. N + 1 <= k /\ (N + 1) * E <= k * E
          BY <1>1, <1>3, <3>2, <4>1
        <5> QED
          BY <1>1, <1>3, <3>1, <3>2, <5>1
      <4> QED
        BY <1>3, <3>2, <4>1
    <3>4. k * E \in Nat
      BY <1>1, <3>2
    <3>5. Fits(p + k * E)
      BY <1>1, <1>2, <3>2, <3>4 DEF d
    <3>6. k \in 0 .. N
      BY <1>3, <3>2, <3>3
    <3> QED
      BY <3>5, <3>6
  <2> QED
    BY <1>1, <1>2, <2>1, <2>2
<1>6. Chunk(sp) \in A /\ Fits(Chunk(sp))
  <2> HIDE DEF A, Fits
  <2> QED
    BY <1>4, <1>5, Zenon
<1>7. PICK k \in 0 .. N : Chunk(sp) = p + k * E
  BY <1>6
<1>8. k * E \in Nat /\ (k * E) % E = 0
  <2>1. k \in Nat /\ k * E = E * k
    BY <1>1, <1>3
  <2> QED
    BY <1>1, <2>1, Product
<1>9. p % E = 0
  BY <1>1, <1>2, MultipleOfMultiple
<1>10. Chunk(sp) % E = 0
  BY <1>1, <1>2, <1>7, <1>8, <1>9, SumOfMultiples
<1>11. Chunk(sp) \in Nat /\ p <= Chunk(sp)
  BY <1>2, <1>7, <1>8
<1>12. Chunk(sp) <= sp /\ sp <= Chunk(sp) + E
  BY <1>1, <1>2, <1>6, <1>11
<1> QED
  BY <1>10, <1>11, <1>12 DEF p, E

\* Where the first mapping has not been moved, and none has been moved up, an address
\* is looked up in the mapping it is in.
LEMMA FoundByRange ==
  ASSUME ListInv, phase = "threads", NoneIsMovedUp, mappings[1].start = mappings[1].from,
         NEW a \in Nat, NEW i \in DOMAIN mappings, Contains(i, a)
  PROVE  FindMapping(a) = i
<1> DEFINE found == {j \in DOMAIN mappings : mappings[j].start <= a /\ a - mappings[j].start < mappings[j].size}
<1>1. /\ mappings \in Seq(Mapping) /\ Apart /\ Rising(2)
      /\ \A j \in DOMAIN mappings : Paged(mappings[j])
  BY DEF ListInv, IInv, Shape
<1>2. ASSUME NEW j \in DOMAIN mappings
      PROVE  /\ j \in Nat \ {0} /\ mappings[j].from \in Nat /\ mappings[j].to \in Nat /\ mappings[j].start \in Nat
             /\ mappings[j].start <= mappings[j].from
             /\ mappings[j].size = mappings[j].to - mappings[j].start
  <2>1. mappings[j] \in Mapping /\ j \in Nat \ {0}
    BY <1>1
  <2> QED
    BY <1>1, <2>1 DEF Mapping, Paged
<1>3. mappings[i].from <= a /\ a < mappings[i].to
  BY DEF Contains
<1>4. i \in found
  BY <1>2, <1>3
<1>5. ASSUME NEW j \in found PROVE i <= j
  <2>1. j \in DOMAIN mappings /\ mappings[j].start <= a /\ a < mappings[j].to
    BY <1>2
  <2> HIDE DEF found
  <2>2. CASE j = 1
    <3>1. Contains(1, a)
      BY <2>1, <2>2 DEF Contains
    <3> QED
      BY <1>1, <2>1, <2>2, <3>1, FoundNoBias
  <2>3. CASE j # 1 /\ j < i
    <3>1. mappings[j].to <= mappings[i].from
      BY <1>1, <1>2, <2>1, <2>3 DEF Rising
    <3> QED
      BY <1>2, <1>3, <2>1, <3>1
  <2> QED
    BY <1>2, <2>1, <2>2, <2>3
<1>6. FindMapping(a) = Least(found)
  BY <1>4 DEF FindMapping
<1>7. found \in SUBSET Nat
  BY <1>2
<1> HIDE DEF found
<1>8. Least(found) \in found /\ Least(found) <= i
  BY <1>4, <1>7, LeastIsIn
<1>9. Least(found) \in Nat /\ i \in Nat /\ i <= Least(found)
  BY <1>2, <1>5, <1>7, <1>8
<1> QED
  BY <1>6, <1>8, <1>9

\* The range that is copied lies in the mapping the stack pointer is in, whole words
\* from before the pointer to behind it.
LEMMA CaptureFacts ==
  ASSUME ListInv, phase = "threads", NoneIsMovedUp, mappings[1].start = mappings[1].from,
         NEW sp \in Nat, NEW i \in DOMAIN mappings, Contains(i, sp), NEW limited \in BOOLEAN,
         NEW c, c = Capture(sp, limited)
  PROVE  /\ c.start \in Nat /\ c.len \in Nat /\ c.len % Word = 0
         /\ mappings[i].from <= c.start /\ c.start <= sp
         /\ c.start + c.len <= mappings[i].to
         /\ sp < c.start + c.len \/ (limited /\ sp = c.start + c.len)
<1> DEFINE p == PageOf(sp)
           from == mappings[i].from
           to == mappings[i].to
           len == StackLen(FindMapping(p), sp)
<1>1. /\ from \in Nat /\ to \in Nat /\ mappings[i].start \in Nat
      /\ mappings[i].size = to - mappings[i].start
      /\ from % PageSize = 0 /\ to % PageSize = 0 /\ from <= sp /\ sp < to
  <2>1. mappings[i] \in Mapping /\ Paged(mappings[i])
    BY DEF ListInv, IInv, Shape
  <2> QED
    BY <2>1 DEF Mapping, Paged, Contains
<1>2. /\ {PageSize, ExtraLen, Word, StackToCapture} \subseteq Nat \ {0}
      /\ PageSize % ExtraLen = 0 /\ ExtraLen % Word = 0 /\ StackToCapture % PageSize = 0
  BY DumperAssumption
<1>3. /\ p \in Nat /\ p <= sp /\ sp < p + PageSize /\ p % PageSize = 0 /\ from <= p
  BY <1>1, PageFacts
<1>4. FindMapping(p) = i
  BY <1>1, <1>3, FoundByRange DEF Contains
<1>5. len = Lesser(StackToCapture, to - p)
  <2>1. mappings[i].size - (p - mappings[i].start) = to - p
    BY <1>1, <1>3
  <2> QED
    BY <1>4, <2>1 DEF StackLen
<1> HIDE DEF p, from, to, len
<1>6. to - p \in Nat /\ (to - p) % PageSize = 0 /\ PageSize <= to - p
  <2>0. p < to /\ PageSize \in Nat \ {0}
    BY <1>1, <1>2, <1>3
  <2>1. p + PageSize <= to /\ (to - p) % PageSize = 0 /\ to - p \in Nat
    BY <1>1, <1>3, <2>0, NextMultiple
  <2> QED
    BY <1>1, <1>2, <1>3, <2>1
<1>7. PageSize <= StackToCapture
  <2>1. 0 % PageSize = 0 /\ 0 < StackToCapture
    BY <1>2
  <2>2. 0 + PageSize <= StackToCapture
    BY <1>2, <2>1, NextMultiple
  <2> QED
    BY <1>2, <2>2
<1>8. /\ len \in Nat /\ len % PageSize = 0 /\ PageSize <= len /\ p + len <= to
  BY <1>1, <1>2, <1>3, <1>5, <1>6, <1>7 DEF Lesser
<1>9. CASE ~(limited /\ len > ExtraLen)
  <2>1. c = [start |-> p, len |-> len]
    BY <1>9 DEF Capture, p, len
  <2>2. len % Word = 0
    BY <1>2, <1>8, MultipleOfMultiple
  <2> QED
    BY <1>1, <1>2, <1>3, <1>8, <2>1, <2>2 DEF from, to
<1>10. CASE limited /\ len > ExtraLen
  <2>1. c = [start |-> Chunk(sp), len |-> ExtraLen]
    BY <1>10 DEF Capture, p, len
  <2>2. /\ Chunk(sp) \in Nat /\ Chunk(sp) % ExtraLen = 0
        /\ p <= Chunk(sp) /\ Chunk(sp) <= sp /\ sp <= Chunk(sp) + ExtraLen
    BY ChunkFacts DEF p
  <2>3. to % ExtraLen = 0 /\ Chunk(sp) < to
    BY <1>1, <1>2, <2>2, MultipleOfMultiple
  <2>4. Chunk(sp) + ExtraLen <= to
    BY <1>1, <1>2, <2>2, <2>3, NextMultiple
  <2>5. c.start = Chunk(sp) /\ c.len = ExtraLen /\ ExtraLen \in Nat /\ ExtraLen % Word = 0
    BY <1>2, <2>1
  <2>6. sp < c.start + c.len \/ sp = c.start + c.len
    BY <2>2, <2>5
  <2>7. from <= c.start /\ c.start <= sp /\ c.start \in Nat
    BY <1>1, <1>3, <2>2, <2>5
  <2> QED
    BY <1>10, <2>4, <2>5, <2>6, <2>7 DEF from, to
<1> QED
  BY <1>9, <1>10

\* The state a thread is written with has addresses.
LEMMA RegistersFacts ==
  ASSUME input \in Inputs, NEW t \in 1 .. Len(input.threads)
  PROVE  Registers(t).sp \in 0 .. Space - 1 /\ Registers(t).ip \in 0 .. Space - 1
<1>1. input.context \in Place /\ input.threads \in Seq(Place)
  BY FileFacts DEF Process
<1>2. Registers(t) \in Place
  BY <1>1 DEF Registers
<1> QED
  BY <1>2, Zenon DEF Place

\* The stack of a thread that is written.
LEMMA StackFacts ==
  ASSUME NEW t \in 1 .. Len(input.threads), StackOf(t) # NoStack
  PROVE  LET sp    == Registers(t).sp
             range == Capture(sp, Limited(t))
             words == Copied(range)
         IN StackOf(t) = [thread |-> t, start |-> range.start, raw |-> words,
                          words |-> IF input.sanitize THEN Sanitized(words, FirstWord(range, sp), sp) ELSE words]
BY DEF StackOf

LEMMA CopiedFacts ==
  ASSUME NEW c, c.len \in Nat
  PROVE  Copied(c) = [j \in 1 .. c.len \div Word |-> Copied(c)[j]] /\ c.len \div Word \in Nat
         /\ DOMAIN Copied(c) = 1 .. c.len \div Word
         /\ Len(Copied(c)) = c.len \div Word
<1>1. Word \in Nat \ {0}
  BY DumperAssumption
<1> DEFINE m == c.len \div Word
<1>2. m \in Nat
  BY <1>1
<1> HIDE DEF m
<1> QED
  BY <1>2 DEF Copied, m

LEMMA WriteThreadFacts ==
  ASSUME ListInv, WriteThread
  PROVE  /\ phase = "threads" /\ UNCHANGED <<input, mappings>> /\ n \in 1 .. Len(input.threads)
         /\ stack' = StackOf(n) /\ ipMemory' \in {IpRange(input.context.ip), ipMemory}
         /\ Registers(n).sp \in Nat /\ input.context.ip \in Nat
<1>1. /\ phase = "threads" /\ UNCHANGED <<input, mappings>> /\ n \in 1 .. Len(input.threads)
      /\ stack' = StackOf(n) /\ ipMemory' \in {IpRange(input.context.ip), ipMemory}
  <2>1. n \in Nat \ {0} /\ input.threads \in Seq(Place)
    BY FileFacts DEF ListInv, IInv, Process
  <2> QED
    BY <2>1 DEF WriteThread
<1>2. input \in Inputs /\ Space \in Nat
  BY DumperAssumption DEF ListInv, IInv
<1>3. Registers(n).sp \in 0 .. Space - 1
  BY <1>1, <1>2, RegistersFacts
<1>4. input.context.ip \in 0 .. Space - 1
  BY <1>2, FileFacts, Zenon DEF Process, Place
<1> QED
  BY <1>1, <1>2, <1>3, <1>4

\* The two halves of CapturesAreLive.
StackIsLive ==
  stack # NoStack =>
    LET sp == Registers(stack.thread).sp
        i  == FindMappingNoBias(sp)
        end == stack.start + Len(stack.raw) * Word
    IN i # 0 /\ mappings[1].start = mappings[1].from =>
         /\ mappings[i].from <= stack.start /\ end <= mappings[i].to
         /\ stack.start <= sp
         /\ sp < end \/ (Limited(stack.thread) /\ sp = end)

IpIsLive ==
  ipMemory # NoStack =>
    LET ip == input.context.ip
        i  == FindMappingNoBias(ip)
    IN i # 0 /\ mappings[1].start = mappings[1].from =>
         /\ ipMemory.start <= ip /\ ip < ipMemory.start + ipMemory.len
         /\ ipMemory.start + ipMemory.len <= mappings[i].to
         /\ mappings[i].start <= ipMemory.start

LEMMA StackLive == ASSUME ListInv, NoneIsMovedUp, WriteThread PROVE StackIsLive'
<1> DEFINE sp == Registers(n).sp
           i == FindMappingNoBias(sp)
           c == Capture(sp, Limited(n))
<1>1. /\ phase = "threads" /\ UNCHANGED <<input, mappings>> /\ n \in 1 .. Len(input.threads)
      /\ stack' = StackOf(n) /\ sp \in Nat
  BY WriteThreadFacts
<1>2. mappings \in Seq(Mapping) /\ Apart /\ n \in Nat \ {0}
  BY <1>1 DEF ListInv, IInv
<1> SUFFICES ASSUME stack' # NoStack, i # 0, mappings[1].start = mappings[1].from
             PROVE  LET end == stack'.start + Len(stack'.raw) * Word IN
                      /\ stack'.thread = n
                      /\ mappings[i].from <= stack'.start /\ end <= mappings[i].to
                      /\ stack'.start <= sp
                      /\ sp < end \/ (Limited(n) /\ sp = end)
  <2>1. stack' # NoStack => stack'.thread = n
    BY <1>1, StackFacts
  <2>2. ASSUME NEW t PROVE Registers(t)' = Registers(t) /\ (Limited(t)' <=> Limited(t))
    BY <1>1 DEF Registers, Limited
  <2>3. ASSUME NEW a PROVE FindMappingNoBias(a)' = FindMappingNoBias(a)
    BY <1>1 DEF FindMappingNoBias
  <2> QED
    BY <1>1, <2>1, <2>2, <2>3 DEF StackIsLive
<1>3. stack'.thread = n /\ stack'.start = c.start /\ stack'.raw = Copied(c)
  BY <1>1, StackFacts
<1>4. i \in DOMAIN mappings /\ Contains(i, sp)
  BY <1>1, <1>2, FoundNoBias
<1>5. Limited(n) \in BOOLEAN
  BY DEF Limited
<1> HIDE DEF sp, i
<1>6. /\ c.start \in Nat /\ c.len \in Nat /\ c.len % Word = 0
      /\ mappings[i].from <= c.start /\ c.start <= sp
      /\ c.start + c.len <= mappings[i].to
      /\ sp < c.start + c.len \/ (Limited(n) /\ sp = c.start + c.len)
  BY <1>1, <1>4, <1>5, CaptureFacts
<1> HIDE DEF c
<1>7. Len(Copied(c)) * Word = c.len
  <2>1. Word \in Nat \ {0}
    BY DumperAssumption
  <2> QED
    BY <1>6, <2>1, CopiedFacts, Quotient
<1> QED
  BY <1>3, <1>6, <1>7

LEMMA IpLive == ASSUME ListInv, NoneIsMovedUp, WriteThread, IpIsLive PROVE IpIsLive'
<1> DEFINE ip == input.context.ip
           i == FindMappingNoBias(ip)
           r == IpRange(ip)
<1>1. /\ phase = "threads" /\ UNCHANGED <<input, mappings>> /\ ip \in Nat
      /\ ipMemory' \in {r, ipMemory}
  BY WriteThreadFacts
<1>2. mappings \in Seq(Mapping) /\ Apart /\ \A j \in DOMAIN mappings : Paged(mappings[j])
  BY <1>1 DEF ListInv, IInv, Shape
<1>3. FindMappingNoBias(ip)' = FindMappingNoBias(ip)
  BY <1>1 DEF FindMappingNoBias
<1>4. CASE ipMemory' = ipMemory
  BY <1>1, <1>3, <1>4 DEF IpIsLive
<1>5. CASE ipMemory' = r
  <2> SUFFICES ASSUME r # NoStack, i # 0, mappings[1].start = mappings[1].from
               PROVE  /\ r.start <= ip /\ ip < r.start + r.len
                      /\ r.start + r.len <= mappings[i].to
                      /\ mappings[i].start <= r.start
    BY <1>1, <1>3, <1>5 DEF IpIsLive
  <2>1. i \in DOMAIN mappings /\ Contains(i, ip)
    BY <1>1, <1>2, FoundNoBias
  <2>2. FindMapping(ip) = i
    BY <1>1, <2>1, FoundByRange
  <2> DEFINE m == mappings[i]
             first == Greater(m.start, ip - IPHalf)
             after == Lesser(End(m), ip + IPHalf)
  <2>3. r = [thread |-> input.crashed, start |-> first, len |-> after - first]
    BY <2>2 DEF IpRange
  <2> HIDE DEF ip, i
  <2>4. m \in Mapping /\ Paged(m) /\ m.from <= ip /\ ip < m.to
    BY <1>2, <2>1 DEF Contains
  <2> HIDE DEF m
  <2>5. /\ m.start \in Nat /\ m.from \in Nat /\ m.to \in Nat /\ m.to < Space
        /\ m.start <= m.from /\ m.size = m.to - m.start /\ Space \in Nat
    BY <2>4, DumperAssumption DEF Mapping, Paged
  <2>6. End(m) = m.to
    <3>1. m.start + m.size = m.to /\ m.to \in 0 .. Space - 1
      BY <2>5
    <3> QED
      BY <2>5, <3>1 DEF End
  <2>7. IPHalf \in Nat \ {0}
    BY DumperAssumption
  <2>8. first \in Int /\ after \in Int /\ first <= ip /\ ip < after /\ after <= m.to /\ m.start <= first
    BY <1>1, <2>4, <2>5, <2>6, <2>7 DEF Greater, Lesser
  <2> HIDE DEF first, after
  <2> QED
    BY <1>1, <2>3, <2>5, <2>8 DEF m
<1> QED
  BY <1>1, <1>4, <1>5

\* The steps that write no thread.
LEMMA KeepsStacks ==
  ASSUME ListInv, Next, ~WriteThread
  PROVE  \/ stack' = NoStack /\ ipMemory' = NoStack
         \/ UNCHANGED <<input, mappings, stack, ipMemory>>
BY DEF Next, ReadAuxEntry, AuxvRead, ReadLine, EntryFirst, LatePostprocess, LateInitDone,
       WriteMappings, ListInv, Shape

LEMMA LiveStep ==
  ASSUME NoneIsMovedUp, ListInv, StackIsLive, IpIsLive,
         Next \/ UNCHANGED <<input, mappings, stack, ipMemory>>
  PROVE  StackIsLive' /\ IpIsLive'
<1>1. ASSUME UNCHANGED <<input, mappings, stack, ipMemory>> PROVE StackIsLive' /\ IpIsLive'
  BY <1>1 DEF StackIsLive, IpIsLive, FindMappingNoBias, Registers, Limited
<1>2. ASSUME stack' = NoStack, ipMemory' = NoStack PROVE StackIsLive' /\ IpIsLive'
  BY <1>2 DEF StackIsLive, IpIsLive
<1>3. CASE WriteThread
  BY <1>3, StackLive, IpLive
<1> QED
  BY <1>1, <1>2, <1>3, KeepsStacks

\* However far libraries are moved down over others: what is copied of the stack of a
\* thread is memory of the mapping the stack pointer is in and reaches it, or ends at
\* it where the stacks are limited; what is copied around the instruction pointer has
\* it inside and stays in the moved range of its mapping.  Both unless the main
\* program, the first mapping, was itself moved.
THEOREM CapturesTheorem == ASSUME NoneIsMovedUp PROVE Spec => []CapturesAreLive
<1> DEFINE Live == StackIsLive /\ IpIsLive
<1>1. Init => Live
  BY DEF Init, StackIsLive, IpIsLive
<1>2. ListInv /\ Live /\ [Next]_vars => Live'
  BY LiveStep DEF vars
<1>3. Live => CapturesAreLive
  BY DEF StackIsLive, IpIsLive, CapturesAreLive
<1> QED
  BY <1>1, <1>2, <1>3, ListAlways, PTL DEF Spec
-----------------------------------------------------------------------------
(* What SanitizeStackCopy leaves.                                            *)

Executable == {i \in DOMAIN mappings : mappings[i].exec}

\* What the list says while threads are written.
LEMMA ListFacts ==
  ASSUME ListInv, phase = "threads"
  PROVE  /\ mappings \in Seq(Mapping) /\ Apart /\ Covers(LinesRead) /\ input \in Inputs
         /\ \A i \in DOMAIN mappings :
              /\ mappings[i] \in Mapping /\ Paged(mappings[i]) /\ Alone(mappings[i], LinesRead)
              /\ i \in Nat \ {0} /\ mappings[i].from \in Nat /\ mappings[i].to \in Nat
<1>1. /\ mappings \in Seq(Mapping) /\ Apart /\ Covers(LinesRead) /\ input \in Inputs
      /\ \A i \in DOMAIN mappings : Paged(mappings[i]) /\ Alone(mappings[i], LinesRead)
  BY DEF ListInv, IInv, Shape
<1>2. ASSUME NEW i \in DOMAIN mappings
      PROVE  /\ mappings[i] \in Mapping /\ i \in Nat \ {0}
             /\ mappings[i].from \in Nat /\ mappings[i].to \in Nat
  <2>1. mappings[i] \in Mapping /\ i \in Nat \ {0}
    BY <1>1
  <2> QED
    BY <2>1 DEF Mapping
<1> QED
  BY <1>1, <1>2

\* The mapping a word is found to hit is executable, and holds it.
LEMMA HitFacts ==
  ASSUME ListInv, phase = "threads", NEW a \in Nat
  PROVE  /\ Hit(a) # 0 => Hit(a) \in Executable /\ Contains(Hit(a), a)
         /\ \A last \in {0} \cup Executable : \A sp : NextHit(last, a, sp) \in {0} \cup Executable
<1>1. Hit(a) = 0 \/ (Hit(a) = FindMappingNoBias(a) /\ mappings[FindMappingNoBias(a)].exec)
  BY DEF Hit
<1>2. Hit(a) # 0 => Hit(a) \in Executable /\ Contains(Hit(a), a)
  BY <1>1, ListFacts, FoundNoBias DEF Executable
<1> QED
  BY <1>2 DEF NextHit

\* last_hit_mapping is none or executable.
LEMMA LastHitFacts ==
  ASSUME ListInv, phase = "threads", NEW words \in Seq(Nat), NEW first \in Nat \ {0}, NEW sp
  PROVE  \A j \in 0 .. Len(words) : LastHit(words, first, sp)[j] \in {0} \cup Executable
<1> DEFINE L == Len(words)
           V == {0} \cup Executable
           G == [k \in 1 .. L |-> [v \in V |-> IF k < first THEN 0 ELSE NextHit(v, words[k], sp)]]
           Step(g) == [j \in 0 .. L |-> IF j < first THEN 0 ELSE NextHit(g[j - 1], words[j], sp)]
           f == CHOOSE g : g = Step(g)
           z == 0
<1>1. L \in Nat /\ \A k \in 1 .. L : words[k] \in Nat
  OBVIOUS
<1>2. LastHit(words, first, sp) = f
  BY DEF LastHit
<1>3. \A k \in 1 .. L : \A v \in V : (IF k < first THEN 0 ELSE NextHit(v, words[k], sp)) \in V
  BY <1>1, HitFacts
<1> HIDE DEF L, f
<1>4. PICK h \in [0 .. L -> V] : h[0] = z /\ \A k \in 1 .. L : h[k] = G[k][h[k - 1]]
  <2>1. z \in V /\ G \in [1 .. L -> [V -> V]] /\ L \in Nat
    BY <1>1, <1>3
  <2> HIDE DEF G, V, z
  <2>2. \E h : Run(h, V, z, L, G)
    BY <2>1, Iterates
  <2> QED
    BY <2>2 DEF Run
<1>5. h = Step(h)
  <2>1. ASSUME NEW j \in 0 .. L PROVE h[j] = IF j < first THEN 0 ELSE NextHit(h[j - 1], words[j], sp)
    <3>1. CASE j = 0
      BY <1>4, <3>1
    <3>2. CASE j # 0
      <4>1. j \in 1 .. L /\ j - 1 \in 0 .. L
        BY <1>1, <3>2
      <4>2. h[j - 1] \in V
        BY <4>1
      <4> HIDE DEF V
      <4> QED
        BY <1>4, <4>1, <4>2
    <3> QED
      BY <3>1, <3>2
  <2> HIDE DEF V
  <2>2. h = [j \in 0 .. L |-> h[j]]
    OBVIOUS
  <2> QED
    BY <2>1, <2>2
<1>6. f = Step(f)
  <2> HIDE DEF Step
  <2> QED
    BY <1>5 DEF f
<1>7. \A j \in 0 .. L : f[j] = IF j < first THEN 0 ELSE NextHit(f[j - 1], words[j], sp)
  <2>1. \A j \in 0 .. L : f[j] = Step(f)[j]
    BY <1>6, Zenon
  <2> QED
    BY <2>1
<1> HIDE DEF G, Step, z
<1> DEFINE S == {j \in Nat : j <= L => f[j] \in V}
<1>8. 0 \in S
  <2>1. 0 \in 0 .. L /\ 0 < first
    BY <1>1
  <2>2. f[0] = 0
    BY <1>7, <2>1
  <2> QED
    BY <2>2
<1>9. ASSUME NEW j \in S PROVE j + 1 \in S
  <2> SUFFICES ASSUME j + 1 <= L PROVE f[j + 1] \in V
    OBVIOUS
  <2>1. j + 1 \in 0 .. L /\ j + 1 \in 1 .. L /\ (j + 1) - 1 = j /\ f[j] \in V
    BY <1>1
  <2>2. f[j + 1] = IF j + 1 < first THEN 0 ELSE NextHit(f[j], words[j + 1], sp)
    BY <1>7, <2>1
  <2>3. words[j + 1] \in Nat
    BY <1>1, <2>1
  <2>4. NextHit(f[j], words[j + 1], sp) \in V
    BY <2>1, <2>3, HitFacts
  <2> QED
    BY <2>2, <2>4
<1>10. S = Nat
  <2>1. S \in SUBSET Nat
    OBVIOUS
  <2> HIDE DEF S
  <2> QED
    BY <1>8, <1>9, <2>1, SetInduction
<1>11. ASSUME NEW j \in 0 .. L PROVE f[j] \in V
  <2>1. j \in Nat /\ j <= L
    BY <1>1
  <2>2. j \in S
    BY <1>10, <2>1
  <2> QED
    BY <2>1, <2>2
<1> QED
  BY <1>2, <1>11 DEF L

\* A word that points into a line that is executable, or the stack's.
LEMMA KeptWord ==
  ASSUME ListInv, phase = "threads", NoneIsMovedUp, NEW sp \in Nat, NEW w \in Nat,
         NEW k \in LinesRead, InLine(w, k), input.maps[k].exec \/ InLine(sp, k)
  PROVE  Contains(FindMappingNoBias(sp), w) \/ Hit(w) # 0
<1>1. PICK i \in DOMAIN mappings : Holds(mappings[i], k)
  BY ListFacts DEF Covers
<1>2. /\ i \in Nat \ {0} /\ mappings[i].from \in Nat /\ mappings[i].to \in Nat
      /\ mappings[i] \in Mapping /\ Paged(mappings[i])
  BY ListFacts
<1>3. input.maps[k].start \in Nat /\ input.maps[k].end \in Nat
  <2>1. input.maps[k] \in Line
    BY ListFacts, FileFacts DEF LinesRead
  <2>2. input.maps[k].start \in 0 .. Space - 1 /\ input.maps[k].end \in 0 .. Space - 1
    BY <2>1, Zenon DEF Line
  <2> QED
    BY <2>2, DumperAssumption
<1>4. ASSUME NEW a \in Nat, InLine(a, k) PROVE Contains(i, a) /\ FindMappingNoBias(a) = i
  <2>1. Contains(i, a)
    BY <1>1, <1>2, <1>3, <1>4 DEF Holds, InLine, Contains
  <2> QED
    BY <2>1, ListFacts, FoundNoBias
<1>5. CASE InLine(sp, k)
  BY <1>4, <1>5
<1>6. CASE input.maps[k].exec
  <2>1. mappings[i].exec /\ FindMappingNoBias(w) = i /\ Contains(i, w)
    BY <1>1, <1>4, <1>6 DEF Holds
  <2>2. /\ mappings[i].start \in Nat /\ mappings[i].start <= mappings[i].from
        /\ mappings[i].start + mappings[i].size = mappings[i].to
        /\ mappings[i].to < Space /\ Space \in Nat \ {0}
    BY <1>2, DumperAssumption DEF Mapping, Paged
  <2>3. End(mappings[i]) = mappings[i].to
    BY <1>2, <2>2 DEF End
  <2>4. BucketSize \in Nat \ {0}
    BY DumperAssumption
  <2>5. mappings[i].start <= w /\ w <= End(mappings[i])
    BY <1>2, <2>1, <2>2, <2>3 DEF Contains
  <2>6. /\ mappings[i].start \div BucketSize <= w \div BucketSize
        /\ w \div BucketSize <= End(mappings[i]) \div BucketSize
    BY <1>2, <2>2, <2>3, <2>4, <2>5
  <2>7. w \div BucketSize \in
          (mappings[i].start \div BucketSize) .. (End(mappings[i]) \div BucketSize)
    BY <1>2, <2>2, <2>3, <2>4, <2>6
  <2>8. (w \div BucketSize) % Buckets \in CouldHit
    BY <2>1, <2>7, Zenon DEF CouldHit
  <2> QED
    BY <1>2, <2>1, <2>8 DEF Hit
<1> QED
  BY <1>5, <1>6

\* A word that points to anonymous data other than the stack, or nowhere.
LEMMA DefacedWord ==
  ASSUME ListInv, phase = "threads", NEW sp \in Nat, NEW w \in Nat,
         \A k \in LinesRead : InLine(w, k) =>
           ~input.maps[k].exec /\ input.maps[k].path = NoName /\ ~InLine(sp, k)
  PROVE  /\ ~Contains(FindMappingNoBias(sp), w)
         /\ Hit(w) = 0
         /\ \A i \in {0} \cup Executable : ~Contains(i, w)
<1>1. ASSUME NEW i \in DOMAIN mappings, Contains(i, w)
      PROVE  ~mappings[i].exec /\ ~Contains(i, sp)
  <2>1. /\ mappings[i].from \in Nat /\ mappings[i].to \in Nat
        /\ mappings[i].from <= w /\ w < mappings[i].to /\ Alone(mappings[i], LinesRead)
    BY <1>1, ListFacts DEF Contains
  <2>2. w \in mappings[i].from .. mappings[i].to - 1
    BY <2>1
  <2>3. PICK k \in LinesRead : Backs(k, w, mappings[i].name)
    BY <2>2, ListFacts DEF Covers
  <2>4. mappings[i].name \in {Gate, NoName}
    BY <2>3 DEF Backs
  <2>5. PICK l \in LinesRead :
          /\ mappings[i].from = input.maps[l].start /\ mappings[i].to = input.maps[l].end
          /\ mappings[i].exec <=> input.maps[l].exec
    BY <2>1, <2>4 DEF Alone
  <2>6. InLine(w, l)
    BY <2>1, <2>5 DEF InLine
  <2>7. ~input.maps[l].exec /\ ~InLine(sp, l)
    BY <2>6
  <2> QED
    BY <2>5, <2>7 DEF Contains, InLine
<1>2. ~Contains(FindMappingNoBias(sp), w)
  <2>1. ASSUME Contains(FindMappingNoBias(sp), w) PROVE FALSE
    <3>1. FindMappingNoBias(sp) # 0
      BY <2>1 DEF Contains
    <3>2. FindMappingNoBias(sp) \in DOMAIN mappings /\ Contains(FindMappingNoBias(sp), sp)
      BY <3>1, ListFacts, FoundNoBias
    <3> QED
      BY <1>1, <2>1, <3>2
  <2> QED
    BY <2>1
<1>3. \A i \in {0} \cup Executable : ~Contains(i, w)
  <2>1. ~Contains(0, w)
    BY DEF Contains
  <2> QED
    BY <1>1, <2>1 DEF Executable
<1>4. Hit(w) = 0
  BY <1>3, HitFacts
<1> QED
  BY <1>2, <1>3, <1>4

\* SanitizeStackCopy, word by word.
LEMMA SanitizedFacts ==
  ASSUME ListInv, phase = "threads", NEW words \in Seq(Nat), NEW first \in Nat \ {0}, NEW sp \in Nat,
         NEW s, s = Sanitized(words, first, sp)
  PROVE  /\ DOMAIN s = DOMAIN words
         /\ \A j \in DOMAIN words :
              /\ j < first => s[j] = 0
              /\ j >= first /\ (\/ Small(words[j]) \/ Contains(FindMappingNoBias(sp), words[j])
                                \/ Hit(words[j]) # 0)
                   => s[j] = words[j]
              /\ j >= first /\ ~Small(words[j]) /\ ~Contains(FindMappingNoBias(sp), words[j])
                 /\ Hit(words[j]) = 0 /\ (\A i \in {0} \cup Executable : ~Contains(i, words[j]))
                   => s[j] = Defaced
<1> DEFINE last == LastHit(words, first, sp)
<1>1. s = [j \in DOMAIN words |->
             IF j < first THEN 0
             ELSE IF Plain(words[j], sp, last[j - 1]) \/ Hit(words[j]) # 0 THEN words[j]
             ELSE Defaced]
  BY DEF Sanitized
<1>2. ASSUME NEW j \in DOMAIN words
      PROVE  last[j - 1] \in {0} \cup Executable /\ j \in Nat
  <2>1. j - 1 \in 0 .. Len(words) /\ j \in Nat
    OBVIOUS
  <2> QED
    BY <2>1, LastHitFacts
<1> HIDE DEF last
<1>3. ASSUME NEW j \in DOMAIN words
      PROVE  s[j] = IF j < first THEN 0
                    ELSE IF Plain(words[j], sp, last[j - 1]) \/ Hit(words[j]) # 0 THEN words[j]
                    ELSE Defaced
  BY <1>1
<1>4. DOMAIN s = DOMAIN words
  BY <1>1
<1>5. ASSUME NEW j \in DOMAIN words
      PROVE  Plain(words[j], sp, last[j - 1]) <=>
               \/ Small(words[j]) \/ Contains(FindMappingNoBias(sp), words[j])
               \/ Contains(last[j - 1], words[j])
  BY DEF Plain
<1>6. \A j \in DOMAIN words : j >= first => ~(j < first)
  BY <1>2
<1> QED
  BY <1>2, <1>3, <1>4, <1>5, <1>6, Zenon

\* What is copied for a thread are words of the process, and the stack pointer is not
\* below them.
LEMMA CopyFacts ==
  ASSUME ListInv, phase = "threads", NEW sp \in Nat, NEW limited, FindMapping(PageOf(sp)) # 0,
         NEW c, c = Capture(sp, limited)
  PROVE  /\ c.start \in Nat /\ c.start <= sp /\ c.len \in Nat
         /\ Copied(c) \in Seq(Nat)
         /\ \A j \in DOMAIN Copied(c) : Copied(c)[j] \in 0 .. Space - 1
<1> DEFINE p == PageOf(sp)
           i == FindMapping(p)
           found == {j \in DOMAIN mappings : mappings[j].start <= p /\ p - mappings[j].start < mappings[j].size}
           len == StackLen(i, sp)
<1>1. p \in Nat /\ p <= sp
  BY PageFacts
<1>2. i \in DOMAIN mappings /\ mappings[i].start <= p /\ p - mappings[i].start < mappings[i].size
  <2>1. found \in SUBSET Nat
    BY ListFacts
  <2>2. i = Least(found) /\ found # {}
    BY DEF FindMapping
  <2> HIDE DEF found
  <2>3. i \in found
    BY <2>1, <2>2, LeastIsIn
  <2> QED
    BY <2>3 DEF found
<1>3. len = Lesser(StackToCapture, mappings[i].size - (p - mappings[i].start))
  BY DEF StackLen
<1> HIDE DEF i, p, len
<1>4. mappings[i].start \in Nat /\ mappings[i].size \in Nat
  <2>1. mappings[i] \in Mapping
    BY <1>2, ListFacts
  <2> QED
    BY <2>1 DEF Mapping
<1>5. len \in Nat
  <2>1. StackToCapture \in Nat
    BY DumperAssumption
  <2> QED
    BY <1>1, <1>2, <1>3, <1>4, <2>1 DEF Lesser
<1>6. \/ c = [start |-> Chunk(sp), len |-> ExtraLen]
      \/ c = [start |-> p, len |-> len]
  BY DEF Capture, p, i, len
<1>7. c.start \in Nat /\ c.start <= sp /\ c.len \in Nat
  <2>1. ExtraLen \in Nat /\ Chunk(sp) \in Nat /\ Chunk(sp) <= sp
    BY ChunkFacts, DumperAssumption
  <2> QED
    BY <1>1, <1>5, <1>6, <2>1
<1>8. Copied(c) \in Seq(Nat) /\ \A j \in DOMAIN Copied(c) : Copied(c)[j] \in 0 .. Space - 1
  <2> DEFINE M == 0 .. Space - 1
             L == Len(input.memory)
             a == c.start \div Word
             m == c.len \div Word
  <2>1. input.memory \in Seq(M) /\ input.memory # <<>>
    BY ListFacts, FileFacts DEF Process
  <2>2. \A x \in M : x \in Nat
    BY DumperAssumption
  <2>3. Word \in Nat \ {0}
    BY DumperAssumption
  <2>4. a \in Nat /\ m \in Nat
    BY <1>7, <2>3
  <2> HIDE DEF M
  <2>5. L \in Nat \ {0} /\ \A k \in 1 .. L : input.memory[k] \in M
    BY <2>1
  <2>6. Copied(c) = [j \in 1 .. m |-> input.memory[((a + j - 1) % L) + 1]]
    BY DEF Copied
  <2> HIDE DEF a, m, L
  <2>7. ASSUME NEW j \in 1 .. m PROVE input.memory[((a + j - 1) % L) + 1] \in M
    <3>1. a + j - 1 \in Int
      BY <2>4
    <3>2. ((a + j - 1) % L) + 1 \in 1 .. L
      BY <2>5, <3>1
    <3> QED
      BY <2>5, <3>2
  <2>8. DOMAIN Copied(c) = 1 .. m /\ \A j \in 1 .. m : Copied(c)[j] \in M
    BY <2>6, <2>7
  <2>9. Copied(c) \in Seq(Nat)
    <3>1. ASSUME NEW j \in 1 .. m PROVE input.memory[((a + j - 1) % L) + 1] \in Nat
      BY <2>2, <2>7
    <3> QED
      BY <2>4, <2>6, <3>1
  <2> QED
    BY <2>8, <2>9 DEF M
<1> QED
  BY <1>7, <1>8

LEMMA FirstWordFacts ==
  ASSUME NEW sp \in Nat, NEW start \in Nat, start <= sp
  PROVE  \A c : c.start = start => FirstWord(c, sp) \in Nat \ {0}
<1>1. Word \in Nat \ {0}
  BY DumperAssumption
<1>2. sp - start + Word - 1 \in Nat
  BY <1>1
<1>3. (sp - start + Word - 1) \div Word + 1 \in Nat \ {0}
  BY <1>1, <1>2
<1> QED
  BY <1>3 DEF FirstWord

LEMMA SanitizedThread ==
  ASSUME ListInv, NoneIsMovedUp, WriteThread
  PROVE  SanitizedKeepsPointersOnly'
<1> DEFINE sp == Registers(n).sp
           c == Capture(sp, Limited(n))
           words == Copied(c)
           first == FirstWord(c, sp)
           s == Sanitized(words, first, sp)
           Data(k) == ~input.maps[k].exec /\ input.maps[k].path = NoName /\ ~InLine(sp, k)
<1>1. /\ phase = "threads" /\ UNCHANGED <<input, mappings>> /\ n \in 1 .. Len(input.threads)
      /\ stack' = StackOf(n) /\ sp \in Nat
  BY WriteThreadFacts
<1>2. n \in Nat \ {0}
  BY <1>1 DEF ListInv, IInv
<1>3. CASE stack' = NoStack
  BY <1>3 DEF SanitizedKeepsPointersOnly
<1>4. CASE stack' # NoStack /\ ~input.sanitize
  BY <1>1, <1>4 DEF SanitizedKeepsPointersOnly
<1>5. CASE stack' # NoStack /\ input.sanitize
  <2>1. /\ stack'.thread = n /\ stack'.start = c.start /\ stack'.raw = words
        /\ stack'.words = s
    BY <1>1, <1>5, StackFacts
  <2>2. FindMapping(PageOf(sp)) # 0
    BY <1>1, <1>5 DEF StackOf
  <2> HIDE DEF sp, c
  <2>3. c.start \in Nat /\ c.start <= sp /\ c.len \in Nat /\ words \in Seq(Nat)
    BY <1>1, <2>2, CopyFacts DEF c
  <2>4. first \in Nat \ {0} /\ first = FirstWord([start |-> c.start], sp)
    <3>1. first \in Nat \ {0}
      BY <1>1, <2>3, FirstWordFacts
    <3> QED
      BY <3>1 DEF FirstWord
  <2> HIDE DEF words, first
  <2>5. /\ DOMAIN s = DOMAIN words
        /\ \A j \in DOMAIN words :
              /\ j < first => s[j] = 0
              /\ j >= first /\ (\/ Small(words[j]) \/ Contains(FindMappingNoBias(sp), words[j])
                                \/ Hit(words[j]) # 0)
                   => s[j] = words[j]
              /\ j >= first /\ ~Small(words[j]) /\ ~Contains(FindMappingNoBias(sp), words[j])
                 /\ Hit(words[j]) = 0 /\ (\A i \in {0} \cup Executable : ~Contains(i, words[j]))
                   => s[j] = Defaced
    BY <1>1, <2>3, <2>4, SanitizedFacts
  <2> HIDE DEF s
  <2>6. ASSUME NEW j \in DOMAIN words
        PROVE  LET w == words[j] IN
               /\ j < first => s[j] = 0
               /\ j >= first /\ (\/ Small(w)
                                 \/ \E k \in LinesRead : InLine(w, k) /\ (input.maps[k].exec \/ InLine(sp, k)))
                    => s[j] = w
               /\ j >= first /\ ~Small(w) /\ (\A k \in LinesRead : InLine(w, k) => Data(k))
                    => s[j] = Defaced
    <3>1. words[j] \in Nat
      BY <2>3
    <3>2. ASSUME NEW k \in LinesRead, InLine(words[j], k), input.maps[k].exec \/ InLine(sp, k)
          PROVE  Contains(FindMappingNoBias(sp), words[j]) \/ Hit(words[j]) # 0
      BY <1>1, <3>1, <3>2, KeptWord
    <3>3. ASSUME \A k \in LinesRead : InLine(words[j], k) => Data(k)
          PROVE  /\ ~Contains(FindMappingNoBias(sp), words[j])
                 /\ Hit(words[j]) = 0
                 /\ \A i \in {0} \cup Executable : ~Contains(i, words[j])
      BY <1>1, <3>1, <3>3, DefacedWord
    <3> HIDE DEF Data
    <3> QED
      BY <2>5, <3>2, <3>3, Zenon
  <2>7. ASSUME NEW t PROVE Registers(t)' = Registers(t)
    BY <1>1 DEF Registers
  <2>8. ASSUME NEW k PROVE input.maps[k]' = input.maps[k]
    BY <1>1
  <2>9. LinesRead' = LinesRead /\ input'.maps = input.maps
    BY <1>1 DEF LinesRead
  <2>10. ASSUME NEW a, NEW k PROVE InLine(a, k)' <=> InLine(a, k)
    BY <1>1 DEF InLine
  <2>11. /\ stack'.raw = words /\ stack'.words = s /\ first = FirstWord([start |-> stack'.start], sp)
         /\ stack'.thread = n
    BY <2>1, <2>4
  <2>12. ASSUME NEW t, t = stack'.thread PROVE Registers(t)'.sp = sp
    BY <2>7, <2>11, <2>12 DEF sp
  <2> DEFINE Kept(w) ==
               \/ Small(w)
               \/ \E k \in LinesRead : InLine(w, k) /\ (input.maps[k].exec \/ InLine(sp, k))
             Lost(w) == \A k \in LinesRead : InLine(w, k) => Data(k)
  <2> SUFFICES ASSUME NEW t, t = stack'.thread,
                      NEW j \in DOMAIN words
               PROVE  LET w == words[j] IN
                      /\ j < first => s[j] = 0
                      /\ j >= first /\ Kept(w) => s[j] = w
                      /\ j >= first /\ ~Small(w) /\ Lost(w) => s[j] = Defaced
    BY <2>7, <2>9, <2>10, <2>11, <2>12 DEF SanitizedKeepsPointersOnly
  <2> QED
    BY <2>6
<1> QED
  BY <1>3, <1>4, <1>5

LEMMA SanitizedStep ==
  ASSUME NoneIsMovedUp, ListInv, SanitizedKeepsPointersOnly,
         Next \/ UNCHANGED <<input, mappings, stack, ipMemory>>
  PROVE  SanitizedKeepsPointersOnly'
<1>1. ASSUME UNCHANGED <<input, mappings, stack, ipMemory>> PROVE SanitizedKeepsPointersOnly'
  BY <1>1 DEF SanitizedKeepsPointersOnly, Registers, LinesRead, InLine
<1>2. stack' = NoStack => SanitizedKeepsPointersOnly'
  BY DEF SanitizedKeepsPointersOnly
<1> QED
  BY <1>1, <1>2, KeepsStacks, SanitizedThread

\* With its cache of the last hit, its test bits and the ranges that were moved,
\* SanitizeStackCopy keeps of every stack what the maps file calls code or the stack
\* itself, defaces what points to other anonymous data, and clears what is below.
THEOREM SanitizedTheorem == ASSUME NoneIsMovedUp PROVE Spec => []SanitizedKeepsPointersOnly
<1>1. Init => SanitizedKeepsPointersOnly
  BY DEF Init, SanitizedKeepsPointersOnly
<1>2. ListInv /\ SanitizedKeepsPointersOnly /\ [Next]_vars => SanitizedKeepsPointersOnly'
  BY SanitizedStep DEF vars
<1> QED
  BY <1>1, <1>2, ListAlways, PTL DEF Spec
=============================================================================
