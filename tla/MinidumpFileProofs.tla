-------------------------- MODULE MinidumpFileProofs --------------------------
(* Lemmas about MinidumpFile: what its operators keep, and the sizes of its   *)
(* strings, for any page size and build.                                       *)
EXTENDS MinidumpFile, FiniteSetTheorems, TLAPS

Fields ==
  {"fd", "owned", "bypass", "full", "position", "size", "offset", "blocks", "writes"}

\* A file whose blocks are disjoint and lie in it.
Sound(f) ==
  /\ DOMAIN f = Fields
  /\ f = [x \in Fields |-> f[x]]
  /\ f.position \in Nat
  /\ f.size \in Nat
  /\ f.blocks \subseteq Block
  /\ BlocksAreDisjoint(f)
---------------------------------------------------------------------------
(* The operators of MinidumpFile keep a file sound.                          *)

LEMMA AlignedIsEnough ==
  ASSUME NEW n \in Nat
  PROVE  Aligned(n) \in Nat /\ Aligned(n) >= n
BY SMT DEF Aligned

\* Allocate: the new block begins where the last one ended and is made room for.
LEMMA AllocateSound ==
  ASSUME NEW f, Sound(f), NEW n \in Nat \ {0}
  PROVE  Sound(Allocate(f, n))
<1> DEFINE g == Allocate(f, n)
<1>1. Aligned(n) \in Nat /\ Aligned(n) >= n
  BY AlignedIsEnough
<1>2. Page \in Nat \ {0}
  BY FileAssumption
<1>3. Taken(f, n) \in Nat /\ Taken(f, n) >= n
  BY <1>1 DEF Taken
<1>4. Growth(f, n) \in Nat /\ f.position + Taken(f, n) <= f.size + Growth(f, n)
  BY <1>1, <1>2, SMT DEF Growth, Grows, Taken, Sound, BlocksAreDisjoint
<1>5. /\ g.position = f.position + Taken(f, n)
      /\ g.size = f.size + Growth(f, n)
      /\ g.blocks = f.blocks \cup {NewBlock(f, n)}
      /\ DOMAIN g = Fields
      /\ g = [x \in Fields |-> g[x]]
  BY DEF Allocate, Sound, Fields
<1>6. NewBlock(f, n) \in Block /\ NewBlock(f, n).at = f.position /\ NewBlock(f, n).len = n
  BY DEF NewBlock, Sound, Block
<1> HIDE DEF g
<1>7. \A b \in g.blocks : End(b) <= g.position
  BY <1>3, <1>5, <1>6, SMT DEF Sound, BlocksAreDisjoint, End, Block
<1>8. \A b, c \in g.blocks : b # c => Apart(b, c)
  BY <1>3, <1>5, <1>6, SMT DEF Sound, BlocksAreDisjoint, End, Block, Apart
<1>9. g.position \in Nat /\ g.size \in Nat /\ g.blocks \subseteq Block /\ g.position <= g.size
  BY <1>3, <1>4, <1>5, <1>6 DEF Sound
<1>10. Sound(g)
  BY <1>5, <1>7, <1>8, <1>9 DEF Sound, BlocksAreDisjoint
<1> QED
  BY <1>10 DEF g

\* Sound does not look at what is written, nor at the descriptor.
LEMMA SameBlocksSound ==
  ASSUME NEW f, Sound(f), NEW g, DOMAIN g = Fields, g = [x \in Fields |-> g[x]],
         g.position = f.position, g.size = f.size, g.blocks = f.blocks
  PROVE  Sound(g)
BY DEF Sound, BlocksAreDisjoint

LEMMA CopySound ==
  ASSUME NEW f, Sound(f), NEW b, NEW at, NEW len
  PROVE  Sound(Copy(f, b, at, len))
<1>1. CASE Copies(f, at, len)
  <2> DEFINE g == [f EXCEPT !.offset = at + len,
                     !.writes = @ \cup {[block |-> b.at, at |-> at, len |-> len]}]
  <2>1. Copy(f, b, at, len) = g
    BY <1>1 DEF Copy
  <2>2. DOMAIN g = Fields /\ g = [x \in Fields |-> g[x]]
    BY DEF Sound, Fields
  <2>3. g.position = f.position /\ g.size = f.size /\ g.blocks = f.blocks
    BY DEF Sound, Fields
  <2> HIDE DEF g
  <2> QED
    BY <2>1, <2>2, <2>3, SameBlocksSound
<1>2. CASE ~Copies(f, at, len)
  BY <1>2 DEF Copy
<1> QED
  BY <1>1, <1>2

LEMMA FlushLostSound ==
  ASSUME NEW f, Sound(f), NEW object
  PROVE  Sound(FlushLost(f, object))
<1> DEFINE g == [f EXCEPT !.offset = @ + object,
                   !.writes = @ \cup {[block |-> f.position, at |-> f.offset, len |-> object]}]
<1>1. DOMAIN g = Fields /\ g = [x \in Fields |-> g[x]]
  BY DEF Sound, Fields
<1>2. g.position = f.position /\ g.size = f.size /\ g.blocks = f.blocks
  BY DEF Sound, Fields
<1>3. FlushLost(f, object) \in {f, g}
  BY DEF FlushLost
<1> HIDE DEF g
<1> QED
  BY <1>1, <1>2, <1>3, SameBlocksSound

LEMMA WriteStringSound ==
  ASSUME NEW f, Sound(f), NEW b, NEW s
  PROVE  Sound(WriteString(f, b, s))
<1> DEFINE chars == {CharWrite(b, s, k) : k \in Copied(f, b, s)}
           last  == IF CanWriteString(f, b, s) THEN {EndWrite(b, s)} ELSE {}
           g == [f EXCEPT !.writes = @ \cup chars \cup last]
<1>1. DOMAIN g = Fields /\ g = [x \in Fields |-> g[x]]
  BY DEF Sound, Fields
<1>2. g.position = f.position /\ g.size = f.size /\ g.blocks = f.blocks
  BY DEF Sound, Fields
<1>3. WriteString(f, b, s) = Copy(g, b, b.at, Word)
  BY DEF WriteString
<1> HIDE DEF g
<1>4. Sound(g)
  BY <1>1, <1>2, SameBlocksSound
<1> QED
  BY <1>3, <1>4, CopySound

LEMMA ClosedSound ==
  ASSUME NEW f, Sound(f), NEW truncates
  PROVE  Sound(Closed(f, truncates))
<1> DEFINE g == [f EXCEPT !.fd = "closed"]
<1>1. DOMAIN g = Fields /\ g = [x \in Fields |-> g[x]]
  BY DEF Sound, Fields
<1>2. g.position = f.position /\ g.size = f.size /\ g.blocks = f.blocks
  BY DEF Sound, Fields
<1>3. Closed(f, truncates) \in {f, g}
  BY DEF Closed
<1> HIDE DEF g
<1> QED
  BY <1>1, <1>2, <1>3, SameBlocksSound
---------------------------------------------------------------------------
(* The sums over a string.  A set of numbers that holds 0 and, of each of its  *)
(* members, the successor holds every number.                                 *)
LEMMA SetInduction ==
  ASSUME NEW S \in SUBSET Nat, 0 \in S, \A k \in S : k + 1 \in S
  PROVE  S = Nat
<1> SUFFICES ASSUME NEW m \in Nat, m \notin S PROVE FALSE
  OBVIOUS
<1> DEFINE T == {k \in S : k < m}
           f == [k \in T |-> k + 1]
<1>1. IsFiniteSet(T)
  <2>1. T \in SUBSET Nat
    OBVIOUS
  <2>2. \A k \in T : k <= m
    OBVIOUS
  <2> QED
    BY <2>1, <2>2, FS_BoundedSetOfNaturals
<1>2. \A k \in T : k + 1 \in T
  OBVIOUS
<1>3. f \in Injection(T, T)
  <2>1. f \in [T -> T]
    BY <1>2, Zenon
  <2>2. \A j, k \in T : f[j] = f[k] => j = k
    OBVIOUS
  <2> HIDE DEF f, T
  <2> QED
    BY <2>1, <2>2 DEF Injection, IsInjective
<1>4. f \in Surjection(T, T)
  <2> HIDE DEF f
  <2> QED
    BY <1>1, <1>3, FS_Injection
<1>5. 0 \in T
  OBVIOUS
<1>6. PICK k \in T : f[k] = 0
  BY <1>4, <1>5 DEF Surjection
<1> QED
  BY <1>6

\* A sum of n numbers, as the recursive function that MinidumpFile takes it for.
IsSum(f, n, w) == f[0] = 0 /\ \A k \in 1 .. n : f[k] = f[k - 1] + w[k]

LEMMA SumExists ==
  ASSUME NEW n \in Nat, NEW w \in [1 .. n -> Nat]
  PROVE  \E f \in [0 .. n -> Nat] : IsSum(f, n, w)
<1> DEFINE S == {m \in Nat : m <= n => \E f \in [0 .. m -> Nat] : IsSum(f, m, w)}
<1>1. 0 \in S
  <2>1. [k \in 0 .. 0 |-> 0] \in [0 .. 0 -> Nat] /\ IsSum([k \in 0 .. 0 |-> 0], 0, w)
    BY DEF IsSum
  <2> QED
    BY <2>1
<1>2. ASSUME NEW m \in S PROVE m + 1 \in S
  <2>0. m \in Nat /\ m + 1 \in Nat
    OBVIOUS
  <2> SUFFICES ASSUME m + 1 <= n PROVE \E f \in [0 .. m + 1 -> Nat] : IsSum(f, m + 1, w)
    BY <2>0, Zenon
  <2>1. PICK f \in [0 .. m -> Nat] : IsSum(f, m, w)
    BY <2>0
  <2> DEFINE g == [k \in 0 .. m + 1 |-> IF k = m + 1 THEN f[m] + w[m + 1] ELSE f[k]]
  <2>2. w[m + 1] \in Nat /\ f[m] \in Nat
    OBVIOUS
  <2>3. g \in [0 .. m + 1 -> Nat]
    BY <2>2
  <2>4. IsSum(g, m + 1, w)
    BY <2>1, <2>2 DEF IsSum
  <2> QED
    BY <2>3, <2>4
<1>3. S = Nat
  <2>1. S \in SUBSET Nat
    OBVIOUS
  <2> HIDE DEF S
  <2> QED
    BY <1>1, <1>2, <2>1, SetInduction
<1>4. n \in S
  BY <1>3
<1> QED
  BY <1>4

\* The bytes and the units of the first characters of a string.
BytesTo(s, k) == Sum(s, Width, k)
UnitsTo(s, k) == Sum(s, Units, k)

LEMMA RecursiveSum ==
  ASSUME NEW n \in Nat, NEW w \in [1 .. n -> Nat],
         NEW f, f = CHOOSE g : g = [k \in 0 .. n |-> IF k = 0 THEN 0 ELSE g[k - 1] + w[k]]
  PROVE  f \in [0 .. n -> Nat] /\ IsSum(f, n, w)
<1>1. PICK h \in [0 .. n -> Nat] : IsSum(h, n, w)
  BY SumExists
<1>2. h = [k \in 0 .. n |-> IF k = 0 THEN 0 ELSE h[k - 1] + w[k]]
  BY <1>1 DEF IsSum
<1>3. f = [k \in 0 .. n |-> IF k = 0 THEN 0 ELSE f[k - 1] + w[k]]
  BY <1>2
<1> HIDE DEF IsSum
<1>4. f[0] = 0 /\ \A k \in 1 .. n : f[k] = f[k - 1] + w[k]
  <2>1. ASSUME NEW k \in 0 .. n PROVE f[k] = IF k = 0 THEN 0 ELSE f[k - 1] + w[k]
    BY <1>3, Zenon
  <2>2. 0 \in 0 .. n /\ \A k \in 1 .. n : k \in 0 .. n /\ k # 0
    OBVIOUS
  <2> QED
    BY <2>1, <2>2, Zenon
<1> DEFINE S == {m \in Nat : m <= n => f[m] = h[m]}
<1>5. 0 \in S
  BY <1>1, <1>4 DEF IsSum
<1>6. ASSUME NEW m \in S PROVE m + 1 \in S
  <2> SUFFICES ASSUME m + 1 <= n PROVE f[m + 1] = h[m + 1]
    OBVIOUS
  <2>1. m + 1 \in 1 .. n /\ (m + 1) - 1 = m /\ f[m] = h[m]
    OBVIOUS
  <2>2. f[m + 1] = f[m] + w[m + 1]
    BY <1>4, <2>1
  <2>3. h[m + 1] = h[m] + w[m + 1]
    BY <1>1, <2>1 DEF IsSum
  <2> QED
    BY <2>1, <2>2, <2>3
<1>7. S = Nat
  <2>1. S \in SUBSET Nat
    OBVIOUS
  <2> HIDE DEF S
  <2> QED
    BY <1>5, <1>6, <2>1, SetInduction
<1>8. \A k \in 0 .. n : f[k] = h[k]
  <2>1. \A k \in 0 .. n : k \in S
    BY <1>7
  <2> QED
    BY <2>1
<1>9. f = h
  BY <1>3, <1>8
<1> QED
  BY <1>1, <1>9

LEMMA BytesRecursion ==
  ASSUME NEW s \in Seq(0 .. 4)
  PROVE  /\ BytesTo(s, 0) = 0
         /\ \A k \in 1 .. Len(s) : BytesTo(s, k) = BytesTo(s, k - 1) + Width(s[k])
         /\ \A k \in 0 .. Len(s) : BytesTo(s, k) \in Nat
<1> DEFINE n == Len(s)
           w == [k \in 1 .. n |-> Width(s[k])]
           f == CHOOSE g : g = [k \in 0 .. n |-> IF k = 0 THEN 0 ELSE g[k - 1] + w[k]]
           e == CHOOSE g : g = [k \in 0 .. n |-> IF k = 0 THEN 0 ELSE g[k - 1] + Width(s[k])]
<1>1. n \in Nat /\ w \in [1 .. n -> Nat]
  BY DEF Width
<1>2. \A k : BytesTo(s, k) = e[k]
  BY DEF BytesTo, Sum
<1>3. e = f
  <2>1. ASSUME NEW g
        PROVE  [k \in 0 .. n |-> IF k = 0 THEN 0 ELSE g[k - 1] + w[k]] =
               [k \in 0 .. n |-> IF k = 0 THEN 0 ELSE g[k - 1] + Width(s[k])]
    BY <1>1
  <2> HIDE DEF w, n
  <2> QED
    BY <2>1
<1> HIDE DEF w, n, e
<1>4. f \in [0 .. n -> Nat] /\ IsSum(f, n, w)
  BY <1>1, RecursiveSum
<1> HIDE DEF f
<1>5. \A k \in 1 .. n : w[k] = Width(s[k])
  BY DEF w
<1> QED
  BY <1>1, <1>2, <1>3, <1>4, <1>5 DEF n, IsSum

LEMMA UnitsRecursion ==
  ASSUME NEW s \in Seq(0 .. 4)
  PROVE  /\ UnitsTo(s, 0) = 0
         /\ \A k \in 1 .. Len(s) : UnitsTo(s, k) = UnitsTo(s, k - 1) + Units(s[k])
         /\ \A k \in 0 .. Len(s) : UnitsTo(s, k) \in Nat
<1> DEFINE n == Len(s)
           w == [k \in 1 .. n |-> Units(s[k])]
           f == CHOOSE g : g = [k \in 0 .. n |-> IF k = 0 THEN 0 ELSE g[k - 1] + w[k]]
           e == CHOOSE g : g = [k \in 0 .. n |-> IF k = 0 THEN 0 ELSE g[k - 1] + Units(s[k])]
<1>1. n \in Nat /\ w \in [1 .. n -> Nat]
  BY DEF Units
<1>2. \A k : UnitsTo(s, k) = e[k]
  BY DEF UnitsTo, Sum
<1>3. e = f
  <2>1. ASSUME NEW g
        PROVE  [k \in 0 .. n |-> IF k = 0 THEN 0 ELSE g[k - 1] + w[k]] =
               [k \in 0 .. n |-> IF k = 0 THEN 0 ELSE g[k - 1] + Units(s[k])]
    BY <1>1
  <2> HIDE DEF w, n
  <2> QED
    BY <2>1
<1> HIDE DEF w, n, e
<1>4. f \in [0 .. n -> Nat] /\ IsSum(f, n, w)
  BY <1>1, RecursiveSum
<1> HIDE DEF f
<1>5. \A k \in 1 .. n : w[k] = Units(s[k])
  BY DEF w
<1> QED
  BY <1>1, <1>2, <1>3, <1>4, <1>5 DEF n, IsSum


\* A string takes at least its length and its end.
LEMMA StringSizePositive ==
  ASSUME NEW s \in Seq(0 .. 4)
  PROVE  Bytes(s) \in Nat /\ StringSize(s) \in Nat \ {0}
<1>1. Len(s) \in 0 .. Len(s)
  OBVIOUS
<1>2. BytesTo(s, Len(s)) \in Nat
  BY <1>1, BytesRecursion
<1>3. Bytes(s) = BytesTo(s, Len(s))
  BY DEF Bytes, BytesTo
<1> QED
  BY <1>2, <1>3 DEF StringSize, Word, Unit

\* No character outside of the basic plane.
Basic == Seq(0 .. 3)

LEMMA BasicIsString == ASSUME NEW s \in Basic PROVE s \in Seq(0 .. 4)
BY DEF Basic

\* Of such a string every character is one unit, and at least one byte.
LEMMA BasicUnits ==
  ASSUME NEW s \in Basic, NEW m \in Nat, m <= Len(s)
  PROVE  s \in Seq(0 .. 4) /\ UnitsTo(s, m) = m /\ m <= BytesTo(s, m)
<1> DEFINE n == Len(s)
           S == {k \in Nat : k <= n => UnitsTo(s, k) = k /\ k <= BytesTo(s, k)}
<1>1. s \in Seq(0 .. 4) /\ n \in Nat /\ \A k \in 1 .. n : s[k] \in 0 .. 3
  BY DEF Basic
<1>2. 0 \in S
  BY <1>1, BytesRecursion, UnitsRecursion
<1>3. ASSUME NEW k \in S PROVE k + 1 \in S
  <2>0. k \in Nat /\ k + 1 \in Nat
    OBVIOUS
  <2> SUFFICES ASSUME k + 1 <= n PROVE UnitsTo(s, k + 1) = k + 1 /\ k + 1 <= BytesTo(s, k + 1)
    BY <2>0, Zenon
  <2>1. k + 1 \in 1 .. n /\ (k + 1) - 1 = k /\ UnitsTo(s, k) = k /\ k <= BytesTo(s, k) /\ k \in 0 .. n
    BY <2>0, <1>1
  <2>2. UnitsTo(s, k + 1) = k + Units(s[k + 1])
    BY <1>1, <2>1, UnitsRecursion
  <2>3. BytesTo(s, k + 1) = BytesTo(s, k) + Width(s[k + 1]) /\ BytesTo(s, k) \in Nat
    BY <1>1, <2>1, BytesRecursion
  <2>4. s[k + 1] \in 0 .. 3
    BY <1>1, <2>1
  <2>5. Units(s[k + 1]) = 1 /\ Width(s[k + 1]) \in 1 .. 3
    BY <2>4 DEF Units, Width, Illegal
  <2> QED
    BY <2>0, <2>1, <2>2, <2>3, <2>5
<1>4. S = Nat
  <2>1. S \in SUBSET Nat
    OBVIOUS
  <2> HIDE DEF S
  <2> QED
    BY <1>2, <1>3, <2>1, SetInduction
<1>5. m \in S
  BY <1>4
<1> QED
  BY <1>1, <1>5

\* Where CopyStringToMDString writes: in the room of the string, when no character
\* is a surrogate pair.
LEMMA CharWriteInside ==
  ASSUME NEW s \in Basic, NEW k \in 1 .. Len(s), NEW b \in Block, b.len = StringSize(s)
  PROVE  /\ b.at <= CharWrite(b, s, k).at
         /\ CharWrite(b, s, k).at + CharWrite(b, s, k).len <= b.at + b.len
<1>1. Len(s) \in Nat /\ k - 1 \in Nat /\ k - 1 <= Len(s) /\ k <= Len(s)
  BY DEF Basic
<1>2. s \in Seq(0 .. 4) /\ UnitsTo(s, k - 1) = k - 1 /\ Len(s) <= BytesTo(s, Len(s))
  BY <1>1, BasicUnits
<1>3. Units(s[k]) = 1
  <2>1. s[k] \in 0 .. 3
    BY DEF Basic
  <2> QED
    BY <2>1 DEF Units
<1>4. Bytes(s) \in Nat /\ Bytes(s) = BytesTo(s, Len(s))
  BY <1>2, StringSizePositive DEF Bytes, BytesTo
<1>5. CharWrite(b, s, k).at = b.at + 4 + (k - 1) * 2 /\ CharWrite(b, s, k).len = 2
  BY <1>2, <1>3 DEF CharWrite, Word, Unit, UnitsTo
<1>6. b.at \in Nat /\ b.len = 4 + (Bytes(s) + 1) * 2
  BY DEF Block, StringSize, Word, Unit
<1> QED
  BY <1>1, <1>2, <1>4, <1>5, <1>6

LEMMA EndWriteInside ==
  ASSUME NEW s \in Seq(0 .. 4), NEW b \in Block, b.len = StringSize(s)
  PROVE  /\ EndWrite(b, s) \in Write /\ EndWrite(b, s).block = b.at
         /\ b.at <= EndWrite(b, s).at
         /\ EndWrite(b, s).at + EndWrite(b, s).len = b.at + b.len
         /\ Word <= b.len
<1>1. Bytes(s) \in Nat
  BY StringSizePositive
<1>2. b.at \in Nat /\ b.len = 4 + (Bytes(s) + 1) * 2
  BY DEF Block, StringSize, Word, Unit
<1> QED
  BY <1>1, <1>2 DEF EndWrite, Write, Word, Unit

LEMMA CharWriteType ==
  ASSUME NEW s \in Seq(0 .. 4), NEW k \in 1 .. Len(s), NEW b \in Block
  PROVE  CharWrite(b, s, k) \in Write /\ CharWrite(b, s, k).block = b.at
<1>1. k - 1 \in 0 .. Len(s)
  OBVIOUS
<1>2. UnitsTo(s, k - 1) \in Nat
  BY <1>1, UnitsRecursion
<1>3. Unit * Units(s[k]) \in {2, 4}
  BY DEF Unit, Units
<1>4. b.at \in Nat
  BY DEF Block
<1>5. CharWrite(b, s, k) = [block |-> b.at, at |-> b.at + 4 + UnitsTo(s, k - 1) * (Unit * Units(s[k])),
                            len |-> Unit * Units(s[k])]
  BY DEF CharWrite, UnitsTo, Word
<1>6. b.at + 4 + UnitsTo(s, k - 1) * (Unit * Units(s[k])) \in Nat
  <2>1. CASE Unit * Units(s[k]) = 2
    BY <1>2, <1>4, <2>1
  <2>2. CASE Unit * Units(s[k]) = 4
    BY <1>2, <1>4, <2>2
  <2> QED
    BY <1>3, <2>1, <2>2
<1>7. Unit * Units(s[k]) \in Nat \ {0}
  BY <1>3
<1> QED
  BY <1>4, <1>5, <1>6, <1>7 DEF Write
---------------------------------------------------------------------------
(* What each operator makes of a file, besides keeping it sound.              *)

LEMMA AllocateFacts ==
  ASSUME NEW f \in File, Sound(f), NEW n \in Nat \ {0}
  PROVE  /\ Allocate(f, n) \in File
         /\ Allocate(f, n).blocks = f.blocks \cup {NewBlock(f, n)}
         /\ Allocate(f, n).writes = f.writes
         /\ Allocate(f, n).full = f.full
         /\ NewBlock(f, n) \in Block
         /\ NewBlock(f, n).at = f.position
         /\ NewBlock(f, n).len = n
<1>1. Page \in Nat \ {0} /\ Aligned(n) \in Nat
  BY FileAssumption, AlignedIsEnough
<1>2. Taken(f, n) \in Nat /\ Growth(f, n) \in Nat
  BY <1>1 DEF Taken, Growth
<1>3. NewBlock(f, n) \in Block /\ NewBlock(f, n).at = f.position /\ NewBlock(f, n).len = n
  BY DEF NewBlock, Block, Sound
<1>4. /\ f.position + Taken(f, n) \in Nat /\ f.size + Growth(f, n) \in Nat
      /\ f.blocks \cup {NewBlock(f, n)} \in SUBSET Block
  BY <1>2, <1>3 DEF Sound
<1> HIDE DEF File, Taken, Growth, NewBlock
<1>5. Allocate(f, n) \in File
  BY <1>4 DEF Allocate, File
<1>6. /\ Allocate(f, n).blocks = f.blocks \cup {NewBlock(f, n)}
      /\ Allocate(f, n).writes = f.writes
      /\ Allocate(f, n).full = f.full
  BY DEF Allocate, File
<1> QED
  BY <1>3, <1>5, <1>6

\* A write, or none; none when it does not fit or the disk is full.
LEMMA CopyFacts ==
  ASSUME NEW f \in File, Sound(f), NEW b, b.at \in Nat, NEW at \in Nat, NEW len \in Nat \ {0}
  PROVE  /\ Copy(f, b, at, len) \in File
         /\ Copy(f, b, at, len).blocks = f.blocks
         /\ Copy(f, b, at, len).full = f.full
         /\ Copy(f, b, at, len).size = f.size
         /\ Copy(f, b, at, len).writes =
              f.writes \cup (IF Copies(f, at, len)
                             THEN {[block |-> b.at, at |-> at, len |-> len]} ELSE {})
<1>1. [block |-> b.at, at |-> at, len |-> len] \in Write /\ at + len \in Nat
  BY DEF Write
<1>2. CASE Copies(f, at, len)
  BY <1>1, <1>2 DEF Copy, File
<1>3. CASE ~Copies(f, at, len)
  BY <1>3 DEF Copy, File
<1> QED
  BY <1>2, <1>3

\* Room that was allocated takes what is written to it, unless the disk is full.
LEMMA CopiesInside ==
  ASSUME NEW f \in File, Sound(f), NEW b \in f.blocks, NEW at \in Nat, NEW len \in Nat,
         at + len <= b.at + b.len
  PROVE  Copies(f, at, len) <=> ~f.full
<1>1. b \in Block /\ End(b) <= f.position /\ f.position <= f.size
  BY DEF Sound, BlocksAreDisjoint
<1>2. f.position \in Nat /\ f.size \in Nat
  BY DEF Sound
<1> QED
  BY <1>1, <1>2 DEF Copies, Fits, End, Block

LEMMA CopyFits ==
  ASSUME NEW f \in File, Sound(f), WritesFit(f), NEW b \in f.blocks,
         NEW at \in Nat, NEW len \in Nat \ {0}, b.at <= at, at + len <= b.at + b.len
  PROVE  WritesFit(Copy(f, b, at, len))
<1> DEFINE w == [block |-> b.at, at |-> at, len |-> len]
           g == Copy(f, b, at, len)
<1>1. b.at \in Nat
  BY DEF Sound, Block
<1>2. g.blocks = f.blocks /\ g.writes \subseteq f.writes \cup {w}
  BY <1>1, CopyFacts
<1>3. Inside(f, w)
  BY DEF Inside, End
<1>4. \A v \in g.writes : Inside(f, v)
  BY <1>2, <1>3 DEF WritesFit
<1>5. \A v : Inside(f, v) => Inside(g, v)
  BY <1>2 DEF Inside
<1> QED
  BY <1>4, <1>5 DEF WritesFit

LEMMA FlushLostFacts ==
  ASSUME NEW f \in File, NEW object \in Nat \ {0}
  PROVE  /\ FlushLost(f, object) \in File
         /\ FlushLost(f, object).blocks = f.blocks
         /\ FlushLost(f, object).full = f.full
         /\ ~Narrow => FlushLost(f, object) = f
<1>1. CASE Narrow /\ object - 1 <= f.size /\ ~f.full
  <2>1. /\ [block |-> f.position, at |-> f.offset, len |-> object] \in Write
        /\ f.offset + object \in Nat
    BY DEF Write, File
  <2> QED
    BY <1>1, <2>1 DEF FlushLost, File
<1>2. CASE ~(Narrow /\ object - 1 <= f.size /\ ~f.full)
  BY <1>2 DEF FlushLost
<1> QED
  BY <1>1, <1>2

\* Everything a string writes is meant for the block it was given.
LEMMA WriteStringFacts ==
  ASSUME NEW f \in File, Sound(f), NEW b \in f.blocks, NEW s \in Seq(0 .. 4)
  PROVE  /\ WriteString(f, b, s) \in File
         /\ WriteString(f, b, s).blocks = f.blocks
         /\ WriteString(f, b, s).full = f.full
         /\ f.writes \subseteq WriteString(f, b, s).writes
         /\ \A w \in WriteString(f, b, s).writes : w \in f.writes \/ w.block = b.at
<1> DEFINE chars == {CharWrite(b, s, k) : k \in Copied(f, b, s)}
           last  == IF CanWriteString(f, b, s) THEN {EndWrite(b, s)} ELSE {}
           g == [f EXCEPT !.writes = @ \cup chars \cup last]
<1>1. b \in Block /\ b.at \in Nat
  BY DEF Sound, Block
<1>2. chars \subseteq Write /\ \A w \in chars : w.block = b.at
  BY <1>1, CharWriteType DEF Copied
<1>3. EndWrite(b, s) \in Write /\ EndWrite(b, s).block = b.at
  <2>1. Bytes(s) \in Nat
    BY StringSizePositive
  <2> QED
    BY <1>1, <2>1 DEF EndWrite, Write, Word, Unit
<1>4. last \subseteq Write /\ \A w \in last : w.block = b.at
  BY <1>3
<1>5. WriteString(f, b, s) = Copy(g, b, b.at, Word)
  BY DEF WriteString
<1> HIDE DEF chars, last
<1>6. f.writes \cup chars \cup last \subseteq Write
  BY <1>2, <1>4 DEF File
<1>7. g \in File /\ g.blocks = f.blocks /\ g.full = f.full /\ g.writes = f.writes \cup chars \cup last
  BY <1>6 DEF File
<1>8. Sound(g)
  <2>1. DOMAIN g = Fields /\ g = [x \in Fields |-> g[x]]
    BY DEF Sound, Fields
  <2>2. g.position = f.position /\ g.size = f.size
    BY DEF Sound, Fields
  <2> HIDE DEF g
  <2> QED
    BY <1>7, <2>1, <2>2, SameBlocksSound
<1> HIDE DEF g
<1>9. Word \in Nat \ {0}
  BY DEF Word
<1>10. /\ WriteString(f, b, s) \in File
       /\ WriteString(f, b, s).blocks = f.blocks
       /\ WriteString(f, b, s).full = f.full
       /\ WriteString(f, b, s).writes =
            g.writes \cup (IF Copies(g, b.at, Word)
                           THEN {[block |-> b.at, at |-> b.at, len |-> Word]} ELSE {})
  BY <1>1, <1>5, <1>7, <1>8, <1>9, CopyFacts
<1> QED
  BY <1>2, <1>4, <1>7, <1>10

\* A string without surrogate pairs stays in the room it asked for.
LEMMA WriteStringFits ==
  ASSUME NEW f \in File, Sound(f), WritesFit(f), NEW b \in f.blocks, NEW s \in Basic,
         b.len = StringSize(s)
  PROVE  WritesFit(WriteString(f, b, s))
<1> DEFINE chars == {CharWrite(b, s, k) : k \in Copied(f, b, s)}
           last  == IF CanWriteString(f, b, s) THEN {EndWrite(b, s)} ELSE {}
           g == [f EXCEPT !.writes = @ \cup chars \cup last]
<1>1. b \in Block /\ b.at \in Nat /\ s \in Seq(0 .. 4)
  BY BasicIsString DEF Sound, Block
<1>2. \A w \in chars : Inside(f, w)
  <2>1. ASSUME NEW k \in 1 .. Len(s) PROVE Inside(f, CharWrite(b, s, k))
    BY <1>1, <2>1, CharWriteInside, CharWriteType DEF Inside, End
  <2> QED
    BY <2>1 DEF Copied
<1>3. Inside(f, EndWrite(b, s)) /\ Word <= b.len
  <2>1. /\ EndWrite(b, s).block = b.at /\ b.at <= EndWrite(b, s).at /\ Word <= b.len
        /\ EndWrite(b, s).at + EndWrite(b, s).len = b.at + b.len
    BY <1>1, EndWriteInside
  <2>2. b.at + b.len <= b.at + b.len
    BY <1>1 DEF Block
  <2> QED
    BY <2>1, <2>2 DEF Inside, End
<1>4. \A w \in last : Inside(f, w)
  BY <1>3
<1>5. WriteString(f, b, s) = Copy(g, b, b.at, Word)
  BY DEF WriteString
<1>6. chars \subseteq Write /\ last \subseteq Write
  BY <1>1, CharWriteType, EndWriteInside DEF Copied
<1> HIDE DEF chars, last
<1>7. g \in File /\ g.blocks = f.blocks /\ g.writes = f.writes \cup chars \cup last
  <2>1. f.writes \cup chars \cup last \subseteq Write
    BY <1>6 DEF File
  <2> QED
    BY <2>1 DEF File
<1>8. Sound(g)
  <2>1. DOMAIN g = Fields /\ g = [x \in Fields |-> g[x]]
    BY DEF Sound, Fields
  <2>2. g.position = f.position /\ g.size = f.size
    BY DEF Sound, Fields
  <2> HIDE DEF g
  <2> QED
    BY <1>7, <2>1, <2>2, SameBlocksSound
<1> HIDE DEF g
<1>9. WritesFit(g)
  BY <1>2, <1>4, <1>7 DEF WritesFit, Inside
<1>10. Word \in Nat \ {0} /\ b.at <= b.at /\ b.at + Word <= b.at + b.len
  BY <1>1, <1>3 DEF Word, Block
<1> QED
  BY <1>1, <1>5, <1>7, <1>8, <1>9, <1>10, CopyFits

\* And is written whole, when all its characters are legal and the disk takes it.
LEMMA LegalIsWritten ==
  ASSUME NEW f \in File, Sound(f), ~f.full, NEW b \in f.blocks, NEW s \in Seq(1 .. 3),
         b.len = StringSize(s)
  PROVE  CanWriteString(f, b, s)
<1>1. b \in Block /\ s \in Basic /\ s \in Seq(0 .. 4)
  <2>1. s \in Basic
    BY DEF Basic
  <2> QED
    BY <2>1, BasicIsString DEF Sound
<1>2. ASSUME NEW j \in 1 .. Len(s)
      PROVE  s[j] # Illegal /\ Copies(f, CharWrite(b, s, j).at, CharWrite(b, s, j).len)
  <2>1. s[j] # Illegal
    BY DEF Illegal
  <2>2. CharWrite(b, s, j) \in Write /\ CharWrite(b, s, j).at + CharWrite(b, s, j).len <= b.at + b.len
    BY <1>1, CharWriteType, CharWriteInside
  <2>3. CharWrite(b, s, j).at \in Nat /\ CharWrite(b, s, j).len \in Nat
    BY <2>2 DEF Write
  <2> QED
    BY <2>1, <2>2, <2>3, CopiesInside
<1>3. Copied(f, b, s) = 1 .. Len(s)
  BY <1>2 DEF Copied
<1>4. Copies(f, EndWrite(b, s).at, Unit)
  <2>1. /\ EndWrite(b, s) \in Write
        /\ EndWrite(b, s).at + EndWrite(b, s).len = b.at + b.len
    BY <1>1, EndWriteInside
  <2>2. EndWrite(b, s).len = Unit /\ EndWrite(b, s).at \in Nat /\ Unit \in Nat
    BY <2>1 DEF EndWrite, Write, Unit
  <2>3. EndWrite(b, s).at + Unit <= b.at + b.len
    BY <1>1, <2>1, <2>2 DEF Block
  <2> QED
    BY <2>2, <2>3, CopiesInside
<1> QED
  BY <1>3, <1>4 DEF CanWriteString
=============================================================================
