--------------------------- MODULE MinidumpFile ---------------------------
(***************************************************************************)
(* minidump_file_writer.cc and its MDRVA objects: a file that hands out     *)
(* blocks and takes the bytes written to them.  A file is a value; what a    *)
(* call makes of it is the value of an operator.  The bytes are left out:   *)
(* a write is the block it is meant for and the range it covers.            *)
(***************************************************************************)
EXTENDS Integers, Sequences, FiniteSets

CONSTANTS
  Page,    \* getpagesize()
  Narrow   \* a 32-bit build: size_t and off_t have the width of an MDRVA

ASSUME FileAssumption ==
  /\ Page \in Nat \ {0}
  /\ Narrow \in BOOLEAN

Word == 4   \* sizeof(uint32_t): the count of a list, the length of a string
Unit == 2   \* sizeof(uint16_t): one unit of UTF-16

Block == [at : Nat, len : Nat \ {0}]
Write == [block : Nat, at : Nat, len : Nat \ {0}]

\* Outside every block: the position of an object whose allocation failed.
Nowhere == [at |-> 0, len |-> 0]

File ==
  [fd : {"none", "open", "closed"}, owned : BOOLEAN, bypass : BOOLEAN,
   full : BOOLEAN, position : Nat, size : Nat, offset : Nat,
   blocks : SUBSET Block, writes : SUBSET Write]

\* A writer: owned and bypass are close_file_when_destroyed_ and
\* g_need_ftruncate_workaround; full is a disk that takes no more bytes.
NewFile ==
  [fd |-> "none", owned |-> TRUE, bypass |-> FALSE, full |-> FALSE,
   position |-> 0, size |-> 0, offset |-> 0, blocks |-> {}, writes |-> {}]

\* A file opened by path is never tried for the kernel's refusal to truncate.
Opened(f) == [f EXCEPT !.fd = "open"]

\* Mutant: as a file opened by path.
GivenUnchecked(f, kernelBug) == [f EXCEPT !.fd = "open", !.owned = FALSE]

GivenFile(f, kernelBug) ==
  [f EXCEPT !.fd = "open", !.owned = FALSE, !.bypass = kernelBug]

\* Close: unchanged when ftruncate refuses, and it is called in vain then.
Closed(f, truncates) ==
  IF f.fd = "open" /\ (f.bypass \/ truncates) THEN [f EXCEPT !.fd = "closed"] ELSE f
---------------------------------------------------------------------------
(* Blocks.                                                                   *)

\* (size + 7) & ~7
Aligned(n) == ((n + 7) \div 8) * 8

Taken(f, n) == IF f.bypass THEN n ELSE Aligned(n)

\* The file has to grow first, by a page at least.
Grows(f, n) == ~f.bypass /\ f.position + Aligned(n) > f.size

Growth(f, n) ==
  IF f.bypass THEN n
  ELSE IF ~Grows(f, n) THEN 0
  ELSE IF Aligned(n) < Page THEN Page ELSE Aligned(n)

NewBlock(f, n) == [at |-> f.position, len |-> n]

\* Mutant: the file grows by a page, however large the block.
AllocatePageOnly(f, n) ==
  [f EXCEPT !.position = @ + Taken(f, n),
            !.size     = @ + (IF Grows(f, n) THEN Page ELSE Growth(f, n)),
            !.blocks   = @ \cup {NewBlock(f, n)}]

Allocate(f, n) ==
  [f EXCEPT !.position = @ + Taken(f, n),
            !.size     = @ + Growth(f, n),
            !.blocks   = @ \cup {NewBlock(f, n)}]
---------------------------------------------------------------------------
(* Writes.                                                                   *)

Fits(f, at, len) == at + len <= f.size

Copies(f, at, len) == Fits(f, at, len) /\ ~f.full

\* Copy, for block b: beyond the file's size, or on a full disk, nothing is
\* written.
Copy(f, b, at, len) ==
  IF Copies(f, at, len)
  THEN [f EXCEPT !.offset = at + len,
                 !.writes = @ \cup {[block |-> b.at, at |-> at, len |-> len]}]
  ELSE f

\* The i-th element of an array of len bytes behind an object of the given size.
CopyIndexAfterObject(f, b, object, i, len) == Copy(f, b, b.at + object + i * len, len)

\* Flush of an object that has no block.  Its position is kInvalidMDRVA: the sum
\* in Copy wraps in a 32-bit build, lseek fails with the very value the position
\* is compared with, and the object goes where the last write ended.
FlushLost(f, object) ==
  IF Narrow /\ object - 1 <= f.size /\ ~f.full
  THEN [f EXCEPT !.offset = @ + object,
                 !.writes = @ \cup {[block |-> f.position, at |-> f.offset, len |-> object]}]
  ELSE f
---------------------------------------------------------------------------
(* Strings: the sequence of the lengths of their characters in UTF-8.        *)

Illegal == 0   \* a byte that starts no legal character

\* UTF8ToUTF16Char: a character of four bytes is two units, every other is one.
Units(c) == IF c = 4 THEN 2 ELSE 1

Width(c) == IF c = Illegal THEN 1 ELSE c

\* Sum of Op over the first i elements of s.
Sum(s, Op(_), i) ==
  LET sum[k \in 0 .. Len(s)] == IF k = 0 THEN 0 ELSE sum[k - 1] + Op(s[k])
  IN  sum[i]

Bytes(s) == Sum(s, Width, Len(s))

\* Room for a unit per byte and for the end.
StringSize(s) == Word + (Bytes(s) + 1) * Unit

\* CopyStringToMDString: where the i-th character goes.  The index counts units,
\* the step of CopyIndexAfterObject is the size of what is copied.
CharWrite(b, s, i) ==
  LET len == Unit * Units(s[i])
  IN  [block |-> b.at, at |-> b.at + Word + Sum(s, Units, i - 1) * len, len |-> len]

EndWrite(b, s) == [block |-> b.at, at |-> b.at + Word + Bytes(s) * Unit, len |-> Unit]

\* The characters copied: up to one that cannot be converted or does not fit.
Copied(f, b, s) ==
  {i \in 1 .. Len(s) :
     \A j \in 1 .. i : /\ s[j] # Illegal
                      /\ Copies(f, CharWrite(b, s, j).at, CharWrite(b, s, j).len)}

CanWriteString(f, b, s) ==
  /\ Copied(f, b, s) = 1 .. Len(s)
  /\ Copies(f, EndWrite(b, s).at, Unit)

\* WriteStringCore once it has its block: the characters, the end and, from the
\* destructor, the length.
WriteString(f, b, s) ==
  LET chars == {CharWrite(b, s, i) : i \in Copied(f, b, s)}
      last  == IF CanWriteString(f, b, s) THEN {EndWrite(b, s)} ELSE {}
  IN  Copy([f EXCEPT !.writes = @ \cup chars \cup last], b, b.at, Word)
---------------------------------------------------------------------------
(* What a reader of the file relies on.                                      *)

End(r) == r.at + r.len

Apart(r, s) == End(r) <= s.at \/ End(s) <= r.at

\* Two blocks share no byte, and every block lies in the file.
BlocksAreDisjoint(f) ==
  /\ \A b \in f.blocks : End(b) <= f.position
  /\ \A b, c \in f.blocks : b # c => Apart(b, c)
  /\ f.position <= f.size

\* Copy's "Ensure that the data will fit in the allocated space": a write stays
\* in the block it is meant for.
Inside(f, w) == \E b \in f.blocks : b.at = w.block /\ b.at <= w.at /\ End(w) <= End(b)

WritesFit(f) == \A w \in f.writes : Inside(f, w)
=============================================================================
