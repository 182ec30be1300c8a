--------------------------- MODULE MinidumpFormat ---------------------------
(***************************************************************************)
(* What a minidump promises to its reader, whatever happens to the writer:  *)
(* the directory grows in its order, an entry once written stays, the       *)
(* streams a reader cannot do without are never null, a dump is reported as *)
(* written only when all its entries were produced, and an entry is missing *)
(* from the file only when the disk was full.  It does not promise that a   *)
(* dump that met a full disk is reported as failed: CopyIndex is not        *)
(* checked.                                                                 *)
(***************************************************************************)
EXTENDS Naturals, Sequences

CONSTANTS
  NumStreams,   \* entries of the directory
  Mandatory     \* the first entries, which are never null

VARIABLES
  directory,    \* a stream, a null or nothing in the file, for every entry so far
  disk,         \* the disk is full
  outcome       \* of the dump

Kind(i) == IF i <= Mandatory THEN {"stream"} ELSE {"stream", "null"}

Init == directory = <<>> /\ disk = FALSE /\ outcome = "writing"

Enter ==
  /\ outcome = "writing"
  /\ Len(directory) < NumStreams
  /\ \E k \in Kind(Len(directory) + 1) \cup (IF disk THEN {"missing"} ELSE {}) :
       directory' = Append(directory, k)
  /\ UNCHANGED <<disk, outcome>>

\* For good.
DiskFills ==
  /\ outcome = "writing"
  /\ ~disk
  /\ disk' = TRUE
  /\ UNCHANGED <<directory, outcome>>

Complete ==
  /\ outcome = "writing"
  /\ Len(directory) = NumStreams
  /\ outcome' = "written"
  /\ UNCHANGED <<directory, disk>>

Fail ==
  /\ outcome = "writing"
  /\ outcome' = "failed"
  /\ UNCHANGED <<directory, disk>>

Next == Enter \/ DiskFills \/ Complete \/ Fail

Spec == Init /\ [][Next]_<<directory, disk, outcome>>
=============================================================================
