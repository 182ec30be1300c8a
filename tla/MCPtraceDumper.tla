--------------------------- MODULE MCPtraceDumper ---------------------------
(* PtraceDumper for TLC: three threads at the crash and one created later, *)
(* or the main thread and the crashed one alone.                           *)
EXTENDS PtraceDumper

MCThreads == 1..4
MCInitial == 1..3
MCTwo     == 1..2
=============================================================================
