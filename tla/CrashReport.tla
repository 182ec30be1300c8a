---------------------------- MODULE CrashReport ----------------------------
(***************************************************************************)
(* What the library promises about a native crash: Java is told of it once, *)
(* while the crashed thread still stands where it crashed, and only then    *)
(* does the crash take its course.  A crash nobody can report takes its     *)
(* course at once.                                                          *)
(***************************************************************************)
CONSTANT Threads

VARIABLE phase   \* of the crash of every thread

Phases == {"running", "reporting", "told", "resumed"}

\* A crash that is being reported: at most one at a time.
Open(t) == phase[t] \in {"reporting", "told"}

To(t, from, next) ==
  /\ phase[t] = from
  /\ phase' = [phase EXCEPT ![t] = next]

Report(t) == (\A u \in Threads : ~Open(u)) /\ To(t, "running", "reporting")

Tell(t) == To(t, "reporting", "told")

Resume(t) == To(t, "told", "resumed")

GiveUp(t) == To(t, "running", "resumed")

Init == phase = [t \in Threads |-> "running"]

Next == \E t \in Threads : Report(t) \/ Tell(t) \/ Resume(t) \/ GiveUp(t)

Spec == Init /\ [][Next]_phase
=============================================================================
