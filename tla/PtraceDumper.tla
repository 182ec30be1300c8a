---------------------------- MODULE PtraceDumper ----------------------------
(***************************************************************************)
(* linux_ptrace_dumper.cc: the child of GenerateDump lists the threads of   *)
(* the crashed process, attaches to each, reads them and lets them go.  It   *)
(* does so twice, each time with a dumper of its own: for the minidump       *)
(* (minidump_writer.cc) and for the text (minidump_whole_track_writer.cc).   *)
(* Meanwhile the process goes on: threads start and exit until they are     *)
(* stopped, get signals, and all of them may be killed.                     *)
(***************************************************************************)
EXTENDS Integers, Sequences, SequencesExt, FiniteSets

CONSTANTS
  Threads,      \* thread ids, in the order in which threads are created
  Initial,      \* the threads that exist at the crash
  Leader,       \* the main thread
  Crasher,      \* the thread that crashed; it sleeps in waitpid, exceptions blocked
  Trusted,      \* threads whose stack pointer is null (seccomp sandbox)
  MayFail       \* a dump or the child may fail, the process may be killed

ASSUME DumperAssumption ==
  /\ Threads \subseteq Nat /\ IsFiniteSet(Threads)
  /\ Initial \subseteq Threads
  /\ Leader \in Initial /\ Crasher \in Initial
  /\ \A t \in Initial : Leader <= t /\ \A u \in Threads \ Initial : t < u
  /\ MayFail \in BOOLEAN

VARIABLES
  thread,      \* the state of each thread of the process
  traced,      \* the threads attached to by the child
  sigstop,     \* the threads with a pending SIGSTOP
  frozen,      \* the process is in a group stop
  env,         \* what does not change: the build, SIGCHLD, another debugger
  at,          \* where the child is
  dump,        \* which of the two dumps it makes
  list,        \* threads_ of the dumper
  i,           \* the index into it
  suspended,   \* threads_suspended_
  good         \* the result of Init and Dump

process == <<thread, traced, sigstop, frozen>>
dumper  == <<at, dump, list, i, suspended, good>>
vars == <<process, env, dumper>>

States == {"absent", "running", "exiting", "stopped", "zombie", "gone"}
Steps  == {"init", "enumerate", "suspend", "attached", "ready", "resume", "done"}

Live == {t \in Threads : thread[t] \in {"running", "exiting", "stopped"}}
Listed(n) == {list[k] : k \in 1..(n - 1)}       \* the entries before the n-th

-----------------------------------------------------------------------------
(* The process and the kernel. *)

\* A thread that is neither stopped nor about to be.
Runs(t) == thread[t] = "running" /\ t \notin traced \cup sigstop /\ ~frozen

Spawn ==
  /\ \E t \in Threads \ {Crasher} : Runs(t)
  /\ \E t \in Threads :
       /\ thread[t] = "absent"
       /\ \A u \in Threads : u < t => thread[u] # "absent"
       /\ thread' = [thread EXCEPT ![t] = "running"]
  /\ UNCHANGED <<traced, sigstop, frozen, env, dumper>>

\* From here a thread no longer acts on signals, but can still be attached.
StartExit(t) ==
  /\ t \notin {Leader, Crasher} /\ Runs(t)
  /\ thread' = [thread EXCEPT ![t] = "exiting"]
  /\ UNCHANGED <<traced, sigstop, frozen, env, dumper>>

\* What an exit leaves for the tracer's waitpid.
AfterExit(t) == IF t \in traced /\ ~env.reaped THEN "zombie" ELSE "gone"

Exit(t) ==
  /\ thread[t] = "exiting"
  /\ thread' = [thread EXCEPT ![t] = AfterExit(t)]
  /\ traced' = IF env.reaped THEN traced \ {t} ELSE traced
  /\ sigstop' = sigstop \ {t}
  /\ UNCHANGED <<frozen, env, dumper>>

\* A traced thread stops: for the SIGSTOP, or for another signal before it.
Stop(t) ==
  /\ thread[t] = "running" /\ t \in traced /\ t \in sigstop
  /\ thread' = [thread EXCEPT ![t] = "stopped"]
  /\ \/ sigstop' = sigstop \ {t}
     \/ UNCHANGED sigstop
  /\ UNCHANGED <<traced, frozen, env, dumper>>

\* SIGSTOP reaches a thread nobody traces: the whole process stops.
GroupStop(t) ==
  /\ thread[t] = "running" /\ t \in sigstop \ traced
  /\ frozen' = TRUE
  /\ sigstop' = sigstop \ {t}
  /\ UNCHANGED <<thread, traced, env, dumper>>

Killed ==
  /\ MayFail /\ Live # {}
  /\ thread' = [t \in Threads |-> IF t \in Live THEN AfterExit(t) ELSE thread[t]]
  /\ traced' = IF env.reaped THEN {} ELSE traced
  /\ sigstop' = {}
  /\ UNCHANGED <<frozen, env, dumper>>

CanAttach(t) == t \in Live \ (traced \cup env.debugged)

\* PTRACE_DETACH of a set of threads: what is not stopped is left alone.
Detach(ts) ==
  /\ thread' = [t \in Threads |->
                  IF t \in ts /\ thread[t] = "stopped" THEN "running" ELSE thread[t]]
  /\ traced' = {t \in traced : ~(t \in ts /\ thread[t] = "stopped")}
  /\ UNCHANGED <<sigstop, frozen>>
-----------------------------------------------------------------------------
(* One dumper: Init, ThreadsSuspend, the dump, ThreadsResume. *)

\* The writer goes: its destructor resumes what the flag says is suspended.  A
\* dump that failed is not followed by the next one.
Fail ==
  /\ good' = FALSE /\ i' = 1
  /\ at' = IF suspended THEN "resume" ELSE "done"
  /\ UNCHANGED <<dump, list, suspended>>

InitFails ==
  /\ at \in {"init", "enumerate"} /\ (MayFail \/ Live = {})
  /\ Fail
  /\ UNCHANGED <<process, env>>

ReadAuxv ==
  /\ at = "init" /\ Live # {}
  /\ at' = "enumerate"
  /\ UNCHANGED <<process, env, dump, list, i, suspended, good>>

\* The kernel lists threads in the order of creation.  After an exit it may
\* lose its place and pass over some; an entry may be seen twice in a row.
LastTid == IF list = <<>> THEN -1 ELSE Last(list)
Entry(t) ==
  /\ t \in Live /\ t >= LastTid
  /\ \A u \in Live : LastTid < u /\ u < t => \E x \in Threads : thread[x] = "gone"

EnumerateThread ==
  /\ at = "enumerate"
  /\ \E t \in Threads :
       /\ Entry(t)
       /\ list' = IF t = LastTid THEN list ELSE Append(list, t)
  /\ UNCHANGED <<process, env, at, dump, i, suspended, good>>

\* End of the directory, or a kernel that lost its place; EnumerateMappings.
Enumerated ==
  /\ at = "enumerate"
  /\ \A t \in Live : t <= LastTid \/ \E x \in Threads : thread[x] = "gone"
  /\ at' = "suspend"
  /\ UNCHANGED <<process, env, dump, list, i, suspended, good>>

\* SuspendThread as far as PTRACE_ATTACH.
Attach ==
  /\ at = "suspend" /\ i <= Len(list) /\ CanAttach(list[i])
  /\ traced' = traced \cup {list[i]}
  /\ sigstop' = sigstop \cup {list[i]}
  /\ at' = "attached"
  /\ UNCHANGED <<thread, frozen, env, dump, list, i, suspended, good>>

\* Mutant: the index moves on as well.
DropAndSkip ==
  /\ list' = RemoveAt(list, i) /\ i' = i + 1
  /\ at' = "suspend"
  /\ UNCHANGED <<dump, suspended, good>>

\* Mutant: the list does not shrink.
DropNothing ==
  /\ at' = "suspend"
  /\ UNCHANGED <<list, i, dump, suspended, good>>

\* ThreadsSuspend drops the thread that could not be suspended.
Drop ==
  /\ list' = RemoveAt(list, i)
  /\ at' = "suspend"
  /\ UNCHANGED <<i, dump, suspended, good>>

Keep ==
  /\ i' = i + 1
  /\ at' = "suspend"
  /\ UNCHANGED <<list, dump, suspended, good>>

AttachFails ==
  /\ at = "suspend" /\ i <= Len(list) /\ ~CanAttach(list[i])
  /\ Drop
  /\ UNCHANGED <<process, env>>

\* waitpid reports a stop; on x86 a thread without a stack is let go.
WaitStopped ==
  /\ at = "attached" /\ thread[list[i]] = "stopped"
  /\ IF env.x86 /\ list[i] \in Trusted THEN Drop /\ Detach({list[i]})
                                        ELSE Keep /\ UNCHANGED process
  /\ UNCHANGED env

\* waitpid reports the exit of the thread, whose status is not looked at.  Only
\* x86 finds out, from PTRACE_GETREGS.
WaitExited ==
  /\ at = "attached" /\ thread[list[i]] = "zombie"
  /\ thread' = [thread EXCEPT ![list[i]] = "gone"]
  /\ traced' = traced \ {list[i]}
  /\ IF env.x86 THEN Drop ELSE Keep
  /\ UNCHANGED <<sigstop, frozen, env>>

\* waitpid fails: the kernel has reaped the thread.
WaitFails ==
  /\ at = "attached" /\ thread[list[i]] = "gone"
  /\ Drop
  /\ UNCHANGED <<process, env>>

\* The end of ThreadsSuspend, which is true even when no thread is left; the
\* caller then gives up.
Suspended ==
  /\ at = "suspend" /\ i > Len(list)
  /\ suspended' = TRUE /\ i' = 1
  /\ good' = (list # <<>>)
  /\ at' = IF list # <<>> THEN "ready" ELSE "resume"
  /\ UNCHANGED <<process, env, dump, list>>

\* The thread list stream needs the registers of each thread but the crashed
\* one, whose context came with the signal.
Readable == \A k \in 1..Len(list) : list[k] = Crasher \/ thread[list[k]] = "stopped"

\* MinidumpWriter fails: at the file, a stream, or a thread that is gone.
DumpFails ==
  /\ at = "ready" /\ dump = "minidump" /\ (MayFail \/ ~Readable)
  /\ Fail
  /\ UNCHANGED <<process, env>>

\* Dump of either writer; that of the text cannot fail.
Dumped ==
  /\ at = "ready" /\ (dump = "minidump" => Readable)
  /\ at' = "resume"
  /\ UNCHANGED <<process, env, dump, list, i, suspended, good>>

\* Mutant: the first failure ends the loop.
ResumeUntilFailure ==
  /\ at = "resume" /\ i <= Len(list)
  /\ Detach({list[i]})
  /\ i' = IF thread[list[i]] = "stopped" THEN i + 1 ELSE Len(list) + 1
  /\ UNCHANGED <<env, at, dump, list, suspended, good>>

\* One turn of the loop of ThreadsResume.
ResumeThread ==
  /\ at = "resume" /\ i <= Len(list)
  /\ Detach({list[i]})
  /\ i' = i + 1
  /\ UNCHANGED <<env, at, dump, list, suspended, good>>

\* The end of ThreadsResume.  The destructor's second call has no effect.  After
\* a minidump comes the text, with a new dumper.
Resumed ==
  /\ at = "resume" /\ i > Len(list)
  /\ suspended' = FALSE /\ i' = 1
  /\ IF good /\ dump = "minidump"
       THEN at' = "init" /\ dump' = "text" /\ list' = <<>>
       ELSE at' = "done" /\ UNCHANGED <<dump, list>>
  /\ UNCHANGED <<process, env, good>>

\* The child crashes: the kernel detaches it from everything.
ChildDies ==
  /\ MayFail /\ at # "done"
  /\ at' = "done" /\ good' = FALSE /\ suspended' = FALSE
  /\ thread' = [t \in Threads |->
                  CASE thread[t] = "stopped" -> "running"
                    [] thread[t] = "zombie"  -> "gone"
                    [] OTHER -> thread[t]]
  /\ traced' = {}
  /\ UNCHANGED <<sigstop, frozen, env, dump, list, i>>
-----------------------------------------------------------------------------

Init ==
  /\ thread = [t \in Threads |-> IF t \in Initial THEN "running" ELSE "absent"]
  /\ traced = {} /\ sigstop = {} /\ frozen = FALSE
  /\ env \in [x86 : BOOLEAN, reaped : BOOLEAN, debugged : SUBSET Initial]
  /\ at = "init" /\ dump = "minidump"
  /\ list = <<>> /\ i = 1
  /\ suspended = FALSE /\ good = TRUE

Child ==
  \/ ReadAuxv \/ InitFails \/ EnumerateThread \/ Enumerated
  \/ Attach \/ AttachFails \/ WaitStopped \/ WaitExited \/ WaitFails \/ Suspended
  \/ Dumped \/ DumpFails \/ ResumeThread \/ Resumed \/ ChildDies

Next ==
  \/ Child
  \/ Spawn \/ Killed
  \/ \E t \in Threads : StartExit(t) \/ Exit(t) \/ Stop(t) \/ GroupStop(t)
  \/ at = "done" /\ UNCHANGED vars

Spec == Init /\ [][Next]_vars

\* The child is scheduled, a thread that is leaving leaves, and a thread that is
\* told to stop stops.
FairSpec ==
  /\ Spec
  /\ WF_vars(Child)
  /\ \A t \in Threads : WF_vars(Exit(t)) /\ WF_vars(Stop(t))

-----------------------------------------------------------------------------

TypeOK ==
  /\ thread \in [Threads -> States]
  /\ traced \subseteq Threads /\ sigstop \subseteq Threads
  /\ frozen \in BOOLEAN
  /\ env \in [x86 : BOOLEAN, reaped : BOOLEAN, debugged : SUBSET Initial]
  /\ at \in Steps /\ dump \in {"minidump", "text"}
  /\ list \in Seq(Threads) /\ i \in 1..(Len(list) + 1)
  /\ at = "attached" => i <= Len(list)
  /\ suspended \in BOOLEAN /\ good \in BOOLEAN

\* A dump reads still threads: while a writer is at work every listed thread is
\* stopped or dead, whichever threads were dropped from the list before.
ReadsStillThreads ==
  at = "ready" => \A t \in Listed(Len(list) + 1) : thread[t] \in {"stopped", "zombie", "gone"}

\* A dumper lets go of every thread it stopped, also when the dump failed or a
\* thread died meanwhile: the next dumper finds none attached, and neither does
\* the process when the child is done.
LeavesNoneStopped ==
  at \in {"init", "enumerate", "done"} => \A t \in Threads : thread[t] # "stopped"

\* The child comes to its end: the loops over threads that come and go end, and
\* waitpid is answered.
ChildEnds == <>(at = "done")

\* "Resumes all threads in the given process": no thread is stopped by what the
\* dumper left behind.
ProcessIsResumed == ~frozen
=============================================================================
