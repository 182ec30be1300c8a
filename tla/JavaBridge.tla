----------------------------- MODULE JavaBridge -----------------------------
(***************************************************************************)
(* breakpad.cpp: how a crash reaches Java.  initBreakpadNative starts a     *)
(* callback thread that waits on a semaphore; DumpCallback, on the crashed  *)
(* thread, publishes g_crash_info, posts that semaphore and waits on a      *)
(* second one until the callback thread has called Java.                    *)
(* Of exception_handler.cc only the frame is here: the mutex a crash holds, *)
(* whether its dump succeeded, and the end of the process.                  *)
(***************************************************************************)
EXTENDS Naturals, FiniteSets

CONSTANTS
  Threads,        \* threads that may crash
  Nobody,         \* no thread: a free mutex, a null g_crash_info
  Calls,          \* calls of initBreakpadNative, one callback thread each
  StartFails,     \* pthread_create or AttachCurrentThread may fail
  LookupFails     \* GetObjectClass or GetMethodID may fail

ASSUME BridgeAssumption ==
  /\ Nobody \notin Threads
  /\ StartFails \in BOOLEAN
  /\ LookupFails \in BOOLEAN

VARIABLES
  call,       \* how far each call of initBreakpadNative is
  callback,   \* where each callback thread is
  pc,         \* where each crash is
  mutex,      \* g_handler_stack_mutex_
  installed,  \* the handler is constructed: signals are caught
  connected,  \* whole_callback_ is DumpCallback
  method,     \* g_crash_callback_method is not null
  cat,        \* g_cat_java_crash_semaphore
  done,       \* g_done_semaphore
  crashInfo,  \* g_crash_info, named by the crash that allocated it
  live,       \* CrashInfo objects allocated and not deleted
  told,       \* how often Java was told of each crash
  exit        \* has the process ended

initVars   == <<call, installed, connected, method>>
crashVars  == <<pc, mutex, exit>>
sharedVars == <<cat, done, crashInfo, live>>
vars == <<initVars, callback, crashVars, sharedVars, told>>

CallSteps     == {"none", "thread", "object", "handler", "ready"}
CallbackSteps == {"none", "starting", "waiting", "notifying", "posting", "deleting",
                  "over", "failed", "lost"}
CrashSteps    == {"run", "entered", "dumping", "filling", "waiting", "stranded", "returned"}

\* Crashes that have published g_crash_info and are still in DumpCallback.
Waits(t) == pc[t] \in {"waiting", "stranded"}

-----------------------------------------------------------------------------

\* initCallbackThreadHanlder: both semaphores to 0, then a thread.  Whoever
\* sleeps on a semaphore that is initialised under it may never wake.
InitCallbackThread(k) ==
  /\ ~exit /\ call[k] = "none"
  /\ cat' = 0
  /\ done' = 0
  /\ \E started \in IF StartFails THEN BOOLEAN ELSE {TRUE},
        sleepers \in SUBSET {c \in Calls : callback[c] = "waiting"} :
       callback' = [c \in Calls |-> IF c = k THEN IF started THEN "starting" ELSE "failed"
                                    ELSE IF c \in sleepers THEN "lost"
                                    ELSE callback[c]]
  /\ \E sleepers \in SUBSET {t \in Threads : pc[t] = "waiting"} :
       pc' = [t \in Threads |-> IF t \in sleepers THEN "stranded" ELSE pc[t]]
  /\ call' = [call EXCEPT ![k] = "thread"]
  /\ UNCHANGED <<installed, connected, method, mutex, exit, crashInfo, live, told>>

\* The lookup of the method leaves null when it fails; that of the class returns
\* before it, and an earlier method stays.
InitCallbackObject(k) ==
  /\ ~exit /\ call[k] = "thread"
  /\ \/ method' = TRUE
     \/ LookupFails /\ method' \in {FALSE, method}
  /\ call' = [call EXCEPT ![k] = "object"]
  /\ UNCHANGED <<installed, connected, callback, crashVars, sharedVars, told>>

\* The static ExceptionHandler of just_2_java or dump_and_2_java.
InitHandler(k) ==
  /\ ~exit /\ call[k] = "object"
  /\ installed' = TRUE
  /\ call' = [call EXCEPT ![k] = "handler"]
  /\ UNCHANGED <<connected, method, callback, crashVars, sharedVars, told>>

SetWholeCallback(k) ==
  /\ ~exit /\ call[k] = "handler"
  /\ connected' = TRUE
  /\ call' = [call EXCEPT ![k] = "ready"]
  /\ UNCHANGED <<installed, method, callback, crashVars, sharedVars, told>>

-----------------------------------------------------------------------------

At(t, from, to) ==
  /\ ~exit /\ pc[t] = from
  /\ pc' = [pc EXCEPT ![t] = to]

\* A thread crashes: SignalHandler starts, or the process is gone.
Crash(t) ==
  /\ At(t, "run", "entered")
  /\ exit' = ~installed
  /\ UNCHANGED <<initVars, callback, mutex, sharedVars, told>>

\* Mutant: does not wait for the mutex.
LockAtOnce(t) ==
  /\ At(t, "entered", "dumping")
  /\ mutex' = t
  /\ UNCHANGED <<initVars, callback, exit, sharedVars, told>>

Lock(t) ==
  /\ At(t, "entered", "dumping") /\ mutex = Nobody
  /\ mutex' = t
  /\ UNCHANGED <<initVars, callback, exit, sharedVars, told>>

\* GenerateDump without a report: the dump failed, or no callback is set.
DumpOnly(t) ==
  /\ At(t, "dumping", "returned")
  /\ mutex' = Nobody
  /\ UNCHANGED <<initVars, callback, exit, sharedVars, told>>

\* Mutant: posts the semaphore before the report is filled in.
AllocateAndPost(t) ==
  /\ At(t, "dumping", "filling") /\ connected
  /\ crashInfo' = t
  /\ cat' = cat + 1
  /\ live' = live \cup {t}
  /\ UNCHANGED <<initVars, callback, mutex, exit, done, told>>

\* DumpCallback, as far as new CrashInfo().
AllocateInfo(t) ==
  /\ At(t, "dumping", "filling") /\ connected
  /\ crashInfo' = t
  /\ live' = live \cup {t}
  /\ UNCHANGED <<initVars, callback, mutex, exit, cat, done, told>>

\* Mutants: no post; one post too many.
PostNothing(t) ==
  /\ At(t, "filling", "waiting")
  /\ cat' = cat
  /\ UNCHANGED <<initVars, callback, mutex, exit, done, crashInfo, live, told>>

PostTwice(t) ==
  /\ At(t, "filling", "waiting")
  /\ cat' = cat + 2
  /\ UNCHANGED <<initVars, callback, mutex, exit, done, crashInfo, live, told>>

\* The rest of DumpCallback up to sem_wait.
PostCrash(t) ==
  /\ At(t, "filling", "waiting")
  /\ cat' = cat + 1
  /\ UNCHANGED <<initVars, callback, mutex, exit, done, crashInfo, live, told>>

\* Mutant: does not wait for Java.
SkipDone(t) ==
  /\ At(t, "waiting", "returned")
  /\ done' = done
  /\ mutex' = Nobody
  /\ UNCHANGED <<initVars, callback, exit, cat, crashInfo, live, told>>

\* sem_wait(&g_done_semaphore) returns, and SignalHandler unlocks.
AwaitDone(t) ==
  /\ At(t, "waiting", "returned") /\ done > 0
  /\ done' = done - 1
  /\ mutex' = Nobody
  /\ UNCHANGED <<initVars, callback, exit, cat, crashInfo, live, told>>

\* The retriggered signal ends the process.
Retrigger(t) ==
  /\ ~exit /\ pc[t] = "returned"
  /\ exit' = TRUE
  /\ UNCHANGED <<initVars, callback, pc, mutex, sharedVars, told>>

-----------------------------------------------------------------------------

CallbackAt(k, from, to) ==
  /\ ~exit /\ callback[k] = from
  /\ callback' = [callback EXCEPT ![k] = to]

\* CallBackThreadHandler attaches to the VM, or returns.
Attach(k) ==
  /\ \/ CallbackAt(k, "starting", "waiting")
     \/ StartFails /\ CallbackAt(k, "starting", "failed")
  /\ UNCHANGED <<initVars, crashVars, sharedVars, told>>

\* Mutant: takes a semaphore nobody posted.
SkipCrash(k) ==
  /\ CallbackAt(k, "waiting", "notifying")
  /\ cat' = cat - 1
  /\ UNCHANGED <<initVars, crashVars, done, crashInfo, live, told>>

AwaitCrash(k) ==
  /\ CallbackAt(k, "waiting", "notifying") /\ cat > 0
  /\ cat' = cat - 1
  /\ UNCHANGED <<initVars, crashVars, done, crashInfo, live, told>>

Notify2Java(k) ==
  /\ CallbackAt(k, "notifying", "posting")
  /\ told' = IF method THEN [told EXCEPT ![crashInfo] = @ + 1] ELSE told
  /\ UNCHANGED <<initVars, crashVars, sharedVars>>

\* Mutant: does not post.
PostNoDone(k) ==
  /\ CallbackAt(k, "posting", "deleting")
  /\ done' = done
  /\ UNCHANGED <<initVars, crashVars, cat, crashInfo, live, told>>

PostDone(k) ==
  /\ CallbackAt(k, "posting", "deleting")
  /\ done' = done + 1
  /\ UNCHANGED <<initVars, crashVars, cat, crashInfo, live, told>>

\* delete g_crash_info, whatever it points to by now.
DeleteInfo(k) ==
  /\ CallbackAt(k, "deleting", "over")
  /\ live' = live \ {crashInfo}
  /\ UNCHANGED <<initVars, crashVars, cat, done, crashInfo, told>>

Dead == exit /\ UNCHANGED vars

-----------------------------------------------------------------------------

Init ==
  /\ call = [k \in Calls |-> "none"]
  /\ callback = [k \in Calls |-> "none"]
  /\ pc = [t \in Threads |-> "run"]
  /\ mutex = Nobody
  /\ installed = FALSE
  /\ connected = FALSE
  /\ method = FALSE
  /\ cat = 0
  /\ done = 0
  /\ crashInfo = Nobody
  /\ live = {}
  /\ told = [t \in Threads |-> 0]
  /\ exit = FALSE

InitStep(k) ==
  InitCallbackThread(k) \/ InitCallbackObject(k) \/ InitHandler(k) \/ SetWholeCallback(k)

CrashStep(t) ==
  \/ Lock(t) \/ DumpOnly(t) \/ AllocateInfo(t) \/ PostCrash(t) \/ AwaitDone(t)
  \/ Retrigger(t)

CallbackStep(k) ==
  Attach(k) \/ AwaitCrash(k) \/ Notify2Java(k) \/ PostDone(k) \/ DeleteInfo(k)

Next ==
  \/ \E k \in Calls : InitStep(k)
  \/ \E t \in Threads : Crash(t)
  \/ \E t \in Threads : CrashStep(t)
  \/ \E k \in Calls : CallbackStep(k)
  \/ Dead

Spec == Init /\ [][Next]_vars

\* Threads that can run are scheduled; onCrash returns.
FairSpec ==
  /\ Spec
  /\ \A t \in Threads : WF_vars(CrashStep(t))
  /\ \A k \in Calls : WF_vars(CallbackStep(k))

-----------------------------------------------------------------------------

TypeOK ==
  /\ call \in [Calls -> CallSteps]
  /\ callback \in [Calls -> CallbackSteps]
  /\ pc \in [Threads -> CrashSteps]
  /\ mutex \in Threads \cup {Nobody}
  /\ installed \in BOOLEAN /\ connected \in BOOLEAN /\ method \in BOOLEAN
  /\ cat \in Nat /\ done \in Nat
  /\ crashInfo \in Threads \cup {Nobody}
  /\ live \in SUBSET Threads
  /\ told \in [Threads -> Nat]
  /\ exit \in BOOLEAN

\* No crash was reported before that of t: the callback thread that served
\* one still holds g_crash_info, and deletes it whosever it is by then.
First(t) == \A u \in Threads \ {t} : pc[u] # "returned"

\* What a callback thread reads while it calls Java is there: g_crash_info has
\* not been deleted, and crash_thread_name, a buffer on the stack of
\* DumpCallback, belongs to a thread that still waits.
ReportIsAlive ==
  \A k \in Calls : callback[k] = "notifying" /\ First(crashInfo) =>
    crashInfo \in live /\ Waits(crashInfo)

\* DumpCallback writes to the object it allocated, before anybody deletes it.
FillsLiveInfo ==
  \A t \in Threads : pc[t] = "filling" /\ First(t) => crashInfo = t /\ t \in live

\* Java hears of a crash at most once, however many callback threads there are
\* and whatever a late initBreakpadNative does to the semaphores.
ToldOnce == \A t \in Threads : told[t] <= 1

\* A crash whose dump is there ends the process, whether or not other threads
\* crash meanwhile and whether or not the one callback thread is used up.
CrashEnds == \A t \in Threads : (pc[t] = "entered") ~> exit

\* "After an exception this thread is executed": a crash that reached
\* DumpCallback is told to Java, unless the process ended with another one.
CrashIsReported ==
  \A t \in Threads :
    (pc[t] = "filling") ~> \/ told[t] > 0
                           \/ exit /\ \E u \in Threads \ {t} : pc[u] = "returned"

\* The promise of CrashReport, for the crash of every thread.
phase ==
  [t \in Threads |->
     IF pc[t] = "returned" THEN "resumed"
     ELSE IF pc[t] # "filling" /\ ~Waits(t) THEN "running"
     ELSE IF told[t] = 0 THEN "reporting" ELSE "told"]

Report == INSTANCE CrashReport WITH Threads <- Threads, phase <- phase

CrashReportSpec == Report!Spec
=============================================================================
