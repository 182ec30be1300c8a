-------------------------- MODULE JavaBridgeProofs --------------------------
(* What holds of JavaBridge for all crashing threads and all numbers of     *)
(* initBreakpadNative calls.                                                *)
EXTENDS JavaBridge, TLAPS

\* The initial state has the right types.
LEMMA TypeInitially == Init => TypeOK
<1> SUFFICES ASSUME Init PROVE TypeOK
  OBVIOUS
<1> USE DEF Init
<1>1. /\ call \in [Calls -> CallSteps]
      /\ callback \in [Calls -> CallbackSteps]
      /\ pc \in [Threads -> CrashSteps]
  BY DEF CallSteps, CallbackSteps, CrashSteps
<1>2. installed \in BOOLEAN /\ connected \in BOOLEAN /\ method \in BOOLEAN /\ exit \in BOOLEAN
  OBVIOUS
<1>3. cat \in Nat /\ done \in Nat /\ told \in [Threads -> Nat]
  OBVIOUS
<1>4. mutex \in Threads \cup {Nobody} /\ crashInfo \in Threads \cup {Nobody}
  OBVIOUS
<1>5. live \in SUBSET Threads
  OBVIOUS
<1> QED
  BY <1>1, <1>2, <1>3, <1>4, <1>5, Zenon DEF TypeOK

\* Every step keeps them.
LEMMA TypeInductive == TypeOK /\ [Next]_vars => TypeOK'
<1> SUFFICES ASSUME TypeOK, [Next]_vars PROVE TypeOK'
  OBVIOUS
<1> USE BridgeAssumption DEF TypeOK
<1>1. ASSUME NEW k \in Calls, InitStep(k) PROVE TypeOK'
  <2> USE DEF CallSteps, CallbackSteps, CrashSteps, crashVars, sharedVars
  <2>1. CASE InitCallbackThread(k)
    BY <2>1 DEF InitCallbackThread
  <2>2. CASE InitCallbackObject(k)
    BY <2>2 DEF InitCallbackObject
  <2>3. CASE InitHandler(k)
    BY <2>3 DEF InitHandler
  <2>4. CASE SetWholeCallback(k)
    BY <2>4 DEF SetWholeCallback
  <2> QED
    BY <1>1, <2>1, <2>2, <2>3, <2>4 DEF InitStep
<1>2. ASSUME NEW t \in Threads, Crash(t) \/ CrashStep(t) PROVE TypeOK'
  <2> USE DEF CrashSteps, At, initVars, sharedVars
  <2>1. CASE Crash(t)
    BY <2>1 DEF Crash
  <2>2. CASE Lock(t)
    BY <2>2 DEF Lock
  <2>3. CASE DumpOnly(t)
    BY <2>3 DEF DumpOnly
  <2>4. CASE AllocateInfo(t)
    BY <2>4 DEF AllocateInfo
  <2>5. CASE PostCrash(t)
    BY <2>5 DEF PostCrash
  <2>6. CASE AwaitDone(t)
    BY <2>6 DEF AwaitDone
  <2>7. CASE Retrigger(t)
    BY <2>7 DEF Retrigger
  <2> QED
    BY <1>2, <2>1, <2>2, <2>3, <2>4, <2>5, <2>6, <2>7 DEF CrashStep
<1>3. ASSUME NEW k \in Calls, CallbackStep(k) PROVE TypeOK'
  <2> USE DEF CallbackSteps, CallbackAt, initVars, crashVars, sharedVars
  <2>1. CASE Attach(k)
    BY <2>1 DEF Attach
  <2>2. CASE AwaitCrash(k)
    BY <2>2 DEF AwaitCrash
  <2>3. CASE Notify2Java(k)
    <3>1. told' = told \/ told' = [told EXCEPT ![crashInfo] = @ + 1]
      BY <2>3, Zenon DEF Notify2Java
    <3>2. told' \in [Threads -> Nat]
      BY <3>1
    <3> QED
      BY <2>3, <3>2 DEF Notify2Java
  <2>4. CASE PostDone(k)
    BY <2>4 DEF PostDone
  <2>5. CASE DeleteInfo(k)
    BY <2>5 DEF DeleteInfo
  <2> QED
    BY <1>3, <2>1, <2>2, <2>3, <2>4, <2>5 DEF CallbackStep
<1>4. CASE Dead \/ UNCHANGED vars
  BY <1>4 DEF Dead, vars, initVars, crashVars, sharedVars
<1> QED
  BY <1>1, <1>2, <1>3, <1>4 DEF Next

\* Type correctness, for any number of crashes and initialisations.
THEOREM TypeCorrect == Spec => []TypeOK
  BY TypeInitially, TypeInductive, PTL DEF Spec

-----------------------------------------------------------------------------

\* A crash from the moment it holds g_handler_stack_mutex_ until it lets go.
Holding(t) == pc[t] \in {"dumping", "filling", "waiting", "stranded"}

\* The mutex is held by the crash being handled, and no other is.
HolderAlone == \A t \in Threads : Holding(t) => mutex = t

\* A crash that is being reported, as the callback thread finds it.
Pending == crashInfo \in Threads /\ Waits(crashInfo) /\ told[crashInfo] = 0

Serves(k) == callback[k] \in {"notifying", "posting"}

\* Where the one report of a crash can be: in the first semaphore, with one
\* callback thread, or in the second semaphore, and in one of the three.
OneReport ==
  /\ HolderAlone
  /\ \A t \in Threads : told[t] <= 1
  /\ \A t \in Threads : pc[t] \in {"run", "entered", "dumping", "filling"} => told[t] = 0
  /\ \A t \in Threads : pc[t] = "filling" \/ Waits(t) => crashInfo = t
  /\ cat > 0 => cat = 1 /\ Pending /\ done = 0 /\ \A k \in Calls : ~Serves(k)
  /\ done > 0 => /\ done = 1 /\ crashInfo \in Threads /\ Waits(crashInfo) /\ cat = 0
                 /\ \A k \in Calls : ~Serves(k)
  /\ \A k \in Calls : callback[k] = "notifying" => Pending
  /\ \A k \in Calls : Serves(k) =>
       /\ cat = 0 /\ done = 0 /\ crashInfo \in Threads /\ Waits(crashInfo)
       /\ \A l \in Calls : Serves(l) => l = k

\* When the lookup of onCrash cannot fail: a report that is past Notify2Java
\* has been told.
Heard ==
  /\ connected => method
  /\ \A k \in Calls : call[k] \in {"object", "handler", "ready"} => method
  /\ \A t \in Threads : pc[t] = "filling" \/ Waits(t) => connected
  /\ done > 0 => told[crashInfo] = 1
  /\ \A k \in Calls : callback[k] = "posting" => told[crashInfo] = 1

\* OneReport is inductive, given the types.
LEMMA OneReportInductive ==
  TypeOK /\ OneReport /\ [Next]_vars => OneReport'
<1> SUFFICES ASSUME TypeOK, OneReport, [Next]_vars PROVE OneReport'
  OBVIOUS
<1> USE BridgeAssumption DEF OneReport, TypeOK, HolderAlone, Holding, Pending, Waits, Serves
<1>1. ASSUME NEW k \in Calls, InitStep(k) PROVE OneReport'
  <2> USE DEF crashVars, sharedVars
  <2>1. CASE InitCallbackThread(k)
    BY <2>1 DEF InitCallbackThread
  <2>2. CASE InitCallbackObject(k)
    BY <2>2 DEF InitCallbackObject
  <2>3. CASE InitHandler(k)
    BY <2>3 DEF InitHandler
  <2>4. CASE SetWholeCallback(k)
    BY <2>4 DEF SetWholeCallback
  <2> QED
    BY <1>1, <2>1, <2>2, <2>3, <2>4 DEF InitStep
<1>2. ASSUME NEW t \in Threads, Crash(t) \/ CrashStep(t) PROVE OneReport'
  <2> USE DEF At, initVars, sharedVars
  <2>1. CASE Crash(t)
    BY <2>1 DEF Crash
  <2>2. CASE Lock(t)
    BY <2>2 DEF Lock
  <2>3. CASE DumpOnly(t)
    BY <2>3 DEF DumpOnly
  <2>4. CASE AllocateInfo(t)
    BY <2>4 DEF AllocateInfo
  <2>5. CASE PostCrash(t)
    BY <2>5 DEF PostCrash
  <2>6. CASE AwaitDone(t)
    BY <2>6 DEF AwaitDone
  <2>7. CASE Retrigger(t)
    BY <2>7 DEF Retrigger
  <2> QED
    BY <1>2, <2>1, <2>2, <2>3, <2>4, <2>5, <2>6, <2>7 DEF CrashStep
<1>3. ASSUME NEW k \in Calls, CallbackStep(k) PROVE OneReport'
  <2> USE DEF CallbackAt, initVars, crashVars, sharedVars
  <2>1. CASE Attach(k)
    BY <2>1 DEF Attach
  <2>2. CASE AwaitCrash(k)
    BY <2>2 DEF AwaitCrash
  <2>3. CASE Notify2Java(k)
    BY <2>3 DEF Notify2Java
  <2>4. CASE PostDone(k)
    BY <2>4 DEF PostDone
  <2>5. CASE DeleteInfo(k)
    BY <2>5 DEF DeleteInfo
  <2> QED
    BY <1>3, <2>1, <2>2, <2>3, <2>4, <2>5 DEF CallbackStep
<1>4. CASE Dead \/ UNCHANGED vars
  BY <1>4 DEF Dead, vars, initVars, crashVars, sharedVars
<1> QED
  BY <1>1, <1>2, <1>3, <1>4 DEF Next

\* Initially no report is anywhere.
LEMMA OneReportInitially == Init => OneReport
  BY BridgeAssumption
  DEF Init, OneReport, HolderAlone, Holding, Pending, Waits, Serves

\* Java hears of a crash at most once, for any number of crashing threads and
\* of calls of initBreakpadNative, whatever fails and whenever the calls come.
THEOREM ToldOnceTheorem == Spec => []ToldOnce
<1>1. TypeOK /\ OneReport => ToldOnce
  BY DEF OneReport, ToldOnce
<1> QED
  BY <1>1, TypeCorrect, OneReportInitially, OneReportInductive, PTL DEF Spec

-----------------------------------------------------------------------------

\* With a lookup that succeeds, Notify2Java does tell.
LEMMA HeardInductive ==
  ASSUME ~LookupFails
  PROVE  TypeOK /\ OneReport /\ Heard /\ [Next]_vars => Heard'
<1> SUFFICES ASSUME TypeOK, OneReport, Heard, [Next]_vars PROVE Heard'
  OBVIOUS
<1> USE DEF Heard, OneReport, TypeOK, HolderAlone, Holding, Pending, Waits, Serves
<1>1. ASSUME NEW k \in Calls, InitStep(k) PROVE Heard'
  <2> USE DEF crashVars, sharedVars
  <2>1. CASE InitCallbackThread(k)
    BY <2>1 DEF InitCallbackThread
  <2>2. CASE InitCallbackObject(k)
    BY <2>2 DEF InitCallbackObject
  <2>3. CASE InitHandler(k)
    BY <2>3 DEF InitHandler
  <2>4. CASE SetWholeCallback(k)
    BY <2>4 DEF SetWholeCallback
  <2> QED
    BY <1>1, <2>1, <2>2, <2>3, <2>4 DEF InitStep
<1>2. ASSUME NEW t \in Threads, Crash(t) \/ CrashStep(t) PROVE Heard'
  <2> USE DEF At, initVars, sharedVars
  <2>1. CASE Crash(t)
    BY <2>1 DEF Crash
  <2>2. CASE Lock(t)
    BY <2>2 DEF Lock
  <2>3. CASE DumpOnly(t)
    BY <2>3 DEF DumpOnly
  <2>4. CASE AllocateInfo(t)
    BY <2>4 DEF AllocateInfo
  <2>5. CASE PostCrash(t)
    BY <2>5 DEF PostCrash
  <2>6. CASE AwaitDone(t)
    BY <2>6 DEF AwaitDone
  <2>7. CASE Retrigger(t)
    BY <2>7 DEF Retrigger
  <2> QED
    BY <1>2, <2>1, <2>2, <2>3, <2>4, <2>5, <2>6, <2>7 DEF CrashStep
<1>3. ASSUME NEW k \in Calls, CallbackStep(k) PROVE Heard'
  <2> USE DEF CallbackAt, initVars, crashVars, sharedVars
  <2>1. CASE Attach(k)
    BY <2>1 DEF Attach
  <2>2. CASE AwaitCrash(k)
    BY <2>2 DEF AwaitCrash
  <2>3. CASE Notify2Java(k)
    BY <2>3 DEF Notify2Java
  <2>4. CASE PostDone(k)
    BY <2>4 DEF PostDone
  <2>5. CASE DeleteInfo(k)
    BY <2>5 DEF DeleteInfo
  <2> QED
    BY <1>3, <2>1, <2>2, <2>3, <2>4, <2>5 DEF CallbackStep
<1>4. CASE Dead \/ UNCHANGED vars
  BY <1>4 DEF Dead, vars, initVars, crashVars, sharedVars
<1> QED
  BY <1>1, <1>2, <1>3, <1>4 DEF Next

\* A step that moves no crash and tells Java nothing is invisible there.
LEMMA PhaseStutter ==
  ASSUME pc' = pc, told' = told
  PROVE  UNCHANGED phase
  BY DEF phase, Waits

\* Every step of the bridge is a step of CrashReport, or none.
LEMMA StepReports ==
  TypeOK /\ OneReport /\ Heard /\ [Next]_vars => [Report!Next]_phase
<1> SUFFICES ASSUME TypeOK, OneReport, Heard, [Next]_vars PROVE [Report!Next]_phase
  OBVIOUS
<1> USE DEF TypeOK, phase, Waits
<1>1. ASSUME NEW k \in Calls, InitStep(k) PROVE UNCHANGED phase
  <2>1. CASE InitCallbackThread(k)
    BY <2>1 DEF InitCallbackThread
  <2>2. CASE ~InitCallbackThread(k)
    BY <1>1, <2>2, PhaseStutter
    DEF InitStep, InitCallbackObject, InitHandler, SetWholeCallback, crashVars
  <2> QED
    BY <2>1, <2>2
<1>2. ASSUME NEW t \in Threads, Crash(t) \/ Lock(t) \/ PostCrash(t) \/ Retrigger(t)
      PROVE  UNCHANGED phase
  BY <1>2 DEF Crash, Lock, PostCrash, Retrigger, At
<1>3. ASSUME NEW t \in Threads, DumpOnly(t) PROVE Report!GiveUp(t)
  BY <1>3 DEF DumpOnly, At, Report!GiveUp, Report!To
<1>4. ASSUME NEW t \in Threads, AllocateInfo(t) PROVE Report!Report(t)
  <2>1. \A u \in Threads : ~Report!Open(u)
    BY <1>4 DEF AllocateInfo, At, OneReport, HolderAlone, Holding, Report!Open
  <2>2. Report!To(t, "running", "reporting")
    BY <1>4 DEF AllocateInfo, At, OneReport, Report!To
  <2> QED
    BY <2>1, <2>2 DEF Report!Report
<1>5. ASSUME NEW t \in Threads, AwaitDone(t) PROVE Report!Resume(t)
  <2>1. told[t] = 1
    BY <1>5 DEF AwaitDone, At, OneReport, Heard
  <2>2. phase[t] = "told"
    BY <1>5, <2>1 DEF AwaitDone, At
  <2>3. pc' = [pc EXCEPT ![t] = "returned"] /\ told' = told
    BY <1>5 DEF AwaitDone, At
  <2>4. phase' = [phase EXCEPT ![t] = "resumed"]
    BY <2>3
  <2> QED
    BY <2>2, <2>4 DEF Report!Resume, Report!To
<1>6. ASSUME NEW k \in Calls, Notify2Java(k)
      PROVE  crashInfo \in Threads /\ Report!Tell(crashInfo)
  <2>1. Pending
    BY <1>6 DEF Notify2Java, CallbackAt, OneReport
  <2>2. method
    BY <2>1, Zenon DEF Heard, Pending
  <2>3. told' = [told EXCEPT ![crashInfo] = @ + 1] /\ pc' = pc
    BY <1>6, <2>2, Zenon DEF Notify2Java, crashVars
  <2>4. phase[crashInfo] = "reporting"
    BY <2>1 DEF Pending
  <2>5. phase' = [phase EXCEPT ![crashInfo] = "told"]
    <3>1. told'[crashInfo] = 1
      BY <2>1, <2>3 DEF Pending
    <3>2. \A t \in Threads \ {crashInfo} : told'[t] = told[t]
      BY <2>3
    <3>3. phase'[crashInfo] = "told"
      BY <2>1, <2>3, <3>1 DEF Pending
    <3>4. \A t \in Threads \ {crashInfo} : phase'[t] = phase[t]
      BY <2>3, <3>2
    <3>5. /\ phase' = [t \in Threads |-> phase'[t]]
          /\ phase = [t \in Threads |-> phase[t]]
      OBVIOUS
    <3> HIDE DEF phase
    <3> QED
      BY <2>1, <3>3, <3>4, <3>5 DEF Pending
  <2> QED
    BY <2>1, <2>4, <2>5 DEF Pending, Report!Tell, Report!To
<1>7. ASSUME NEW k \in Calls, Attach(k) \/ AwaitCrash(k) \/ PostDone(k) \/ DeleteInfo(k)
      PROVE  UNCHANGED phase
  BY <1>7, PhaseStutter DEF Attach, AwaitCrash, PostDone, DeleteInfo, crashVars
<1>8. CASE Dead \/ UNCHANGED vars
  BY <1>8, PhaseStutter DEF Dead, vars, crashVars
<1> HIDE DEF TypeOK, phase, Waits
<1>9. ASSUME NEW t \in Threads, CrashStep(t) PROVE [Report!Next]_phase
  BY <1>2, <1>3, <1>4, <1>5, <1>9, Zenon DEF CrashStep, Report!Next
<1>10. ASSUME NEW k \in Calls, CallbackStep(k) PROVE [Report!Next]_phase
  BY <1>6, <1>7, <1>10, Zenon DEF CallbackStep, Report!Next
<1> QED
  BY <1>1, <1>2, <1>8, <1>9, <1>10, Zenon DEF Next

\* The bridge keeps the promise of CrashReport when the lookup of onCrash
\* succeeds: a crash is told before it takes its course, one at a time.
THEOREM BridgeImplementsReport ==
  ASSUME ~LookupFails
  PROVE  Spec => CrashReportSpec
<1>1. Init => Report!Init
  BY DEF Init, Report!Init, phase, Waits
<1>2. Init => Heard
  BY DEF Init, Heard, Waits
<1> QED
  BY <1>1, <1>2, TypeCorrect, OneReportInitially, OneReportInductive, HeardInductive,
     StepReports, PTL
  DEF Spec, CrashReportSpec, Report!Spec

-----------------------------------------------------------------------------

\* The report of t is still to be read.
Unread(t) ==
  \/ pc[t] = "filling"
  \/ Waits(t) /\ (cat > 0 \/ \E k \in Calls : callback[k] = "notifying")

\* As long as no other crash returned: a report that is still to be read is there,
\* and whoever is about to delete one deletes a report that was read.
Alive ==
  /\ \A t \in Threads : First(t) /\ Unread(t) => t \in live
  /\ \A k \in Calls : callback[k] = "deleting" =>
       \/ \E t \in Threads : pc[t] = "returned"
       \/ crashInfo \in Threads /\ Waits(crashInfo) /\ ~Unread(crashInfo)
            /\ \A l \in Calls : ~Serves(l)

\* Alive is inductive, given the types and OneReport.
LEMMA AliveInductive ==
  TypeOK /\ OneReport /\ Alive /\ [Next]_vars => Alive'
<1> SUFFICES ASSUME TypeOK, OneReport, Alive, [Next]_vars PROVE Alive'
  OBVIOUS
<1> USE BridgeAssumption
    DEF OneReport, Alive, Unread, First, TypeOK, HolderAlone, Holding, Pending, Waits, Serves
<1>1. ASSUME NEW k \in Calls, InitStep(k) PROVE Alive'
  <2> USE DEF crashVars, sharedVars
  <2>1. CASE InitCallbackThread(k)
    BY <2>1 DEF InitCallbackThread
  <2>2. CASE InitCallbackObject(k)
    BY <2>2 DEF InitCallbackObject
  <2>3. CASE InitHandler(k)
    BY <2>3 DEF InitHandler
  <2>4. CASE SetWholeCallback(k)
    BY <2>4 DEF SetWholeCallback
  <2> QED
    BY <1>1, <2>1, <2>2, <2>3, <2>4 DEF InitStep
<1>2. ASSUME NEW t \in Threads, Crash(t) \/ CrashStep(t) PROVE Alive'
  <2> USE DEF At, initVars, sharedVars
  <2>1. CASE Crash(t)
    BY <2>1 DEF Crash
  <2>2. CASE Lock(t)
    BY <2>2 DEF Lock
  <2>3. CASE DumpOnly(t)
    BY <2>3 DEF DumpOnly
  <2>4. CASE AllocateInfo(t)
    BY <2>4 DEF AllocateInfo
  <2>5. CASE PostCrash(t)
    BY <2>5 DEF PostCrash
  <2>6. CASE AwaitDone(t)
    BY <2>6 DEF AwaitDone
  <2>7. CASE Retrigger(t)
    BY <2>7 DEF Retrigger
  <2> QED
    BY <1>2, <2>1, <2>2, <2>3, <2>4, <2>5, <2>6, <2>7 DEF CrashStep
<1>3. ASSUME NEW k \in Calls, CallbackStep(k) PROVE Alive'
  <2> USE DEF CallbackAt, initVars, crashVars, sharedVars
  <2>1. CASE Attach(k)
    BY <2>1 DEF Attach
  <2>2. CASE AwaitCrash(k)
    BY <2>2 DEF AwaitCrash
  <2>3. CASE Notify2Java(k)
    BY <2>3 DEF Notify2Java
  <2>4. CASE PostDone(k)
    BY <2>4 DEF PostDone
  <2>5. CASE DeleteInfo(k)
    BY <2>5 DEF DeleteInfo
  <2> QED
    BY <1>3, <2>1, <2>2, <2>3, <2>4, <2>5 DEF CallbackStep
<1>4. CASE Dead \/ UNCHANGED vars
  BY <1>4 DEF Dead, vars, initVars, crashVars, sharedVars
<1> QED
  BY <1>1, <1>2, <1>3, <1>4 DEF Next

LEMMA AliveHolds == Spec => [](TypeOK /\ OneReport /\ Alive)
<1>1. Init => Alive
  BY DEF Init, Alive, Unread, Waits
<1> QED
  BY <1>1, TypeInitially, TypeInductive, OneReportInitially, OneReportInductive, AliveInductive,
     PTL DEF Spec

\* What the callback thread reads while it calls Java, the object and the name on
\* the stack of DumpCallback, is there until another crash has returned.
THEOREM ReportIsAliveTheorem == Spec => []ReportIsAlive
<1>1. TypeOK /\ OneReport /\ Alive => ReportIsAlive
  BY DEF OneReport, Alive, Unread, Pending, ReportIsAlive
<1> QED
  BY <1>1, AliveHolds, PTL

\* DumpCallback fills the object it allocated, which nobody deletes meanwhile, until
\* another crash has returned.
THEOREM FillsLiveInfoTheorem == Spec => []FillsLiveInfo
<1>1. OneReport /\ Alive => FillsLiveInfo
  BY DEF OneReport, Alive, Unread, FillsLiveInfo
<1> QED
  BY <1>1, AliveHolds, PTL
=============================================================================
