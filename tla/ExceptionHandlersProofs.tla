----------------------- MODULE ExceptionHandlersProofs -----------------------
(* What holds of ExceptionHandlers for all threads, signals and handlers.   *)
EXTENDS ExceptionHandlers, FiniteSetTheorems, TLAPS

\* What a delivery leaves of the thread it is for.
LEMMA DeliverTypes ==
  ASSUME TypeOK, NEW t \in Threads, NEW s \in Signals, Deliver(t, s)
  PROVE  /\ pc' \in [Threads -> Locations]
         /\ blocked' \in [Threads -> SUBSET Signals]
         /\ bogus' \in [Threads -> BOOLEAN]
<1> USE DEF TypeOK, ThreadsOK
<1>1. pc' \in [Threads -> Locations]
  BY DEF Deliver, Locations
<1>2. blocked' \in [Threads -> SUBSET Signals]
  BY DEF Deliver, Mask
<1>3. bogus' \in [Threads -> BOOLEAN]
  BY Zenon DEF Deliver
<1> QED
  BY <1>1, <1>2, <1>3

\* The threads keep their types under every step.
LEMMA ThreadsInductive == TypeOK /\ [Next]_vars => ThreadsOK'
<1> SUFFICES ASSUME TypeOK, [Next]_vars PROVE ThreadsOK'
  OBVIOUS
<1> USE DEF TypeOK, ThreadsOK, Locations
<1>1. ASSUME UNCHANGED threadVars PROVE ThreadsOK'
  BY <1>1 DEF threadVars
<1>2. ASSUME NEW t \in Threads, NEW s \in Signals, NEW user \in BOOLEAN, Crash(t, s, user)
      PROVE  ThreadsOK'
  BY <1>2, DeliverTypes DEF Crash
<1>3. ASSUME NEW t \in Threads, FirstChanceRecovers(t) PROVE ThreadsOK'
  BY <1>3 DEF FirstChanceRecovers, Return
<1>4. ASSUME NEW t \in Threads, HandlerStep(t) PROVE ThreadsOK'
  <2>1. CASE Lock(t)
    BY <2>1 DEF Lock
  <2>2. CASE ResetHandler(t)
    BY <2>2 DEF ResetHandler, Return
  <2>3. CASE StartHandlers(t)
    <3>1. Len(stack) \in Int
      BY DEF BreakpadOK
    <3>2. pc' \in [Threads -> Locations]
      BY <2>3 DEF StartHandlers, NestedSignal
    <3>3. idx' \in [Threads -> Int]
      BY <2>3, <3>1 DEF StartHandlers
    <3>4. handled' \in [Threads -> BOOLEAN]
      BY <2>3, Zenon DEF StartHandlers
    <3> QED
      BY <2>3, <3>2, <3>3, <3>4 DEF StartHandlers
  <2>4. CASE FillContext(t)
    BY <2>4 DEF FillContext
  <2>5. CASE HandleSignal(t)
    BY <2>5 DEF HandleSignal
  <2>6. CASE Conclude(t)
    BY <2>6 DEF Conclude
  <2>7. CASE Retrigger(t)
    BY <2>7 DEF Retrigger, Return
  <2>8. CASE Redeliver(t)
    BY <2>8, DeliverTypes DEF Redeliver
  <2> QED
    BY <1>4, <2>1, <2>2, <2>3, <2>4, <2>5, <2>6, <2>7, <2>8 DEF HandlerStep
<1>5. ASSUME NEW t \in Threads, NEW s \in Signals, FaultInHandler(t, s) PROVE ThreadsOK'
  BY <1>5 DEF FaultInHandler, NestedSignal
<1>6. ASSUME NEW t \in Threads, SimulateSignalDelivery(t) PROVE ThreadsOK'
  BY <1>6 DEF SimulateSignalDelivery
<1> QED
  BY <1>1, <1>2, <1>3, <1>4, <1>5, <1>6
  DEF Next, vars, Construct, Destruct, SetFirstChanceExceptionHandler, Borrow, GiveBack, Dead

\* So do the kernel's variables.
LEMMA KernelInductive == TypeOK /\ [Next]_vars => KernelOK'
<1> SUFFICES ASSUME TypeOK, [Next]_vars PROVE KernelOK'
  OBVIOUS
<1> USE DEF TypeOK, KernelOK, Dispositions, Ours
<1>1. ASSUME UNCHANGED kernelVars PROVE KernelOK'
  BY <1>1 DEF kernelVars
<1>11. ASSUME NEW reason \in {"crash", "handler", "taken", "back"}, Changed(reason)
       PROVE  changer' \in [Threads -> {"nobody", "crash", "handler", "taken", "back"}]
  BY <1>11 DEF Changed
<1>2. ASSUME NEW how \in Dispositions \cup {"forced", "_exit"}, NEW t \in Threads, Die(how, t)
      PROVE  KernelOK'
  BY <1>2 DEF Die
<1>3. ASSUME NEW t \in Threads, NEW s \in Signals, Deliver(t, s) PROVE KernelOK'
  BY <1>1, <1>2, <1>3 DEF Deliver
<1>4. ASSUME NEW t \in Threads, NEW s \in Signals, NestedSignal(t, s) PROVE KernelOK'
  BY <1>1, <1>2, <1>4 DEF NestedSignal
<1>5. ASSUME InstallHandlersLocked PROVE disp' \in [Signals -> Dispositions]
  BY <1>5 DEF InstallHandlersLocked
<1>6. ASSUME RestoreHandlersLocked PROVE disp' \in [Signals -> Dispositions]
  BY <1>6 DEF RestoreHandlersLocked, BreakpadOK
<1>7. ASSUME NEW h \in Handlers, NEW install \in BOOLEAN, Construct(h, install)
      PROVE  KernelOK'
  BY <1>5, <1>7, <1>11 DEF Construct
<1>8. ASSUME NEW h \in Handlers, Destruct(h) PROVE KernelOK'
  BY <1>6, <1>8, <1>11 DEF Destruct
<1>9. ASSUME NEW t \in Threads, HandlerStep(t) PROVE KernelOK'
  <2>1. CASE ResetHandler(t)
    BY <2>1, <1>11 DEF ResetHandler, InstallDefaultHandler, ThreadsOK
  <2>2. CASE StartHandlers(t)
    BY <2>2, <1>1, <1>4, SignalsAssumption DEF StartHandlers
  <2>3. CASE Conclude(t)
    BY <2>3, <1>6, <1>11 DEF Conclude, InstallDefaultHandler, ThreadsOK
  <2>4. CASE Retrigger(t)
    BY <2>4, <1>1, <1>2 DEF Retrigger
  <2>5. CASE Redeliver(t)
    BY <2>5, <1>3 DEF Redeliver, ThreadsOK
  <2> QED
    BY <1>1, <1>9, <2>1, <2>2, <2>3, <2>4, <2>5
    DEF HandlerStep, Lock, FillContext, HandleSignal
<1>10. ASSUME NEW s \in Signals, Borrow(s) \/ GiveBack(s) PROVE KernelOK'
  BY <1>10, <1>11 DEF Borrow, GiveBack
<1> QED
  BY <1>1, <1>3, <1>4, <1>7, <1>8, <1>9, <1>10
  DEF Next, vars, SetFirstChanceExceptionHandler, Crash, FirstChanceRecovers,
      FaultInHandler, SimulateSignalDelivery, Dead

\* And so do the globals of exception_handler.cc.
LEMMA BreakpadInductive == TypeOK /\ [Next]_vars => BreakpadOK'
<1> SUFFICES ASSUME TypeOK, [Next]_vars PROVE BreakpadOK'
  OBVIOUS
<1> USE DEF TypeOK, BreakpadOK
<1>1. ASSUME UNCHANGED breakpadVars PROVE BreakpadOK'
  BY <1>1 DEF breakpadVars
<1>2. ASSUME NEW h \in Handlers, NEW install \in BOOLEAN, Construct(h, install)
      PROVE  BreakpadOK'
  <2>1. oldHandlers' \in [Signals -> Dispositions] /\ handlersInstalled' \in BOOLEAN
    BY <1>2 DEF Construct, InstallHandlersLocked, KernelOK
  <2> QED
    BY <1>2, <2>1 DEF Construct
<1>3. ASSUME NEW h \in Handlers, Destruct(h) PROVE BreakpadOK'
  <2>1. PICK i \in 1..Len(stack) : stack' = RemoveAt(stack, i)
    BY <1>3 DEF Destruct
  <2>2. stack' \in Seq(Handlers)
    BY <2>1 DEF RemoveAt
  <2>3. handlersInstalled' \in BOOLEAN
    BY <1>3 DEF Destruct, RestoreHandlersLocked
  <2> QED
    BY <1>3, <2>2, <2>3 DEF Destruct
<1>4. CASE SetFirstChanceExceptionHandler
  BY <1>4 DEF SetFirstChanceExceptionHandler
<1>5. ASSUME NEW t \in Threads, HandlerStep(t) PROVE BreakpadOK'
  <2>1. CASE Lock(t)
    BY <2>1 DEF Lock
  <2>2. CASE ResetHandler(t)
    BY <2>2 DEF ResetHandler
  <2>3. CASE FillContext(t)
    BY <2>3 DEF FillContext
  <2>4. CASE Conclude(t)
    BY <2>4 DEF Conclude, RestoreHandlersLocked
  <2> QED
    BY <1>1, <1>5, <2>1, <2>2, <2>3, <2>4
    DEF HandlerStep, StartHandlers, HandleSignal, Retrigger, Redeliver
<1>6. ASSUME NEW t \in Threads, SimulateSignalDelivery(t) PROVE BreakpadOK'
  BY <1>6 DEF SimulateSignalDelivery
<1> QED
  BY <1>1, <1>2, <1>3, <1>4, <1>5, <1>6
  DEF Next, vars, Crash, FirstChanceRecovers, FaultInHandler, Borrow, GiveBack, Dead

\* The initial state has the right types.
LEMMA TypeInitially == Init => TypeOK
<1>1. Init => ThreadsOK
  BY SignalsAssumption DEF Init, ThreadsOK, Locations
<1>2. Init => KernelOK
  BY DEF Init, KernelOK, Dispositions, Ours
<1>3. Init => BreakpadOK
  <2>1. Init => oldHandlers \in [Signals -> Dispositions]
    BY DEF Init, Dispositions
  <2>2. Init => stack \in Seq(Handlers)
    BY DEF Init
  <2> QED
    BY <2>1, <2>2, Zenon DEF Init, BreakpadOK
<1> QED
  BY <1>1, <1>2, <1>3 DEF TypeOK

\* Every step keeps them.
LEMMA TypeInductive == TypeOK /\ [Next]_vars => TypeOK'
  BY ThreadsInductive, KernelInductive, BreakpadInductive DEF TypeOK

\* Type correctness, for any number of threads, signals and handlers.
THEOREM TypeCorrect == Spec => []TypeOK
  BY TypeInitially, TypeInductive, PTL DEF Spec

-----------------------------------------------------------------------------

\* A thread between lock and unlock owns the mutex.
Exclusion == \A t \in Threads : Critical(t) => mutex = t

\* Nothing simulates a signal, and the context is the dumping thread's.
ContextInv ==
  ~ClientDumps => /\ \A t \in Threads : pc[t] # "simulating"
                  /\ ContextIsMine

\* Every step keeps the mutex with the thread that is inside.
LEMMA ExclusionInductive == TypeOK /\ Exclusion /\ [Next]_vars => Exclusion'
<1> SUFFICES ASSUME TypeOK, Exclusion, [Next]_vars PROVE Exclusion'
  OBVIOUS
<1> USE SentinelAssumption DEF TypeOK, ThreadsOK, Exclusion, Critical
<1>1. ASSUME UNCHANGED pc, UNCHANGED mutex PROVE Exclusion'
  BY <1>1
<1>2. ASSUME NEW t \in Threads, NEW s \in Signals, ~Critical(t), Deliver(t, s), UNCHANGED mutex
      PROVE  Exclusion'
  BY <1>2 DEF Deliver
<1>3. ASSUME NEW t \in Threads, NEW s \in Signals, Critical(t), NestedSignal(t, s), UNCHANGED mutex
      PROVE  Exclusion'
  BY <1>3 DEF NestedSignal
<1>4. ASSUME NEW t \in Threads, NEW s \in Signals, NEW user \in BOOLEAN, Crash(t, s, user)
      PROVE  Exclusion'
  BY <1>2, <1>4 DEF Crash, breakpadVars
<1>5. ASSUME NEW t \in Threads, FirstChanceRecovers(t) PROVE Exclusion'
  BY <1>5 DEF FirstChanceRecovers, Return, breakpadVars
<1>6. ASSUME NEW t \in Threads, HandlerStep(t) PROVE Exclusion'
  <2>1. CASE Lock(t)
    BY <2>1 DEF Lock
  <2>2. CASE ResetHandler(t)
    BY <2>2 DEF ResetHandler, Return
  <2>3. CASE StartHandlers(t)
    BY <2>3, <1>3, SignalsAssumption DEF StartHandlers, breakpadVars
  <2>4. CASE FillContext(t)
    BY <2>4 DEF FillContext
  <2>5. CASE HandleSignal(t)
    BY <2>5 DEF HandleSignal, breakpadVars
  <2>6. CASE Conclude(t)
    BY <2>6 DEF Conclude
  <2>7. CASE Retrigger(t)
    BY <2>7 DEF Retrigger, Return, breakpadVars
  <2>8. CASE Redeliver(t)
    BY <2>8, <1>2 DEF Redeliver, breakpadVars
  <2> QED
    BY <1>6, <2>1, <2>2, <2>3, <2>4, <2>5, <2>6, <2>7, <2>8 DEF HandlerStep
<1>7. ASSUME NEW t \in Threads, NEW s \in Signals, FaultInHandler(t, s) PROVE Exclusion'
  BY <1>3, <1>7 DEF FaultInHandler, breakpadVars
<1>8. ASSUME NEW t \in Threads, SimulateSignalDelivery(t) PROVE Exclusion'
  BY <1>8 DEF SimulateSignalDelivery
<1> QED
  BY <1>1, <1>4, <1>5, <1>6, <1>7, <1>8
  DEF Next, vars, threadVars, breakpadVars, Construct, Destruct,
      SetFirstChanceExceptionHandler, Borrow, GiveBack, Dead

\* Every step leaves the context to the thread that dumps.
LEMMA ContextInductive ==
  TypeOK /\ Exclusion /\ ContextInv /\ [Next]_vars => ContextInv'
<1> SUFFICES ASSUME TypeOK, Exclusion, ContextInv, [Next]_vars, ~ClientDumps
             PROVE  ContextInv'
  BY DEF ContextInv
<1> USE SentinelAssumption DEF TypeOK, ThreadsOK, Exclusion, Critical, ContextInv, ContextIsMine
<1>1. ASSUME UNCHANGED pc, UNCHANGED context PROVE ContextInv'
  BY <1>1
<1>2. ASSUME NEW t \in Threads, NEW where \in Locations \ {"dumping", "simulating"},
             pc' = [pc EXCEPT ![t] = where], UNCHANGED context
      PROVE  ContextInv'
  BY <1>2
<1>3. ASSUME NEW t \in Threads, NEW s \in Signals, Deliver(t, s), UNCHANGED context
      PROVE  ContextInv'
  BY <1>1, <1>2, <1>3 DEF Deliver, Locations
<1>4. ASSUME NEW t \in Threads, NEW s \in Signals, NestedSignal(t, s), UNCHANGED context
      PROVE  ContextInv'
  BY <1>1, <1>2, <1>4 DEF NestedSignal, Locations
<1>5. ASSUME NEW h \in Handlers, NEW install \in BOOLEAN, Construct(h, install)
      PROVE  ContextInv'
  BY <1>5 DEF Construct, threadVars
<1>6. ASSUME NEW t \in Threads, HandlerStep(t) PROVE ContextInv'
  <2>1. CASE Lock(t)
    BY <2>1, <1>2 DEF Lock, Locations
  <2>2. CASE ResetHandler(t)
    BY <2>2, <1>2 DEF ResetHandler, Return, Locations
  <2>3. CASE StartHandlers(t)
    BY <2>3, <1>2, <1>4, SignalsAssumption DEF StartHandlers, breakpadVars, Locations
  <2>4. CASE FillContext(t)
    BY <2>4 DEF FillContext
  <2>5. CASE HandleSignal(t)
    BY <2>5, <1>2 DEF HandleSignal, breakpadVars, Locations
  <2>6. CASE Conclude(t)
    BY <2>6, <1>2 DEF Conclude, Locations
  <2>7. CASE Retrigger(t)
    BY <2>7, <1>1, <1>2 DEF Retrigger, Return, breakpadVars, Locations
  <2>8. CASE Redeliver(t)
    BY <2>8, <1>3 DEF Redeliver, breakpadVars
  <2> QED
    BY <1>6, <2>1, <2>2, <2>3, <2>4, <2>5, <2>6, <2>7, <2>8 DEF HandlerStep
<1>7. ASSUME NEW t \in Threads, FirstChanceRecovers(t) PROVE ContextInv'
  BY <1>2, <1>7 DEF FirstChanceRecovers, Return, breakpadVars, Locations
<1>8. ASSUME NEW t \in Threads, NEW s \in Signals, FaultInHandler(t, s) PROVE ContextInv'
  BY <1>4, <1>8 DEF FaultInHandler, breakpadVars
<1> QED
  BY <1>1, <1>3, <1>5, <1>6, <1>7, <1>8
  DEF Next, vars, threadVars, breakpadVars, Crash, Destruct, SimulateSignalDelivery,
      SetFirstChanceExceptionHandler, Borrow, GiveBack, Dead

\* Two threads are never between the lock and the unlock of SignalHandler, and
\* unless a client simulates a signal, g_crash_context_ holds the crash of the
\* thread that dumps.
THEOREM ContextTheorem == ASSUME ~ClientDumps PROVE Spec => []ContextIsMine
<1> DEFINE Inv == TypeOK /\ Exclusion /\ ContextInv
<1>1. Init => Inv
  BY TypeInitially DEF Init, Exclusion, Critical, ContextInv, ContextIsMine
<1>2. Inv /\ [Next]_vars => Inv'
  BY TypeInductive, ExclusionInductive, ContextInductive
<1>3. Inv => ContextIsMine
  BY DEF ContextInv
<1> QED
  BY <1>1, <1>2, <1>3, PTL DEF Spec

-----------------------------------------------------------------------------

\* Where no other code uses signal(), every disposition is one breakpad or the
\* process before it installed, and a thread in SignalHandler blocks all the
\* exception signals.
AloneInv ==
  ThirdParty = {} =>
    /\ \A s \in Signals : ~borrowed[s] /\ disp[s] \notin {"noinfo", "reset"}
    /\ RestoreLeadsAway
    /\ \A t \in Threads : Critical(t) \/ pc[t] = "entered" => blocked[t] = Signals
    /\ \A t \in Threads : ~bogus[t]
    /\ NoSelfDeadlock

\* Every step of the process keeps it so.
LEMMA AloneInductive == TypeOK /\ AloneInv /\ [Next]_vars => AloneInv'
<1> SUFFICES ASSUME TypeOK, AloneInv, [Next]_vars, ThirdParty = {} PROVE AloneInv'
  BY DEF AloneInv
<1> DEFINE KernelPart == \A s \in Signals :
                           ~borrowed[s] /\ disp[s] \notin {"noinfo", "reset"}
           ThreadPart == \A t \in Threads :
                           /\ Critical(t) \/ pc[t] = "entered" => blocked[t] = Signals
                           /\ pc[t] # "stuck" /\ ~bogus[t]
<1>1. KernelPart /\ ThreadPart /\ RestoreLeadsAway
  BY DEF AloneInv, NoSelfDeadlock
<1>2. SUFFICES KernelPart' /\ ThreadPart' /\ RestoreLeadsAway'
  BY DEF AloneInv, NoSelfDeadlock
<1> HIDE DEF KernelPart, ThreadPart
<1>3. KernelPart' /\ RestoreLeadsAway'
  <2> USE <1>1 DEF KernelPart, RestoreLeadsAway, Ours, TypeOK, KernelOK, BreakpadOK
  <2>1. ASSUME UNCHANGED <<disp, borrowed, oldHandlers, handlersInstalled>>
        PROVE  KernelPart' /\ RestoreLeadsAway'
    BY <2>1
  <2>2. ASSUME InstallHandlersLocked, UNCHANGED borrowed
        PROVE  KernelPart' /\ RestoreLeadsAway'
    BY <2>2 DEF InstallHandlersLocked
  <2>3. ASSUME RestoreHandlersLocked, UNCHANGED <<borrowed, oldHandlers>>
        PROVE  KernelPart' /\ RestoreLeadsAway'
    BY <2>3 DEF RestoreHandlersLocked
  <2>4. ASSUME NEW s \in Signals, InstallDefaultHandler(s),
               UNCHANGED <<borrowed, oldHandlers, handlersInstalled>>
        PROVE  KernelPart' /\ RestoreLeadsAway'
    BY <2>4 DEF InstallDefaultHandler
  <2>5. ASSUME NEW h \in Handlers, NEW install \in BOOLEAN, Construct(h, install)
        PROVE  KernelPart' /\ RestoreLeadsAway'
    BY <2>1, <2>2, <2>5 DEF Construct
  <2>6. ASSUME NEW h \in Handlers, Destruct(h) PROVE KernelPart' /\ RestoreLeadsAway'
    BY <2>1, <2>3, <2>6 DEF Destruct
  <2>7. ASSUME NEW t \in Threads, HandlerStep(t) PROVE KernelPart' /\ RestoreLeadsAway'
    <3>1. sig[t] \in Signals
      BY DEF ThreadsOK
    <3>2. CASE ResetHandler(t)
      BY <3>1, <3>2 DEF ResetHandler
    <3>3. CASE Conclude(t)
      BY <3>1, <3>3, <2>3, <2>4 DEF Conclude
    <3> QED
      BY <2>1, <2>7, <3>2, <3>3
      DEF HandlerStep, Lock, StartHandlers, NestedSignal, FillContext, HandleSignal, Retrigger,
          Redeliver, Deliver, Die, kernelVars, breakpadVars
  <2>8. ASSUME NEW s \in Signals PROVE ~Borrow(s) /\ ~GiveBack(s)
    BY DEF Borrow, GiveBack
  <2> QED
    BY <2>1, <2>5, <2>6, <2>7, <2>8
    DEF Next, vars, Crash, Deliver, Die, FirstChanceRecovers, FaultInHandler, NestedSignal,
        SimulateSignalDelivery, SetFirstChanceExceptionHandler, Dead, kernelVars, breakpadVars
<1>4. ThreadPart'
  <2> USE <1>1 DEF ThreadPart, Critical, TypeOK, ThreadsOK
  <2>1. ASSUME UNCHANGED <<pc, blocked, bogus>> PROVE ThreadPart'
    BY <2>1
  <2>2. ASSUME NEW t \in Threads, NEW s \in Signals, Deliver(t, s) PROVE ThreadPart'
    <3>1. disp[s] # "noinfo" /\ (disp[s] \in Ours => Mask(s) = Signals)
      BY DEF Mask, Ours, KernelPart
    <3>2. bogus' \in [Threads -> BOOLEAN] /\ \A u \in Threads : ~bogus'[u]
      BY <2>2, <3>1 DEF Deliver
    <3> QED
      BY <2>2, <3>1, <3>2 DEF Deliver
  <2>3. ASSUME NEW t \in Threads, NEW s \in Signals, Critical(t), NestedSignal(t, s),
               UNCHANGED <<blocked, bogus>>
        PROVE  ThreadPart'
    BY <2>1, <2>3 DEF NestedSignal
  <2>4. ASSUME NEW t \in Threads, NEW where \in {"run", "pending"}, Return(t, where)
        PROVE  ThreadPart'
    BY <2>4 DEF Return
  <2>5. ASSUME NEW t \in Threads, HandlerStep(t) PROVE ThreadPart'
    <3>1. CASE Lock(t)
      BY <3>1 DEF Lock
    <3>2. CASE ResetHandler(t)
      BY <3>2, <2>4 DEF ResetHandler
    <3>3. CASE StartHandlers(t)
      BY <3>3, <2>3, SignalsAssumption DEF StartHandlers
    <3>4. CASE FillContext(t)
      BY <3>4 DEF FillContext
    <3>5. CASE HandleSignal(t)
      BY <3>5 DEF HandleSignal
    <3>6. CASE Conclude(t)
      BY <3>6 DEF Conclude
    <3>7. CASE Retrigger(t)
      BY <3>7, <2>1, <2>4 DEF Retrigger
    <3>8. CASE Redeliver(t)
      BY <3>8, <2>2 DEF Redeliver
    <3> QED
      BY <2>5, <3>1, <3>2, <3>3, <3>4, <3>5, <3>6, <3>7, <3>8 DEF HandlerStep
  <2>6. ASSUME NEW t \in Threads, FirstChanceRecovers(t) PROVE ThreadPart'
    BY <2>4, <2>6 DEF FirstChanceRecovers
  <2>7. ASSUME NEW t \in Threads, NEW s \in Signals, FaultInHandler(t, s) PROVE ThreadPart'
    BY <2>3, <2>7 DEF FaultInHandler
  <2>8. ASSUME NEW t \in Threads, SimulateSignalDelivery(t) PROVE ThreadPart'
    BY <2>8 DEF SimulateSignalDelivery
  <2> QED
    BY <2>1, <2>2, <2>5, <2>6, <2>7, <2>8
    DEF Next, vars, threadVars, Construct, Destruct, SetFirstChanceExceptionHandler, Crash,
        Borrow, GiveBack, Dead
<1> QED
  BY <1>3, <1>4

\* Where no other code uses signal(), SignalHandler always has a way out: the
\* handlers it restores are never itself, and it never waits for its own
\* thread.
THEOREM WayOutTheorem ==
  ASSUME ThirdParty = {}
  PROVE  Spec => [](RestoreLeadsAway /\ NoSelfDeadlock /\ AllSignalsBlocked)
<1> DEFINE Inv == TypeOK /\ AloneInv
<1>1. Init => Inv
  BY TypeInitially
  DEF Init, AloneInv, RestoreLeadsAway, Ours, Critical, NoSelfDeadlock
<1>2. Inv /\ [Next]_vars => Inv'
  BY TypeInductive, AloneInductive
<1>3. Inv => RestoreLeadsAway /\ NoSelfDeadlock /\ AllSignalsBlocked
  BY DEF AloneInv, AllSignalsBlocked
<1> QED
  BY <1>1, <1>2, <1>3, PTL DEF Spec

\* There, a fault inside SignalHandler ends the process and never waits for the
\* mutex that its own thread holds.
THEOREM NoSelfDeadlockTheorem ==
  ASSUME ThirdParty = {}
  PROVE  Spec => []NoSelfDeadlock
BY WayOutTheorem, PTL

-----------------------------------------------------------------------------

\* Where no other code uses signal() and one handler was built and stays:
\* a crash that was dumped keeps the way out it was given.
DumpedAway ==
  \A t \in Threads : verdict[t] = "handled" =>
    pc[t] \in {"return", "pending"} /\ disp[sig[t]] \notin Ours

\* A signal has the default handler only after a dump, and a dumped crash has it
\* until another crash concludes.
DefaultIsDumped ==
  /\ handlersInstalled => \A s \in Signals : oldHandlers[s] = "old"
  /\ \A s \in Signals : disp[s] = "default" => \E t \in Threads : verdict[t] = "handled"
  /\ \A t \in Threads : verdict[t] = "handled" =>
       disp[sig[t]] = "default" \/ \E u \in Threads \ {t} : verdict[u] # "none"
  /\ Retriggered => exit = disp[sig[killer]]

\* Before the first handler nothing has been touched, so that the only handler is
\* also the first.
Untouched ==
  /\ ~handlersInstalled
  /\ \A s \in Signals : disp[s] = "old"
  /\ \A t \in Threads : pc[t] \in {"run", "simulating"} /\ verdict[t] = "none"

OneHandlerInv ==
  /\ IsFiniteSet(built)
  /\ built = {} => Untouched
  /\ OneHandler => DumpedAway /\ (SigactionFails = {} => DefaultIsDumped)

\* A second object is a second object.
LEMMA FirstIsOnly ==
  ASSUME IsFiniteSet(built), NEW h, h \notin built, Cardinality(built \cup {h}) = 1
  PROVE  built = {}
<1>1. Cardinality(built) \in Nat /\ Cardinality(built \cup {h}) = Cardinality(built) + 1
  BY FS_AddElement, FS_CardinalityType
<1>2. Cardinality(built) = 0
  BY <1>1
<1> QED
  BY <1>2, FS_EmptySet

\* Every step of the process keeps it so.
LEMMA OneHandlerInductive ==
  ASSUME ThirdParty = {}, TypeOK, AloneInv, OneHandlerInv, [Next]_vars
  PROVE  OneHandlerInv'
<1> DEFINE Core == DumpedAway /\ (SigactionFails = {} => DefaultIsDumped)
           Same == UNCHANGED <<disp, oldHandlers, handlersInstalled>>
           Rest == UNCHANGED <<built, stack>>
<1>1. /\ IsFiniteSet(built)
      /\ built = {} => Untouched
      /\ OneHandler => Core
  BY DEF OneHandlerInv
<1>2. /\ \A s \in Signals : disp[s] \notin {"noinfo", "reset"} /\ oldHandlers[s] \notin Ours
      /\ ~handlersInstalled => \A s \in Signals : disp[s] \notin Ours
      /\ \A s \in Signals : ~borrowed[s]
      /\ \A t \in Threads : ~bogus[t]
  BY DEF AloneInv, RestoreLeadsAway
<1> USE DEF TypeOK, ThreadsOK, KernelOK, BreakpadOK
<1>3. ASSUME NEW h \in Handlers, NEW install \in BOOLEAN, Construct(h, install)
      PROVE  OneHandlerInv'
  <2>1. IsFiniteSet(built')
    BY <1>1, <1>3, FS_AddElement DEF Construct
  <2>2. built' # {}
    BY <1>3 DEF Construct
  <2>3. ASSUME OneHandler' PROVE Core'
    <3>1. Untouched
      BY <1>1, <1>3, <2>3, FirstIsOnly DEF Construct, OneHandler
    <3>2. DumpedAway'
      BY <1>3, <3>1 DEF Construct, threadVars, Untouched, DumpedAway
    <3>3. ASSUME SigactionFails = {} PROVE DefaultIsDumped'
      BY <1>3, <3>1, <3>3 DEF Construct, threadVars, Untouched, DefaultIsDumped, InstallHandlersLocked,
           Failures, Retriggered, Alive
    <3> QED
      BY <3>2, <3>3
  <2> QED
    BY <2>1, <2>2, <2>3 DEF OneHandlerInv
<1>4. ASSUME Rest, built = {} => Untouched', OneHandler => Core' PROVE OneHandlerInv'
  BY <1>1, <1>4 DEF OneHandlerInv, OneHandler
<1>5. ASSUME UNCHANGED <<pc, sig, verdict, exit, killer, built, stack>>, Same PROVE OneHandlerInv'
  <2>1. built = {} => Untouched'
    BY <1>1, <1>5 DEF Untouched
  <2>2. OneHandler => Core'
    BY <1>1, <1>5 DEF DumpedAway, DefaultIsDumped, Retriggered, Alive
  <2> QED
    BY <1>4, <1>5, <2>1, <2>2
<1>6. ASSUME NEW h \in Handlers, Destruct(h) PROVE OneHandlerInv'
  <2>1. UNCHANGED <<threadVars, borrowed, exit, killer, oldHandlers, built>> /\ Alive
    BY <1>6 DEF Destruct
  <2>2. built = {} => Untouched'
    BY <1>1, <1>6, <2>1 DEF Destruct, RestoreHandlersLocked, Untouched, threadVars
  <2>3. ASSUME OneHandler' PROVE Core'
    <3>1. OneHandler
      BY <1>6, <2>3 DEF Destruct, OneHandler
    <3>2. Same
      BY <1>6, <2>3 DEF Destruct, OneHandler
    <3> QED
      BY <1>1, <2>1, <3>1, <3>2 DEF DumpedAway, DefaultIsDumped, Retriggered, Alive, threadVars
  <2> QED
    BY <1>1, <2>1, <2>2, <2>3 DEF OneHandlerInv
\* A thread that is not done moves on, or simulates a signal.
<1>7. ASSUME NEW t \in Threads, Alive, Rest, Same,
             pc[t] \notin {"return", "pending"} \/ disp[sig[t]] \in Ours,
             NEW where \in Locations, pc' = [pc EXCEPT ![t] = where],
             \A u \in Threads \ {t} : sig'[u] = sig[u], UNCHANGED <<verdict, exit, killer>>,
             built = {} => where \in {"run", "simulating"}
      PROVE  OneHandlerInv'
  <2>1. built = {} => Untouched'
    BY <1>1, <1>7 DEF Untouched
  <2>2. ASSUME OneHandler PROVE Core'
    <3>1. verdict[t] # "handled"
      BY <1>1, <1>7, <2>2 DEF DumpedAway
    <3>2. \A u \in Threads : verdict[u] = "handled" => sig'[u] = sig[u] /\ pc'[u] = pc[u]
      BY <1>7, <3>1
    <3>3. DumpedAway'
      BY <1>1, <1>7, <2>2, <3>2 DEF DumpedAway
    <3>4. ~Retriggered'
      BY <1>7 DEF Retriggered, Alive
    <3>5. ASSUME SigactionFails = {} PROVE DefaultIsDumped'
      BY <1>1, <1>7, <2>2, <3>2, <3>4, <3>5 DEF DefaultIsDumped
    <3> QED
      BY <3>3, <3>5
  <2> QED
    BY <1>4, <1>7, <2>1, <2>2
\* A thread takes the process down.
<1>8. ASSUME NEW t \in Threads, NEW how, Alive, Rest, Die(how, t),
             pc[t] = "pending" => how = disp[sig[t]],
             pc[t] \in {"return", "pending"} => UNCHANGED sig,
             \A u \in Threads \ {t} : sig'[u] = sig[u],
             UNCHANGED <<pc, verdict, oldHandlers, handlersInstalled>>
      PROVE  OneHandlerInv'
  <2>1. built = {} => Untouched'
    BY <1>1, <1>8 DEF Untouched, Die
  <2>2. ASSUME OneHandler PROVE Core'
    <3>1. pc[t] \notin {"return", "pending"} => verdict[t] # "handled"
      BY <1>1, <2>2 DEF DumpedAway
    <3>2. \A u \in Threads : verdict[u] = "handled" => sig'[u] = sig[u]
      BY <1>8, <3>1
    <3>3. DumpedAway'
      BY <1>1, <1>8, <2>2, <3>2 DEF DumpedAway, Die
    <3>4. ASSUME Retriggered' PROVE exit' = disp'[sig'[killer']]
      BY <1>8, <3>4 DEF Retriggered, Die
    <3>5. ASSUME SigactionFails = {} PROVE DefaultIsDumped'
      BY <1>1, <1>8, <2>2, <3>2, <3>4, <3>5 DEF DefaultIsDumped, Die
    <3> QED
      BY <3>3, <3>5
  <2> QED
    BY <1>4, <1>8, <2>1, <2>2
\* A delivery, a return and a nested fault are such steps.
<1>9. ASSUME NEW t \in Threads, NEW s \in Signals, Alive, Rest, Deliver(t, s),
             \/ pc[t] = "run"
             \/ pc[t] = "pending" /\ s = sig[t] /\ UNCHANGED sig,
             \A u \in Threads \ {t} : sig'[u] = sig[u],
             UNCHANGED <<verdict, oldHandlers, handlersInstalled>>
      PROVE  OneHandlerInv'
  <2>1. CASE disp[s] \in Ours
    <3>1. built # {}
      BY <1>1, <2>1 DEF Untouched, Ours
    <3> QED
      BY <1>7, <1>9, <2>1, <3>1 DEF Deliver, kernelVars, Locations
  <2>2. CASE disp[s] \notin Ours
    BY <1>8, <1>9, <2>2 DEF Deliver
  <2> QED
    BY <2>1, <2>2
<1>10. ASSUME NEW t \in Threads, NEW s \in Signals, Alive, Rest, NestedSignal(t, s), Critical(t),
              UNCHANGED <<sig, verdict, oldHandlers, handlersInstalled>>
       PROVE  OneHandlerInv'
  <2>1. pc[t] \notin {"return", "pending", "run", "simulating"}
    BY <1>10 DEF Critical
  <2>2. built # {}
    BY <1>1, <2>1 DEF Untouched
  <2> QED
    BY <1>7, <1>8, <1>10, <2>1, <2>2 DEF NestedSignal, kernelVars, Locations
<1>11. ASSUME NEW t \in Threads, Conclude(t) PROVE OneHandlerInv'
  <2>1. built # {} /\ built' = built /\ stack' = stack
    BY <1>1, <1>11 DEF Conclude, Untouched
  <2>2. ASSUME OneHandler PROVE Core'
    <3>1. verdict[t] # "handled" /\ sig[t] \in Signals
      BY <1>1, <1>11, <2>2 DEF DumpedAway, Conclude
    <3>2. UNCHANGED <<sig, exit, killer, oldHandlers>> /\ Alive /\ verdict'[t] # "none"
      BY <1>11 DEF Conclude
    <3>3. \A u \in Threads \ {t} : verdict'[u] = verdict[u] /\ pc'[u] = pc[u]
      BY <1>11 DEF Conclude
    <3>4. CASE handled[t]
      <4>1. verdict'[t] = "handled" /\ pc'[t] = "return" /\ UNCHANGED handlersInstalled
        BY <1>11, <3>4 DEF Conclude
      <4>2. disp' = [disp EXCEPT ![sig[t]] = "default"]
        BY <1>11, <3>4 DEF Conclude, InstallDefaultHandler
      <4>3. DumpedAway'
        BY <1>1, <2>2, <3>1, <3>2, <3>3, <4>1, <4>2 DEF DumpedAway, Ours
      <4>4. ASSUME SigactionFails = {} PROVE DefaultIsDumped'
        BY <1>1, <2>2, <3>1, <3>2, <3>3, <4>1, <4>2, <4>4 DEF DefaultIsDumped, Retriggered, Alive
      <4> QED
        BY <4>3, <4>4
    <3>5. CASE ~handled[t]
      <4>1. verdict'[t] = "unhandled" /\ RestoreHandlersLocked
        BY <1>11, <3>5 DEF Conclude
      <4>2. \A s \in Signals : disp'[s] \notin Ours
        BY <1>2, <4>1 DEF RestoreHandlersLocked, Ours
      <4>3. DumpedAway'
        BY <1>1, <2>2, <3>1, <3>2, <3>3, <4>1, <4>2 DEF DumpedAway
      <4>4. ASSUME SigactionFails = {} PROVE DefaultIsDumped'
        <5>1. /\ UNCHANGED disp \/ \A s \in Signals : disp'[s] = "old"
              /\ handlersInstalled' => handlersInstalled
          BY <1>1, <2>2, <4>1, <4>4 DEF RestoreHandlersLocked, DefaultIsDumped, Failures
        <5>2. \A s \in Signals : disp'[s] = "default" => disp[s] = "default"
          BY <5>1
        <5> QED
          BY <1>1, <2>2, <3>1, <3>2, <3>3, <4>1, <4>4, <5>1, <5>2
          DEF DefaultIsDumped, Retriggered, Alive
      <4> QED
        BY <4>3, <4>4
    <3> QED
      BY <3>4, <3>5
  <2> QED
    BY <1>4, <2>1, <2>2
<1>12. ASSUME NEW t \in Threads, HandlerStep(t) PROVE OneHandlerInv'
  <2> USE SignalsAssumption
  <2>1. CASE Lock(t)
    BY <1>1, <1>7, <2>1 DEF Lock, kernelVars, Untouched, Locations
  <2>2. ~ResetHandler(t)
    BY <1>2 DEF ResetHandler
  <2>3. CASE StartHandlers(t)
    <3>1. CASE stack # <<>>
      BY <1>1, <1>7, <2>3, <3>1 DEF StartHandlers, kernelVars, breakpadVars, Untouched, Locations
    <3>2. CASE stack = <<>>
      BY <1>10, <2>3, <3>2 DEF StartHandlers, breakpadVars, Critical
    <3> QED
      BY <3>1, <3>2
  <2>4. CASE FillContext(t)
    BY <1>1, <1>5, <1>7, <2>4 DEF FillContext, kernelVars, Untouched, Locations
  <2>5. CASE HandleSignal(t)
    <3>1. pc' = [pc EXCEPT ![t] = "tried"] \/ pc' = [pc EXCEPT ![t] = "trying"]
      BY <2>5 DEF HandleSignal
    <3> QED
      BY <1>1, <1>7, <2>5, <3>1 DEF HandleSignal, kernelVars, breakpadVars, Untouched, Locations
  <2>6. CASE Conclude(t)
    BY <1>11, <2>6
  <2>7. CASE Retrigger(t)
    <3> DEFINE Again == Return(t, "pending") /\ UNCHANGED kernelVars
               Ended == Die("_exit", t) /\ UNCHANGED pc
    <3>1. CASE Again
      <4>1. built # {}
        BY <1>1, <2>7 DEF Retrigger, Untouched
      <4>2. pc' = [pc EXCEPT ![t] = "pending"] /\ Alive
            /\ UNCHANGED <<sig, verdict, disp, exit, killer, oldHandlers, handlersInstalled>>
            /\ UNCHANGED <<built, stack>>
        BY <2>7, <3>1 DEF Retrigger, Return, kernelVars, breakpadVars
      <4>3. OneHandler => Core'
        <5>1. ~Retriggered'
          BY <4>2 DEF Retriggered, Alive
        <5> QED
          BY <1>1, <4>2, <5>1 DEF DumpedAway, DefaultIsDumped
      <4> QED
        BY <1>4, <4>1, <4>2, <4>3
    <3>2. CASE Ended
      BY <1>8, <2>7, <3>2 DEF Retrigger, breakpadVars
    <3>3. SeemsSent(t) = {fromUser[t]}
      BY <1>2 DEF SeemsSent
    <3>4. Again \/ Ended
      <4> HIDE DEF Again, Ended
      <4>1. PICK sent \in {fromUser[t]} :
              \/ (sent \/ sig[t] = Abort) /\ (Again \/ Ended)
              \/ ~sent /\ Return(t, IF fromUser[t] THEN "run" ELSE "pending") /\ UNCHANGED kernelVars
        BY <2>7, <3>3 DEF Retrigger, Again, Ended
      <4> QED
        BY <4>1 DEF Again
    <3> QED
      BY <3>1, <3>2, <3>4
  <2>8. CASE Redeliver(t)
    BY <1>9, <2>8 DEF Redeliver, breakpadVars
  <2> QED
    BY <1>12, <2>1, <2>2, <2>3, <2>4, <2>5, <2>6, <2>7, <2>8 DEF HandlerStep
<1>13. ASSUME NEW t \in Threads, NEW s \in Signals, NEW user \in BOOLEAN, Crash(t, s, user)
       PROVE  OneHandlerInv'
  <2>1. \A u \in Threads \ {t} : sig'[u] = sig[u]
    BY <1>13 DEF Crash
  <2>2. Alive /\ Rest /\ Deliver(t, s) /\ pc[t] = "run"
        /\ UNCHANGED <<verdict, oldHandlers, handlersInstalled>>
    BY <1>13 DEF Crash, breakpadVars
  <2> QED
    BY <1>9, <2>1, <2>2
<1>14. ASSUME NEW t \in Threads, FirstChanceRecovers(t) PROVE OneHandlerInv'
  BY <1>1, <1>7, <1>14 DEF FirstChanceRecovers, Return, kernelVars, breakpadVars, Untouched, Locations
<1>15. ASSUME NEW t \in Threads, NEW s \in Signals, FaultInHandler(t, s) PROVE OneHandlerInv'
  BY <1>10, <1>15 DEF FaultInHandler, breakpadVars, Critical
<1>16. ASSUME NEW t \in Threads, SimulateSignalDelivery(t) PROVE OneHandlerInv'
  BY <1>7, <1>16 DEF SimulateSignalDelivery, kernelVars, Locations
<1>17. ASSUME NEW s \in Signals PROVE ~Borrow(s) /\ ~GiveBack(s)
  BY <1>2 DEF Borrow, GiveBack
<1>18. CASE SetFirstChanceExceptionHandler \/ Dead \/ UNCHANGED vars
  BY <1>5, <1>18
  DEF SetFirstChanceExceptionHandler, Dead, vars, threadVars, kernelVars, breakpadVars
<1> QED
  BY <1>3, <1>6, <1>12, <1>13, <1>14, <1>15, <1>16, <1>17, <1>18 DEF Next

LEMMA OneHandlerHolds ==
  ASSUME ThirdParty = {}
  PROVE  Spec => [](TypeOK /\ AloneInv /\ OneHandlerInv)
<1> DEFINE Inv == TypeOK /\ AloneInv /\ OneHandlerInv
<1>1. Init => TypeOK /\ AloneInv
  BY TypeInitially
  DEF Init, AloneInv, RestoreLeadsAway, Ours, Critical, NoSelfDeadlock
<1>2. Init => OneHandlerInv
  BY FS_EmptySet DEF Init, OneHandlerInv, OneHandler, Untouched
<1>3. Inv /\ [Next]_vars => Inv'
  BY TypeInductive, AloneInductive, OneHandlerInductive
<1> QED
  BY <1>1, <1>2, <1>3, PTL DEF Spec

\* Where no other code uses signal() and the library's one handler stays, a crash
\* that was dumped never comes back to SignalHandler to be dumped again.
THEOREM DumpedOnceTheorem ==
  ASSUME ThirdParty = {}
  PROVE  Spec => []DumpedOnce
<1>1. OneHandlerInv => DumpedOnce
  BY DEF OneHandlerInv, DumpedOnce, DumpedAway
<1> QED
  BY <1>1, OneHandlerHolds, PTL

\* There, the retriggered signal of a crash that no other thread's crash interferes
\* with is delivered to the appropriate handler: the default one after a dump, the
\* old one otherwise.
THEOREM LoneCrashTheorem ==
  ASSUME ThirdParty = {}
  PROVE  Spec => []LoneCrashIsAppropriate
<1>1. ASSUME TypeOK, OneHandlerInv PROVE LoneCrashIsAppropriate
  <2> SUFFICES ASSUME OneHandler, SigactionFails = {}, Retriggered,
                      \A t \in Threads \ {killer} : verdict[t] = "none"
               PROVE  exit = "default" <=> verdict[killer] = "handled"
    BY DEF LoneCrashIsAppropriate, RetriggerIsAppropriate
  <2>1. DefaultIsDumped /\ killer \in Threads /\ sig[killer] \in Signals
    BY <1>1 DEF OneHandlerInv, Retriggered, TypeOK, ThreadsOK
  <2>2. exit = disp[sig[killer]]
    BY <2>1 DEF DefaultIsDumped
  <2> QED
    BY <2>1, <2>2 DEF DefaultIsDumped
<1> QED
  BY <1>1, OneHandlerHolds, PTL

-----------------------------------------------------------------------------

\* The handlers are being asked about the thread's signal.
Asked == {"trying", "dumping", "tried"}

Hiders == {"crash", "handler", "taken"}

\* A flag that was lost is still lost at the check, or somebody hid that it was.
Noticed(t) ==
  bogus[t] => /\ Unchecked(t) => disp[sig[t]] = "noinfo" \/ changer[t] \in Hiders
              /\ pc[t] \in Asked => changer[t] \in Hiders

NoticedInv == \A t \in Threads : Noticed(t)

\* What a step may do to a thread: nothing, a delivery, the lock, the check, or
\* something that no longer (or not yet) depends on the flag.
ThreadStays(t) == UNCHANGED <<pc[t], sig[t], bogus[t]>>

ThreadEnters(t) ==
  /\ pc[t] \notin {"entered", "locked"} /\ pc'[t] = "entered" /\ UNCHANGED disp
  /\ bogus'[t] => disp[sig'[t]] = "noinfo"

ThreadLocks(t) ==
  pc[t] = "entered" /\ pc'[t] = "locked" /\ UNCHANGED <<disp, sig[t], bogus[t]>>

ThreadPasses(t) ==
  /\ pc[t] = "locked" /\ pc'[t] = "trying" /\ disp[sig[t]] # "noinfo"
  /\ UNCHANGED <<disp, sig[t], bogus[t]>>

ThreadAsks(t) == pc[t] \in Asked /\ pc'[t] \in Asked /\ UNCHANGED bogus[t]

ThreadDone(t) == ~bogus'[t] \/ pc'[t] \notin Asked \cup {"entered", "locked"}

ThreadMoves(t) ==
  \/ ThreadStays(t) \/ ThreadEnters(t) \/ ThreadLocks(t)
  \/ ThreadPasses(t) \/ ThreadAsks(t) \/ ThreadDone(t)

LEMMA EveryThreadMoves ==
  ASSUME TypeOK, [Next]_vars, NEW t \in Threads
  PROVE  ThreadMoves(t)
<1> USE DEF TypeOK, ThreadsOK
<1>1. ASSUME UNCHANGED threadVars PROVE ThreadMoves(t)
  BY <1>1 DEF threadVars, ThreadMoves, ThreadStays
<1>2. ASSUME NEW u \in Threads, NEW s \in Signals, Deliver(u, s), pc[u] \in {"run", "pending"},
             sig' = [sig EXCEPT ![u] = s]
      PROVE  ThreadMoves(t)
  <2>1. CASE t # u
    BY <1>2, <2>1 DEF Deliver, ThreadMoves, ThreadStays
  <2>2. CASE t = u /\ disp[s] \in Ours
    BY <1>2, <2>2 DEF Deliver, kernelVars, ThreadMoves, ThreadEnters
  <2>3. CASE t = u /\ disp[s] \notin Ours
    BY <1>2, <2>3 DEF Deliver, ThreadMoves, ThreadDone, Asked
  <2> QED
    BY <2>1, <2>2, <2>3
<1>3. ASSUME NEW u \in Threads, NEW where \in {"run", "pending"}, Return(u, where), UNCHANGED sig
      PROVE  ThreadMoves(t)
  BY <1>3 DEF Return, ThreadMoves, ThreadStays, ThreadDone
<1>4. ASSUME NEW u \in Threads, NEW s \in Signals, NestedSignal(u, s), UNCHANGED <<sig, bogus>>
      PROVE  ThreadMoves(t)
  BY <1>4 DEF NestedSignal, ThreadMoves, ThreadStays, ThreadDone, Asked
<1>5. ASSUME NEW u \in Threads, HandlerStep(u) PROVE ThreadMoves(t)
  <2>1. CASE Lock(u)
    BY <2>1 DEF Lock, kernelVars, ThreadMoves, ThreadStays, ThreadLocks
  <2>2. CASE ResetHandler(u)
    BY <2>2, <1>3 DEF ResetHandler
  <2>3. CASE StartHandlers(u)
    <3>1. CASE stack # <<>>
      BY <2>3, <3>1 DEF StartHandlers, kernelVars, ThreadMoves, ThreadStays, ThreadPasses
    <3>2. CASE stack = <<>>
      BY <2>3, <3>2, <1>4, SignalsAssumption DEF StartHandlers
    <3> QED
      BY <3>1, <3>2
  <2>4. CASE FillContext(u)
    BY <2>4 DEF FillContext, ThreadMoves, ThreadStays, ThreadAsks, Asked
  <2>5. CASE HandleSignal(u)
    BY <2>5 DEF HandleSignal, ThreadMoves, ThreadStays, ThreadAsks, Asked
  <2>6. CASE Conclude(u)
    BY <2>6 DEF Conclude, ThreadMoves, ThreadStays, ThreadDone, Asked
  <2>7. CASE Retrigger(u)
    BY <2>7, <1>3 DEF Retrigger, ThreadMoves, ThreadStays
  <2>8. CASE Redeliver(u)
    BY <2>8, <1>2 DEF Redeliver
  <2> QED
    BY <1>5, <2>1, <2>2, <2>3, <2>4, <2>5, <2>6, <2>7, <2>8 DEF HandlerStep
<1>6. ASSUME NEW u \in Threads, NEW s \in Signals, NEW user \in BOOLEAN, Crash(u, s, user)
      PROVE  ThreadMoves(t)
  BY <1>2, <1>6 DEF Crash
<1>7. ASSUME NEW u \in Threads, FirstChanceRecovers(u) PROVE ThreadMoves(t)
  BY <1>3, <1>7 DEF FirstChanceRecovers
<1>8. ASSUME NEW u \in Threads, NEW s \in Signals, FaultInHandler(u, s) PROVE ThreadMoves(t)
  BY <1>4, <1>8 DEF FaultInHandler
<1>9. ASSUME NEW u \in Threads, SimulateSignalDelivery(u) PROVE ThreadMoves(t)
  BY <1>9 DEF SimulateSignalDelivery, ThreadMoves, ThreadStays, ThreadDone, Asked
<1> QED
  BY <1>1, <1>5, <1>6, <1>7, <1>8, <1>9
  DEF Next, vars, Construct, Destruct, SetFirstChanceExceptionHandler, Borrow, GiveBack, Dead

\* What a step does to the history of a thread that was entered without the flag.
LEMMA ChangerMoves ==
  ASSUME TypeOK, [Next]_vars, NEW t \in Threads
  PROVE  \/ UNCHANGED disp /\ (changer'[t] = changer[t] \/ pc[t] \in {"run", "pending"})
         \/ Changed("back") /\ \E s \in Signals : disp' = [disp EXCEPT ![s] = "noinfo"]
         \/ \E reason \in Hiders : Changed(reason)
<1> USE DEF TypeOK, KernelOK
<1> DEFINE Quiet == UNCHANGED disp /\ (changer'[t] = changer[t] \/ pc[t] \in {"run", "pending"})
<1>1. ASSUME UNCHANGED kernelVars PROVE Quiet
  BY <1>1 DEF kernelVars
<1>2. ASSUME NEW u \in Threads, NEW s \in Signals, Deliver(u, s), pc[u] \in {"run", "pending"}
      PROVE  Quiet
  BY <1>2 DEF Deliver, Die
<1>3. ASSUME NEW u \in Threads, NEW s \in Signals, NestedSignal(u, s) PROVE Quiet
  BY <1>1, <1>3 DEF NestedSignal, Die
<1>4. ASSUME NEW u \in Threads, HandlerStep(u) PROVE Quiet \/ Changed("crash")
  <2>1. CASE StartHandlers(u)
    BY <2>1, <1>1, <1>3, SignalsAssumption DEF StartHandlers
  <2>2. CASE Retrigger(u)
    BY <2>2, <1>1 DEF Retrigger, Die
  <2>3. CASE Redeliver(u)
    BY <2>3, <1>2 DEF Redeliver, ThreadsOK
  <2> QED
    BY <1>1, <1>4, <2>1, <2>2, <2>3
    DEF HandlerStep, Lock, ResetHandler, FillContext, HandleSignal, Conclude
<1>5. ASSUME NEW u \in Threads, NEW s \in Signals, NEW user \in BOOLEAN, Crash(u, s, user)
      PROVE  Quiet
  BY <1>2, <1>5 DEF Crash
<1>6. ASSUME NEW u \in Threads, NEW s \in Signals, FaultInHandler(u, s) PROVE Quiet
  BY <1>3, <1>6 DEF FaultInHandler
<1>7. "crash" \in Hiders /\ "handler" \in Hiders /\ "taken" \in Hiders
  BY DEF Hiders
<1> HIDE DEF Quiet
<1>8. Quiet \/ Changed("crash") \/ Changed("handler") \/ Changed("taken")
        \/ \E s \in Signals : GiveBack(s)
  BY <1>1, <1>4, <1>5, <1>6
  DEF Next, vars, Construct, Destruct, SetFirstChanceExceptionHandler, FirstChanceRecovers,
      SimulateSignalDelivery, Borrow, Dead
<1> QED
  BY <1>7, <1>8 DEF Quiet, GiveBack

LEMMA NoticedInductive ==
  ASSUME TypeOK, NoticedInv, [Next]_vars
  PROVE  NoticedInv'
<1> SUFFICES ASSUME NEW t \in Threads PROVE Noticed(t)'
  BY DEF NoticedInv
<1>1. Noticed(t) /\ sig[t] \in Signals
  BY DEF NoticedInv, TypeOK, ThreadsOK
<1>2. ThreadMoves(t)
  BY EveryThreadMoves
<1>3. \A reason \in Hiders \cup {"back"} : Changed(reason) =>
        changer'[t] = IF bogus[t] /\ Unchecked(t) /\ disp'[sig[t]] # disp[sig[t]]
                        THEN reason ELSE changer[t]
  BY DEF Changed
<1>4. CASE ThreadStays(t) \/ ThreadLocks(t) \/ ThreadPasses(t) \/ ThreadAsks(t)
  <2>1. CASE UNCHANGED disp /\ (changer'[t] = changer[t] \/ pc[t] \in {"run", "pending"})
    BY <1>1, <1>4, <2>1
    DEF ThreadStays, ThreadLocks, ThreadPasses, ThreadAsks, Noticed, Unchecked, Asked
  <2>2. CASE \E reason \in Hiders : Changed(reason)
    BY <1>1, <1>3, <1>4, <2>2
    DEF ThreadStays, ThreadLocks, ThreadPasses, ThreadAsks, Noticed, Unchecked, Asked
  <2>3. CASE Changed("back") /\ \E s \in Signals : disp' = [disp EXCEPT ![s] = "noinfo"]
    <3>1. disp'[sig[t]] # disp[sig[t]] => disp'[sig[t]] = "noinfo"
      BY <1>1, <2>3 DEF TypeOK, KernelOK
    <3> QED
      BY <1>1, <1>3, <1>4, <2>3, <3>1
      DEF ThreadStays, ThreadLocks, ThreadPasses, ThreadAsks, Noticed, Unchecked, Asked
  <2> QED
    BY <2>1, <2>2, <2>3, ChangerMoves
<1>5. CASE ThreadEnters(t)
  BY <1>5 DEF ThreadEnters, Noticed, Unchecked, Asked
<1>6. CASE ThreadDone(t)
  BY <1>6 DEF ThreadDone, Noticed, Unchecked, Asked
<1> QED
  BY <1>2, <1>4, <1>5, <1>6 DEF ThreadMoves

\* With any number of threads, signals and handlers, and any code that saves and
\* restores handlers with signal() however often: SignalHandler asks the handlers
\* with an info that is not the kernel's only where, since the delivery, another
\* thread's crash changed the handler of the signal, a handler object came or went,
\* or the handler was taken once more.
THEOREM InfoTheorem == Spec => []InfoIsReal
<1> DEFINE Inv == TypeOK /\ NoticedInv
<1>1. Init => Inv
  BY TypeInitially DEF Init, NoticedInv, Noticed
<1>2. Inv /\ [Next]_vars => Inv'
  BY TypeInductive, NoticedInductive
<1>3. Inv => InfoIsReal
  BY DEF NoticedInv, Noticed, InfoIsReal, Asked, Hiders
<1> QED
  BY <1>1, <1>2, <1>3, PTL DEF Spec
=============================================================================
