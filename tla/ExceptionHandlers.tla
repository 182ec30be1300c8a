------------------------- MODULE ExceptionHandlers -------------------------
(***************************************************************************)
(* The process-wide side of client/linux/handler/exception_handler.cc: the *)
(* stack of ExceptionHandler objects, the signal dispositions they install *)
(* and restore, and the path of a crashing thread through SignalHandler,   *)
(* from the delivery of its signal to the delivery of the retriggered one. *)
(* What GenerateDump does is its result here (module GenerateDump has the  *)
(* rest).  The kernel's part (delivery, masks, the forced death of a       *)
(* thread that faults on a blocked signal) is modelled from how the code   *)
(* uses it.                                                                *)
(***************************************************************************)
EXTENDS Integers, FiniteSets, SequencesExt

CONSTANTS
  Threads,      \* threads of the process
  NoThread,     \* owner of a free mutex
  Signals,      \* kExceptionSignals
  Segv, Abort,  \* SIGSEGV and SIGABRT, two of them
  Handlers,     \* ExceptionHandler objects the process may construct
  ThirdParty,   \* signals whose handler other code saves and restores with signal()
  ClientDumps,  \* clients call SimulateSignalDelivery
  FirstChances, \* clients call SetFirstChanceExceptionHandler
  SigactionFails \* signals whose handler sigaction may fail to read or set

ASSUME SentinelAssumption == NoThread \notin Threads
ASSUME SignalsAssumption == Segv \in Signals /\ Abort \in Signals
ASSUME EnvironmentAssumption ==
  /\ ThirdParty \subseteq Signals
  /\ ClientDumps \in BOOLEAN
  /\ FirstChances \in BOOLEAN
  /\ SigactionFails \subseteq Signals

VARIABLES
  pc,                 \* where each thread is
  sig,                \* the signal it handles
  fromUser,           \* info->si_code <= 0
  blocked,            \* exception signals blocked while it handles sig
  bogus,              \* its handler was entered without SA_SIGINFO
  idx,                \* the position in g_handler_stack_ it tries next
  handled,            \* did a handler of the stack handle its signal
  verdict,            \* what its last pass of SignalHandler concluded
  disp,               \* the kernel's disposition of every exception signal
  borrowed,           \* is a signal's handler taken by other code with signal()
  changer,            \* history: who changed the handler of the signal a thread was
                      \* entered for without SA_SIGINFO, and has not looked at yet
  oldHandlers,        \* old_handlers
  handlersInstalled,  \* handlers_installed
  stack,              \* g_handler_stack_, <<>> where the pointer is NULL
  built,              \* handler objects constructed so far
  mutex,              \* owner of g_handler_stack_mutex_
  context,            \* the thread g_crash_context_ describes
  firstChance,        \* g_first_chance_handler_ is set
  exit,               \* "alive", or what ended the process
  killer              \* the thread whose signal ended it

threadVars   == <<pc, sig, fromUser, blocked, bogus, idx, handled, verdict>>
kernelVars   == <<disp, borrowed, changer, exit, killer>>
breakpadVars == <<oldHandlers, handlersInstalled, stack, built, mutex, context, firstChance>>
vars == <<threadVars, kernelVars, breakpadVars>>

-----------------------------------------------------------------------------

\* SignalHandler as InstallHandlersLocked sets it, as signal() sets it (no
\* SA_SIGINFO) and as SignalHandler resets it (SA_SIGINFO, another mask).
Ours == {"breakpad", "noinfo", "reset"}

\* Every disposition; "old" is the one found before any handler was installed.
Dispositions == Ours \cup {"default", "old", "foreign"}

\* Mutant: sa_mask is left empty.
MaskOwnSignalOnly(s) == {s}

\* The exception signals blocked while the handler of s runs: sa_mask and s.
Mask(s) == IF disp[s] = "breakpad" THEN Signals ELSE {s}

Locations == {"run", "entered", "locked", "trying", "dumping", "tried",
              "return", "pending", "stuck", "simulating"}

\* The thread is between the lock and the unlock of SignalHandler.
Critical(t) == pc[t] \in {"locked", "trying", "dumping", "tried", "stuck"}

\* The thread was delivered its signal and has not looked at its handler yet.
Unchecked(t) == pc[t] \in {"entered", "locked"}

\* This step changes disp, for the reason given.
Changed(reason) ==
  changer' = [t \in Threads |->
    IF bogus[t] /\ Unchecked(t) /\ disp'[sig[t]] # disp[sig[t]] THEN reason ELSE changer[t]]

Alive == exit = "alive"

Die(how, t) ==
  /\ exit' = how
  /\ killer' = t
  /\ UNCHANGED <<disp, borrowed, changer>>

\* The kernel delivers s to t: SignalHandler starts, or the process ends in
\* the hands of the default action or of somebody else's handler.
Deliver(t, s) ==
  \/ /\ disp[s] \in Ours
     /\ pc' = [pc EXCEPT ![t] = "entered"]
     /\ blocked' = [blocked EXCEPT ![t] = Mask(s)]
     /\ bogus' = [bogus EXCEPT ![t] = disp[s] = "noinfo"]
     /\ changer' = [changer EXCEPT ![t] = "nobody"]
     /\ UNCHANGED <<disp, borrowed, exit, killer>>
  \/ /\ disp[s] \notin Ours
     /\ Die(disp[s], t)
     /\ UNCHANGED <<pc, blocked, bogus>>

\* SignalHandler returns on t: the kernel restores its mask.
Return(t, where) ==
  /\ pc' = [pc EXCEPT ![t] = where]
  /\ blocked' = [blocked EXCEPT ![t] = {}]
  /\ bogus' = [bogus EXCEPT ![t] = FALSE]

-----------------------------------------------------------------------------

\* Mutant: installs again for every handler.
InstallHandlersAgain ==
  /\ oldHandlers' = disp
  /\ disp' = [s \in Signals |-> "breakpad"]
  /\ handlersInstalled' = TRUE

\* The signals for which a loop over sigaction may fail.
Failures == SUBSET SigactionFails

\* A handler that cannot be read ends the installation when those before it are
\* stored; one that cannot be set is left as it is.
InstallHandlersLocked ==
  \/ handlersInstalled /\ UNCHANGED <<disp, oldHandlers, handlersInstalled>>
  \/ /\ ~handlersInstalled
     /\ \E unread \in {u \in SUBSET Signals : u \cap SigactionFails # {}} :
          oldHandlers' = [s \in Signals |-> IF s \in unread THEN oldHandlers[s] ELSE disp[s]]
     /\ UNCHANGED <<disp, handlersInstalled>>
  \/ /\ ~handlersInstalled
     /\ oldHandlers' = disp
     /\ \E failed \in Failures :
          disp' = [s \in Signals |-> IF s \in failed THEN disp[s] ELSE "breakpad"]
     /\ handlersInstalled' = TRUE

\* Mutant: forgets the handlers without restoring them.
ForgetHandlersLocked == handlersInstalled' = FALSE /\ UNCHANGED disp

\* A signal whose old handler cannot be restored gets the default one.
RestoreHandlersLocked ==
  \/ ~handlersInstalled /\ UNCHANGED <<disp, handlersInstalled>>
  \/ /\ handlersInstalled
     /\ \E failed \in Failures :
          disp' = [s \in Signals |-> IF s \in failed THEN "default" ELSE oldHandlers[s]]
     /\ handlersInstalled' = FALSE

\* Mutants: leaves the handler; ignores the signal.
KeepHandler(s) == UNCHANGED disp
IgnoreSignal(s) == disp' = [disp EXCEPT ![s] = "ignore"]

InstallDefaultHandler(s) == disp' = [disp EXCEPT ![s] = "default"]

Construct(h, install) ==
  /\ Alive /\ mutex = NoThread
  /\ h \notin built
  /\ context' = NoThread
  /\ IF install THEN InstallHandlersLocked
                ELSE UNCHANGED <<disp, oldHandlers, handlersInstalled>>
  /\ Changed("handler")
  /\ stack' = Append(stack, h)
  /\ built' = built \cup {h}
  /\ UNCHANGED <<threadVars, borrowed, exit, killer, mutex, firstChance>>

Destruct(h) ==
  /\ Alive /\ mutex = NoThread
  /\ \E i \in 1..Len(stack) : stack[i] = h /\ stack' = RemoveAt(stack, i)
  /\ IF stack' = <<>> THEN RestoreHandlersLocked
                      ELSE UNCHANGED <<disp, handlersInstalled>>
  /\ Changed("handler")
  /\ UNCHANGED <<threadVars, borrowed, exit, killer, oldHandlers, built, mutex,
                 context, firstChance>>

SetFirstChanceExceptionHandler ==
  /\ Alive /\ FirstChances /\ ~firstChance
  /\ firstChance' = TRUE
  /\ UNCHANGED <<threadVars, kernelVars, oldHandlers, handlersInstalled, stack,
                 built, mutex, context>>

-----------------------------------------------------------------------------

\* A running thread faults on s, or is sent s with kill, raise or abort.
Crash(t, s, user) ==
  /\ Alive /\ pc[t] = "run"
  /\ Deliver(t, s)
  /\ sig' = [sig EXCEPT ![t] = s]
  /\ fromUser' = [fromUser EXCEPT ![t] = user]
  /\ UNCHANGED <<idx, handled, verdict, breakpadVars>>

FirstChanceRecovers(t) ==
  /\ Alive /\ pc[t] = "entered" /\ firstChance
  /\ Return(t, "run")
  /\ UNCHANGED <<sig, fromUser, idx, handled, verdict, kernelVars, breakpadVars>>

\* Mutant: does not wait for the mutex.
LockAtOnce(t) ==
  /\ Alive /\ pc[t] = "entered"
  /\ mutex' = t
  /\ pc' = [pc EXCEPT ![t] = "locked"]
  /\ UNCHANGED <<sig, fromUser, blocked, bogus, idx, handled, verdict, kernelVars, oldHandlers,
                 handlersInstalled, stack, built, context, firstChance>>

Lock(t) ==
  /\ Alive /\ pc[t] = "entered" /\ mutex = NoThread
  /\ mutex' = t
  /\ pc' = [pc EXCEPT ![t] = "locked"]
  /\ UNCHANGED <<sig, fromUser, blocked, bogus, idx, handled, verdict, kernelVars, oldHandlers,
                 handlersInstalled, stack, built, context, firstChance>>

\* Mutant: puts SignalHandler back without SA_SIGINFO.
ResetWithSignal(t) ==
  /\ Alive /\ pc[t] = "locked" /\ disp[sig[t]] = "noinfo"
  /\ \/ disp' = [disp EXCEPT ![sig[t]] = "noinfo"]
     \/ sig[t] \in SigactionFails /\ InstallDefaultHandler(sig[t])
  /\ Changed("crash")
  /\ mutex' = NoThread
  /\ Return(t, IF fromUser[t] THEN "run" ELSE "pending")
  /\ UNCHANGED <<sig, fromUser, idx, handled, verdict, borrowed, exit, killer,
                 oldHandlers, handlersInstalled, stack, built, context, firstChance>>

\* SA_SIGINFO was lost: put it back and return.  A fault happens again; a
\* signal somebody sent does not.
ResetHandler(t) ==
  /\ Alive /\ pc[t] = "locked" /\ disp[sig[t]] = "noinfo"
  /\ \/ disp' = [disp EXCEPT ![sig[t]] = "reset"]
     \/ sig[t] \in SigactionFails /\ InstallDefaultHandler(sig[t])
  /\ Changed("crash")
  /\ mutex' = NoThread
  /\ Return(t, IF fromUser[t] THEN "run" ELSE "pending")
  /\ UNCHANGED <<sig, fromUser, idx, handled, verdict, borrowed, exit, killer,
                 oldHandlers, handlersInstalled, stack, built, context, firstChance>>

\* A fault inside SignalHandler: fatal at once on a blocked signal; otherwise
\* the nested SignalHandler waits for the mutex its own thread holds.
NestedSignal(t, s) ==
  \/ /\ s \in blocked[t]
     /\ Die("forced", t)
     /\ UNCHANGED pc
  \/ /\ s \notin blocked[t] /\ disp[s] \in Ours
     /\ pc' = [pc EXCEPT ![t] = "stuck"]
     /\ UNCHANGED kernelVars
  \/ /\ s \notin blocked[t] /\ disp[s] \notin Ours
     /\ Die(disp[s], t)
     /\ UNCHANGED pc

\* Mutant: does not look for the lost flag.
StartUnchecked(t) ==
  /\ Alive /\ pc[t] = "locked"
  /\ \/ /\ stack # <<>>
        /\ idx' = [idx EXCEPT ![t] = Len(stack)]
        /\ handled' = [handled EXCEPT ![t] = FALSE]
        /\ pc' = [pc EXCEPT ![t] = "trying"]
        /\ UNCHANGED kernelVars
     \/ /\ stack = <<>>
        /\ NestedSignal(t, Segv)
        /\ UNCHANGED <<idx, handled>>
  /\ UNCHANGED <<sig, fromUser, blocked, bogus, verdict, breakpadVars>>

\* The loop over the stack starts at its top; a NULL stack is dereferenced.
StartHandlers(t) ==
  /\ Alive /\ pc[t] = "locked" /\ disp[sig[t]] # "noinfo"
  /\ \/ /\ stack # <<>>
        /\ idx' = [idx EXCEPT ![t] = Len(stack)]
        /\ handled' = [handled EXCEPT ![t] = FALSE]
        /\ pc' = [pc EXCEPT ![t] = "trying"]
        /\ UNCHANGED kernelVars
     \/ /\ stack = <<>>
        /\ NestedSignal(t, Segv)
        /\ UNCHANGED <<idx, handled>>
  /\ UNCHANGED <<sig, fromUser, blocked, bogus, verdict, breakpadVars>>

\* HandleSignal, before the dump: the filter refuses, or the crash context
\* is filled in.
FillContext(t) ==
  /\ Alive /\ pc[t] = "trying" /\ idx[t] > 0
  /\ \/ /\ idx' = [idx EXCEPT ![t] = @ - 1]
        /\ UNCHANGED <<pc, context>>
     \/ /\ context' = t
        /\ pc' = [pc EXCEPT ![t] = "dumping"]
        /\ UNCHANGED idx
  /\ UNCHANGED <<sig, fromUser, blocked, bogus, handled, verdict, kernelVars, oldHandlers,
                 handlersInstalled, stack, built, mutex, firstChance>>

\* HandleSignal, the rest: crash_handler_ or GenerateDump answers.
HandleSignal(t) ==
  /\ Alive /\ pc[t] = "dumping"
  /\ \E ok \in BOOLEAN : handled' = [handled EXCEPT ![t] = ok]
  /\ idx' = [idx EXCEPT ![t] = @ - 1]
  /\ pc' = [pc EXCEPT ![t] = IF handled'[t] THEN "tried" ELSE "trying"]
  /\ UNCHANGED <<sig, fromUser, blocked, bogus, verdict, kernelVars, breakpadVars>>

\* The dump faults, or HandleSignal does where info is not the kernel's.
FaultInHandler(t, s) ==
  /\ Alive
  /\ pc[t] = "dumping" \/ (pc[t] = "trying" /\ idx[t] > 0 /\ bogus[t])
  /\ NestedSignal(t, s)
  /\ UNCHANGED <<sig, fromUser, blocked, bogus, idx, handled, verdict, breakpadVars>>

\* Mutant: the two outcomes are swapped.
ConcludeSwapped(t) ==
  /\ Alive
  /\ pc[t] = "tried" \/ (pc[t] = "trying" /\ idx[t] = 0)
  /\ \/ /\ ~handled[t]
        /\ InstallDefaultHandler(sig[t])
        /\ verdict' = [verdict EXCEPT ![t] = "unhandled"]
        /\ UNCHANGED handlersInstalled
     \/ /\ handled[t]
        /\ RestoreHandlersLocked
        /\ verdict' = [verdict EXCEPT ![t] = "handled"]
  /\ Changed("crash")
  /\ mutex' = NoThread
  /\ pc' = [pc EXCEPT ![t] = "return"]
  /\ idx' = [idx EXCEPT ![t] = 0]
  /\ handled' = [handled EXCEPT ![t] = FALSE]
  /\ UNCHANGED <<sig, fromUser, blocked, bogus, borrowed, exit, killer,
                 oldHandlers, stack, built, context, firstChance>>

\* After the loop: choose who gets the retriggered signal, and unlock.
Conclude(t) ==
  /\ Alive
  /\ pc[t] = "tried" \/ (pc[t] = "trying" /\ idx[t] = 0)
  /\ \/ /\ handled[t]
        /\ InstallDefaultHandler(sig[t])
        /\ verdict' = [verdict EXCEPT ![t] = "handled"]
        /\ UNCHANGED handlersInstalled
     \/ /\ ~handled[t]
        /\ RestoreHandlersLocked
        /\ verdict' = [verdict EXCEPT ![t] = "unhandled"]
  /\ Changed("crash")
  /\ mutex' = NoThread
  /\ pc' = [pc EXCEPT ![t] = "return"]
  /\ idx' = [idx EXCEPT ![t] = 0]
  /\ handled' = [handled EXCEPT ![t] = FALSE]
  /\ UNCHANGED <<sig, fromUser, blocked, bogus, borrowed, exit, killer,
                 oldHandlers, stack, built, context, firstChance>>

\* What info->si_code may say: anything where info is not the kernel's.
SeemsSent(t) == IF bogus[t] THEN BOOLEAN ELSE {fromUser[t]}

\* A signal that was sent is sent again, and where that fails the process is
\* ended; a fault happens again by itself, and a signal that was sent and looks
\* like a fault does not.  (info is read here as it was read before: no fault.)
Retrigger(t) ==
  /\ Alive /\ pc[t] = "return"
  /\ \E sent \in SeemsSent(t) :
     \/ /\ sent \/ sig[t] = Abort
        /\ \/ /\ Return(t, "pending")
              /\ fromUser' = [fromUser EXCEPT ![t] = TRUE]
              /\ UNCHANGED kernelVars
           \/ /\ Die("_exit", t)
              /\ UNCHANGED <<pc, blocked, bogus, fromUser>>
     \/ /\ ~sent /\ sig[t] # Abort
        /\ Return(t, IF fromUser[t] THEN "run" ELSE "pending")
        /\ UNCHANGED <<fromUser, kernelVars>>
  /\ UNCHANGED <<sig, idx, handled, verdict, breakpadVars>>

Redeliver(t) ==
  /\ Alive /\ pc[t] = "pending"
  /\ Deliver(t, sig[t])
  /\ UNCHANGED <<sig, fromUser, idx, handled, verdict, breakpadVars>>

-----------------------------------------------------------------------------

\* SimulateSignalDelivery calls HandleSignal without the mutex.
SimulateSignalDelivery(t) ==
  /\ Alive /\ ClientDumps
  /\ \/ /\ pc[t] = "run" /\ stack # <<>>
        /\ pc' = [pc EXCEPT ![t] = "simulating"]
        /\ context' = t
     \/ /\ pc[t] = "simulating"
        /\ pc' = [pc EXCEPT ![t] = "run"]
        /\ UNCHANGED context
  /\ UNCHANGED <<sig, fromUser, blocked, bogus, idx, handled, verdict, kernelVars, oldHandlers,
                 handlersInstalled, stack, built, mutex, firstChance>>

\* Other code replaces SignalHandler with signal() and puts it back later, over
\* and over.
Borrow(s) ==
  /\ Alive /\ s \in ThirdParty
  /\ disp[s] \in Ours /\ ~borrowed[s]
  /\ disp' = [disp EXCEPT ![s] = "foreign"]
  /\ borrowed' = [borrowed EXCEPT ![s] = TRUE]
  /\ Changed("taken")
  /\ UNCHANGED <<threadVars, exit, killer, breakpadVars>>

GiveBack(s) ==
  /\ Alive /\ borrowed[s]
  /\ disp' = [disp EXCEPT ![s] = "noinfo"]
  /\ borrowed' = [borrowed EXCEPT ![s] = FALSE]
  /\ Changed("back")
  /\ UNCHANGED <<threadVars, exit, killer, breakpadVars>>

Dead == ~Alive /\ UNCHANGED vars

-----------------------------------------------------------------------------

Init ==
  /\ pc = [t \in Threads |-> "run"]
  /\ sig = [t \in Threads |-> Segv]
  /\ fromUser = [t \in Threads |-> FALSE]
  /\ blocked = [t \in Threads |-> {}]
  /\ bogus = [t \in Threads |-> FALSE]
  /\ idx = [t \in Threads |-> 0]
  /\ handled = [t \in Threads |-> FALSE]
  /\ verdict = [t \in Threads |-> "none"]
  /\ disp = [s \in Signals |-> "old"]
  /\ borrowed = [s \in Signals |-> FALSE]
  /\ changer = [t \in Threads |-> "nobody"]
  /\ oldHandlers = [s \in Signals |-> "default"]
  /\ handlersInstalled = FALSE
  /\ stack = <<>>
  /\ built = {}
  /\ mutex = NoThread
  /\ context = NoThread
  /\ firstChance = FALSE
  /\ exit = "alive"
  /\ killer = NoThread

\* A step of SignalHandler on t, or of the kernel for it.
HandlerStep(t) ==
  \/ Lock(t) \/ ResetHandler(t) \/ StartHandlers(t) \/ FillContext(t)
  \/ HandleSignal(t) \/ Conclude(t) \/ Retrigger(t) \/ Redeliver(t)

Next ==
  \/ \E h \in Handlers, install \in BOOLEAN : Construct(h, install)
  \/ \E h \in Handlers : Destruct(h)
  \/ SetFirstChanceExceptionHandler
  \/ \E t \in Threads, s \in Signals, user \in BOOLEAN : Crash(t, s, user)
  \/ \E t \in Threads : FirstChanceRecovers(t)
  \/ \E t \in Threads : HandlerStep(t)
  \/ \E t \in Threads, s \in Signals : FaultInHandler(t, s)
  \/ \E t \in Threads : SimulateSignalDelivery(t)
  \/ \E s \in Signals : Borrow(s) \/ GiveBack(s)
  \/ Dead

Spec == Init /\ [][Next]_vars

\* A thread in SignalHandler is scheduled, and waitpid of its dump returns.
FairSpec == Spec /\ \A t \in Threads : WF_vars(HandlerStep(t))

-----------------------------------------------------------------------------

ThreadsOK ==
  /\ pc \in [Threads -> Locations]
  /\ sig \in [Threads -> Signals]
  /\ fromUser \in [Threads -> BOOLEAN]
  /\ blocked \in [Threads -> SUBSET Signals]
  /\ bogus \in [Threads -> BOOLEAN]
  /\ idx \in [Threads -> Int]
  /\ handled \in [Threads -> BOOLEAN]
  /\ verdict \in [Threads -> {"none", "handled", "unhandled"}]

KernelOK ==
  /\ disp \in [Signals -> Dispositions]
  /\ borrowed \in [Signals -> BOOLEAN]
  /\ changer \in [Threads -> {"nobody", "crash", "handler", "taken", "back"}]
  /\ exit \in Dispositions \cup {"alive", "forced", "_exit"}
  /\ killer \in Threads \cup {NoThread}

BreakpadOK ==
  /\ oldHandlers \in [Signals -> Dispositions]
  /\ handlersInstalled \in BOOLEAN
  /\ stack \in Seq(Handlers)
  /\ built \in SUBSET Handlers
  /\ mutex \in Threads \cup {NoThread}
  /\ context \in Threads \cup {NoThread}
  /\ firstChance \in BOOLEAN

TypeOK == ThreadsOK /\ KernelOK /\ BreakpadOK

\* The dump a thread is making describes its own crash: nobody writes
\* g_crash_context_ between the copy of siginfo and the end of GenerateDump
\* ("at most one at a time can use |g_crash_context_|").
ContextIsMine == \A t \in Threads : pc[t] = "dumping" => context = t

\* A fault inside SignalHandler never waits for the mutex of its own thread.
NoSelfDeadlock == \A t \in Threads : pc[t] # "stuck"

\* "All the exception signals are blocked at this point": at the lock of
\* SignalHandler and up to its unlock.
AllSignalsBlocked == \A t \in Threads : Critical(t) => blocked[t] = Signals

\* Giving up leads away from SignalHandler: what RestoreHandlersLocked puts
\* back is never SignalHandler itself, and when it has nothing to put back no
\* signal is delivered to SignalHandler any more.
RestoreLeadsAway ==
  /\ \A s \in Signals : oldHandlers[s] \notin Ours
  /\ ~handlersInstalled => \A s \in Signals : disp[s] \notin Ours

\* The one handler this library constructs is there and stays: a second one
\* would install SignalHandler anew.
OneHandler == Cardinality(built) = 1 /\ stack # <<>>

\* The process died of the retriggered signal of killer.
Retriggered == ~Alive /\ killer \in Threads /\ pc[killer] = "pending"

\* "When the signal is retriggered, it will be delivered to the appropriate
\* handler": the default one after a dump, the old one when there is none.
RetriggerIsAppropriate ==
  Retriggered => (exit = "default" <=> verdict[killer] = "handled")

\* The same for a crash no other thread's crash interferes with, while the
\* handler stays and sigaction works.
LoneCrashIsAppropriate ==
  /\ OneHandler
  /\ SigactionFails = {}
  /\ \A t \in Threads \ {killer} : verdict[t] = "none"
  => RetriggerIsAppropriate

\* A crash that was dumped is not dumped again: the retriggered signal never
\* comes back to SignalHandler.
DumpedOnce ==
  OneHandler =>
    \A t \in Threads : verdict[t] = "handled" => pc[t] \in {"return", "pending"}

\* A thread whose signal the handlers were asked about takes the process down,
\* or is recovered by the first-chance handler when the signal comes back to a
\* SignalHandler installed meanwhile: neither other crashes, nor the handlers
\* they restore, nor handlers that come and go keep it in SignalHandler.
CrashEnds == \A t \in Threads : (pc[t] = "trying") ~> (~Alive \/ pc[t] = "run")

\* SignalHandler asks the handlers with an info and a uc that are not the kernel's
\* in three cases only: between the delivery and the check, another thread's crash
\* changed the handler of the signal, a handler object came or went, or other code
\* took the handler once more.  Code that only puts it back, however often and for
\* however many threads, is noticed.
InfoIsReal ==
  \A t \in Threads :
    pc[t] \in {"trying", "dumping", "tried"} /\ bogus[t]
      => changer[t] \in {"crash", "handler", "taken"}

\* Other code stops saving and restoring handlers some day.
BorrowingEnds == \A s \in ThirdParty : <>[]borrowed[s] \/ <>[]~borrowed[s]

\* A fault whose SA_SIGINFO was lost is not lost: SignalHandler repairs the flag,
\* the fault happens again, and the handlers are asked about it, once other code
\* has stopped taking the flag away, as long as no thread waits for itself and
\* unless other threads crash over and over and take the mutex every time.
FaultIsServed ==
  BorrowingEnds =>
    \A t \in Threads :
      \/ (pc[t] = "locked" /\ ~fromUser[t])
           ~> \/ pc[t] \in {"trying", "dumping", "tried"} \/ ~Alive
              \/ \E u \in Threads : pc[u] = "stuck"
      \/ []<>(\E u \in Threads \ {t} : pc[u] = "locked")
=============================================================================
