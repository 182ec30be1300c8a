------------------------- MODULE GenerateDumpProofs -------------------------
(***************************************************************************)
(* Theorems about GenerateDump, for any number of calls, handlers and       *)
(* descriptors: the types; that calls which are made one after the other    *)
(* and find two free descriptors close what they opened and no more; that   *)
(* a crash tells Java what its own child wrote, with nothing after it but   *)
(* what earlier texts left at that place of the buffer.                     *)
(***************************************************************************)
EXTENDS GenerateDump, FiniteSetTheorems, WellFoundedInduction, TLAPS

FdesType  == [read : Fds \cup {-1}, write : Fds \cup {-1}]
LogsType  == [read : Fds, write : Fds]
ChildType == [at : ChildSteps, table : Tables, ok : BOOLEAN, fdes : FdesType, logs : LogsType]

\* A least element of a set of numbers, which pipe() and open() take, is in it.
LEMMA MinIsIn ==
  ASSUME NEW S \in SUBSET Nat, S # {}
  PROVE  Min(S) \in S /\ \A j \in S : Min(S) <= j
<1> DEFINE R == OpToRel(<, Nat)
<1>1. \A y, x \in Nat : y < x => <<y, x>> \in R
  BY DEF OpToRel
<1>2. IsWellFoundedOn(R, Nat)
  BY NatLessThanWellFounded
<1> HIDE DEF R
<1>3. PICK x \in S : \A y \in S : <<y, x>> \notin R
  BY <1>2, WFMin, Zenon
<1>4. ASSUME NEW y \in S
      PROVE  x <= y
  <2>1. x \in Nat /\ y \in Nat
    OBVIOUS
  <2>2. ~(y < x)
    BY <1>1, <1>3, <2>1, Zenon
  <2> QED BY <2>1, <2>2
<1> QED BY <1>4, Zenon DEF Min

\* The ends of pipes, a file of the app and a free number are told apart.
LEMMA EndsFacts ==
  /\ Free \notin Ends /\ File \notin Ends /\ Free # File
  /\ \A p \in Pipes : Reader(p) \in Ends /\ Writer(p) \in Ends
  /\ \A p, q : Reader(p) # Writer(q)
  /\ \A p, q : (Reader(p) = Reader(q) => p = q) /\ (Writer(p) = Writer(q) => p = q)
  /\ \A p : Reader(p).pipe = p /\ Writer(p).pipe = p
  /\ \A e \in Ends : e.pipe \in Pipes
<1>1. \A p : /\ Reader(p).dir = "r" /\ Writer(p).dir = "w"
             /\ Reader(p).pipe = p /\ Writer(p).pipe = p
  BY DEF Reader, Writer
<1>2. Free.dir = "none" /\ File.dir = "file"
  BY DEF Free, File
<1>3. \A e \in Ends : \E p \in Pipes : e = Reader(p) \/ e = Writer(p)
  BY DEF Ends
<1>4. \A p \in Pipes : Reader(p) \in Ends /\ Writer(p) \in Ends
  BY DEF Ends
<1> QED BY <1>1, <1>2, <1>3, <1>4

\* close() frees the numbers it is given.
LEMMA CloseFrees ==
  ASSUME NEW tab \in Tables, NEW D
  PROVE  /\ Without(tab, D) \in Tables
         /\ \A d \in Fds : Without(tab, D)[d] = IF d \in D THEN Free ELSE tab[d]
BY DEF Tables, Without

LEMMA NoFdsType == NoFds \in Tables
BY DEF NoFds, Tables

\* pipe() puts its two ends where two descriptors were free.
LEMMA PipeTakesFree ==
  ASSUME NEW tab \in Tables, Cardinality(FreeIn(tab)) >= 2, NEW p \in Pipes,
         NEW made, made = PipeInto(tab, p)
  PROVE  /\ made.table \in Tables
         /\ made.pair \in LogsType
         /\ made.pair.read # made.pair.write
         /\ tab[made.pair.read] = Free /\ tab[made.pair.write] = Free
         /\ made.table[made.pair.read] = Reader(p)
         /\ made.table[made.pair.write] = Writer(p)
         /\ \A d \in Fds \ {made.pair.read, made.pair.write} : made.table[d] = tab[d]
<1> DEFINE F == FreeIn(tab)
           r == Min(F)
           w == Min(F \ {r})
<1>1. F \in SUBSET Nat /\ \A d \in F : d \in Fds /\ tab[d] = Free
  BY DumpAssumption DEF FreeIn
<1>2. F # {}
  BY FS_EmptySet
<1>3. r \in F
  BY <1>1, <1>2, MinIsIn
<1>4. F \ {r} # {}
  <2>1. ASSUME F \ {r} = {}
        PROVE  FALSE
    <3>1. F = {r}
      BY <1>3, <2>1
    <3> HIDE DEF r
    <3>2. Cardinality(F) = 1
      BY <3>1, FS_Singleton
    <3> QED BY <3>2
  <2> QED BY <2>1
<1>5. w \in F \ {r}
  <2> HIDE DEF r
  <2> QED BY <1>1, <1>4, MinIsIn
<1>6. made = [table |-> [tab EXCEPT ![r] = Reader(p), ![w] = Writer(p)], pair |-> Pair(r, w)]
  BY DEF PipeInto
<1>7. Reader(p) \in Ends /\ Writer(p) \in Ends
  BY EndsFacts
<1> HIDE DEF r, w, F
<1> QED BY <1>1, <1>3, <1>5, <1>6, <1>7 DEF Pair, Tables, LogsType

-----------------------------------------------------------------------------
(* The types.                                                               *)

\* TypeOK without the length of what is in the pipes.
Types ==
  /\ pc \in [Callers -> CallSteps]
  /\ mutex \in Callers \cup {Nobody}
  /\ fdes \in [Handlers -> FdesType]
  /\ logs \in LogsType
  /\ table \in Tables
  /\ child \in [Callers -> ChildType]
  /\ appFds \subseteq Fds
  /\ result \in [Callers -> BOOLEAN]
  /\ exit \in BOOLEAN

LEMMA TypesHold == Spec => []Types
<1>1. Init => Types
  <2>1. Pair(-1, -1) \in FdesType /\ Pair(0, 0) \in LogsType
    BY DumpAssumption DEF Pair, FdesType, LogsType
  <2>2. [at |-> "none", table |-> NoFds, fdes |-> Pair(-1, -1), logs |-> Pair(0, 0), ok |-> FALSE]
          \in ChildType
    BY <2>1, NoFdsType DEF ChildType, ChildSteps
  <2>3. [NoFds EXCEPT ![0] = File] \in Tables
    BY NoFdsType DEF Tables
  <2>4. 0 \in Fds
    BY DumpAssumption
  <2>5. ASSUME Init
        PROVE  Types
    <3>1. child \in [Callers -> ChildType]
      BY <2>2, <2>5, Zenon DEF Init
    <3>2. fdes \in [Handlers -> FdesType] /\ logs \in LogsType /\ table \in Tables
      BY <2>1, <2>3, <2>5, Zenon DEF Init
    <3>3. pc \in [Callers -> CallSteps] /\ result \in [Callers -> BOOLEAN]
      BY <2>5 DEF Init, CallSteps
    <3> QED BY <2>4, <2>5, <3>1, <3>2, <3>3 DEF Init, Types
  <2> QED BY <2>5
<1>2. Types /\ [Next]_vars => Types'
  <2> SUFFICES ASSUME Types, [Next]_vars
               PROVE  Types'
    OBVIOUS
  <2> USE DEF Types, callVars, memory, kernel, Step, LetGo, CallSteps
  <2>1. ASSUME NEW c \in Callers, CallStep(c)
        PROVE  Types'
    <3>0. HandlerOf[c] \in Handlers /\ fdes[HandlerOf[c]] \in FdesType
      BY DumpAssumption
    <3>1. CASE Start(c) \/ NoStack(c)
      BY <3>1 DEF Start, NoStack
    <3>2. CASE MakeContinuePipe(c)
      <4>1. CASE CanPipe
        <5> DEFINE made == PipeInto(table, <<"continue", c>>)
        <5>1. made.table \in Tables /\ made.pair \in LogsType
          BY <4>1, PipeTakesFree DEF CanPipe, Pipes
        <5>2. made.pair \in FdesType
          BY <5>1 DEF LogsType, FdesType
        <5> HIDE DEF made
        <5> QED BY <3>2, <4>1, <5>1, <5>2 DEF MakeContinuePipe, made
      <4>2. CASE ~CanPipe
        <5>1. Pair(-1, -1) \in FdesType
          BY DEF Pair, FdesType
        <5> QED BY <3>2, <4>2, <5>1 DEF MakeContinuePipe
      <4> QED BY <4>1, <4>2
    <3>3. CASE MakeLogPipe(c)
      <4>1. CASE CanPipe
        <5> DEFINE made == PipeInto(table, <<"log", c>>)
        <5>1. made.table \in Tables /\ made.pair \in LogsType
          BY <4>1, PipeTakesFree DEF CanPipe, Pipes
        <5> HIDE DEF made
        <5> QED BY <3>3, <4>1, <5>1 DEF MakeLogPipe, made
      <4>2. CASE ~CanPipe
        BY <3>3, <4>2 DEF MakeLogPipe
      <4> QED BY <4>1, <4>2
    <3>4. CASE Clone(c)
      BY <3>0, <3>4 DEF Clone, ChildType, ChildSteps
    <3>5. CASE CloneFails(c)
      BY <3>5, CloseFrees DEF CloneFails
    <3>6. CASE CloseChildEnds(c)
      BY <3>6, CloseFrees DEF CloseChildEnds
    <3>7. CASE SendContinueSignalToChild(c)
      BY <3>7 DEF SendContinueSignalToChild
    <3>8. CASE WaitForChild(c)
      <4>1. child[c].ok \in BOOLEAN
        BY DEF ChildType
      <4>2. result' = [result EXCEPT ![c] = child[c].ok] \/ result' = result
        BY <3>8 DEF WaitForChild
      <4> QED BY <3>8, <4>1, <4>2, CloseFrees DEF WaitForChild
    <3>9. CASE Dump2Java(c)
      BY <3>9 DEF Dump2Java
    <3>10. CASE CloseLog(c)
      BY <3>10, CloseFrees DEF CloseLog
    <3> QED BY <2>1, <3>1, <3>2, <3>3, <3>4, <3>5, <3>6, <3>7, <3>8, <3>9, <3>10 DEF CallStep, GoOn
  <2>2. ASSUME NEW c \in Callers, ChildStep(c)
        PROVE  Types'
    <3>1. /\ child[c].table \in Tables
          /\ \A D : Without(child[c].table, D) \in Tables
      BY CloseFrees DEF ChildType
    <3>2. ASSUME NEW from, NEW to \in ChildSteps, NEW tab \in Tables, NEW ok \in BOOLEAN,
                 InChild(c, from, to, tab, ok)
          PROVE  Types'
      BY <3>2 DEF InChild, ChildType
    <3> USE DEF ChildSteps
    <3>3. CASE ThreadEntry(c)
      BY <3>1, <3>2, <3>3 DEF ThreadEntry
    <3>4. CASE WaitForContinueSignal(c)
      BY <3>1, <3>2, <3>4 DEF WaitForContinueSignal
    <3>5. CASE DoDump(c)
      BY <3>1, <3>2, <3>5 DEF DoDump
    <3>6. CASE DoDumpFails(c)
      BY <3>2, <3>6, NoFdsType DEF DoDumpFails
    <3>7. CASE WriteText(c)
      BY <3>2, <3>7, NoFdsType DEF WriteText
    <3> QED BY <2>2, <3>3, <3>4, <3>5, <3>6, <3>7 DEF ChildStep
  <2>3. CASE OpenFile
    <3>1. FreeIn(table) \in SUBSET Nat /\ FreeIn(table) \subseteq Fds
      BY DumpAssumption DEF FreeIn
    <3>2. Min(FreeIn(table)) \in Fds
      BY <2>3, <3>1, MinIsIn DEF OpenFile
    <3> QED BY <2>3, <3>2 DEF OpenFile, Tables
  <2>4. CASE CloseFile
    BY <2>4, CloseFrees DEF CloseFile
  <2>5. CASE Killed
    BY <2>5, NoFdsType DEF Killed
  <2>6. CASE Finished \/ UNCHANGED vars
    BY <2>6 DEF Finished, vars
  <2> QED BY <2>1, <2>2, <2>3, <2>4, <2>5, <2>6 DEF Next
<1> QED BY <1>1, <1>2, PTL DEF Spec

-----------------------------------------------------------------------------
(* Descriptors of calls made one after the other.                           *)

\* A call that is about to make a pipe finds two free descriptors. Without it the
\* unchecked pipe(log_descriptors) leaves the numbers of an earlier call, and the
\* close that follows takes what the app has opened since.
Room == \A c \in Callers : pc[c] \in {"locked", "piped"} => CanPipe

\* The steps in which a call has each end open.
ContinueRead  == {"piped", "logged", "cloned"}
ContinueWrite == {"piped", "logged", "cloned", "closed", "continued"}
LogRead       == {"logged", "cloned", "closed", "continued", "waited", "told"}
LogWrite      == {"logged", "cloned"}

\* Every call that runs holds the mutex.
Alone == \A c \in Callers : pc[c] \notin {"idle", "returned"} => mutex = c

\* The variables of a call name the ends it has open.
Holds(c) ==
  LET f == fdes[HandlerOf[c]] IN
  /\ pc[c] \in ContinueRead => f.read \in Fds /\ table[f.read] = Reader(<<"continue", c>>)
  /\ pc[c] \in ContinueWrite => f.write \in Fds /\ table[f.write] = Writer(<<"continue", c>>)
  /\ pc[c] \in LogRead => table[logs.read] = Reader(<<"log", c>>)
  /\ pc[c] \in LogWrite => table[logs.write] = Writer(<<"log", c>>)

\* An end is that of a call, or of the log pipe of a call that could not clone.
OwnEnd(c, d) ==
  \/ pc[c] \in ContinueRead /\ d = fdes[HandlerOf[c]].read
  \/ pc[c] \in ContinueWrite /\ d = fdes[HandlerOf[c]].write
  \/ pc[c] \in LogRead /\ d = logs.read
  \/ pc[c] \in LogWrite /\ d = logs.write
LeftEnd(d) == table[d].pipe[1] = "log" /\ child[table[d].pipe[2]].at = "none"
              /\ pc[table[d].pipe[2]] = "returned"
Accounted == \A d \in Fds : table[d] \in Ends => LeftEnd(d) \/ \E c \in Callers : OwnEnd(c, d)

\* A call that has not come to clone has no child.
Childless == \A c \in Callers : pc[c] \in {"idle", "locked", "piped", "logged"} => child[c].at = "none"

AppFiles == \A d \in appFds : table[d] = File

DescriptorInv ==
  exit \/ (Alone /\ (\A c \in Callers : Holds(c)) /\ Accounted /\ Childless /\ AppFiles)

\* What every step of a call does to the control: it moves on the call alone,
\* takes the mutex in the first step and gives it back in the last.
LEMMA CallShape ==
  ASSUME Types, NEW c \in Callers, CallStep(c)
  PROVE  /\ ~exit /\ ~exit' /\ appFds' = appFds
         /\ pc[c] # "returned" /\ pc'[c] # "idle"
         /\ \A k \in Callers \ {c} : pc'[k] = pc[k] /\ child'[k] = child[k]
         /\ IF pc[c] = "idle" THEN /\ c \in Crashes => mutex = Nobody
                                   /\ c \in Crashes => mutex' = c
            ELSE IF pc'[c] = "returned" THEN LetGo(c) ELSE mutex' = mutex
         /\ pc'[c] \in {"locked", "piped", "logged"} => child' = child
<1> USE DEF Step, Types, CallSteps, callVars, memory, kernel
<1>1. CASE Start(c) \/ NoStack(c)
  BY <1>1 DEF Start, NoStack
<1>2. CASE MakeContinuePipe(c)
  BY <1>2 DEF MakeContinuePipe
<1>3. CASE MakeLogPipe(c)
  BY <1>3 DEF MakeLogPipe
<1>4. CASE Clone(c)
  BY <1>4 DEF Clone
<1>5. CASE CloneFails(c) \/ CloseLog(c)
  BY <1>5 DEF CloneFails, CloseLog
<1>6. CASE CloseChildEnds(c) \/ SendContinueSignalToChild(c)
  BY <1>6 DEF CloseChildEnds, SendContinueSignalToChild
<1>7. CASE WaitForChild(c)
  BY <1>7 DEF WaitForChild
<1>8. CASE Dump2Java(c)
  <2>1. Step(c, "waited", "told") /\ UNCHANGED <<mutex, child, appFds, exit>>
    BY <1>8, Zenon DEF Dump2Java
  <2> QED BY <2>1
<1> QED BY <1>1, <1>2, <1>3, <1>4, <1>5, <1>6, <1>7, <1>8 DEF CallStep, GoOn

\* A step of a call that holds the mutex leaves the ends of the others alone:
\* they have none.
LEMMA CallKeepsDescriptors ==
  ASSUME Crashes = Callers, Types, DescriptorInv, Room, NEW c \in Callers, CallStep(c)
  PROVE  DescriptorInv'
<1> DEFINE f == fdes[HandlerOf[c]]
<1>1. /\ Alone /\ Accounted /\ Childless /\ AppFiles
      /\ \A k \in Callers : Holds(k)
  BY CallShape DEF DescriptorInv
<1>2. HandlerOf[c] \in Handlers /\ f \in FdesType /\ Nobody \notin Callers
  BY DumpAssumption DEF Types
<1>3. \A k \in Callers \ {c} : pc[k] \in {"idle", "returned"} /\ pc'[k] = pc[k]
  BY <1>1, <1>2, CallShape DEF Alone
<1>4. Alone'
  BY <1>1, <1>2, <1>3, CallShape DEF LetGo, Alone
<1>5. Childless'
  <2>1. pc'[c] \in {"locked", "piped", "logged"} => child'[c].at = "none"
    BY <1>1, CallShape DEF CallStep, GoOn, Start, NoStack, MakeContinuePipe, MakeLogPipe, Clone, CloneFails,
       CloseChildEnds, SendContinueSignalToChild, WaitForChild, Dump2Java, CloseLog, Step, Types,
       Childless
  <2> QED BY <1>1, <1>3, <2>1, CallShape DEF Childless
<1>6. \A k \in Callers \ {c} : Holds(k)'
  BY <1>3 DEF Holds, ContinueRead, ContinueWrite, LogRead, LogWrite
<1>7. \A d \in Fds : table[d] \in Ends => LeftEnd(d) \/ OwnEnd(c, d)
  BY <1>1, <1>3 DEF Accounted, OwnEnd, ContinueRead, ContinueWrite, LogRead, LogWrite
<1>8. ASSUME NEW d \in Fds, table[d] \in Ends, table'[d] = table[d], LeftEnd(d)
      PROVE  LeftEnd(d)'
  <2>1. PICK k \in Callers : k = table[d].pipe[2]
    BY <1>8, EndsFacts DEF Pipes
  <2>2. k # c
    BY <1>8, <2>1, CallShape DEF LeftEnd
  <2> QED BY <1>8, <2>1, <2>2, CallShape DEF LeftEnd
<1> DEFINE Kept(d) == table'[d] = table[d] /\ LeftEnd(d)
           Ended == \A d \in Fds : table'[d] \in Ends => Kept(d) \/ OwnEnd(c, d)' \/ LeftEnd(d)'
           Goal  == Holds(c)' /\ Ended /\ AppFiles'
<1> USE DEF ContinueRead, ContinueWrite, LogRead, LogWrite
<1>9. /\ Free \notin Ends /\ File \notin Ends /\ Free # File
      /\ <<"continue", c>> \in Pipes /\ <<"log", c>> \in Pipes
  BY EndsFacts DEF Pipes
<1>10. table \in Tables /\ appFds \subseteq Fds /\ c \in DOMAIN pc /\ HandlerOf[c] \in DOMAIN fdes
  BY <1>2 DEF Types
<1>11. ASSUME Start(c) \/ NoStack(c)
       PROVE  Goal
  <2>1. pc[c] \in {"idle", "locked"} /\ pc'[c] \in {"locked", "returned"}
    BY <1>10, <1>11 DEF Start, NoStack, Step
  <2>2. UNCHANGED <<table, fdes, logs, child>>
    BY <1>11 DEF Start, NoStack, memory, kernel
  <2>3. Holds(c)' /\ AppFiles'
    BY <1>1, <2>1, <2>2, CallShape DEF Holds, AppFiles
  <2>4. Ended
    BY <1>7, <2>1, <2>2 DEF OwnEnd
  <2> QED BY <2>3, <2>4
<1>12. ASSUME MakeContinuePipe(c)
       PROVE  Goal
  <2> DEFINE made == PipeInto(table, <<"continue", c>>)
  <2>1. pc[c] = "locked" /\ pc'[c] = "piped"
    BY <1>10, <1>12 DEF MakeContinuePipe, Step
  <2>2. CanPipe
    BY <2>1 DEF Room
  <2>3. /\ table' = made.table /\ fdes'[HandlerOf[c]] = made.pair
        /\ UNCHANGED <<logs, child>>
    BY <1>10, <1>12, <2>2 DEF MakeContinuePipe
  <2>4. /\ made.pair \in LogsType
        /\ table[made.pair.read] = Free /\ table[made.pair.write] = Free
        /\ made.table[made.pair.read] = Reader(<<"continue", c>>)
        /\ made.table[made.pair.write] = Writer(<<"continue", c>>)
        /\ \A d \in Fds \ {made.pair.read, made.pair.write} : made.table[d] = table[d]
    BY <1>9, <1>10, <2>2, PipeTakesFree DEF CanPipe
  <2> HIDE DEF made
  <2>5. Holds(c)'
    BY <2>1, <2>3, <2>4 DEF Holds, LogsType
  <2>6. AppFiles'
    BY <1>1, <1>9, <1>10, <2>3, <2>4, CallShape DEF AppFiles
  <2>7. Ended
    BY <1>7, <2>1, <2>3, <2>4 DEF OwnEnd
  <2> QED BY <2>5, <2>6, <2>7
<1>13. ASSUME MakeLogPipe(c)
       PROVE  Goal
  <2> DEFINE made == PipeInto(table, <<"log", c>>)
  <2>1. pc[c] = "piped" /\ pc'[c] = "logged"
    BY <1>10, <1>13 DEF MakeLogPipe, Step
  <2>2. CanPipe
    BY <2>1 DEF Room
  <2>3. table' = made.table /\ logs' = made.pair /\ UNCHANGED <<fdes, child>>
    BY <1>13, <2>2 DEF MakeLogPipe
  <2>4. /\ made.pair \in LogsType
        /\ table[made.pair.read] = Free /\ table[made.pair.write] = Free
        /\ made.table[made.pair.read] = Reader(<<"log", c>>)
        /\ made.table[made.pair.write] = Writer(<<"log", c>>)
        /\ \A d \in Fds \ {made.pair.read, made.pair.write} : made.table[d] = table[d]
    BY <1>9, <1>10, <2>2, PipeTakesFree DEF CanPipe
  <2>5. Reader(<<"continue", c>>) # Free /\ Writer(<<"continue", c>>) # Free
    BY <1>9, EndsFacts
  <2> HIDE DEF made
  <2>6. Holds(c)'
    BY <1>1, <2>1, <2>3, <2>4, <2>5 DEF Holds
  <2>7. AppFiles'
    BY <1>1, <1>9, <1>10, <2>3, <2>4, CallShape DEF AppFiles
  <2>8. Ended
    BY <1>7, <2>1, <2>3, <2>4 DEF OwnEnd
  <2> QED BY <2>6, <2>7, <2>8
<1>14. ASSUME Clone(c)
       PROVE  Goal
  <2>1. pc[c] = "logged" /\ pc'[c] = "cloned" /\ UNCHANGED <<table, fdes, logs>>
    BY <1>10, <1>14 DEF Clone, Step, memory
  <2>2. Holds(c)' /\ AppFiles'
    BY <1>1, <2>1, CallShape DEF Holds, AppFiles
  <2>3. Ended
    BY <1>7, <2>1 DEF OwnEnd
  <2> QED BY <2>2, <2>3
<1>15. ASSUME SendContinueSignalToChild(c)
       PROVE  Goal
  <2>1. pc[c] = "closed" /\ pc'[c] = "continued" /\ UNCHANGED <<table, fdes, logs>>
    BY <1>10, <1>15 DEF SendContinueSignalToChild, Step, memory
  <2>2. Holds(c)' /\ AppFiles'
    BY <1>1, <2>1, CallShape DEF Holds, AppFiles
  <2>3. Ended
    BY <1>7, <2>1 DEF OwnEnd
  <2> QED BY <2>2, <2>3
<1>16. ASSUME Dump2Java(c)
       PROVE  Goal
  <2>1. Step(c, "waited", "told") /\ UNCHANGED <<table, fdes, logs>>
    BY <1>16, Zenon DEF Dump2Java
  <2>2. pc[c] = "waited" /\ pc'[c] = "told"
    BY <1>10, <2>1 DEF Step
  <2>3. Holds(c)' /\ AppFiles'
    BY <1>1, <2>1, <2>2, CallShape DEF Holds, AppFiles
  <2>4. Ended
    BY <1>7, <2>1, <2>2 DEF OwnEnd
  <2> QED BY <2>3, <2>4
<1>17. \A p, q \in {"continue", "log"} : Reader(<<p, c>>) # Writer(<<q, c>>) /\ (p # q =>
         Reader(<<p, c>>) # Reader(<<q, c>>) /\ Writer(<<p, c>>) # Writer(<<q, c>>))
  BY EndsFacts
<1>18. \A p \in {"continue", "log"} : \A e \in {Reader(<<p, c>>), Writer(<<p, c>>)} :
         e \in Ends /\ e # File /\ e.pipe = <<p, c>>
  BY <1>9, EndsFacts
<1>19. ASSUME NEW D, table' = Without(table, D), \A d \in D : d \in Fds => table[d] \in Ends
       PROVE  /\ \A d \in Fds : table'[d] = IF d \in D THEN Free ELSE table[d]
              /\ AppFiles'
  <2>1. \A d \in Fds : table'[d] = IF d \in D THEN Free ELSE table[d]
    BY <1>10, <1>19, CloseFrees
  <2> QED BY <1>1, <1>9, <1>10, <1>19, <2>1, CallShape DEF AppFiles
<1> HIDE DEF f
<1>20. ASSUME CloneFails(c)
       PROVE  Goal
  <2>1. /\ pc[c] = "logged" /\ pc'[c] = "returned" /\ UNCHANGED <<fdes, logs, child>>
        /\ table' = Without(table, {f.read, f.write})
    BY <1>10, <1>20 DEF CloneFails, Step, memory, f
  <2>2. /\ table[f.read] = Reader(<<"continue", c>>) /\ table[f.write] = Writer(<<"continue", c>>)
        /\ table[logs.read] = Reader(<<"log", c>>) /\ table[logs.write] = Writer(<<"log", c>>)
    BY <1>1, <2>1 DEF Holds, f
  <2>3. /\ \A d \in Fds : table'[d] = IF d \in {f.read, f.write} THEN Free ELSE table[d]
        /\ AppFiles'
    <3>1. \A d \in {f.read, f.write} : d \in Fds => table[d] \in Ends
      BY <1>18, <2>2
    <3> QED BY <1>19, <2>1, <3>1
  <2>4. Holds(c)'
    BY <2>1 DEF Holds
  <2>5. ASSUME NEW d \in Fds, table'[d] \in Ends
        PROVE  Kept(d) \/ LeftEnd(d)'
    <3>1. d \notin {f.read, f.write} /\ table'[d] = table[d]
      BY <1>9, <2>3, <2>5
    <3>2. CASE d \in {logs.read, logs.write}
      BY <1>1, <1>18, <2>1, <2>2, <3>1, <3>2 DEF LeftEnd, Childless
    <3>3. CASE d \notin {logs.read, logs.write}
      BY <1>7, <2>5, <3>1, <3>3 DEF OwnEnd, f
    <3> QED BY <3>2, <3>3
  <2> QED BY <2>3, <2>4, <2>5
<1>21. ASSUME CloseChildEnds(c)
       PROVE  Goal
  <2>1. /\ pc[c] = "cloned" /\ pc'[c] = "closed" /\ UNCHANGED <<fdes, logs, child>>
        /\ table' = Without(table, {logs.write, f.read})
    BY <1>10, <1>21 DEF CloseChildEnds, Step, memory, f
  <2>2. /\ table[f.read] = Reader(<<"continue", c>>) /\ table[f.write] = Writer(<<"continue", c>>)
        /\ table[logs.read] = Reader(<<"log", c>>) /\ table[logs.write] = Writer(<<"log", c>>)
        /\ f.write \in Fds /\ logs.read \in Fds
    BY <1>1, <2>1 DEF Holds, f, Types, LogsType
  <2>3. /\ \A d \in Fds : table'[d] = IF d \in {logs.write, f.read} THEN Free ELSE table[d]
        /\ AppFiles'
    <3>1. \A d \in {logs.write, f.read} : d \in Fds => table[d] \in Ends
      BY <1>18, <2>2
    <3> QED BY <1>19, <2>1, <3>1
  <2>4. Holds(c)'
    <3>1. {f.write, logs.read} \cap {logs.write, f.read} = {}
      BY <1>17, <2>2
    <3> QED BY <2>1, <2>2, <2>3, <3>1 DEF Holds, f
  <2>5. ASSUME NEW d \in Fds, table'[d] \in Ends
        PROVE  Kept(d) \/ OwnEnd(c, d)'
    BY <1>7, <1>9, <2>1, <2>3, <2>5 DEF OwnEnd, f
  <2> QED BY <2>3, <2>4, <2>5
<1>22. ASSUME WaitForChild(c)
       PROVE  Goal
  <2>1. /\ pc[c] = "continued" /\ pc'[c] = "waited" /\ UNCHANGED <<fdes, logs, child>>
        /\ table' = Without(table, {f.write})
    BY <1>10, <1>22 DEF WaitForChild, Step, memory, f
  <2>2. /\ table[f.write] = Writer(<<"continue", c>>)
        /\ table[logs.read] = Reader(<<"log", c>>) /\ logs.read \in Fds
    BY <1>1, <2>1 DEF Holds, f, Types, LogsType
  <2>3. /\ \A d \in Fds : table'[d] = IF d \in {f.write} THEN Free ELSE table[d]
        /\ AppFiles'
    <3>1. \A d \in {f.write} : d \in Fds => table[d] \in Ends
      BY <1>18, <2>2
    <3> QED BY <1>19, <2>1, <3>1
  <2>4. Holds(c)'
    <3>1. f.write # logs.read
      BY <1>17, <2>2
    <3> QED BY <2>1, <2>2, <2>3, <3>1 DEF Holds
  <2>5. ASSUME NEW d \in Fds, table'[d] \in Ends
        PROVE  Kept(d) \/ OwnEnd(c, d)'
    BY <1>7, <1>9, <2>1, <2>3, <2>5 DEF OwnEnd, f
  <2> QED BY <2>3, <2>4, <2>5
<1>23. ASSUME CloseLog(c)
       PROVE  Goal
  <2>1. /\ pc[c] = "told" /\ pc'[c] = "returned" /\ UNCHANGED <<fdes, logs, child>>
        /\ table' = Without(table, {logs.read})
    BY <1>10, <1>23 DEF CloseLog, Step, memory
  <2>2. table[logs.read] = Reader(<<"log", c>>)
    BY <1>1, <2>1 DEF Holds
  <2>3. /\ \A d \in Fds : table'[d] = IF d \in {logs.read} THEN Free ELSE table[d]
        /\ AppFiles'
    <3>1. \A d \in {logs.read} : d \in Fds => table[d] \in Ends
      BY <1>18, <2>2
    <3> QED BY <1>19, <2>1, <3>1
  <2>4. Holds(c)'
    BY <2>1 DEF Holds
  <2>5. ASSUME NEW d \in Fds, table'[d] \in Ends
        PROVE  Kept(d)
    BY <1>7, <1>9, <2>1, <2>3, <2>5 DEF OwnEnd
  <2> QED BY <2>3, <2>4, <2>5
<1>24. Goal
  BY <1>11, <1>12, <1>13, <1>14, <1>15, <1>16, <1>20, <1>21, <1>22, <1>23, Zenon DEF CallStep, GoOn
<1>25. Accounted'
  BY <1>8, <1>24 DEF Accounted
<1> QED
  BY <1>4, <1>5, <1>6, <1>24, <1>25 DEF DescriptorInv

\* A child touches neither the descriptors of the process nor a child that is
\* not there.
LEMMA ChildKeepsDescriptors ==
  ASSUME Types, DescriptorInv, ~exit, NEW c \in Callers, ChildStep(c)
  PROVE  DescriptorInv'
<1>1. Alone /\ Accounted /\ Childless /\ AppFiles /\ \A k \in Callers : Holds(k)
  BY DEF DescriptorInv
<1>2. /\ UNCHANGED <<callVars, memory, table, appFds, exit>>
      /\ child[c].at # "none"
      /\ \A k \in Callers \ {c} : child'[k] = child[k]
  BY DEF ChildStep, ThreadEntry, WaitForContinueSignal, DoDump, DoDumpFails, WriteText, InChild, Types
<1>3. Alone' /\ AppFiles' /\ \A k \in Callers : Holds(k)'
  BY <1>1, <1>2 DEF Alone, AppFiles, Holds, callVars, memory
<1>4. Childless'
  BY <1>1, <1>2 DEF Childless, callVars
<1>5. ASSUME NEW d \in Fds, table[d] \in Ends
      PROVE  LeftEnd(d)' \/ \E k \in Callers : OwnEnd(k, d)'
  <2>1. CASE LeftEnd(d)
    <3>1. PICK k \in Callers : k = table[d].pipe[2]
      BY <1>5, EndsFacts DEF Pipes
    <3> QED BY <1>2, <2>1, <3>1 DEF LeftEnd, callVars
  <2>2. ASSUME NEW k \in Callers, OwnEnd(k, d)
        PROVE  OwnEnd(k, d)'
    BY <1>2, <2>2 DEF OwnEnd, callVars, memory
  <2> QED BY <1>1, <1>5, <2>1, <2>2 DEF Accounted
<1>6. Accounted'
  BY <1>2, <1>5 DEF Accounted
<1> QED
  BY <1>3, <1>4, <1>6 DEF DescriptorInv

\* The rest of the app opens what is free and closes what is its own.
LEMMA AppKeepsDescriptors ==
  ASSUME Types, DescriptorInv, ~exit, OpenFile \/ CloseFile
  PROVE  DescriptorInv'
<1>1. Alone /\ Accounted /\ Childless /\ AppFiles /\ \A k \in Callers : Holds(k)
  BY DEF DescriptorInv
<1>2. PICK d \in Fds : /\ table[d] \notin Ends
                       /\ \A n \in Fds \ {d} : table'[n] = table[n]
                       /\ table'[d] \in {Free, File}
                       /\ \/ appFds' = appFds \cup {d} /\ table'[d] = File
                          \/ appFds' = appFds \ {d}
  <2>1. CASE OpenFile
    <3>1. Min(FreeIn(table)) \in FreeIn(table)
      <4>1. FreeIn(table) \in SUBSET Nat
        BY DumpAssumption DEF FreeIn
      <4> QED BY <2>1, <4>1, MinIsIn DEF OpenFile
    <3>2. Min(FreeIn(table)) \in Fds /\ table[Min(FreeIn(table))] = Free
      BY <3>1 DEF FreeIn
    <3> QED BY <2>1, <3>2, EndsFacts DEF OpenFile, Types, Tables
  <2>2. CASE CloseFile
    BY <1>1, <2>2, CloseFrees, EndsFacts DEF CloseFile, Types, AppFiles
  <2> QED BY <2>1, <2>2
<1>3. UNCHANGED <<callVars, memory, child, exit>>
  BY DEF OpenFile, CloseFile
<1>4. Alone' /\ Childless'
  BY <1>1, <1>3 DEF Alone, Childless, callVars
<1>5. AppFiles'
  BY <1>1, <1>2 DEF AppFiles, Types
<1>6. ASSUME NEW c \in Callers
      PROVE  Holds(c)'
  <2>1. \A p \in {"continue", "log"} : Reader(<<p, c>>) \in Ends /\ Writer(<<p, c>>) \in Ends
    BY EndsFacts DEF Pipes
  <2>2. \A n \in Fds : table[n] \in Ends => table'[n] = table[n]
    BY <1>2
  <2>3. logs.read \in Fds /\ logs.write \in Fds
    BY DEF Types, LogsType
  <2>4. Holds(c)
    BY <1>1
  <2> QED BY <1>3, <2>1, <2>2, <2>3, <2>4 DEF Holds, callVars, memory
<1>7. Accounted'
  <2>1. \A n \in Fds : table'[n] \in Ends => table[n] = table'[n]
    BY <1>2, EndsFacts
  <2> QED BY <1>1, <1>3, <2>1 DEF Accounted, LeftEnd, OwnEnd, callVars, memory
<1> QED
  BY <1>4, <1>5, <1>6, <1>7 DEF DescriptorInv

\* When crashes are the only callers and find room for their pipes, the process
\* has open what it says it has, whatever else fails.
LEMMA DescriptorsHold ==
  ASSUME Crashes = Callers
  PROVE  Spec /\ []Room => []DescriptorInv
<1>1. Init => DescriptorInv
  <2>1. ASSUME Init
        PROVE  DescriptorInv
    <3>1. /\ \A c \in Callers : pc[c] = "idle" /\ child[c].at = "none"
          /\ appFds = {0}
      BY <2>1 DEF Init
    <3>2. \A d \in Fds : table[d] = IF d = 0 THEN File ELSE Free
      BY <2>1 DEF Init, NoFds
    <3>3. Alone /\ Childless /\ \A c \in Callers : Holds(c)
      BY <3>1 DEF Alone, Childless, Holds, ContinueRead, ContinueWrite, LogRead, LogWrite
    <3>4. Accounted /\ AppFiles
      BY <3>1, <3>2, DumpAssumption, EndsFacts DEF Accounted, AppFiles
    <3> QED BY <3>3, <3>4 DEF DescriptorInv
  <2> QED BY <2>1
<1>2. Types /\ DescriptorInv /\ Room /\ [Next]_vars => DescriptorInv'
  <2> SUFFICES ASSUME Types, DescriptorInv, Room, [Next]_vars
               PROVE  DescriptorInv'
    OBVIOUS
  <2>1. CASE exit
    <3>1. exit'
      BY <2>1, CallShape DEF Next, ChildStep, ThreadEntry, WaitForContinueSignal, DoDump,
         DoDumpFails, WriteText, InChild, OpenFile, CloseFile, Killed, Finished, vars
    <3> QED BY <3>1 DEF DescriptorInv
  <2>2. ASSUME NEW c \in Callers, CallStep(c)
        PROVE  DescriptorInv'
    BY <2>2, CallKeepsDescriptors
  <2>3. ASSUME ~exit, NEW c \in Callers, ChildStep(c)
        PROVE  DescriptorInv'
    BY <2>3, ChildKeepsDescriptors
  <2>4. ASSUME ~exit, OpenFile \/ CloseFile
        PROVE  DescriptorInv'
    BY <2>4, AppKeepsDescriptors
  <2>5. CASE Killed
    BY <2>5 DEF Killed, DescriptorInv
  <2>6. CASE Finished \/ UNCHANGED vars
    <3>1. UNCHANGED vars
      BY <2>6 DEF Finished
    <3> QED BY <3>1 DEF vars, callVars, memory, kernel, DescriptorInv, Alone, Holds, Accounted,
          Childless, AppFiles, LeftEnd, OwnEnd
  <2> QED BY <2>1, <2>2, <2>3, <2>4, <2>5, <2>6 DEF Next
<1> QED BY <1>1, <1>2, TypesHold, PTL DEF Spec

\* GenerateDump closes only what it opened (its pipes, in the process and in the
\* child): a file of the app stays open.
THEOREM FilesTheorem ==
  ASSUME Crashes = Callers
  PROVE  Spec /\ []Room => []AppKeepsFiles
<1>1. DescriptorInv => AppKeepsFiles
  BY DEF DescriptorInv, AppFiles, AppKeepsFiles
<1> QED BY <1>1, DescriptorsHold, PTL

\* GenerateDump closes all it opened, but for the log pipe of a call whose clone
\* failed, which the code leaves open.
THEOREM LeaksTheorem ==
  ASSUME Crashes = Callers
  PROVE  Spec /\ []Room => []NothingLeaks
<1>1. DescriptorInv => NothingLeaks
  BY DEF DescriptorInv, Accounted, LeftEnd, OwnEnd, ContinueRead, ContinueWrite, LogRead, LogWrite,
     NothingLeaks, Returned
<1> QED BY <1>1, DescriptorsHold, PTL

-----------------------------------------------------------------------------
(* What is in the pipes.                                                    *)

\* The byte that lets a child go on, and what the texts are made of.
Bytes == {"a"} \cup UNION {{Text[c][i] : i \in DOMAIN Text[c]} : c \in Callers}

Filled == data \in [Pipes -> Seq(Bytes)] /\ \A p \in Pipes : Len(data[p]) <= Capacity

\* The end of a sequence.
LEMMA RestOfSeq ==
  ASSUME NEW S, NEW s \in Seq(S), NEW n \in 0..Len(s)
  PROVE  SubSeq(s, n + 1, Len(s)) \in Seq(S) /\ Len(SubSeq(s, n + 1, Len(s))) <= Len(s)
OBVIOUS

LEMMA StartOfSeq ==
  ASSUME NEW S, NEW s \in Seq(S), NEW n \in 0..Len(s)
  PROVE  Len(SubSeq(s, 1, n)) = n
OBVIOUS

LEMMA AppendSeqs ==
  ASSUME NEW S, NEW s \in Seq(S), NEW t \in Seq(S)
  PROVE  s \o t \in Seq(S) /\ Len(s \o t) = Len(s) + Len(t)
OBVIOUS

LEMMA LargerSeq ==
  ASSUME NEW S, NEW s \in Seq(S), NEW T, S \subseteq T
  PROVE  s \in Seq(T)
OBVIOUS

\* A read leaves the rest in its pipe.
LEMMA ReadKeepsFilled ==
  ASSUME Filled, NEW entry, NEW n \in Nat, data' = DataAfterRead(entry, n)
  PROVE  Filled'
<1>1. CASE entry \in Ends /\ entry.dir = "r"
  <2> DEFINE p == entry.pipe
             m == Min({n, Len(data[p])})
             rest == SubSeq(data[p], Len(Taken(entry, n)) + 1, Len(data[p]))
  <2>1. p \in Pipes /\ data[p] \in Seq(Bytes) /\ Len(data[p]) \in Nat
    BY <1>1, EndsFacts DEF Filled
  <2>2. m \in 0..Len(data[p])
    <3> DEFINE S == {n, Len(data[p])}
    <3>1. S \in SUBSET Nat /\ S # {} /\ Len(data[p]) \in S
      BY <2>1
    <3>2. Min(S) \in S /\ Min(S) <= Len(data[p])
      BY <3>1, MinIsIn
    <3> HIDE DEF S
    <3>3. Min(S) \in Nat
      BY <3>1, <3>2
    <3> QED BY <2>1, <3>2, <3>3 DEF S
  <2>3. Taken(entry, n) = SubSeq(data[p], 1, m)
    BY <1>1 DEF Taken
  <2> HIDE DEF m
  <2>4. Len(Taken(entry, n)) \in 0..Len(data[p])
    BY <2>1, <2>2, <2>3, StartOfSeq
  <2> HIDE DEF p
  <2>5. rest \in Seq(Bytes) /\ Len(rest) <= Len(data[p])
    BY <2>1, <2>4, RestOfSeq
  <2>6. data' = [data EXCEPT ![p] = rest]
    BY <1>1 DEF DataAfterRead, p
  <2> HIDE DEF rest
  <2>7. data' \in [Pipes -> Seq(Bytes)]
    BY <2>5, <2>6 DEF Filled
  <2>8. \A q \in Pipes : Len(data'[q]) <= Capacity
    <3>1. Len(rest) \in Nat /\ Len(data[p]) <= Capacity /\ Capacity \in Nat
      BY <2>1, <2>5, DumpAssumption DEF Filled
    <3>2. data'[p] = rest /\ \A q \in Pipes \ {p} : data'[q] = data[q]
      BY <2>1, <2>6 DEF Filled
    <3> QED BY <2>1, <2>5, <3>1, <3>2 DEF Filled
  <2> QED BY <2>7, <2>8 DEF Filled
<1>2. CASE ~(entry \in Ends /\ entry.dir = "r")
  BY <1>2 DEF DataAfterRead, Filled
<1> QED BY <1>1, <1>2

\* A write that does not block finds room.
LEMMA WriteKeepsFilled ==
  ASSUME Filled, NEW entry, NEW bytes \in Seq(Bytes), CanWrite(entry, bytes),
         data' = DataAfterWrite(entry, bytes)
  PROVE  Filled'
<1>1. CASE ReachesPipe(entry)
  <2> DEFINE p == entry.pipe
  <2>1. p \in Pipes /\ data[p] \in Seq(Bytes)
    BY <1>1, EndsFacts DEF Filled, ReachesPipe
  <2>2. data[p] \o bytes \in Seq(Bytes) /\ Len(data[p] \o bytes) <= Capacity
    BY <1>1, <2>1, AppendSeqs DEF CanWrite
  <2>3. data' = [data EXCEPT ![p] = data[p] \o bytes]
    BY <1>1 DEF DataAfterWrite
  <2> HIDE DEF p
  <2>4. data'[p] = data[p] \o bytes /\ \A q \in Pipes \ {p} : data'[q] = data[q]
    BY <2>1, <2>3 DEF Filled
  <2> QED BY <2>1, <2>2, <2>3, <2>4 DEF Filled
<1>2. CASE ~ReachesPipe(entry)
  BY <1>2 DEF DataAfterWrite, Filled
<1> QED BY <1>1, <1>2

\* What is written consists of bytes.
LEMMA WrittenAreBytes ==
  /\ <<"a">> \in Seq(Bytes)
  /\ \A c \in Callers : Text[c] \in Seq(Bytes)
<1>1. <<"a">> \in Seq(Bytes)
  BY DEF Bytes
<1>2. ASSUME NEW c \in Callers
      PROVE  Text[c] \in Seq(Bytes)
  <2> DEFINE S == {Text[c][i] : i \in DOMAIN Text[c]}
  <2>1. Text[c] \in Seq(S)
    BY DumpAssumption
  <2>2. S \subseteq Bytes
    BY DEF Bytes
  <2> HIDE DEF S
  <2> QED BY <2>1, <2>2, LargerSeq
<1> QED BY <1>1, <1>2

\* No pipe holds more than it can.
LEMMA FilledHolds == Spec => []Filled
<1>1. Init => Filled
  <2>1. <<>> \in Seq(Bytes) /\ Len(<<>>) = 0
    OBVIOUS
  <2> QED BY <2>1, DumpAssumption DEF Init, Filled
<1>2. Filled /\ [Next]_vars => Filled'
  <2> SUFFICES ASSUME Filled, [Next]_vars
               PROVE  Filled'
    OBVIOUS
  <2> USE DEF kernel
  <2>1. ASSUME UNCHANGED data
        PROVE  Filled'
    BY <2>1 DEF Filled
  <2>2. ASSUME NEW c \in Callers, CallStep(c)
        PROVE  Filled'
    <3>1. CASE SendContinueSignalToChild(c)
      BY <3>1, WriteKeepsFilled, WrittenAreBytes DEF SendContinueSignalToChild
    <3>2. CASE Dump2Java(c)
      <4>1. \/ UNCHANGED data
            \/ data' = DataAfterRead(EntryOf(table, logs.read), Capacity)
        BY <3>2, Zenon DEF Dump2Java
      <4> QED BY <2>1, <4>1, ReadKeepsFilled, DumpAssumption
    <3> QED BY <2>1, <2>2, <3>1, <3>2 DEF CallStep, GoOn, Start, NoStack, MakeContinuePipe, MakeLogPipe,
          Clone, CloneFails, CloseChildEnds, WaitForChild, CloseLog
  <2>3. ASSUME NEW c \in Callers, ChildStep(c)
        PROVE  Filled'
    <3>1. CASE WaitForContinueSignal(c)
      BY <3>1, ReadKeepsFilled DEF WaitForContinueSignal
    <3>2. CASE WriteText(c)
      BY <3>2, WriteKeepsFilled, WrittenAreBytes DEF WriteText
    <3> QED BY <2>1, <2>3, <3>1, <3>2 DEF ChildStep, ThreadEntry, DoDump, DoDumpFails
  <2> QED BY <2>1, <2>2, <2>3 DEF Next, OpenFile, CloseFile, Killed, Finished, vars
<1> QED BY <1>1, <1>2, PTL DEF Spec

\* Every reachable state has the declared types, and no pipe holds more than it
\* can, for any number of calls and any texts.
THEOREM TypeCorrect == Spec => []TypeOK
<1>1. Types /\ Filled => TypeOK
  BY DEF Types, Filled, TypeOK, FdesType, LogsType, ChildType
<1> QED BY <1>1, TypesHold, FilledHolds, PTL
-----------------------------------------------------------------------------
(* A text in the buffer.                                                    *)

\* Two sequences with the same elements are equal.
LEMMA SameElements ==
  ASSUME NEW S, NEW s \in Seq(S), NEW t \in Seq(S), Len(s) = Len(t),
         \A i \in 1..Len(s) : s[i] = t[i]
  PROVE  s = t
OBVIOUS

LEMMA SubSeqFacts ==
  ASSUME NEW S, NEW s \in Seq(S), NEW m \in 1..Len(s) + 1, NEW n \in m - 1..Len(s)
  PROVE  /\ SubSeq(s, m, n) \in Seq(S)
         /\ Len(SubSeq(s, m, n)) = n - m + 1
         /\ \A i \in 1..n - m + 1 : SubSeq(s, m, n)[i] = s[m + i - 1]
OBVIOUS

LEMMA FunctionIsSeq ==
  ASSUME NEW S, NEW n \in Nat, NEW s \in [1..n -> S]
  PROVE  s \in Seq(S) /\ Len(s) = n
OBVIOUS

LEMMA TwoElements ==
  ASSUME NEW a, NEW b, a # b
  PROVE  Cardinality({a} \cup {b}) = 2
<1>1. IsFiniteSet({a}) /\ Cardinality({a}) = 1
  BY FS_Singleton
<1>2. b \notin {a}
  OBVIOUS
<1>3. Cardinality({a} \cup {b}) = Cardinality({a}) + 1
  BY <1>1, <1>2, FS_AddElement
<1> QED BY <1>1, <1>3

\* strtok() finds the two parts of a text with one separator inside.
LEMMA TwoSections ==
  ASSUME NEW S, NEW s \in Seq(S), NEW n \in 2..Len(s) - 1,
         \A i \in 1..Len(s) : s[i] = Caret <=> i = n
  PROVE  Report(s) = <<SubSeq(s, 1, n - 1), SubSeq(s, n + 1, Len(s))>>
<1> DEFINE a == <<1, n - 1>>
           b == <<n + 1, Len(s)>>
<1>1. a \in Sections(s) /\ b \in Sections(s)
  BY DEF Sections
<1>2. ASSUME NEW r \in Sections(s)
      PROVE  r = a \/ r = b
  <2>1. /\ r \in (1..Len(s)) \X (1..Len(s)) /\ r = <<r[1], r[2]>>
        /\ r[1] \in 1..Len(s) /\ r[2] \in 1..Len(s) /\ r[1] <= r[2]
        /\ \A i \in r[1]..r[2] : s[i] # Caret
        /\ r[1] = 1 \/ s[r[1] - 1] = Caret
        /\ r[2] = Len(s) \/ s[r[2] + 1] = Caret
    BY DEF Sections
  <2>2. r[1] = 1 \/ r[1] = n + 1
    BY <2>1
  <2>3. r[2] = Len(s) \/ r[2] = n - 1
    BY <2>1
  <2>4. CASE r[1] = 1
    <3>1. r[2] = n - 1
      BY <2>1, <2>3, <2>4
    <3> QED BY <2>1, <2>4, <3>1
  <2>5. CASE r[1] = n + 1
    <3>1. r[2] = Len(s)
      BY <2>1, <2>3, <2>5
    <3> QED BY <2>1, <2>5, <3>1
  <2> QED BY <2>2, <2>4, <2>5
<1>3. a # b /\ a[1] <= b[1] /\ ~(b[1] <= a[1]) /\ a[1] <= a[1]
  OBVIOUS
<1>4. a[1] = 1 /\ a[2] = n - 1 /\ b[1] = n + 1 /\ b[2] = Len(s)
  OBVIOUS
<1> HIDE DEF a, b
<1>5. Sections(s) = {a} \cup {b}
  BY <1>1, <1>2
<1>6. Cardinality(Sections(s)) = 2
  BY <1>3, <1>5, TwoElements, Zenon
<1>7. (CHOOSE r \in Sections(s) : \A q \in Sections(s) : r[1] <= q[1]) = a
  BY <1>1, <1>2, <1>3
<1>8. (CHOOSE r \in Sections(s) : r # a) = b
  BY <1>1, <1>2, <1>3
<1> QED BY <1>4, <1>6, <1>7, <1>8 DEF Report

NoNul(t) == \A i \in 1..Len(t) : t[i] # Nul
NoCaret(t) == \A i \in 1..Len(t) : t[i] # Caret

\* A text that read() puts over an earlier one.
Over(t, g) == t \o SubSeq(g, Len(t) + 1, Len(g))

\* What read() puts over the remains of an earlier text, up to the first Nul:
\* the text is its beginning, and nothing after it is a Caret.
LEMMA TextIsSeen ==
  ASSUME NEW S, NEW t \in Seq(S), NEW g \in Seq(S),
         NoNul(t), NoCaret(g), NEW buffer, buffer = Over(t, g)
  PROVE  /\ buffer \in Seq(S) /\ Len(t) <= Len(buffer)
         /\ Visible(buffer) \in Seq(S)
         /\ Len(t) <= Len(Visible(buffer)) /\ Len(Visible(buffer)) <= Len(buffer)
         /\ \A i \in 1..Len(t) : Visible(buffer)[i] = t[i]
         /\ \A i \in 1..Len(Visible(buffer)) : Visible(buffer)[i] = buffer[i] /\ buffer[i] # Nul
         /\ \A i \in 1..Len(t) : buffer[i] = t[i]
         /\ \A i \in Len(t) + 1..Len(buffer) :
              buffer[i] # Caret /\ i \in 1..Len(g) /\ buffer[i] = g[i]
<1>1. /\ buffer \in Seq(S) /\ Len(t) <= Len(buffer)
      /\ \A i \in 1..Len(t) : buffer[i] = t[i]
      /\ \A i \in Len(t) + 1..Len(buffer) :
           buffer[i] # Caret /\ i \in 1..Len(g) /\ buffer[i] = g[i]
  <2> USE DEF NoNul, NoCaret, Over
  <2>1. CASE Len(t) + 1 <= Len(g)
    <3>1. /\ SubSeq(g, Len(t) + 1, Len(g)) \in Seq(S)
          /\ Len(SubSeq(g, Len(t) + 1, Len(g))) = Len(g) - Len(t)
          /\ \A i \in 1..Len(g) - Len(t) : SubSeq(g, Len(t) + 1, Len(g))[i] = g[Len(t) + i]
      BY <2>1, SubSeqFacts
    <3> DEFINE rest == SubSeq(g, Len(t) + 1, Len(g))
    <3>2. /\ Len(rest) = Len(g) - Len(t)
          /\ \A i \in 1..Len(rest) : rest[i] # Caret /\ rest[i] = g[Len(t) + i]
      BY <2>1, <3>1
    <3> HIDE DEF rest
    <3>3. buffer = t \o rest /\ rest \in Seq(S)
      BY <3>1 DEF rest
    <3>4. /\ buffer \in Seq(S) /\ Len(buffer) = Len(t) + Len(rest)
          /\ \A i \in 1..Len(t) : buffer[i] = t[i]
          /\ \A i \in Len(t) + 1..Len(buffer) : buffer[i] = rest[i - Len(t)]
      BY <3>3
    <3>5. ASSUME NEW i \in Len(t) + 1..Len(buffer)
          PROVE  buffer[i] # Caret /\ i \in 1..Len(g) /\ buffer[i] = g[i]
      <4>1. i - Len(t) \in 1..Len(rest) /\ Len(t) + (i - Len(t)) = i /\ i \in 1..Len(g)
        BY <2>1, <3>2, <3>4
      <4> QED BY <3>2, <3>4, <4>1
    <3> QED BY <2>1, <3>2, <3>4, <3>5
  <2>2. CASE ~(Len(t) + 1 <= Len(g))
    <3>1. SubSeq(g, Len(t) + 1, Len(g)) = <<>>
      BY <2>2
    <3> DEFINE rest == SubSeq(g, Len(t) + 1, Len(g))
    <3>2. rest \in Seq(S) /\ Len(rest) = 0
      <4>1. <<>> \in Seq(S) /\ Len(<<>>) = 0
        OBVIOUS
      <4> QED BY <3>1, <4>1, Zenon
    <3> HIDE DEF rest
    <3>3. buffer = t \o rest
      BY DEF rest
    <3> QED BY <3>2, <3>3
  <2> QED BY <2>1, <2>2
<1> DEFINE Stops == {i \in 1..Len(buffer) : buffer[i] = Nul} \cup {Len(buffer) + 1}
<1>2. /\ Min(Stops) \in Len(t) + 1..Len(buffer) + 1
      /\ \A i \in 1..Min(Stops) - 1 : buffer[i] # Nul
  <2>1. Stops \in SUBSET Nat /\ Stops # {}
    BY <1>1
  <2>2. \A i \in Stops : i \in Len(t) + 1..Len(buffer) + 1
    BY <1>1 DEF NoNul
  <2>3. Min(Stops) \in Stops /\ \A i \in Stops : Min(Stops) <= i
    BY <2>1, MinIsIn
  <2>4. ASSUME NEW i \in 1..Min(Stops) - 1
        PROVE  buffer[i] # Nul
    <3>1. i \in 1..Len(buffer) /\ ~(Min(Stops) <= i)
      BY <1>1, <2>2, <2>3
    <3>2. i \notin Stops
      BY <2>3, <3>1, Zenon
    <3> QED BY <3>1, <3>2
  <2> QED BY <2>2, <2>3, <2>4
<1> DEFINE seen == Min(Stops) - 1
<1>3. Visible(buffer) = SubSeq(buffer, 1, seen)
  BY DEF Visible
<1> HIDE DEF Stops
<1>4. /\ seen \in Len(t)..Len(buffer) /\ Len(buffer) \in Nat /\ Len(t) \in Nat
      /\ \A i \in 1..seen : buffer[i] # Nul
  BY <1>1, <1>2
<1> HIDE DEF seen
<1>5. /\ SubSeq(buffer, 1, seen) \in Seq(S)
      /\ Len(SubSeq(buffer, 1, seen)) = seen
      /\ \A i \in 1..seen : SubSeq(buffer, 1, seen)[i] = buffer[i]
  BY <1>1, <1>4
<1>6. /\ Visible(buffer) \in Seq(S) /\ Len(Visible(buffer)) = seen
      /\ \A i \in 1..seen : Visible(buffer)[i] = buffer[i]
  BY <1>3, <1>5, Zenon
<1>7. \A i \in 1..Len(t) : i \in 1..seen
  BY <1>4
<1> QED BY <1>1, <1>4, <1>6, <1>7

\* What strtok() makes of the buffer.
Split(buffer) == [i \in 1..Len(buffer) |->
                    IF i <= Len(Visible(buffer)) /\ buffer[i] = Caret THEN Nul ELSE buffer[i]]

\* So Java is told the text, and the buffer has no Caret again.
LEMMA TextIsReported ==
  ASSUME NEW S, Nul \in S, NEW t \in Seq(S), NEW g \in Seq(S),
         NEW n \in 2..Len(t) - 1,
         NoNul(t), NoCaret(g), \A i \in 1..Len(t) : t[i] = Caret <=> i = n,
         NEW buffer, buffer = Over(t, g)
  PROVE  /\ Report(Visible(buffer))[1] = SubSeq(t, 1, n - 1)
         /\ SubSeq(Report(Visible(buffer))[2], 1, Len(t) - n) = SubSeq(t, n + 1, Len(t))
         /\ \A k \in Len(t) - n + 1..Len(Report(Visible(buffer))[2]) :
              /\ n + k \in 1..Len(g) /\ g[n + k] # Nul
              /\ Report(Visible(buffer))[2][k] = g[n + k]
         /\ Split(buffer) \in Seq(S) /\ NoCaret(Split(buffer))
         /\ \A k \in 1..Len(Split(buffer)) :
              \/ Split(buffer)[k] = Nul
              \/ k \in 1..Len(t) /\ Split(buffer)[k] = t[k]
              \/ k \in 1..Len(g) /\ Split(buffer)[k] = g[k]
<1>0. /\ buffer \in Seq(S) /\ Len(t) <= Len(buffer)
      /\ Visible(buffer) \in Seq(S)
      /\ Len(t) <= Len(Visible(buffer)) /\ Len(Visible(buffer)) <= Len(buffer)
      /\ \A i \in 1..Len(t) : Visible(buffer)[i] = t[i]
      /\ \A i \in 1..Len(Visible(buffer)) : Visible(buffer)[i] = buffer[i] /\ buffer[i] # Nul
      /\ \A i \in 1..Len(t) : buffer[i] = t[i]
      /\ \A i \in Len(t) + 1..Len(buffer) :
           buffer[i] # Caret /\ i \in 1..Len(g) /\ buffer[i] = g[i]
  BY TextIsSeen
<1> DEFINE v == Visible(buffer)
<1>1. /\ buffer \in Seq(S) /\ v \in Seq(S) /\ Len(t) <= Len(v) /\ Len(v) <= Len(buffer)
      /\ \A i \in 1..Len(t) : v[i] = t[i]
      /\ \A i \in 1..Len(v) : v[i] = buffer[i] /\ buffer[i] # Nul
      /\ \A i \in 1..Len(t) : buffer[i] = t[i]
      /\ \A i \in Len(t) + 1..Len(buffer) :
           buffer[i] # Caret /\ i \in 1..Len(g) /\ buffer[i] = g[i]
  BY <1>0
<1> HIDE DEF v
<1>2. /\ Len(t) \in Nat /\ Len(v) \in Nat /\ Len(buffer) \in Nat
      /\ n \in 2..Len(v) - 1 /\ n \in 2..Len(t) - 1
  BY <1>1
<1>3. \A i \in 1..Len(v) : v[i] = Caret <=> i = n
  <2> TAKE i \in 1..Len(v)
  <2>1. CASE i <= Len(t)
    BY <1>1, <1>2, <2>1
  <2>2. CASE ~(i <= Len(t))
    <3>1. i \in Len(t) + 1..Len(buffer) /\ i # n
      BY <1>1, <1>2, <2>2
    <3> QED BY <1>1, <3>1, Zenon
  <2> QED BY <2>1, <2>2
<1>4. Report(v) = <<SubSeq(v, 1, n - 1), SubSeq(v, n + 1, Len(v))>>
  BY <1>1, <1>2, <1>3, TwoSections
<1>5. SubSeq(v, 1, n - 1) = SubSeq(t, 1, n - 1)
  <2>1. /\ SubSeq(v, 1, n - 1) \in Seq(S) /\ Len(SubSeq(v, 1, n - 1)) = n - 1
        /\ \A i \in 1..n - 1 : SubSeq(v, 1, n - 1)[i] = v[i]
    BY <1>1, <1>2
  <2>2. /\ SubSeq(t, 1, n - 1) \in Seq(S) /\ Len(SubSeq(t, 1, n - 1)) = n - 1
        /\ \A i \in 1..n - 1 : SubSeq(t, 1, n - 1)[i] = t[i]
    BY <1>2
  <2>3. \A i \in 1..n - 1 : v[i] = t[i]
    BY <1>1, <1>2
  <2> QED BY <2>1, <2>2, <2>3, SameElements
<1>6. SubSeq(SubSeq(v, n + 1, Len(v)), 1, Len(t) - n) = SubSeq(t, n + 1, Len(t))
  <2> DEFINE w == SubSeq(v, n + 1, Len(v))
             m == Len(t) - n
  <2>1. m \in Nat /\ m <= Len(v) - n
    BY <1>1, <1>2
  <2>2. /\ w \in Seq(S) /\ Len(w) = Len(v) - n
        /\ \A i \in 1..Len(v) - n : w[i] = v[n + i]
    BY <1>1, <1>2
  <2>3. /\ SubSeq(t, n + 1, Len(t)) \in Seq(S) /\ Len(SubSeq(t, n + 1, Len(t))) = m
        /\ \A i \in 1..m : SubSeq(t, n + 1, Len(t))[i] = t[n + i]
    BY <1>2
  <2>4. \A i \in 1..m : v[n + i] = t[n + i]
    BY <1>1, <1>2
  <2>5. \A i \in 1..m : i \in 1..Len(v) - n
    BY <1>2, <2>1
  <2> HIDE DEF w, m
  <2>6. /\ SubSeq(w, 1, m) \in Seq(S) /\ Len(SubSeq(w, 1, m)) = m
        /\ \A i \in 1..m : SubSeq(w, 1, m)[i] = w[i]
    BY <1>2, <2>1, <2>2
  <2>7. SubSeq(w, 1, m) = SubSeq(t, n + 1, Len(t))
    BY <2>2, <2>3, <2>4, <2>5, <2>6, SameElements
  <2> QED BY <2>7 DEF w, m
<1> DEFINE left == Split(buffer)
<1>7. /\ left \in Seq(S) /\ NoCaret(left)
      /\ \A k \in 1..Len(left) : \/ left[k] = Nul
                                 \/ k \in 1..Len(t) /\ left[k] = t[k]
                                 \/ k \in 1..Len(g) /\ left[k] = g[k]
  <2>1. Caret # Nul
    <3>1. n \in 1..Len(t)
      BY <1>2
    <3> QED BY <3>1, Zenon DEF NoNul
  <2>2. \A i \in 1..Len(buffer) : i > Len(v) => buffer[i] # Caret
    BY <1>1, <1>2
  <2>3. \A i \in 1..Len(buffer) : left[i] \in S /\ left[i] # Caret
    BY <1>1, <2>1, <2>2 DEF v, Split
  <2>4. left \in [1..Len(buffer) -> S]
    BY <2>3 DEF Split
  <2>5. left \in Seq(S) /\ Len(left) = Len(buffer)
    <3> DEFINE k == Len(buffer)
    <3>1. k \in Nat /\ left \in [1..k -> S]
      BY <1>2, <2>4
    <3> HIDE DEF k
    <3>2. left \in Seq(S) /\ Len(left) = k
      BY <3>1, FunctionIsSeq
    <3> QED BY <3>2 DEF k
  <2>6. ASSUME NEW k \in 1..Len(left)
        PROVE  \/ left[k] = Nul
               \/ k \in 1..Len(t) /\ left[k] = t[k]
               \/ k \in 1..Len(g) /\ left[k] = g[k]
    <3>1. k \in 1..Len(buffer) /\ (left[k] = Nul \/ left[k] = buffer[k])
      BY <2>5 DEF Split
    <3>2. k \in 1..Len(t) \/ k \in Len(t) + 1..Len(buffer)
      BY <1>2, <3>1
    <3> HIDE DEF left
    <3> QED BY <1>1, <3>1, <3>2
  <2> QED BY <2>3, <2>5, <2>6 DEF NoCaret
<1>8. Report(v)[1] = SubSeq(v, 1, n - 1) /\ Report(v)[2] = SubSeq(v, n + 1, Len(v))
  BY <1>4
<1>9. ASSUME NEW k \in Len(t) - n + 1..Len(SubSeq(v, n + 1, Len(v)))
      PROVE  n + k \in 1..Len(g) /\ g[n + k] # Nul /\ SubSeq(v, n + 1, Len(v))[k] = g[n + k]
  <2>1. Len(SubSeq(v, n + 1, Len(v))) = Len(v) - n
    BY <1>1, <1>2
  <2>2. k \in 1..Len(v) - n /\ n + k \in 1..Len(v) /\ n + k \in Len(t) + 1..Len(buffer)
    BY <1>1, <1>2, <2>1
  <2>3. SubSeq(v, n + 1, Len(v))[k] = v[n + k]
    BY <1>1, <1>2, <2>2
  <2> QED BY <1>1, <2>2, <2>3
<1>10. \A k \in Len(t) - n + 1..Len(Report(v)[2]) :
         n + k \in 1..Len(g) /\ g[n + k] # Nul /\ Report(v)[2][k] = g[n + k]
  BY <1>8, <1>9, Zenon
<1> QED BY <1>5, <1>6, <1>7, <1>8, <1>10, Zenon DEF v

-----------------------------------------------------------------------------
(* The text on its way to Java.                                             *)

\* A call that waits for its child, and one that was told it need not wait.
Waits(c)   == pc[c] \in {"cloned", "closed", "continued"}
GivenUp(c) == pc[c] \in {"waited", "told", "returned"} /\ ~result[c]

\* A running child belongs to such a call, and its copies of the variables name its
\* copies of the ends.
ChildInv(c) ==
  LET k == child[c] IN
  k.at \notin {"none", "over"} =>
    /\ Waits(c) \/ GivenUp(c)
    /\ k.table[k.logs.write] = Writer(<<"log", c>>) /\ k.logs.read # k.logs.write
    /\ k.at \in {"born", "waiting"} =>
         k.fdes.read \in Fds /\ k.table[k.fdes.read] = Reader(<<"continue", c>>)
    /\ k.at = "born" => k.fdes.write \in Fds /\ k.table[k.fdes.write] = Writer(<<"continue", c>>)

\* The log pipe is empty until the child has written its text.
Wrote(c) == child[c].at = "over" /\ child[c].ok
LogPipeInv(c) ==
  /\ ~Wrote(c) => data[<<"log", c>>] = <<>>
  /\ Wrote(c) /\ (Waits(c) \/ (pc[c] = "waited" /\ result[c])) => data[<<"log", c>>] = Text[c]

\* A call that goes on to read has a child that wrote.
ResultInv(c) == result[c] => Wrote(c) /\ pc[c] \in {"waited", "told", "returned"}

\* The buffer has no Caret left in it: each byte ends a section or is the one a text
\* that was told had at that place.  Every call has a report or none.
BufferInv ==
  /\ log \in Seq(Bytes \cup {Nul}) /\ NoCaret(log) /\ DOMAIN told = Callers
  /\ \A k \in 1..Len(log) : log[k] = Nul \/ \E b \in Callers : LeftBy(b, k, log[k])

TextInv == exit \/ \A c \in Callers : ChildInv(c) /\ LogPipeInv(c) /\ ResultInv(c)

LEMMA EndsOfCall ==
  ASSUME NEW c \in Callers
  PROVE  /\ <<"continue", c>> \in Pipes /\ <<"log", c>> \in Pipes
         /\ \A k : <<"continue", c>> # <<"log", k>>
         /\ \A k : k # c => <<"log", c>> # <<"log", k>>
         /\ \A p \in {<<"continue", c>>, <<"log", c>>} :
              /\ Reader(p) \in Ends /\ Reader(p).pipe = p /\ Reader(p).dir = "r"
              /\ Writer(p) \in Ends /\ Writer(p).pipe = p /\ Writer(p).dir = "w"
         /\ \A p, q \in {<<"continue", c>>, <<"log", c>>} : Reader(p) # Writer(q)
         /\ Writer(<<"continue", c>>) # Writer(<<"log", c>>)
<1>1. \A k : <<"continue", c>> # <<"log", k>>
  OBVIOUS
<1>2. \A k : k # c => <<"log", c>> # <<"log", k>>
  OBVIOUS
<1>3. <<"continue", c>> \in Pipes /\ <<"log", c>> \in Pipes
  BY DEF Pipes
<1> QED BY <1>1, <1>2, <1>3, EndsFacts DEF Reader, Writer

\* A call changes the log pipe only when it reads its own.
LEMMA CallKeepsLogPipes ==
  ASSUME Types, Filled, DescriptorInv, NEW c \in Callers, CallStep(c),
         NEW k \in Callers, k # c \/ pc[c] # "waited" \/ ~result[c]
  PROVE  data'[<<"log", k>>] = data[<<"log", k>>]
<1>1. Holds(c) /\ <<"log", k>> \in Pipes
  BY CallShape, EndsOfCall DEF DescriptorInv
<1>2. CASE SendContinueSignalToChild(c)
  <2>1. EntryOf(table, fdes[HandlerOf[c]].write) = Writer(<<"continue", c>>)
    BY <1>1, <1>2 DEF SendContinueSignalToChild, Step, Holds, ContinueWrite, EntryOf
  <2>2. \/ data' = data
        \/ \E x : data' = [data EXCEPT ![<<"continue", c>>] = x]
    BY <1>2, <2>1, EndsOfCall DEF SendContinueSignalToChild, DataAfterWrite
  <2>3. <<"continue", c>> # <<"log", k>>
    BY EndsOfCall
  <2> QED BY <1>1, <2>2, <2>3 DEF Filled
<1>3. CASE Dump2Java(c)
  <2>1. pc[c] = "waited"
    BY <1>3, Zenon DEF Dump2Java, Step
  <2>2. CASE ~result[c]
    BY <1>3, <2>2, Zenon DEF Dump2Java
  <2>3. CASE result[c]
    <3>1. data' = DataAfterRead(EntryOf(table, logs.read), Capacity)
      BY <1>3, <2>3, Zenon DEF Dump2Java
    <3>2. EntryOf(table, logs.read) = Reader(<<"log", c>>)
      BY <1>1, <2>1 DEF Holds, LogRead, EntryOf, Types, LogsType
    <3>3. \E x : data' = [data EXCEPT ![<<"log", c>>] = x]
      BY <3>1, <3>2, EndsOfCall DEF DataAfterRead
    <3>4. <<"log", c>> # <<"log", k>>
      BY <2>1, <2>3, EndsOfCall
    <3> QED BY <1>1, <3>3, <3>4 DEF Filled
  <2> QED BY <2>2, <2>3
<1>4. CASE ~SendContinueSignalToChild(c) /\ ~Dump2Java(c)
  BY <1>4 DEF CallStep, GoOn, Start, NoStack, MakeContinuePipe, MakeLogPipe, Clone, CloneFails,
     CloseChildEnds, WaitForChild, CloseLog, kernel
<1> QED BY <1>2, <1>3, <1>4

LEMMA CallKeepsText ==
  ASSUME Types, Filled, DescriptorInv, TextInv, NEW c \in Callers, CallStep(c)
  PROVE  TextInv'
<1>1. /\ Holds(c) /\ Childless
      /\ \A k \in Callers : ChildInv(k) /\ LogPipeInv(k) /\ ResultInv(k)
  BY CallShape DEF DescriptorInv, TextInv
<1>2. /\ \A k \in Callers \ {c} : result'[k] = result[k]
      /\ pc'[c] # "waited" => result'[c] = result[c]
  BY DEF CallStep, GoOn, Start, NoStack, MakeContinuePipe, MakeLogPipe, Clone, CloneFails, CloseChildEnds,
     SendContinueSignalToChild, WaitForChild, Dump2Java, CloseLog, Step, Types
<1>3. ASSUME NEW k \in Callers \ {c}
      PROVE  (ChildInv(k) /\ LogPipeInv(k) /\ ResultInv(k))'
  <2>1. /\ pc'[k] = pc[k] /\ child'[k] = child[k] /\ result'[k] = result[k]
        /\ data'[<<"log", k>>] = data[<<"log", k>>]
    BY <1>2, CallShape, CallKeepsLogPipes
  <2> QED BY <1>1, <2>1 DEF ChildInv, LogPipeInv, ResultInv, Wrote, Waits, GivenUp
<1> DEFINE Goal == (ChildInv(c) /\ LogPipeInv(c) /\ ResultInv(c))'
<1> USE DEF Step, ChildInv, LogPipeInv, ResultInv, Wrote, Waits, GivenUp
<1>4. c \in DOMAIN pc /\ c \in DOMAIN child /\ c \in DOMAIN result
  BY DEF Types
<1>5. ASSUME Start(c) \/ NoStack(c) \/ MakeContinuePipe(c) \/ MakeLogPipe(c) \/ CloneFails(c)
      PROVE  Goal
  <2>1. /\ pc[c] \in {"idle", "locked", "piped", "logged"} /\ pc'[c] # "waited"
        /\ child'[c] = child[c]
    BY <1>4, <1>5 DEF Start, NoStack, MakeContinuePipe, MakeLogPipe, CloneFails, memory, kernel
  <2>2. child[c].at = "none" /\ data'[<<"log", c>>] = data[<<"log", c>>]
    BY <1>1, <2>1, CallKeepsLogPipes DEF Childless
  <2> QED BY <1>1, <1>2, <2>1, <2>2
<1>6. ASSUME Clone(c)
      PROVE  Goal
  <2>1. pc[c] = "logged" /\ pc'[c] = "cloned"
    BY <1>4, <1>6 DEF Clone
  <2>2. child'[c] = [at |-> "born", table |-> table, fdes |-> fdes[HandlerOf[c]], logs |-> logs,
                     ok |-> FALSE]
    BY <1>4, <1>6 DEF Clone
  <2>3. child[c].at = "none" /\ data'[<<"log", c>>] = data[<<"log", c>>]
    BY <1>1, <2>1, CallKeepsLogPipes DEF Childless
  <2>4. /\ fdes[HandlerOf[c]].read \in Fds /\ fdes[HandlerOf[c]].write \in Fds
        /\ table[fdes[HandlerOf[c]].read] = Reader(<<"continue", c>>)
        /\ table[fdes[HandlerOf[c]].write] = Writer(<<"continue", c>>)
        /\ table[logs.read] = Reader(<<"log", c>>) /\ table[logs.write] = Writer(<<"log", c>>)
        /\ logs.read # logs.write
    BY <1>1, <2>1, EndsOfCall DEF Holds, ContinueRead, ContinueWrite, LogRead, LogWrite
  <2> QED BY <1>1, <1>2, <2>1, <2>2, <2>3, <2>4
<1>7. ASSUME CloseChildEnds(c) \/ SendContinueSignalToChild(c)
      PROVE  Goal
  <2>1. /\ pc[c] \in {"cloned", "closed"} /\ pc'[c] \in {"closed", "continued"}
        /\ child'[c] = child[c]
    BY <1>4, <1>7 DEF CloseChildEnds, SendContinueSignalToChild
  <2>2. data'[<<"log", c>>] = data[<<"log", c>>]
    BY <2>1, CallKeepsLogPipes
  <2> QED BY <1>1, <1>2, <2>1, <2>2
<1>8. ASSUME WaitForChild(c)
      PROVE  Goal
  <2>1. /\ pc[c] = "continued" /\ pc'[c] = "waited" /\ child'[c] = child[c]
        /\ (child[c].at = "over" /\ result'[c] = child[c].ok) \/ result'[c] = result[c]
    BY <1>4, <1>8 DEF WaitForChild
  <2>2. data'[<<"log", c>>] = data[<<"log", c>>]
    BY <2>1, CallKeepsLogPipes
  <2>3. ~result[c]
    BY <1>1, <2>1
  <2>4. result'[c] => child[c].at = "over" /\ child[c].ok
    BY <2>1, <2>3, Zenon
  <2>5. ResultInv(c)'
    BY <2>1, <2>4
  <2>6. LogPipeInv(c)'
    <3>1. LogPipeInv(c) /\ Waits(c)
      BY <1>1, <2>1
    <3>2. Wrote(c) <=> Wrote(c)'
      BY <2>1
    <3> QED BY <2>2, <3>1, <3>2
  <2>7. ChildInv(c)'
    <3>1. child[c].at # "over" => ~result'[c]
      BY <2>4
    <3>2. ChildInv(c)
      BY <1>1
    <3> QED BY <2>1, <3>1, <3>2
  <2> QED BY <2>5, <2>6, <2>7
<1>9. ASSUME Dump2Java(c)
      PROVE  Goal
  <2>1. Step(c, "waited", "told") /\ child' = child /\ result' = result
    BY <1>9, Zenon DEF Dump2Java
  <2>2. pc[c] = "waited" /\ pc'[c] = "told"
    BY <1>4, <2>1
  <2>3. result[c] \/ data'[<<"log", c>>] = data[<<"log", c>>]
    BY CallKeepsLogPipes
  <2> QED BY <1>1, <2>1, <2>2, <2>3
<1>10. ASSUME CloseLog(c)
       PROVE  Goal
  <2>1. pc[c] = "told" /\ pc'[c] = "returned" /\ child'[c] = child[c] /\ result' = result
    BY <1>4, <1>10 DEF CloseLog
  <2>2. data'[<<"log", c>>] = data[<<"log", c>>]
    BY <2>1, CallKeepsLogPipes
  <2> QED BY <1>1, <1>2, <2>1, <2>2
<1>11. Goal
  BY <1>5, <1>6, <1>7, <1>8, <1>9, <1>10, Zenon DEF CallStep, GoOn
<1> QED BY <1>3, <1>11 DEF TextInv

\* A child that reads takes from its own continue pipe.
LEMMA ContinueKeepsLogPipes ==
  ASSUME Types, Filled, TextInv, ~exit, NEW c \in Callers, WaitForContinueSignal(c),
         NEW k \in Callers
  PROVE  data'[<<"log", k>>] = data[<<"log", k>>]
<1> DEFINE entry == EntryOf(child[c].table, child[c].fdes.read)
<1>1. child[c].at = "waiting" /\ data' = DataAfterRead(entry, 1)
  BY DEF WaitForContinueSignal, InChild
<1>2. entry = Reader(<<"continue", c>>)
  BY <1>1 DEF TextInv, ChildInv, EntryOf
<1> HIDE DEF entry
<1>3. \E x : data' = [data EXCEPT ![<<"continue", c>>] = x]
  BY <1>1, <1>2, EndsOfCall DEF DataAfterRead
<1>4. <<"continue", c>> # <<"log", k>> /\ <<"log", k>> \in Pipes
  BY EndsOfCall
<1> QED BY <1>3, <1>4 DEF Filled

\* The child writes its text into its own empty log pipe, which a process that waits
\* holds open for reading.
LEMMA TextIsWritten ==
  ASSUME Types, Filled, DescriptorInv, TextInv, ~exit, NEW c \in Callers, WriteText(c)
  PROVE  /\ Waits(c) => data'[<<"log", c>>] = Text[c]
         /\ \A k \in Callers \ {c} : data'[<<"log", k>>] = data[<<"log", k>>]
<1> DEFINE tab   == Without(child[c].table, {child[c].logs.read})
           entry == EntryOf(tab, child[c].logs.write)
           p     == <<"log", c>>
<1>1. child[c].at = "writing" /\ data' = DataAfterWrite(entry, Text[c])
  BY DEF WriteText, InChild
<1>2. /\ child[c].table[child[c].logs.write] = Writer(p) /\ child[c].logs.read # child[c].logs.write
      /\ data[p] = <<>>
  BY <1>1 DEF TextInv, ChildInv, LogPipeInv, Wrote
<1>3. entry = Writer(p)
  <2>1. child[c].table \in Tables /\ child[c].logs.write \in Fds
    BY DEF Types, ChildType, LogsType
  <2>2. tab[child[c].logs.write] = child[c].table[child[c].logs.write]
    BY <1>2, <2>1 DEF Without
  <2> QED BY <1>2, <2>1, <2>2 DEF EntryOf
<1>4. Waits(c) => Held(Reader(p))
  BY DEF Waits, DescriptorInv, Holds, LogRead, Held, Types, LogsType
<1> HIDE DEF entry, p
<1>5. entry \in Ends /\ entry.dir = "w" /\ entry.pipe = p /\ p \in Pipes
  BY <1>3, EndsOfCall DEF p
<1>6. /\ data' = data \/ data' = [data EXCEPT ![p] = <<>> \o Text[c]]
      /\ Waits(c) => data' = [data EXCEPT ![p] = <<>> \o Text[c]]
  BY <1>1, <1>2, <1>4, <1>5, <1>3 DEF DataAfterWrite, ReachesPipe
<1>7. <<>> \o Text[c] = Text[c]
  BY WrittenAreBytes
<1>8. (Waits(c) => data'[p] = Text[c]) /\ \A q \in Pipes \ {p} : data'[q] = data[q]
  BY <1>5, <1>6, <1>7 DEF Filled
<1>9. \A k \in Callers \ {c} : <<"log", k>> \in Pipes \ {p}
  BY EndsOfCall DEF p
<1> QED BY <1>8, <1>9 DEF p

LEMMA ChildKeepsText ==
  ASSUME Types, Filled, DescriptorInv, TextInv, ~exit, NEW c \in Callers, ChildStep(c)
  PROVE  TextInv'
<1>1. \A k \in Callers : ChildInv(k) /\ LogPipeInv(k) /\ ResultInv(k)
  BY DEF TextInv
<1>2. /\ UNCHANGED <<pc, result>> /\ c \in DOMAIN child
      /\ child[c].at \notin {"none", "over"}
      /\ \A k \in Callers \ {c} : child'[k] = child[k]
  BY DEF ChildStep, ThreadEntry, WaitForContinueSignal, DoDump, DoDumpFails, WriteText, InChild,
     Types, callVars
<1>3. ASSUME NEW k \in Callers \ {c}
      PROVE  (ChildInv(k) /\ LogPipeInv(k) /\ ResultInv(k))'
  <2>1. data'[<<"log", k>>] = data[<<"log", k>>]
    BY ContinueKeepsLogPipes, TextIsWritten DEF ChildStep, ThreadEntry, DoDump, DoDumpFails
  <2> QED BY <1>1, <1>2, <2>1 DEF ChildInv, LogPipeInv, ResultInv, Wrote, Waits, GivenUp
<1> DEFINE Goal == (ChildInv(c) /\ LogPipeInv(c) /\ ResultInv(c))'
<1>4. /\ Waits(c) \/ GivenUp(c)
      /\ child[c].table[child[c].logs.write] = Writer(<<"log", c>>)
      /\ child[c].logs.read # child[c].logs.write
      /\ data[<<"log", c>>] = <<>>
      /\ child[c].logs.write \in Fds
      /\ \A n \in Fds : \A d \in Fds \ {n} : Without(child[c].table, {n})[d] = child[c].table[d]
  <2>1. child[c].logs.write \in Fds /\ child[c].table \in Tables
    BY DEF Types, ChildType, LogsType
  <2>2. \A n \in Fds : \A d \in Fds \ {n} : Without(child[c].table, {n})[d] = child[c].table[d]
    BY <2>1, CloseFrees
  <2> QED BY <1>1, <1>2, <2>1, <2>2 DEF ChildInv, LogPipeInv, Wrote
<1> USE DEF InChild, ChildInv, LogPipeInv, ResultInv, Wrote, Waits, GivenUp
<1>5. ASSUME ThreadEntry(c)
      PROVE  Goal
  <2>1. /\ child[c].at = "born" /\ data' = data
        /\ child'[c] = [child[c] EXCEPT !.at = "waiting", !.ok = FALSE,
                          !.table = Without(child[c].table, {child[c].fdes.write})]
    BY <1>2, <1>5 DEF ThreadEntry
  <2>2. /\ child[c].fdes.write # child[c].logs.write /\ child[c].fdes.write # child[c].fdes.read
        /\ child[c].fdes.read \in Fds
        /\ child[c].table[child[c].fdes.read] = Reader(<<"continue", c>>)
    BY <1>1, <1>4, <2>1, EndsOfCall
  <2>3. child[c] \in ChildType
    BY DEF Types
  <2>4. /\ child'[c].at = "waiting" /\ child'[c].logs = child[c].logs /\ child'[c].fdes = child[c].fdes
        /\ child'[c].table = Without(child[c].table, {child[c].fdes.write})
    BY <2>1, <2>3 DEF ChildType
  <2>5. child[c].fdes.write \in Fds
    BY <1>1, <2>1
  <2>6. \A d \in Fds \ {child[c].fdes.write} : child'[c].table[d] = child[c].table[d]
    BY <1>4, <2>4, <2>5
  <2>7. /\ child'[c].table[child'[c].logs.write] = Writer(<<"log", c>>)
        /\ child'[c].table[child'[c].fdes.read] = Reader(<<"continue", c>>)
    BY <1>4, <2>2, <2>4, <2>6
  <2> QED BY <1>1, <1>2, <1>4, <2>1, <2>2, <2>4, <2>7
<1>6. ASSUME WaitForContinueSignal(c)
      PROVE  Goal
  <2>1. /\ child[c].at = "waiting" /\ data'[<<"log", c>>] = data[<<"log", c>>]
        /\ child'[c] = [child[c] EXCEPT !.at = "dumping", !.ok = FALSE,
                          !.table = Without(child[c].table, {child[c].fdes.read})]
    BY <1>2, <1>6, ContinueKeepsLogPipes DEF WaitForContinueSignal
  <2>2. child[c].fdes.read \in Fds /\ child[c].fdes.read # child[c].logs.write
    <3>1. child[c].at = "waiting"
      BY <2>1
    <3>2. child[c].fdes.read \in Fds /\ child[c].table[child[c].fdes.read] = Reader(<<"continue", c>>)
      BY <1>1, <3>1
    <3> QED BY <1>4, <3>2, EndsOfCall
  <2>3. child[c] \in ChildType
    BY DEF Types
  <2>4. /\ child'[c].at = "dumping" /\ child'[c].logs = child[c].logs
        /\ child'[c].table = Without(child[c].table, {child[c].fdes.read})
    BY <2>1, <2>3 DEF ChildType
  <2>5. child'[c].table[child'[c].logs.write] = Writer(<<"log", c>>)
    BY <1>4, <2>2, <2>4
  <2> QED BY <1>1, <1>2, <1>4, <2>1, <2>4, <2>5
<1>7. ASSUME DoDump(c)
      PROVE  Goal
  <2>1. /\ child[c].at = "dumping" /\ data' = data
        /\ child'[c] = [child[c] EXCEPT !.at = "writing", !.ok = FALSE, !.table = child[c].table]
    BY <1>2, <1>7 DEF DoDump
  <2>2. child[c] \in ChildType
    BY DEF Types
  <2>3. /\ child'[c].at = "writing" /\ child'[c].logs = child[c].logs
        /\ child'[c].table = child[c].table
    BY <2>1, <2>2 DEF ChildType
  <2> QED BY <1>1, <1>2, <1>4, <2>1, <2>3
<1>8. ASSUME DoDumpFails(c)
      PROVE  Goal
  <2>1. /\ data' = data
        /\ child'[c] = [child[c] EXCEPT !.at = "over", !.ok = FALSE, !.table = NoFds]
    BY <1>2, <1>8 DEF DoDumpFails
  <2>2. child[c] \in ChildType
    BY DEF Types
  <2>3. child'[c].at = "over" /\ child'[c].ok = FALSE
    BY <2>1, <2>2 DEF ChildType
  <2> QED BY <1>1, <1>2, <1>4, <2>1, <2>3
<1>9. ASSUME WriteText(c)
      PROVE  Goal
  <2>1. child'[c] = [child[c] EXCEPT !.at = "over", !.ok = TRUE, !.table = NoFds]
    BY <1>2, <1>9 DEF WriteText
  <2>2. child[c] \in ChildType
    BY DEF Types
  <2>3. child'[c].at = "over" /\ child'[c].ok = TRUE
    BY <2>1, <2>2 DEF ChildType
  <2>4. Waits(c) => data'[<<"log", c>>] = Text[c]
    BY <1>9, TextIsWritten
  <2> QED BY <1>1, <1>2, <1>4, <2>3, <2>4
<1>10. Goal
  BY <1>5, <1>6, <1>7, <1>8, <1>9, Zenon DEF ChildStep
<1> QED BY <1>3, <1>10 DEF TextInv

LEMMA TextHolds ==
  ASSUME Crashes = Callers
  PROVE  Spec /\ []Room => []TextInv
<1>1. Init => TextInv
  <2>1. ASSUME Init, NEW c \in Callers
        PROVE  ChildInv(c) /\ LogPipeInv(c) /\ ResultInv(c)
    <3>1. pc[c] = "idle" /\ child[c].at = "none" /\ result[c] = FALSE
      BY <2>1 DEF Init
    <3>2. data[<<"log", c>>] = <<>>
      BY <2>1, EndsOfCall DEF Init
    <3> QED BY <3>1, <3>2 DEF ChildInv, LogPipeInv, ResultInv, Wrote, Waits, GivenUp
  <2> QED BY <2>1 DEF TextInv
<1>2. Types /\ Filled /\ DescriptorInv /\ TextInv /\ [Next]_vars => TextInv'
  <2> SUFFICES ASSUME Types, Filled, DescriptorInv, TextInv, [Next]_vars
               PROVE  TextInv'
    OBVIOUS
  <2>1. CASE exit
    <3>1. exit'
      BY <2>1, CallShape DEF Next, ChildStep, ThreadEntry, WaitForContinueSignal, DoDump,
         DoDumpFails, WriteText, InChild, OpenFile, CloseFile, Killed, Finished, vars
    <3> QED BY <3>1 DEF TextInv
  <2>2. ASSUME NEW c \in Callers, CallStep(c)
        PROVE  TextInv'
    BY <2>2, CallKeepsText
  <2>3. ASSUME ~exit, NEW c \in Callers, ChildStep(c)
        PROVE  TextInv'
    BY <2>3, ChildKeepsText
  <2>4. CASE OpenFile \/ CloseFile \/ Finished \/ UNCHANGED vars
    <3>1. UNCHANGED <<pc, child, data, result, exit>>
      BY <2>4 DEF OpenFile, CloseFile, Finished, vars, callVars, kernel
    <3> QED BY <3>1 DEF TextInv, ChildInv, LogPipeInv, ResultInv, Wrote, Waits,
         GivenUp
  <2>5. CASE Killed
    BY <2>5 DEF Killed, TextInv
  <2> QED BY <2>1, <2>2, <2>3, <2>4, <2>5 DEF Next
<1> QED BY <1>1, <1>2, TypesHold, FilledHolds, DescriptorsHold, PTL DEF Spec

\* The position of the Caret of a text.
LEMMA HalvesFacts ==
  ASSUME NEW c \in Callers
  PROVE  \E n \in 2..Len(Text[c]) - 1 :
           /\ \A i \in 1..Len(Text[c]) : Text[c][i] = Caret <=> i = n
           /\ Halves(c) = <<SubSeq(Text[c], 1, n - 1), SubSeq(Text[c], n + 1, Len(Text[c]))>>
           /\ Len(SubSeq(Text[c], n + 1, Len(Text[c]))) = Len(Text[c]) - n
<1>1. PICK n \in 2..Len(Text[c]) - 1 : \A i \in 1..Len(Text[c]) : Text[c][i] = Caret <=> i = n
  BY DumpAssumption
<1>2. Text[c] \in Seq(Bytes) /\ Len(Text[c]) \in Nat
  BY WrittenAreBytes
<1>3. n \in 1..Len(Text[c])
  BY <1>1, <1>2
<1>4. (CHOOSE i \in 1..Len(Text[c]) : Text[c][i] = Caret) = n
  BY <1>1, <1>3
<1>5. Halves(c) = <<SubSeq(Text[c], 1, n - 1), SubSeq(Text[c], n + 1, Len(Text[c]))>>
  BY <1>4, Zenon DEF Halves
<1>6. Len(SubSeq(Text[c], n + 1, Len(Text[c]))) = Len(Text[c]) - n
  BY <1>1, <1>2, <1>3
<1> QED BY <1>1, <1>5, <1>6

\* What ReportIsOwn says of one report.
OwnReport(c, r) ==
  LET own == Halves(c)[2] IN
  /\ r[1] = Halves(c)[1]
  /\ SubSeq(r[2], 1, Len(own)) = own
  /\ \A k \in Len(own) + 1..Len(r[2]) :
       \E b \in Callers : LeftBy(b, Len(Text[c]) - Len(own) + k, r[2][k])

\* dump2Java finds the text of its child in the pipe and tells it.
LEMMA TellsOwnText ==
  ASSUME Types, Filled, DescriptorInv, TextInv, BufferInv, NEW c \in Callers, Dump2Java(c)
  PROVE  /\ BufferInv'
         /\ \A b \in Callers : \A place, byte : LeftBy(b, place, byte) => LeftBy(b, place, byte)'
         /\ \/ told' = told
            \/ \E r : told' = [told EXCEPT ![c] = r] /\ OwnReport(c, r)'
<1>1. /\ ~exit /\ pc[c] = "waited"
      /\ IF ~result[c] THEN UNCHANGED <<log, told>>
         ELSE LET filled == Over(Taken(EntryOf(table, logs.read), Capacity), log)
                  seen   == Visible(filled)
              IN /\ log' = Split(filled)
                 /\ told' = [told EXCEPT ![c] = Report(seen)]
  BY Zenon DEF Dump2Java, Step, Over, Split
<1>2. CASE ~result[c]
  BY <1>1, <1>2 DEF BufferInv, LeftBy
<1>3. CASE result[c]
  <2> DEFINE entry == EntryOf(table, logs.read)
  <2>1. entry = Reader(<<"log", c>>)
    <3>1. Holds(c)
      BY <1>1 DEF DescriptorInv
    <3> QED BY <1>1, <3>1 DEF Holds, LogRead, EntryOf, Types, LogsType
  <2>2. data[<<"log", c>>] = Text[c]
    BY <1>1, <1>3 DEF TextInv, ResultInv, LogPipeInv
  <2>3. Text[c] \in Seq(Bytes) /\ Len(Text[c]) \in Nat /\ Len(Text[c]) <= Capacity /\ Capacity \in Nat
    <3>1. <<"log", c>> \in Pipes
      BY EndsOfCall
    <3>2. Len(Text[c]) <= Capacity
      BY <2>2, <3>1, Zenon DEF Filled
    <3>3. Text[c] \in Seq(Bytes) /\ Capacity \in Nat
      BY WrittenAreBytes, DumpAssumption
    <3> QED BY <3>2, <3>3
  <2>4. Taken(entry, Capacity) = Text[c]
    <3>1. Taken(entry, Capacity) = SubSeq(Text[c], 1, Min({Capacity, Len(Text[c])}))
      <4>1. entry \in Ends /\ entry.dir = "r" /\ entry.pipe = <<"log", c>>
        BY <2>1, EndsOfCall
      <4> HIDE DEF entry
      <4> QED BY <2>2, <4>1, Zenon DEF Taken
    <3>2. Min({Capacity, Len(Text[c])}) = Len(Text[c])
      <4> DEFINE S == {Capacity, Len(Text[c])}
      <4>1. S \in SUBSET Nat /\ S # {} /\ \A i \in S : Len(Text[c]) <= i
        BY <2>3
      <4>2. Min(S) \in S /\ Min(S) <= Len(Text[c]) /\ Len(Text[c]) \in S
        BY <4>1, MinIsIn
      <4> HIDE DEF S
      <4>3. Len(Text[c]) <= Min(S) /\ Min(S) \in Nat
        BY <4>1, <4>2
      <4>4. Min(S) = Len(Text[c])
        BY <2>3, <4>2, <4>3
      <4> QED BY <4>4 DEF S
    <3>3. SubSeq(Text[c], 1, Len(Text[c])) = Text[c]
      BY <2>3
    <3> QED BY <3>1, <3>2, <3>3
  <2> HIDE DEF entry
  <2> DEFINE t == Text[c]
             S == Bytes \cup {Nul}
             filled == Over(t, log)
  <2>5. log' = Split(filled) /\ told' = [told EXCEPT ![c] = Report(Visible(filled))]
    BY <1>1, <1>3, <2>4 DEF entry
  <2>6. t \in Seq(S) /\ log \in Seq(S) /\ Nul \in S
    BY <2>3, LargerSeq DEF BufferInv
  <2>7. NoNul(t) /\ NoCaret(log)
    BY DumpAssumption DEF NoNul, BufferInv
  <2>8. PICK n \in 2..Len(t) - 1 :
          /\ \A i \in 1..Len(t) : t[i] = Caret <=> i = n
          /\ Halves(c) = <<SubSeq(t, 1, n - 1), SubSeq(t, n + 1, Len(t))>>
          /\ Len(SubSeq(t, n + 1, Len(t))) = Len(t) - n
    BY HalvesFacts
  <2>9. Halves(c)[1] = SubSeq(t, 1, n - 1) /\ Halves(c)[2] = SubSeq(t, n + 1, Len(t))
    BY <2>8
  <2>10. filled = Over(t, log)
    OBVIOUS
  <2>11. \A i \in 1..Len(t) : t[i] = Caret <=> i = n
    BY <2>8
  <2>12. /\ Len(t) = Len(Text[c]) /\ \A k \in 1..Len(t) : t[k] = Text[c][k]
         /\ Len(t) \in Nat
    BY <2>3
  <2> HIDE DEF t, S, filled
  <2> PICK r, left : r = Report(Visible(filled)) /\ left = Split(filled)
    OBVIOUS
  <2>13. /\ r[1] = SubSeq(t, 1, n - 1)
         /\ SubSeq(r[2], 1, Len(t) - n) = SubSeq(t, n + 1, Len(t))
         /\ \A k \in Len(t) - n + 1..Len(r[2]) :
              n + k \in 1..Len(log) /\ log[n + k] # Nul /\ r[2][k] = log[n + k]
         /\ left \in Seq(S) /\ NoCaret(left)
         /\ \A k \in 1..Len(left) : \/ left[k] = Nul
                                    \/ k \in 1..Len(t) /\ left[k] = t[k]
                                    \/ k \in 1..Len(log) /\ left[k] = log[k]
    BY <2>6, <2>7, <2>10, <2>11, TextIsReported
  <2>14. r # NotTold
    BY DEF Report, NotTold
  <2>15. log' = left /\ told' = [told EXCEPT ![c] = r] /\ DOMAIN told = Callers
    BY <2>5 DEF BufferInv
  <2>16. told'[c] # NotTold
    BY <2>14, <2>15
  <2>17. ASSUME NEW b \in Callers, NEW place, NEW byte, LeftBy(b, place, byte)
         PROVE  LeftBy(b, place, byte)'
    BY <2>15, <2>16, <2>17 DEF LeftBy
  <2>18. BufferInv'
    <3>1. ASSUME NEW k \in 1..Len(left)
          PROVE  left[k] = Nul \/ \E b \in Callers : LeftBy(b, k, left[k])'
      <4>1. CASE k \in 1..Len(t) /\ left[k] = t[k]
        BY <2>12, <2>16, <4>1 DEF LeftBy
      <4>2. CASE k \in 1..Len(log) /\ left[k] = log[k]
        <5>1. left[k] = Nul \/ \E b \in Callers : LeftBy(b, k, left[k])
          BY <4>2 DEF BufferInv
        <5> QED BY <2>17, <5>1
      <4> QED BY <2>13, <4>1, <4>2
    <3>2. log' \in Seq(Bytes \cup {Nul}) /\ NoCaret(log)' /\ DOMAIN told' = Callers
      BY <2>13, <2>15 DEF NoCaret, S
    <3>3. \A k \in 1..Len(log') : log'[k] = Nul \/ \E b \in Callers : LeftBy(b, k, log[k])'
      BY <2>15, <3>1 DEF LeftBy
    <3> QED BY <3>2, <3>3 DEF BufferInv
  <2>19. Len(Halves(c)[2]) = Len(t) - n
    BY <2>8, <2>9, Zenon
  <2>20. /\ r[1] = Halves(c)[1]
         /\ SubSeq(r[2], 1, Len(Halves(c)[2])) = Halves(c)[2]
    BY <2>9, <2>13, <2>19, Zenon
  <2>21. ASSUME NEW k \in Len(Halves(c)[2]) + 1..Len(r[2])
         PROVE  \E b \in Callers : LeftBy(b, Len(Text[c]) - Len(Halves(c)[2]) + k, r[2][k])'
    <3>1. n + k \in 1..Len(log) /\ log[n + k] # Nul /\ r[2][k] = log[n + k]
      BY <2>13, <2>19, <2>21
    <3>2. PICK b \in Callers : LeftBy(b, n + k, r[2][k])
      BY <3>1 DEF BufferInv
    <3>3. LeftBy(b, n + k, r[2][k])'
      BY <2>17, <3>2
    <3>4. Len(Text[c]) - Len(Halves(c)[2]) + k = n + k
      <4>1. n \in Nat /\ k \in Int /\ Len(Text[c]) = Len(t)
        BY <2>8, <2>12, <2>19, <2>21
      <4> QED BY <2>12, <2>19, <4>1
    <3> QED BY <3>1, <3>3, <3>4
  <2> QED BY <2>15, <2>17, <2>18, <2>20, <2>21 DEF OwnReport
<1> QED BY <1>2, <1>3

LEMMA OwnReports ==
  ReportIsOwn <=> \A c \in Callers : told[c] # NotTold => OwnReport(c, told[c])
BY Zenon DEF ReportIsOwn, OwnReport

\* When crashes are the only callers and find room for their pipes, the first
\* section a crash tells Java is the one its own child wrote, and the second is
\* its own followed by nothing but what texts told before had at that place.
THEOREM ReportTheorem ==
  ASSUME Crashes = Callers
  PROVE  Spec /\ []Room => []ReportIsOwn
<1>1. Init => ReportIsOwn /\ BufferInv
  <2>1. <<>> \in Seq(Bytes \cup {Nul}) /\ Len(<<>>) = 0
    OBVIOUS
  <2>2. Init => BufferInv
    BY <2>1 DEF Init, BufferInv, NoCaret
  <2>3. Init => \A c \in Callers : told[c] = NotTold
    BY DEF Init
  <2> QED BY <2>2, <2>3, OwnReports
<1>2. /\ Types /\ Filled /\ DescriptorInv /\ TextInv /\ BufferInv /\ ReportIsOwn
      /\ [Next]_vars
      => ReportIsOwn' /\ BufferInv'
  <2> SUFFICES ASSUME Types, Filled, DescriptorInv, TextInv, BufferInv, ReportIsOwn, [Next]_vars
               PROVE  ReportIsOwn' /\ BufferInv'
    OBVIOUS
  <2>1. ASSUME UNCHANGED <<told, log>>
        PROVE  ReportIsOwn' /\ BufferInv'
    BY <2>1 DEF ReportIsOwn, BufferInv, LeftBy
  <2>2. ASSUME NEW c \in Callers, Dump2Java(c)
        PROVE  ReportIsOwn' /\ BufferInv'
    <3>1. BufferInv'
      BY <2>2, TellsOwnText
    <3>2. ASSUME NEW k \in Callers, told'[k] # NotTold
          PROVE  OwnReport(k, told[k])'
      <4>1. CASE told'[k] = told[k]
        <5>1. OwnReport(k, told[k])
          BY <3>2, <4>1, OwnReports
        <5>2. \A b \in Callers : \A place, byte : LeftBy(b, place, byte) => LeftBy(b, place, byte)'
          BY <2>2, TellsOwnText
        <5> QED BY <4>1, <5>1, <5>2 DEF OwnReport
      <4>2. CASE told'[k] # told[k]
        <5>1. PICK r : told' = [told EXCEPT ![c] = r] /\ OwnReport(c, r)'
          BY <2>2, <4>2, TellsOwnText
        <5>2. k = c /\ told'[c] = r
          BY <4>2, <5>1 DEF BufferInv
        <5> QED BY <5>1, <5>2
      <4> QED BY <4>1, <4>2
    <3> QED BY <3>1, <3>2, Zenon DEF ReportIsOwn, OwnReport
  <2>3. ASSUME NEW c \in Callers, CallStep(c), ~Dump2Java(c)
        PROVE  UNCHANGED <<told, log>>
    BY <2>3 DEF CallStep, GoOn, Start, NoStack, MakeContinuePipe, MakeLogPipe, Clone, CloneFails,
       CloseChildEnds, SendContinueSignalToChild, WaitForChild, CloseLog, memory
  <2>4. ASSUME NEW c \in Callers, ChildStep(c)
        PROVE  UNCHANGED <<told, log>>
    BY <2>4 DEF ChildStep, ThreadEntry, WaitForContinueSignal, DoDump, DoDumpFails, WriteText,
       InChild, callVars, memory
  <2>5. ASSUME OpenFile \/ CloseFile \/ Killed \/ Finished \/ UNCHANGED vars
        PROVE  UNCHANGED <<told, log>>
    BY <2>5 DEF OpenFile, CloseFile, Killed, Finished, vars, callVars, memory
  <2> QED BY <2>1, <2>2, <2>3, <2>4, <2>5 DEF Next
<1> QED BY <1>1, <1>2, TypesHold, FilledHolds, DescriptorsHold, TextHolds, PTL DEF Spec
=============================================================================
