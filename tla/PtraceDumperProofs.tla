------------------------ MODULE PtraceDumperProofs --------------------------
(* Theorems about PtraceDumper, for any number of threads.                 *)
EXTENDS PtraceDumper, SequenceTheorems, TLAPS

\* The threads the loop of ThreadsSuspend has behind it.
Passed == Listed(i)

\* What the attached threads are, at every step of the child.
AttachedAreListed ==
  /\ \A t \in Threads : thread[t] = "stopped" => t \in traced
  /\ \A t \in traced : thread[t] # "gone"
  /\ at \in {"init", "enumerate", "done"} => \A t \in traced : thread[t] = "zombie"
  /\ at = "suspend" => \A t \in traced : thread[t] = "zombie" \/ t \in Passed
  /\ at = "attached" =>
       \A t \in traced : thread[t] = "zombie" \/ t = list[i] \/ t \in Passed
  /\ at = "ready" => \A t \in traced : thread[t] = "zombie" \/ t \in Listed(Len(list) + 1)
  /\ at = "resume" =>
       \A t \in traced : \/ thread[t] = "zombie"
                         \/ thread[t] = "stopped" /\ \E k \in i..Len(list) : t = list[k]

\* Every thread that ThreadsSuspend has passed is still, and it is not the one
\* it waits for, whatever the kernel listed twice.
PassedAreStill ==
  /\ at \in {"suspend", "attached"} =>
       \A t \in Passed : thread[t] \in {"stopped", "zombie", "gone"}
  /\ at = "attached" => list[i] \notin Passed
  /\ ReadsStillThreads

LoopIsSetUp ==
  /\ at \in {"init", "enumerate", "suspend", "attached"} => ~suspended
  /\ at \in {"ready", "resume"} => suspended
  /\ at \in {"init", "enumerate", "ready"} => i = 1

IInv == TypeOK /\ AttachedAreListed /\ PassedAreStill /\ LoopIsSetUp

LEMMA RemoveAtFacts ==
  ASSUME NEW S, NEW s \in Seq(S), NEW n \in 1..Len(s)
  PROVE  /\ RemoveAt(s, n) \in Seq(S)
         /\ Len(RemoveAt(s, n)) = Len(s) - 1
         /\ \A k \in 1..(n - 1) : RemoveAt(s, n)[k] = s[k]
<1>1. /\ SubSeq(s, 1, n - 1) \in Seq(S) /\ Len(SubSeq(s, 1, n - 1)) = n - 1
      /\ \A k \in 1..(n - 1) : SubSeq(s, 1, n - 1)[k] = s[k]
  <2>1. \A k \in 1..(n - 1) : s[k] \in S
    OBVIOUS
  <2> QED
    BY <2>1, SubSeqProperties
<1>2. /\ SubSeq(s, n + 1, Len(s)) \in Seq(S)
      /\ Len(SubSeq(s, n + 1, Len(s))) = Len(s) - n
  <2>1. \A k \in (n + 1)..Len(s) : s[k] \in S
    OBVIOUS
  <2> QED
    BY <2>1, SubSeqProperties
<1> DEFINE a == SubSeq(s, 1, n - 1)
           b == SubSeq(s, n + 1, Len(s))
<1>3. /\ a \o b \in Seq(S) /\ Len(a \o b) = Len(a) + Len(b)
      /\ \A k \in 1..(Len(a) + Len(b)) :
           (a \o b)[k] = IF k <= Len(a) THEN a[k] ELSE b[k - Len(a)]
  BY <1>1, <1>2, ConcatProperties
<1>4. RemoveAt(s, n) = a \o b
  BY DEF RemoveAt
<1> HIDE DEF a, b
<1>5. Len(a) = n - 1 /\ Len(b) = Len(s) - n /\ \A k \in 1..(n - 1) : a[k] = s[k]
  BY <1>1, <1>2 DEF a, b
<1>6. Len(a) + Len(b) = Len(s) - 1
  BY <1>5
<1>7. \A k \in 1..(n - 1) : (a \o b)[k] = s[k]
  BY <1>3, <1>5, <1>6
<1> QED
  BY <1>3, <1>4, <1>6, <1>7

\* Either way of going on leaves a list of threads and an index into it.
LEMMA TurnTypes ==
  ASSUME TypeOK, i \in 1..Len(list), Drop \/ Keep
  PROVE  /\ list' \in Seq(Threads) /\ i' \in 1..(Len(list') + 1)
         /\ at' = "suspend"
         /\ dump' = dump /\ suspended' = suspended /\ good' = good
         /\ \A k \in 1..(i - 1) : list'[k] = list[k]
  BY RemoveAtFacts DEF TypeOK, Drop, Keep

LEMMA TypeInit == Init => TypeOK
<1> SUFFICES ASSUME Init PROVE TypeOK
  OBVIOUS
<1>1. suspended \in BOOLEAN /\ good \in BOOLEAN /\ frozen \in BOOLEAN
  BY Zenon DEF Init
<1>2. list \in Seq(Threads) /\ i \in 1..(Len(list) + 1)
  BY DEF Init
<1>3. thread \in [Threads -> States]
  BY DEF Init, States
<1> QED
  BY <1>1, <1>2, <1>3, DumperAssumption DEF Init, TypeOK, Steps

\* Every reachable state has the declared types: no thread id is taken from
\* outside threads_, whichever entries were removed under the loop's index.
THEOREM TypeCorrect == Spec => []TypeOK
<1>1. Init => TypeOK
  BY TypeInit
<1>2. TypeOK /\ [Next]_vars => TypeOK'
  <2> SUFFICES ASSUME TypeOK, [Next]_vars PROVE TypeOK'
    OBVIOUS
  <2>1. CASE ReadAuxv
    BY <2>1, SMTT(30) DEF ReadAuxv, TypeOK, States, Steps, process, dumper
  <2>2. CASE InitFails
    <3>1. suspended' \in BOOLEAN /\ good' \in BOOLEAN
      BY <2>2, Zenon DEF InitFails, Fail, TypeOK, process, dumper
    <3> QED
      BY <2>2, <3>1, SMTT(30) DEF InitFails, Fail, TypeOK, States, Steps, process, dumper
  <2>3. CASE EnumerateThread
    BY <2>3, SMTT(30) DEF EnumerateThread, TypeOK, States, Steps, process, dumper
  <2>4. CASE Enumerated
    BY <2>4, SMTT(30) DEF Enumerated, TypeOK, States, Steps, process, dumper
  <2>5. CASE Attach
    BY <2>5, SMTT(30) DEF Attach, CanAttach, Live, TypeOK, States, Steps, process, dumper
  <2>6. CASE AttachFails
    <3>1. i \in 1..Len(list) /\ (Drop \/ Keep)
      BY <2>6 DEF AttachFails, TypeOK
    <3> QED
      BY <2>6, <3>1, TurnTypes, SMTT(30) DEF AttachFails, TypeOK, States, Steps, process
  <2>7. CASE WaitStopped
    <3>1. i \in 1..Len(list) /\ (Drop \/ Keep)
      BY <2>7 DEF WaitStopped, TypeOK
    <3> QED
      BY <2>7, <3>1, TurnTypes, SMTT(30) DEF WaitStopped, Detach, TypeOK, States, Steps, process
  <2>8. CASE WaitExited
    <3>1. i \in 1..Len(list) /\ (Drop \/ Keep)
      BY <2>8 DEF WaitExited, TypeOK
    <3> QED
      BY <2>8, <3>1, TurnTypes, SMTT(30) DEF WaitExited, TypeOK, States, Steps, process
  <2>9. CASE WaitFails
    <3>1. i \in 1..Len(list) /\ (Drop \/ Keep)
      BY <2>9 DEF WaitFails, TypeOK
    <3> QED
      BY <2>9, <3>1, TurnTypes, SMTT(30) DEF WaitFails, TypeOK, States, Steps, process
  <2>10. CASE Suspended
    BY <2>10, SMTT(30) DEF Suspended, TypeOK, States, Steps, process, dumper
  <2>11. CASE Dumped
    BY <2>11, SMTT(30) DEF Dumped, Readable, TypeOK, States, Steps, process, dumper
  <2>12. CASE DumpFails
    <3>1. suspended' \in BOOLEAN /\ good' \in BOOLEAN
      BY <2>12, Zenon DEF DumpFails, Fail, TypeOK, process, dumper
    <3> QED
      BY <2>12, <3>1, SMTT(30) DEF DumpFails, Fail, Readable, TypeOK, States, Steps, process, dumper
  <2>13. CASE ResumeThread
    BY <2>13, SMTT(30) DEF ResumeThread, Detach, TypeOK, States, Steps, process, dumper
  <2>14. CASE Resumed
    <3>1. suspended' \in BOOLEAN /\ good' \in BOOLEAN
      BY <2>14, Zenon DEF Resumed, TypeOK, process, dumper
    <3>2. list' \in Seq(Threads)
      <4>1. list' = <<>> \/ list' = list
        BY <2>14, Zenon DEF Resumed
      <4>2. <<>> \in Seq(Threads)
        OBVIOUS
      <4> QED
        BY <4>1, <4>2 DEF TypeOK
    <3>3. at' \in {"init", "done"} /\ dump' \in {"minidump", "text"}
      BY <2>14 DEF Resumed, TypeOK
    <3> QED
      BY <2>14, <3>1, <3>2, <3>3, Len(list') \in Nat DEF Resumed, TypeOK, Steps, process
  <2>15. CASE ChildDies
    <3>1. suspended' \in BOOLEAN /\ good' \in BOOLEAN
      BY <2>15, Zenon DEF ChildDies, TypeOK, process, dumper
    <3> QED
      BY <2>15, <3>1, SMTT(30) DEF ChildDies, TypeOK, States, Steps, process, dumper
  <2>16. CASE Spawn
    BY <2>16, SMTT(30) DEF Spawn, TypeOK, States, Steps, process, dumper
  <2>17. CASE Killed
    BY <2>17, SMTT(30) DEF Killed, Live, AfterExit, TypeOK, States, Steps, process, dumper
  <2>18. ASSUME NEW t \in Threads, StartExit(t) PROVE TypeOK'
    BY <2>18, SMTT(30) DEF StartExit, TypeOK, States, Steps, process, dumper
  <2>19. ASSUME NEW t \in Threads, Exit(t) PROVE TypeOK'
    BY <2>19, SMTT(30) DEF Exit, AfterExit, TypeOK, States, Steps, process, dumper
  <2>20. ASSUME NEW t \in Threads, Stop(t) PROVE TypeOK'
    BY <2>20, SMTT(30) DEF Stop, TypeOK, States, Steps, process, dumper
  <2>21. ASSUME NEW t \in Threads, GroupStop(t) PROVE TypeOK'
    BY <2>21, SMTT(30) DEF GroupStop, TypeOK, States, Steps, process, dumper
  <2>22. CASE UNCHANGED vars
    BY <2>22 DEF TypeOK, vars, process, dumper
  <2> QED
    BY <2>1, <2>2, <2>3, <2>4, <2>5, <2>6, <2>7, <2>8, <2>9, <2>10, <2>11, <2>12, <2>13, <2>14, <2>15, <2>16, <2>17, <2>18, <2>19, <2>20, <2>21, <2>22 DEF Next, Child
<1> QED
  BY <1>1, <1>2, PTL DEF Spec

LEMMA DropKeepsPrefix ==
  ASSUME TypeOK, i \in 1..Len(list), Drop
  PROVE  Passed' = Passed
  BY TurnTypes DEF Passed, Listed, Drop, TypeOK

LEMMA KeepAddsOne ==
  ASSUME TypeOK, i \in 1..Len(list), Keep
  PROVE  Passed' = Passed \cup {list[i]}
  BY DEF Passed, Listed, Keep, TypeOK

\* The state between ThreadsSuspend and ThreadsResume.
ReadyOrResume ==
  /\ \A t \in traced : thread[t] = "zombie" \/ t \in Listed(Len(list) + 1)
  /\ \A t \in Listed(Len(list) + 1) : thread[t] \in {"stopped", "zombie", "gone"}

LEMMA ReadyStep ==
  ASSUME TypeOK, AttachedAreListed, ReadyOrResume,
         UNCHANGED <<thread, traced, list>>,
         at' \in {"ready", "resume"}, i' = 1, suspended'
  PROVE  (AttachedAreListed /\ PassedAreStill /\ LoopIsSetUp)'
<1>1. Listed(Len(list) + 1) = {list[k] : k \in 1..Len(list)}
  BY DEF Listed, TypeOK
<1>2. Listed(Len(list) + 1)' = Listed(Len(list) + 1)
  BY DEF Listed
<1>3. ASSUME NEW t \in traced
      PROVE  \/ thread[t] = "zombie"
             \/ thread[t] = "stopped" /\ \E k \in 1..Len(list) : t = list[k]
  BY <1>1, <1>3 DEF ReadyOrResume, AttachedAreListed
<1>4. ReadyOrResume'
  BY <1>2 DEF ReadyOrResume
<1>5. AttachedAreListed'
  <2>1. thread' = thread /\ traced' = traced /\ list' = list /\ i' = 1
    OBVIOUS
  <2>2. \A t \in traced' : \/ thread'[t] = "zombie"
                           \/ thread'[t] = "stopped" /\ \E k \in i'..Len(list') : t = list'[k]
    BY <1>3, <2>1
  <2>3. /\ \A t \in Threads : thread'[t] = "stopped" => t \in traced'
        /\ \A t \in traced' : thread'[t] # "gone"
    BY <2>1 DEF AttachedAreListed
  <2>4. \A t \in traced' : thread'[t] = "zombie" \/ t \in Listed(Len(list) + 1)'
    BY <1>4, Zenon DEF ReadyOrResume
  <2> QED
    BY <2>2, <2>3, <2>4, Zenon DEF AttachedAreListed
<1>6. PassedAreStill'
  BY <1>4 DEF ReadyOrResume, PassedAreStill, ReadsStillThreads
<1>7. LoopIsSetUp'
  BY DEF LoopIsSetUp
<1> QED
  BY <1>5, <1>6, <1>7

\* While a writer reads, every listed thread is still; and no thread stays
\* stopped once its dumper is gone.  Both follow from where the attached threads
\* are: in the part of threads_ that the current loop has behind or before it.
THEOREM StillTheorem == Spec => [](ReadsStillThreads /\ LeavesNoneStopped)
<1>1. Init => IInv
  BY TypeInit DEF Init, IInv, AttachedAreListed, PassedAreStill, LoopIsSetUp, ReadsStillThreads, Passed, Listed
<1>2. IInv /\ TypeOK' /\ [Next]_vars => (AttachedAreListed /\ PassedAreStill /\ LoopIsSetUp)'
  <2> SUFFICES ASSUME IInv, TypeOK', [Next]_vars
               PROVE  (AttachedAreListed /\ PassedAreStill /\ LoopIsSetUp)'
    OBVIOUS
  <2> USE DEF IInv
  <2>1. CASE ReadAuxv
    BY <2>1, SMTT(30) DEF ReadAuxv, TypeOK, AttachedAreListed, PassedAreStill, ReadsStillThreads, LoopIsSetUp, process, dumper, Passed, Listed
  <2>2. CASE InitFails
    BY <2>2, SMTT(30) DEF InitFails, Fail, TypeOK, AttachedAreListed, PassedAreStill, ReadsStillThreads, LoopIsSetUp, process, dumper, Passed, Listed
  <2>3. CASE EnumerateThread
    BY <2>3, SMTT(30) DEF EnumerateThread, TypeOK, AttachedAreListed, PassedAreStill, ReadsStillThreads, LoopIsSetUp, process, dumper, Passed, Listed
  <2>4. CASE Enumerated
    BY <2>4, SMTT(30) DEF Enumerated, TypeOK, AttachedAreListed, PassedAreStill, ReadsStillThreads, LoopIsSetUp, process, dumper, Passed, Listed
  <2>5. CASE Attach
    BY <2>5, SMTT(30) DEF Attach, CanAttach, Live, TypeOK, AttachedAreListed, PassedAreStill, ReadsStillThreads, LoopIsSetUp, process, dumper, Passed, Listed
  <2>6. CASE AttachFails
    <3>1. Passed' = Passed
      BY <2>6, DropKeepsPrefix DEF AttachFails, TypeOK
    <3>2. at = "suspend" /\ at' = "suspend" /\ suspended' = suspended
      BY <2>6 DEF AttachFails, Drop
    <3> QED
      BY <2>6, <3>1, <3>2 DEF AttachFails, TypeOK, AttachedAreListed, PassedAreStill, ReadsStillThreads, LoopIsSetUp, process, dumper
  <2>7. CASE WaitStopped
    <3>1. at = "attached" /\ at' = "suspend" /\ suspended' = suspended
      BY <2>7 DEF WaitStopped, Drop, Keep
    <3>2. list[i] \in Threads /\ Passed \subseteq Threads /\ traced \subseteq Threads
      BY <3>1 DEF Passed, Listed, TypeOK
    <3>3. CASE Keep /\ UNCHANGED process
      <4>1. Passed' = Passed \cup {list[i]}
        BY <3>1, <3>3, KeepAddsOne DEF TypeOK
      <4> QED
        BY <2>7, <3>1, <3>2, <3>3, <4>1 DEF WaitStopped, TypeOK, AttachedAreListed, PassedAreStill, ReadsStillThreads, LoopIsSetUp, process, dumper
    <3>4. CASE Drop /\ Detach({list[i]})
      <4>1. Passed' = Passed
        BY <3>1, <3>4, DropKeepsPrefix DEF TypeOK
      <4>2. \A t \in Threads : t # list[i] => thread'[t] = thread[t]
        BY <3>4 DEF Detach
      <4>3. thread'[list[i]] = "running" /\ traced' = traced \ {list[i]}
        BY <2>7, <3>2, <3>4 DEF Detach, WaitStopped
      <4> QED
        BY <3>1, <3>2, <4>1, <4>2, <4>3 DEF TypeOK, AttachedAreListed, PassedAreStill, ReadsStillThreads, LoopIsSetUp, process, dumper
    <3> QED
      BY <2>7, <3>3, <3>4 DEF WaitStopped
  <2>8. CASE WaitExited
    <3>1. Passed' = Passed \/ Passed' = Passed \cup {list[i]}
      BY <2>8, DropKeepsPrefix, KeepAddsOne DEF WaitExited, TypeOK
    <3>2. at = "attached" /\ at' = "suspend" /\ suspended' = suspended
      BY <2>8 DEF WaitExited, Drop, Keep
    <3>3. \A t \in Threads : t # list[i] => thread'[t] = thread[t]
      BY <2>8 DEF WaitExited, TypeOK
    <3>4. list[i] \in Threads /\ thread'[list[i]] = "gone" /\ traced' = traced \ {list[i]}
      BY <2>8 DEF WaitExited, TypeOK
    <3>5. Passed \subseteq Threads /\ traced \subseteq Threads
      BY DEF Passed, Listed, TypeOK
    <3> QED
      BY <3>1, <3>2, <3>3, <3>4, <3>5 DEF TypeOK, AttachedAreListed, PassedAreStill, ReadsStillThreads, LoopIsSetUp, process, dumper
  <2>9. CASE WaitFails
    <3>1. Passed' = Passed
      BY <2>9, DropKeepsPrefix DEF WaitFails, TypeOK
    <3>2. at = "attached" /\ at' = "suspend" /\ suspended' = suspended
      BY <2>9 DEF WaitFails, Drop
    <3> QED
      BY <2>9, <3>1, <3>2 DEF WaitFails, TypeOK, AttachedAreListed, PassedAreStill, ReadsStillThreads, LoopIsSetUp, process, dumper
  <2>10. CASE Suspended
    <3>1. at = "suspend" /\ at' \in {"ready", "resume"} /\ i' = 1 /\ suspended'
      BY <2>10 DEF Suspended
    <3>2. UNCHANGED <<thread, traced, list>> /\ Passed = Listed(Len(list) + 1)
      BY <2>10 DEF Suspended, Passed, process, TypeOK
    <3>3. ReadyOrResume
      BY <3>1, <3>2 DEF ReadyOrResume, AttachedAreListed, PassedAreStill
    <3> QED
      BY <3>1, <3>2, <3>3, ReadyStep
  <2>11. CASE Dumped
    <3>1. at = "ready" /\ at' = "resume" /\ i' = 1 /\ suspended'
      BY <2>11 DEF Dumped, LoopIsSetUp
    <3>2. UNCHANGED <<thread, traced, list>> /\ ReadyOrResume
      BY <2>11, <3>1 DEF Dumped, process, ReadyOrResume, AttachedAreListed, PassedAreStill,
                         ReadsStillThreads
    <3> QED
      BY <3>1, <3>2, ReadyStep
  <2>12. CASE DumpFails
    <3>1. at = "ready" /\ at' = "resume" /\ i' = 1 /\ suspended'
      BY <2>12 DEF DumpFails, Fail, LoopIsSetUp
    <3>2. UNCHANGED <<thread, traced, list>> /\ ReadyOrResume
      BY <2>12, <3>1 DEF DumpFails, Fail, process, ReadyOrResume, AttachedAreListed,
                         PassedAreStill, ReadsStillThreads
    <3> QED
      BY <3>1, <3>2, ReadyStep
  <2>13. CASE ResumeThread
    <3>1. at = "resume" /\ at' = "resume" /\ i' = i + 1 /\ UNCHANGED <<list, suspended>>
      BY <2>13 DEF ResumeThread
    <3>2. i \in 1..Len(list) /\ list[i] \in Threads /\ traced \subseteq Threads
      BY <2>13 DEF ResumeThread, TypeOK
    <3>3. \A t \in Threads : thread'[t] = "stopped" => thread[t] = "stopped" /\ t # list[i]
      BY <2>13 DEF ResumeThread, Detach
    <3>4. \A t \in Threads : thread[t] = "zombie" => thread'[t] = "zombie"
      BY <2>13 DEF ResumeThread, Detach
    <3>5. traced' = IF thread[list[i]] = "stopped" THEN traced \ {list[i]} ELSE traced
      BY <2>13 DEF ResumeThread, Detach
    <3>6. ASSUME NEW t \in traced'
          PROVE  thread'[t] = "zombie" \/ \E k \in i'..Len(list') : t = list'[k]
      <4>1. t \in traced /\ t \in Threads
        BY <3>2, <3>5
      <4>2. CASE thread[t] = "zombie"
        BY <4>1, <4>2, <3>4
      <4>3. CASE thread[t] # "zombie"
        <5>1. PICK k \in i..Len(list) : t = list[k]
          BY <3>1, <4>1, <4>3 DEF AttachedAreListed
        <5>2. k # i
          BY <3>1, <3>2, <3>5, <3>6, <4>1, <4>3, <5>1 DEF AttachedAreListed
        <5> QED
          BY <3>1, <3>2, <5>1, <5>2
      <4> QED
        BY <4>2, <4>3
    <3>7. \A t \in Threads : thread'[t] = "stopped" => t \in traced'
      BY <3>3, <3>5 DEF AttachedAreListed
    <3>8. \A t \in traced' : thread'[t] # "gone"
      BY <3>2, <3>5, <2>13 DEF ResumeThread, Detach, AttachedAreListed
    <3>9. ASSUME NEW t \in traced', thread'[t] # "zombie"
          PROVE  thread'[t] = "stopped"
      BY <3>1, <3>2, <3>5, <3>9, <2>13 DEF ResumeThread, Detach, AttachedAreListed, TypeOK
    <3>10. AttachedAreListed'
      <4>1. \A t \in traced' : \/ thread'[t] = "zombie"
                               \/ thread'[t] = "stopped"
                                  /\ \E k \in i'..Len(list') : t = list'[k]
        BY <3>6, <3>9, Zenon
      <4> QED
        BY <3>1, <3>7, <3>8, <4>1, Zenon DEF AttachedAreListed
    <3>11. PassedAreStill' /\ LoopIsSetUp'
      BY <3>1 DEF PassedAreStill, ReadsStillThreads, LoopIsSetUp
    <3> QED
      BY <3>10, <3>11
  <2>14. CASE Resumed
    BY <2>14, SMTT(30) DEF Resumed, TypeOK, AttachedAreListed, PassedAreStill, ReadsStillThreads, LoopIsSetUp, process, dumper, Passed, Listed
  <2>15. CASE ChildDies
    BY <2>15, SMTT(30) DEF ChildDies, TypeOK, AttachedAreListed, PassedAreStill, ReadsStillThreads, LoopIsSetUp, process, dumper, Passed, Listed
  <2>16. CASE Spawn
    BY <2>16, SMTT(30) DEF Spawn, Runs, TypeOK, AttachedAreListed, PassedAreStill, ReadsStillThreads, LoopIsSetUp, process, dumper, Passed, Listed
  <2>17. CASE Killed
    BY <2>17, SMTT(30) DEF Killed, Live, AfterExit, TypeOK, AttachedAreListed, PassedAreStill, ReadsStillThreads, LoopIsSetUp, process, dumper, Passed, Listed
  <2>18. ASSUME NEW t \in Threads, StartExit(t)
       PROVE  (AttachedAreListed /\ PassedAreStill /\ LoopIsSetUp)'
    BY <2>18, SMTT(30) DEF StartExit, Runs, TypeOK, AttachedAreListed, PassedAreStill, ReadsStillThreads, LoopIsSetUp, process, dumper, Passed, Listed
  <2>19. ASSUME NEW t \in Threads, Exit(t)
       PROVE  (AttachedAreListed /\ PassedAreStill /\ LoopIsSetUp)'
    BY <2>19, SMTT(30) DEF Exit, AfterExit, TypeOK, AttachedAreListed, PassedAreStill, ReadsStillThreads, LoopIsSetUp, process, dumper, Passed, Listed
  <2>20. ASSUME NEW t \in Threads, Stop(t)
       PROVE  (AttachedAreListed /\ PassedAreStill /\ LoopIsSetUp)'
    BY <2>20, SMTT(30) DEF Stop, TypeOK, AttachedAreListed, PassedAreStill, ReadsStillThreads, LoopIsSetUp, process, dumper, Passed, Listed
  <2>21. ASSUME NEW t \in Threads, GroupStop(t)
       PROVE  (AttachedAreListed /\ PassedAreStill /\ LoopIsSetUp)'
    BY <2>21, SMTT(30) DEF GroupStop, TypeOK, AttachedAreListed, PassedAreStill, ReadsStillThreads, LoopIsSetUp, process, dumper, Passed, Listed
  <2>22. CASE UNCHANGED vars
    BY <2>22 DEF TypeOK, AttachedAreListed, PassedAreStill, ReadsStillThreads, LoopIsSetUp, process, dumper, vars, Passed, Listed
  <2> QED
    BY <2>1, <2>2, <2>3, <2>4, <2>5, <2>6, <2>7, <2>8, <2>9, <2>10, <2>11, <2>12, <2>13, <2>14, <2>15, <2>16, <2>17, <2>18, <2>19, <2>20, <2>21, <2>22 DEF Next, Child
<1>3. IInv => ReadsStillThreads /\ LeavesNoneStopped
  BY DEF IInv, AttachedAreListed, PassedAreStill, LeavesNoneStopped
<1> QED
  BY <1>1, <1>2, <1>3, TypeCorrect, PTL DEF Spec, IInv

\* In particular nobody is left stopped: each dumper lets go of what it attached.
THEOREM ResumedTheorem == Spec => []LeavesNoneStopped
BY StillTheorem, PTL
=============================================================================
