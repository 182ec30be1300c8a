---------------------------- MODULE GenerateDump ----------------------------
(***************************************************************************)
(* exception_handler.cc, GenerateDump: the crashed process clones a child,   *)
(* lets it go on through one pipe, waits for it, and reads the text that    *)
(* minidump_whole_track_writer.cc wrote into a second pipe.  The child has  *)
(* a copy of the memory and of the descriptors (CLONE_FS without CLONE_VM   *)
(* and CLONE_FILES).  Descriptors are numbers, taken lowest first; a pipe    *)
(* call fails when fewer than two are free.                                 *)
(* A crash calls GenerateDump under g_handler_stack_mutex_; WriteMinidump    *)
(* calls it without.  In-process dumps only: this library passes -1 as the  *)
(* server descriptor, so RequestDump is never reached.                      *)
(***************************************************************************)
EXTENDS Integers, FiniteSets, FiniteSetsExt, Sequences

CONSTANTS
  Callers,        \* calls of GenerateDump, by threads of their own
  Nobody,         \* the holder of a free mutex
  Crashes,        \* the calls made by SignalHandler, under the mutex
  Handlers,       \* ExceptionHandler objects, each with its own fdes
  HandlerOf,      \* the handler each call is made on
  Text,           \* what the child of each call writes: two parts with a Caret between
  Caret,          \* HEAD_THREAD, between the two sections of a text
  Nul,            \* the byte that ends a C string
  Fds,            \* descriptor numbers of a process, 0 is stdin
  Capacity,       \* bytes a pipe holds before a write blocks
  NoResources,    \* the stack allocation and clone may fail
  ChildFails,     \* DoDump may fail, or the child may crash in it
  WaitFails,      \* the calls whose waitpid may fail, whether or not the child is over
  MayDie          \* the process may be killed at any time

ASSUME DumpAssumption ==
  /\ Nobody \notin Callers
  /\ Crashes \subseteq Callers
  /\ HandlerOf \in [Callers -> Handlers]
  /\ 0 \in Fds /\ Fds \subseteq Nat
  /\ Capacity \in Nat \ {0}
  /\ \A c \in Callers :
       /\ Text[c] \in Seq({Text[c][i] : i \in DOMAIN Text[c]})
       /\ \A i \in 1..Len(Text[c]) : Text[c][i] # Nul
       /\ \E n \in 2..Len(Text[c]) - 1 : \A i \in 1..Len(Text[c]) : Text[c][i] = Caret <=> i = n
  /\ WaitFails \subseteq Callers
  /\ {NoResources, ChildFails, MayDie} \subseteq BOOLEAN

VARIABLES
  pc,        \* where each call is
  mutex,     \* g_handler_stack_mutex_
  fdes,      \* fdes of every handler
  logs,      \* log_descriptors
  log,       \* the buffer dump2Java reads into, as far as it was written
  table,     \* the process's descriptors: a pipe end, a file of the app, or free
  child,     \* the child of each call: its step, its descriptors, its copies
  data,      \* what is in each pipe
  appFds,    \* descriptors the rest of the app holds open
  result,    \* the success of GenerateDump so far
  told,      \* what whole_callback_ was called with
  exit       \* the process is gone

callVars == <<pc, mutex, result, told>>
memory   == <<fdes, logs, log>>
kernel   == <<table, child, data>>
vars == <<callVars, memory, kernel, appFds, exit>>

CallSteps  == {"idle", "locked", "piped", "logged", "cloned", "closed", "continued",
               "waited", "told", "returned"}
ChildSteps == {"none", "born", "waiting", "dumping", "writing", "over"}

\* A pipe is named by the call that created it and by what it is for.
Pipes == {"continue", "log"} \X Callers
Reader(p) == [pipe |-> p, dir |-> "r"]
Writer(p) == [pipe |-> p, dir |-> "w"]
Ends  == {Reader(p) : p \in Pipes} \cup {Writer(p) : p \in Pipes}
Free  == [pipe |-> <<>>, dir |-> "none"]
File  == [pipe |-> <<>>, dir |-> "file"]
Tables == [Fds -> Ends \cup {Free, File}]
NoFds == [d \in Fds |-> Free]

Pair(r, w) == [read |-> r, write |-> w]
Error == <<"error">>      \* "get native crash info error"
NotTold == <<>>

-----------------------------------------------------------------------------
(* The kernel: descriptors and pipes. *)

FreeIn(tab) == {d \in Fds : tab[d] = Free}

\* The table and the descriptors after pipe() for pipe p succeeded.
PipeInto(tab, p) ==
  LET r == Min(FreeIn(tab))
      w == Min(FreeIn(tab) \ {r})
  IN [table |-> [tab EXCEPT ![r] = Reader(p), ![w] = Writer(p)], pair |-> Pair(r, w)]

CanPipe == Cardinality(FreeIn(table)) >= 2

\* close(): of a number that is no descriptor it has no effect.
Without(tab, ds) == [d \in Fds |-> IF d \in ds THEN Free ELSE tab[d]]

EntryOf(tab, d) == IF d \in Fds THEN tab[d] ELSE Free

\* Some process still has this end of a pipe open.
Held(end) ==
  \/ \E d \in Fds : table[d] = end
  \/ \E c \in Callers, d \in Fds : child[c].table[d] = end

\* read() blocks only on an empty pipe that somebody could still write to.
CanRead(entry) ==
  entry \in Ends /\ entry.dir = "r" => data[entry.pipe] # <<>> \/ ~Held(Writer(entry.pipe))

\* Mutant: one byte short.
TakenShort(entry, n) ==
  IF entry \in Ends /\ entry.dir = "r"
    THEN SubSeq(data[entry.pipe], 1, Min({n - 1, Len(data[entry.pipe])})) ELSE <<>>

\* What read() of at most n bytes takes: nothing at the end of the file, from a
\* file that is not a pipe (stdin is /dev/null), and with EBADF.
Taken(entry, n) ==
  IF entry \in Ends /\ entry.dir = "r"
    THEN SubSeq(data[entry.pipe], 1, Min({n, Len(data[entry.pipe])})) ELSE <<>>
DataAfterRead(entry, n) ==
  IF entry \in Ends /\ entry.dir = "r"
    THEN [data EXCEPT ![entry.pipe] = SubSeq(@, Len(Taken(entry, n)) + 1, Len(@))] ELSE data

\* write() blocks only on a full pipe somebody could still read from.
ReachesPipe(entry) == entry \in Ends /\ entry.dir = "w" /\ Held(Reader(entry.pipe))
CanWrite(entry, bytes) ==
  ReachesPipe(entry) => Len(data[entry.pipe]) + Len(bytes) <= Capacity
DataAfterWrite(entry, bytes) ==
  IF ReachesPipe(entry) THEN [data EXCEPT ![entry.pipe] = @ \o bytes] ELSE data

-----------------------------------------------------------------------------
(* Another thread of the app opens a file, and closes one of its own. *)

OpenFile ==
  /\ ~exit /\ appFds = {0} /\ FreeIn(table) # {}      \* bound: one file at a time
  /\ LET d == Min(FreeIn(table)) IN
       /\ table' = [table EXCEPT ![d] = File]
       /\ appFds' = appFds \cup {d}
  /\ UNCHANGED <<callVars, memory, child, data, exit>>

CloseFile ==
  /\ ~exit
  /\ \E d \in appFds \ {0} :
       /\ table' = Without(table, {d})
       /\ appFds' = appFds \ {d}
  /\ UNCHANGED <<callVars, memory, child, data, exit>>

\* The process is killed: its descriptors are closed, its children live on.
Killed ==
  /\ MayDie /\ ~exit
  /\ exit' = TRUE
  /\ table' = NoFds
  /\ UNCHANGED <<callVars, memory, child, data, appFds>>

-----------------------------------------------------------------------------
(* GenerateDump, in the process.  One action is the code from one system call *)
(* that can block, fail or start the child, up to the next one.               *)

Step(c, from, to) ==
  /\ ~exit /\ pc[c] = from
  /\ pc' = [pc EXCEPT ![c] = to]

\* GenerateDump returns to SignalHandler, which unlocks, or to its caller.
LetGo(c) == mutex' = IF mutex = c THEN Nobody ELSE mutex

Start(c) ==
  /\ Step(c, "idle", "locked")
  /\ c \in Crashes => mutex = Nobody
  /\ mutex' = IF c \in Crashes THEN c ELSE mutex
  /\ UNCHANGED <<memory, kernel, appFds, result, told, exit>>

\* No memory for the stack of the child.
NoStack(c) ==
  /\ NoResources
  /\ Step(c, "locked", "returned")
  /\ LetGo(c)
  /\ UNCHANGED <<memory, kernel, appFds, result, told, exit>>

\* The pipe the child is held back with; without it fdes is made invalid.
MakeContinuePipe(c) ==
  /\ Step(c, "locked", "piped")
  /\ IF CanPipe
       THEN LET made == PipeInto(table, <<"continue", c>>) IN
              /\ table' = made.table
              /\ fdes' = [fdes EXCEPT ![HandlerOf[c]] = made.pair]
       ELSE /\ fdes' = [fdes EXCEPT ![HandlerOf[c]] = Pair(-1, -1)]
            /\ UNCHANGED table
  /\ UNCHANGED <<mutex, logs, log, child, data, appFds, result, told, exit>>

\* The pipe for the text: a failure leaves log_descriptors as they were.
MakeLogPipe(c) ==
  /\ Step(c, "piped", "logged")
  /\ IF CanPipe
       THEN LET made == PipeInto(table, <<"log", c>>) IN
              /\ table' = made.table
              /\ logs' = made.pair
       ELSE UNCHANGED <<table, logs>>
  /\ UNCHANGED <<mutex, fdes, log, child, data, appFds, result, told, exit>>

\* sys_clone: the child gets the descriptors and the memory as they are now.
Clone(c) ==
  /\ Step(c, "logged", "cloned")
  /\ child' = [child EXCEPT ![c] =
       [at |-> "born", table |-> table, fdes |-> fdes[HandlerOf[c]], logs |-> logs,
        ok |-> FALSE]]
  /\ UNCHANGED <<mutex, memory, table, data, appFds, result, told, exit>>

\* sys_clone fails: both ends of fdes are closed.
CloneFails(c) ==
  /\ NoResources
  /\ Step(c, "logged", "returned")
  /\ LetGo(c)
  /\ LET f == fdes[HandlerOf[c]] IN table' = Without(table, {f.read, f.write})
  /\ UNCHANGED <<memory, child, data, appFds, result, told, exit>>

\* The ends that are the child's.
CloseChildEnds(c) ==
  /\ Step(c, "cloned", "closed")
  /\ table' = Without(table, {logs.write, fdes[HandlerOf[c]].read})
  /\ UNCHANGED <<mutex, memory, child, data, appFds, result, told, exit>>

\* Mutant: sends nothing.
SendNothing(c) ==
  /\ Step(c, "closed", "continued")
  /\ UNCHANGED <<mutex, memory, kernel, appFds, result, told, exit>>

\* PR_SET_PTRACER and SendContinueSignalToChild.
SendContinueSignalToChild(c) ==
  /\ Step(c, "closed", "continued")
  /\ LET entry == EntryOf(table, fdes[HandlerOf[c]].write) IN
       /\ CanWrite(entry, <<"a">>)
       /\ data' = DataAfterWrite(entry, <<"a">>)
  /\ UNCHANGED <<mutex, memory, table, child, appFds, result, told, exit>>

\* Mutant: fdes[1] stays open.
WaitAndKeep(c) ==
  /\ Step(c, "continued", "waited")
  /\ UNCHANGED table
  /\ \/ child[c].at = "over" /\ result' = [result EXCEPT ![c] = child[c].ok]
     \/ c \in WaitFails /\ UNCHANGED result
  /\ UNCHANGED <<mutex, memory, child, data, appFds, told, exit>>

\* waitpid returns, and fdes[1] is closed; a wait that fails is a dump that
\* failed, and the child may still be at work.
WaitForChild(c) ==
  /\ Step(c, "continued", "waited")
  /\ table' = Without(table, {fdes[HandlerOf[c]].write})
  /\ \/ child[c].at = "over" /\ result' = [result EXCEPT ![c] = child[c].ok]
     \/ c \in WaitFails /\ UNCHANGED result
  /\ UNCHANGED <<mutex, memory, child, data, appFds, told, exit>>

\* The buffer as a C string, and the sections SplitChar finds in it.
Visible(buffer) ==
  SubSeq(buffer, 1, Min({i \in 1..Len(buffer) : buffer[i] = Nul} \cup {Len(buffer) + 1}) - 1)
Sections(s) ==
  {r \in (1..Len(s)) \X (1..Len(s)) :
     /\ r[1] <= r[2]
     /\ \A n \in r[1]..r[2] : s[n] # Caret
     /\ r[1] = 1 \/ s[r[1] - 1] = Caret
     /\ r[2] = Len(s) \/ s[r[2] + 1] = Caret}
Report(s) ==
  IF Cardinality(Sections(s)) # 2 THEN <<Error, Error>>
  ELSE LET first  == CHOOSE r \in Sections(s) : \A q \in Sections(s) : r[1] <= q[1]
           second == CHOOSE r \in Sections(s) : r # first
       IN <<SubSeq(s, first[1], first[2]), SubSeq(s, second[1], second[2])>>

\* dump2Java: read() over what an earlier dump left in the buffer, strtok() that
\* ends each section with a Nul, and whole_callback_.
Dump2Java(c) ==
  /\ Step(c, "waited", "told")
  /\ IF ~result[c] THEN UNCHANGED <<data, log, told>>
     ELSE LET entry == EntryOf(table, logs.read)
              text  == Taken(entry, Capacity)
              filled == text \o SubSeq(log, Len(text) + 1, Len(log))
              seen  == Visible(filled)
          IN /\ CanRead(entry)
             /\ data' = DataAfterRead(entry, Capacity)
             /\ log' = [i \in 1..Len(filled) |->
                          IF i <= Len(seen) /\ filled[i] = Caret THEN Nul ELSE filled[i]]
             /\ told' = [told EXCEPT ![c] = Report(seen)]
  /\ UNCHANGED <<mutex, fdes, logs, table, child, appFds, result, exit>>

\* Mutant: closes fdes[0] once more.
CloseAgain(c) ==
  /\ Step(c, "told", "returned")
  /\ LetGo(c)
  /\ table' = Without(table, {logs.read, fdes[HandlerOf[c]].read})
  /\ UNCHANGED <<memory, child, data, appFds, result, told, exit>>

CloseLog(c) ==
  /\ Step(c, "told", "returned")
  /\ LetGo(c)
  /\ table' = Without(table, {logs.read})
  /\ UNCHANGED <<memory, child, data, appFds, result, told, exit>>

-----------------------------------------------------------------------------
(* The child. *)

InChild(c, from, to, tab, ok) ==
  /\ child[c].at = from
  /\ child' = [child EXCEPT ![c].at = to, ![c].table = tab, ![c].ok = ok]
  /\ UNCHANGED <<callVars, memory, table, appFds, exit>>

\* Mutant: the child keeps its copy of the write end.
ThreadEntryKeeps(c) ==
  /\ InChild(c, "born", "waiting", child[c].table, FALSE)
  /\ UNCHANGED data

\* ThreadEntry closes its copy of the write end, to see the parent die.
ThreadEntry(c) ==
  /\ InChild(c, "born", "waiting", Without(child[c].table, {child[c].fdes.write}), FALSE)
  /\ UNCHANGED data

\* The byte, the end of the file or an error: each lets the child go on.
WaitForContinueSignal(c) ==
  LET entry == EntryOf(child[c].table, child[c].fdes.read) IN
  /\ InChild(c, "waiting", "dumping", Without(child[c].table, {child[c].fdes.read}), FALSE)
  /\ CanRead(entry)
  /\ data' = DataAfterRead(entry, 1)

\* DoDump as far as the text, which needs a process to attach to.
DoDump(c) ==
  /\ ~exit
  /\ InChild(c, "dumping", "writing", child[c].table, FALSE)
  /\ UNCHANGED data

\* DoDump returns false, or the child dies on the way.
DoDumpFails(c) ==
  /\ ChildFails \/ exit
  /\ InChild(c, "dumping", "over", NoFds, FALSE)
  /\ UNCHANGED data

\* Mutant: the terminating Nul is written too, beyond what was reckoned with.
WriteTextAndNul(c) ==
  LET tab   == Without(child[c].table, {child[c].logs.read})
      entry == EntryOf(tab, child[c].logs.write)
  IN /\ InChild(c, "writing", "over", NoFds, TRUE)
     /\ CanWrite(entry, Text[c])
     /\ data' = DataAfterWrite(entry, Append(Text[c], Nul))

\* Dump() of MinidumpWholeWriter: its own copy of the read end is closed before
\* the write; the result of the write is not looked at.
WriteText(c) ==
  LET tab   == Without(child[c].table, {child[c].logs.read})
      entry == EntryOf(tab, child[c].logs.write)
  IN /\ InChild(c, "writing", "over", NoFds, TRUE)
     /\ CanWrite(entry, Text[c])
     /\ data' = DataAfterWrite(entry, Text[c])

-----------------------------------------------------------------------------

Init ==
  /\ pc = [c \in Callers |-> "idle"]
  /\ mutex = Nobody
  /\ fdes = [h \in Handlers |-> Pair(-1, -1)]
  /\ logs = Pair(0, 0)
  /\ log = <<>>
  /\ table = [NoFds EXCEPT ![0] = File]
  /\ child = [c \in Callers |-> [at |-> "none", table |-> NoFds, fdes |-> Pair(-1, -1),
                                 logs |-> Pair(0, 0), ok |-> FALSE]]
  /\ data = [p \in Pipes |-> <<>>]
  /\ appFds = {0}
  /\ result = [c \in Callers |-> FALSE]
  /\ told = [c \in Callers |-> NotTold]
  /\ exit = FALSE

\* A step of a call that has begun.
GoOn(c) ==
  \/ NoStack(c) \/ MakeContinuePipe(c) \/ MakeLogPipe(c) \/ Clone(c)
  \/ CloneFails(c) \/ CloseChildEnds(c) \/ SendContinueSignalToChild(c) \/ WaitForChild(c)
  \/ Dump2Java(c) \/ CloseLog(c)

CallStep(c) == Start(c) \/ GoOn(c)

ChildStep(c) ==
  \/ ThreadEntry(c) \/ WaitForContinueSignal(c) \/ DoDump(c) \/ DoDumpFails(c)
  \/ WriteText(c)

Finished ==
  /\ exit \/ \A c \in Callers : pc[c] = "returned"
  /\ \A c \in Callers : child[c].at \in {"none", "over"}
  /\ UNCHANGED vars

Next ==
  \/ \E c \in Callers : CallStep(c)
  \/ \E c \in Callers : ChildStep(c)
  \/ OpenFile \/ CloseFile \/ Killed
  \/ Finished

Spec == Init /\ [][Next]_vars

\* A call that has begun and a child are scheduled when they can go on; nobody has
\* to crash or to ask for a dump.
FairSpec ==
  /\ Spec
  /\ \A c \in Callers : WF_vars(GoOn(c)) /\ WF_vars(ChildStep(c))

-----------------------------------------------------------------------------

TypeOK ==
  /\ pc \in [Callers -> CallSteps]
  /\ mutex \in Callers \cup {Nobody}
  /\ fdes \in [Handlers -> [read : Fds \cup {-1}, write : Fds \cup {-1}]]
  /\ logs \in [read : Fds, write : Fds]
  /\ table \in Tables
  /\ child \in [Callers -> [at : ChildSteps, table : Tables, ok : BOOLEAN,
                            fdes : [read : Fds \cup {-1}, write : Fds \cup {-1}],
                            logs : [read : Fds, write : Fds]]]
  /\ \A p \in Pipes : Len(data[p]) <= Capacity
  /\ appFds \subseteq Fds
  /\ result \in [Callers -> BOOLEAN]
  /\ exit \in BOOLEAN

\* GenerateDump closes no descriptor but its own: what the rest of the app has
\* open stays open.
AppKeepsFiles == exit \/ \A d \in appFds : table[d] = File

\* When every call has returned, the process has lost no descriptor but the log
\* pipe of the calls that could not clone.
Returned == ~exit /\ \A c \in Callers : pc[c] = "returned"
NothingLeaks ==
  Returned =>
    \A d \in Fds : table[d] \in Ends =>
      table[d].pipe[1] = "log" /\ child[table[d].pipe[2]].at = "none"

\* What a crash tells Java is about that crash: the first section is the one its
\* own child wrote, and the second starts with its own.  What follows there is what
\* an earlier and longer text left in the buffer at that very place (read() neither
\* clears the buffer nor ends the string): where no text told so far is longer than
\* this one, the second section is exactly its own.
Halves(c) == LET n == CHOOSE i \in 1..Len(Text[c]) : Text[c][i] = Caret IN
  <<SubSeq(Text[c], 1, n - 1), SubSeq(Text[c], n + 1, Len(Text[c]))>>
LeftBy(b, place, byte) ==
  told[b] # NotTold /\ place \in 1..Len(Text[b]) /\ byte = Text[b][place]
ReportIsOwn ==
  \A c \in Callers : told[c] # NotTold =>
    LET own == Halves(c)[2] IN
    /\ told[c][1] = Halves(c)[1]
    /\ SubSeq(told[c][2], 1, Len(own)) = own
    /\ \A k \in Len(own) + 1..Len(told[c][2]) :
         \E b \in Callers : LeftBy(b, Len(Text[c]) - Len(own) + k, told[c][2][k])

\* A dump that starts comes to its end: the parent in waitpid and the child in
\* read() and write() never wait for each other.
DumpReturns == \A c \in Callers : (pc[c] = "locked") ~> (pc[c] = "returned" \/ exit)

\* "This allows us to fail if the parent dies while waiting for the continue
\* signal": no child outlives the process for good.
OrphansEnd == \A c \in Callers : (exit /\ child[c].at # "none") ~> (child[c].at = "over")
=============================================================================
