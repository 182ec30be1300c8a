--------------------------- MODULE MinidumpWriter ---------------------------
(***************************************************************************)
(* minidump_writer.cc: one dump, from Init to the destructors, onto a       *)
(* MinidumpFile.  Every action allocates at most one block; ftruncate may   *)
(* refuse it, the disk may be full, the child may be killed.  What is       *)
(* dumped is its sizes: the input of a dump is the stopped process.         *)
(***************************************************************************)
EXTENDS MinidumpFile

CONSTANT Inputs   \* the dumps considered

Strings == Seq(0 .. 4)

Input ==
  [threads : Seq(Nat),   \* the lengths of the stacks, 0 for one without mapping
   crashed : Nat,        \* the crashed thread, 0 when it is not listed
   ip      : Nat,        \* bytes around the instruction pointer
   modules : Seq([id : Nat, name : Strings]),
   app     : Seq(Nat \ {0}),      \* RegisterAppMemory
   os      : Strings,
   files   : [1 .. 7 -> Nat],     \* bytes read of each, 0 for none
   dynamic : BOOLEAN,             \* there is a dynamic section
   links   : Seq(Strings),        \* the loaded libraries as they are counted
   later   : Seq(Strings),        \* and as they are written
   byPath  : BOOLEAN,             \* no descriptor was given
   refused : BOOLEAN,             \* Init refuses the process
   kernelBug : BOOLEAN,           \* ftruncate fails with EACCES
   fails   : BOOLEAN]             \* any call of the kernel may fail

ASSUME WriterAssumption == Inputs \subseteq Input

VARIABLES
  input,
  file,      \* minidump_writer_
  pc,
  i,         \* the index of the loop that runs
  list,      \* the object of the stream being written and its block
  dir,       \* the block of the directory
  links,     \* the block of the link maps
  memory,    \* memory_blocks_
  context,   \* crashing_thread_context_
  entries    \* what CopyIndex was called with: a block, or Nowhere for a null entry

vars == <<input, file, pc, i, list, dir, links, memory, context, entries>>
---------------------------------------------------------------------------
(* The format.                                                              *)

NumStreams == 13
Mandatory  == 5

HeaderSize     == 32
EntrySize      == 12
ThreadSize     == 48
ContextSize    == 1232
ModuleSize     == 108
CvHeader       == 4
DescriptorSize == 16
ExceptionSize  == 168
SystemSize     == 56
LinkMapSize    == 20
DebugSize      == 40
DynSize        == 16

\* Mutant: no room for the count.
ListSizeUncounted(n, size) == IF n = 0 THEN Word ELSE n * size

ListSize(n, size) == Word + n * size

NoList == [block |-> Nowhere, object |-> 0]

Init ==
  /\ input \in Inputs
  /\ file = NewFile
  /\ pc = "prepare"
  /\ i = 1
  /\ list = NoList
  /\ dir = Nowhere
  /\ links = Nowhere
  /\ memory = <<>>
  /\ context = Nowhere
  /\ entries = <<>>
---------------------------------------------------------------------------
(* The pieces of a step.                                                    *)

Go(from, to) == pc = from /\ pc' = to

\* ftruncate, when the file has to grow for n bytes.
Granted(n) == ~Grows(file, n) \/ ~input.kernelBug
Refused(n) == Grows(file, n) /\ (input.kernelBug \/ input.fails)

Given(n) == NewBlock(file, n)

\* A block of n bytes that is written at once.
Filled(n) == Copy(Allocate(file, n), Given(n), file.position, n)

\* The destructor of the stream's object.
Flushed(f) ==
  IF list.object = 0 THEN f ELSE Copy(f, list.block, list.block.at, list.object)

\* The end of a stream writer, and CopyIndex with its entry of the directory.
Enter(f, entry) ==
  /\ file' = Copy(Flushed(f), dir, dir.at + Len(entries) * EntrySize, EntrySize)
  /\ entries' = Append(entries, entry)
  /\ list' = NoList

\* Dump returns false; an object whose allocation failed is flushed as well.
Abandon(object) ==
  /\ file' = Flushed(IF object = 0 THEN file ELSE FlushLost(file, object))
  /\ pc' = "failed"
  /\ list' = NoList
  /\ UNCHANGED <<input, i, dir, links, memory, context, entries>>

\* A list of n elements, or its count alone.
StartList(from, to, n, size) ==
  /\ pc = from
  /\ \/ /\ Granted(ListSize(n, size))
        /\ file' = Allocate(file, ListSize(n, size))
        /\ list' = [block |-> Given(ListSize(n, size)), object |-> Word]
        /\ pc' = to
        /\ i' = 1
        /\ UNCHANGED <<input, dir, links, memory, context, entries>>
     \/ Refused(ListSize(n, size)) /\ Abandon(Word)

\* Mutant: one element is not written.
EndListEarly(from, to, n) ==
  /\ i >= n
  /\ Go(from, to)
  /\ Enter(file, list.block)
  /\ i' = 1
  /\ UNCHANGED <<input, dir, links, memory, context>>

EndList(from, to, n) ==
  /\ i > n
  /\ Go(from, to)
  /\ Enter(file, list.block)
  /\ i' = 1
  /\ UNCHANGED <<input, dir, links, memory, context>>

NextElement(from, to) ==
  /\ Go(from, to)
  /\ i' = i + 1
  /\ UNCHANGED <<input, list, dir, links, context, entries>>
---------------------------------------------------------------------------
(* Init, the header and the directory.                                      *)

\* Init: the dumper and open may fail; a process whose crashed thread does not refer
\* to the principal mapping is refused before any file is opened.
Prepare ==
  /\ pc = "prepare"
  /\ \/ /\ ~input.refused
        /\ file' = IF input.byPath THEN Opened(file) ELSE GivenFile(file, input.kernelBug)
        /\ pc' = "header"
     \/ /\ input.fails \/ input.refused
        /\ file' = file
        /\ pc' = "failed"
  /\ UNCHANGED <<input, i, list, dir, links, memory, context, entries>>

WriteHeader ==
  /\ pc = "header"
  /\ \/ /\ Granted(HeaderSize)
        /\ file' = Allocate(file, HeaderSize)
        /\ list' = [block |-> Given(HeaderSize), object |-> HeaderSize]
        /\ pc' = "directory"
        /\ UNCHANGED <<input, i, dir, links, memory, context, entries>>
     \/ Refused(HeaderSize) /\ Abandon(HeaderSize)

\* The header is written when its scope ends, before the first stream.
WriteDirectory ==
  /\ pc = "directory"
  /\ \/ /\ Granted(NumStreams * EntrySize)
        /\ file' = Flushed(Allocate(file, NumStreams * EntrySize))
        /\ dir' = Given(NumStreams * EntrySize)
        /\ list' = NoList
        /\ pc' = "threads"
        /\ UNCHANGED <<input, i, links, memory, context, entries>>
     \/ Refused(NumStreams * EntrySize) /\ Abandon(0)
---------------------------------------------------------------------------
(* WriteThreadListStream.                                                   *)

NumThreads == Len(input.threads)

ThreadList == StartList("threads", "stack", NumThreads, ThreadSize)

\* Memory that is dumped for a thread, and remembered for the memory list.
Remember(from, to, n) ==
  /\ pc = from
  /\ \/ n = 0 /\ pc' = to /\ UNCHANGED <<file, memory>>
     \/ /\ n > 0
        /\ Granted(n)
        /\ file' = Filled(n)
        /\ memory' = Append(memory, Given(n))
        /\ pc' = to

\* FillThreadStack; of another thread than the crashed one the registers are
\* read first.
ThreadStack ==
  /\ i <= NumThreads
  /\ \/ /\ Remember("stack", "ip", input.threads[i])
        /\ UNCHANGED <<input, i, list, dir, links, context, entries>>
     \/ /\ pc = "stack"
        /\ \/ input.threads[i] > 0 /\ Refused(input.threads[i])
           \/ input.fails /\ i # input.crashed
        /\ Abandon(0)

ThreadIp ==
  LET n == IF i = input.crashed THEN input.ip ELSE 0
  IN  \/ /\ Remember("ip", "context", n)
         /\ UNCHANGED <<input, i, list, dir, links, context, entries>>
      \/ pc = "ip" /\ n > 0 /\ Refused(n) /\ Abandon(0)

ThreadContext ==
  \/ /\ Granted(ContextSize)
     /\ Go("context", "stack")
     /\ file' = CopyIndexAfterObject(Filled(ContextSize), list.block, Word, i - 1, ThreadSize)
     /\ context' = IF i = input.crashed THEN Given(ContextSize) ELSE context
     /\ i' = i + 1
     /\ UNCHANGED <<input, list, dir, links, memory, entries>>
  \/ pc = "context" /\ Refused(ContextSize) /\ Abandon(ContextSize)

EndThreads == EndList("stack", "modules", NumThreads)
---------------------------------------------------------------------------
(* WriteMappings and FillRawModule.                                         *)

NumModules == Len(input.modules)

ModuleList == StartList("modules", "cv", NumModules, ModuleSize)

\* The identifier of the file, when one was found.
ModuleId ==
  /\ i <= NumModules
  /\ LET id == input.modules[i].id
         n  == CvHeader + id
     IN  \/ /\ Go("cv", "name")
            /\ \/ id = 0 /\ file' = file
               \/ id > 0 /\ Granted(n) /\ file' = Filled(n)
            /\ UNCHANGED <<input, i, list, dir, links, memory, context, entries>>
         \/ pc = "cv" /\ id > 0 /\ Refused(n) /\ Abandon(0)

\* Mutant: the list is left out like a file is.
ModuleNameOptional ==
  LET s == input.modules[i].name
      b == Given(StringSize(s))
      f == Allocate(file, StringSize(s))
  IN  /\ pc = "name"
      /\ Granted(StringSize(s))
      /\ \/ /\ CanWriteString(f, b, s)
            /\ file' = CopyIndexAfterObject(WriteString(f, b, s), list.block,
                                            Word, i - 1, ModuleSize)
            /\ NextElement("name", "cv")
         \/ /\ ~CanWriteString(f, b, s)
            /\ Enter(WriteString(f, b, s), Nowhere)
            /\ pc' = "app"
            /\ i' = 1
            /\ UNCHANGED <<input, dir, links, context>>
      /\ UNCHANGED memory

\* A name that cannot be written ends the dump.
ModuleName ==
  LET s == input.modules[i].name
      b == Given(StringSize(s))
      f == Allocate(file, StringSize(s))
  IN  \/ /\ pc = "name"
         /\ Granted(StringSize(s))
         /\ \/ /\ CanWriteString(f, b, s)
               /\ file' = CopyIndexAfterObject(WriteString(f, b, s), list.block,
                                               Word, i - 1, ModuleSize)
               /\ NextElement("name", "cv")
               /\ UNCHANGED memory
            \/ /\ ~CanWriteString(f, b, s)
               /\ file' = Flushed(WriteString(f, b, s))
               /\ pc' = "failed"
               /\ list' = NoList
               /\ UNCHANGED <<input, i, dir, links, memory, context, entries>>
      \/ pc = "name" /\ Refused(StringSize(s)) /\ Abandon(Word)

EndModules == EndList("cv", "app", NumModules)
---------------------------------------------------------------------------
(* WriteAppMemory, WriteMemoryListStream, WriteExceptionStream.             *)

AppMemory ==
  /\ i <= Len(input.app)
  /\ \/ /\ Remember("app", "app", input.app[i])
        /\ i' = i + 1
        /\ UNCHANGED <<input, list, dir, links, context, entries>>
     \/ pc = "app" /\ Refused(input.app[i]) /\ Abandon(0)

MemoryList ==
  i > Len(input.app) /\ StartList("app", "memory", Len(memory), DescriptorSize)

MemoryEntry ==
  /\ i <= Len(memory)
  /\ NextElement("memory", "memory")
  /\ file' = CopyIndexAfterObject(file, list.block, Word, i - 1, DescriptorSize)
  /\ UNCHANGED memory

EndMemory == EndList("memory", "exception", Len(memory))

ExceptionStream ==
  \/ /\ Granted(ExceptionSize)
     /\ Go("exception", "system")
     /\ Enter(Filled(ExceptionSize), Given(ExceptionSize))
     /\ UNCHANGED <<input, i, dir, links, memory, context>>
  \/ pc = "exception" /\ Refused(ExceptionSize) /\ Abandon(ExceptionSize)
---------------------------------------------------------------------------
(* WriteSystemInfoStream.                                                   *)

SystemInfo ==
  /\ pc = "system"
  /\ \/ /\ Granted(SystemSize)
        /\ file' = Allocate(file, SystemSize)
        /\ list' = [block |-> Given(SystemSize), object |-> SystemSize]
        /\ pc' = "os"
        /\ UNCHANGED <<input, i, dir, links, memory, context, entries>>
     \/ Refused(SystemSize) /\ Abandon(SystemSize)

\* The stream stands whether or not the name of the system could be written.
OSInformation ==
  LET s == input.os
      f == Allocate(file, StringSize(s))
  IN  /\ Go("os", "file")
      /\ \/ /\ Granted(StringSize(s))
            /\ Enter(WriteString(f, Given(StringSize(s)), s), list.block)
         \/ Refused(StringSize(s)) /\ Enter(FlushLost(file, Word), list.block)
         \/ input.fails /\ Enter(file, list.block)
      /\ UNCHANGED <<input, i, dir, links, memory, context>>
---------------------------------------------------------------------------
(* WriteFile, for the files of /proc and /etc.                              *)

WriteFile ==
  LET n == input.files[Len(entries) - Mandatory + 1]
  IN  /\ Go("file", IF Len(entries) + 2 = NumStreams THEN "dso" ELSE "file")
      /\ \/ n > 0 /\ Granted(n) /\ Enter(Filled(n), Given(n))
         \/ (n = 0 \/ Refused(n)) /\ Enter(file, Nowhere)
      /\ UNCHANGED <<input, i, dir, links, memory, context>>
---------------------------------------------------------------------------
(* WriteDSODebugStream.                                                     *)

\* Mutant: the record is still written.
NoDebugGoesOn(f) ==
  /\ Enter(f, Nowhere)
  /\ pc' = "debug"
  /\ UNCHANGED <<input, i, dir, links, memory, context>>

\* The stream is left out.
NoDebug(f) ==
  /\ Enter(f, Nowhere)
  /\ pc' = "finish"
  /\ UNCHANGED <<input, i, dir, links, memory, context>>

\* The libraries are counted first.
CountLinks ==
  LET n == Len(input.links) * LinkMapSize
  IN  /\ pc = "dso"
      /\ \/ (~input.dynamic \/ input.fails) /\ NoDebug(file)
         \/ input.dynamic /\ n > 0 /\ Refused(n) /\ NoDebug(file)
         \/ /\ input.dynamic
            /\ \/ n = 0 /\ pc' = "debug" /\ UNCHANGED <<file, links>>
               \/ /\ n > 0
                  /\ Granted(n)
                  /\ pc' = "link"
                  /\ file' = Allocate(file, n)
                  /\ links' = Given(n)
            /\ i' = 1
            /\ UNCHANGED <<input, list, dir, memory, context, entries>>

\* And walked again to be written; a link that cannot be read any more ends the
\* stream.
WriteLink ==
  /\ pc = "link"
  /\ i <= Len(input.later)
  /\ LET s == input.later[i]
         b == Given(StringSize(s))
         f == Allocate(file, StringSize(s))
     IN  \/ /\ Granted(StringSize(s))
            /\ \/ /\ CanWriteString(f, b, s)
                  /\ file' = CopyIndexAfterObject(WriteString(f, b, s), links, 0,
                                                  i - 1, LinkMapSize)
                  /\ NextElement("link", "link")
                  /\ UNCHANGED memory
               \/ ~CanWriteString(f, b, s) /\ NoDebug(WriteString(f, b, s))
         \/ Refused(StringSize(s)) /\ NoDebug(FlushLost(file, Word))
         \/ input.fails /\ NoDebug(file)

EndLinks ==
  /\ i > Len(input.later)
  /\ Go("link", "debug")
  /\ UNCHANGED <<input, file, i, list, dir, links, memory, context, entries>>

\* The record and the dynamic section, up to its DT_NULL.
WriteDebug ==
  LET n == DebugSize + DynSize
  IN  /\ pc = "debug"
      /\ \/ /\ Granted(n)
            /\ Enter(Copy(Copy(Allocate(file, n), Given(n), file.position + DebugSize, DynSize),
                          Given(n), file.position, DebugSize), Given(n))
            /\ pc' = "finish"
            /\ UNCHANGED <<input, i, dir, links, memory, context>>
         \/ Refused(n) /\ NoDebug(FlushLost(file, DebugSize))
---------------------------------------------------------------------------
(* The end.                                                                 *)

Finish ==
  /\ Go("finish", "done")
  /\ UNCHANGED <<input, file, i, list, dir, links, memory, context, entries>>

\* What ftruncate may answer when the file is closed.
Truncates == IF input.kernelBug THEN {FALSE} ELSE {TRUE, ~input.fails}

\* Mutant: the destructor closes whatever it holds.
DestroyAll ==
  /\ \/ Go("done", "written")
     \/ Go("failed", "lost")
  /\ \E once \in Truncates : file' = Closed(file, once)
  /\ UNCHANGED <<input, i, list, dir, links, memory, context, entries>>

\* The destructors of the MinidumpWriter, when it was given no descriptor, and of
\* its MinidumpFileWriter.
Destroy ==
  /\ \/ Go("done", "written")
     \/ Go("failed", "lost")
  /\ \E once, again \in Truncates :
       LET f == IF input.byPath THEN Closed(file, once) ELSE file
       IN  file' = IF f.owned THEN Closed(f, again) ELSE f
  /\ UNCHANGED <<input, i, list, dir, links, memory, context, entries>>

DiskFills ==
  /\ input.fails
  /\ ~file.full
  /\ pc \notin {"prepare", "written", "lost", "killed"}
  /\ file' = [file EXCEPT !.full = TRUE]
  /\ UNCHANGED <<input, pc, i, list, dir, links, memory, context, entries>>

Kill ==
  /\ input.fails
  /\ pc \notin {"written", "lost", "killed"}
  /\ pc' = "killed"
  /\ UNCHANGED <<input, file, i, list, dir, links, memory, context, entries>>

Next ==
  \/ Prepare \/ WriteHeader \/ WriteDirectory
  \/ ThreadList \/ ThreadStack \/ ThreadIp \/ ThreadContext \/ EndThreads
  \/ ModuleList \/ ModuleId \/ ModuleName \/ EndModules
  \/ AppMemory \/ MemoryList \/ MemoryEntry \/ EndMemory
  \/ ExceptionStream \/ SystemInfo \/ OSInformation
  \/ WriteFile
  \/ CountLinks \/ WriteLink \/ EndLinks \/ WriteDebug
  \/ Finish \/ Destroy \/ DiskFills \/ Kill

Spec == Init /\ [][Next]_vars
---------------------------------------------------------------------------
(* Properties.                                                              *)

Steps ==
  {"prepare", "header", "directory", "threads", "stack", "ip", "context", "modules",
   "cv", "name", "app", "memory", "exception", "system", "os", "file", "dso", "link",
   "debug", "finish", "done", "failed", "written", "lost", "killed"}

TypeOK ==
  /\ input \in Inputs
  /\ file \in File
  /\ pc \in Steps
  /\ i \in Nat \ {0}
  /\ list.object \in Nat
  /\ {list.block, dir, links, context} \subseteq file.blocks \cup {Nowhere}
  /\ memory \in Seq(file.blocks)
  /\ entries \in Seq(file.blocks \cup {Nowhere})
  /\ Len(entries) <= NumStreams

\* Whatever is refused or fails, no byte of the file belongs to two blocks, and
\* every block was made room for (Allocate, with and without ftruncate).
DisjointBlocks == BlocksAreDisjoint(file)

\* No write leaves the block it is meant for: the loops of the stream writers stay
\* in the lists they announced, strings in the room they asked for.
WritesStayInBlocks == WritesFit(file)

WritesOf(b) == {w \in file.writes : w.block = b.at}

\* From its first byte to its last, one write behind the other.
Whole(b) ==
  /\ \E w \in WritesOf(b) : w.at = b.at
  /\ \A w \in WritesOf(b) : End(w) = End(b) \/ \E v \in WritesOf(b) : v.at = End(w)

\* An entry of the directory stands for a stream all of whose bytes are in the
\* file: a list has as many elements as its count says.
StreamsAreWhole ==
  file.full \/ \A k \in DOMAIN entries : entries[k] = Nowhere \/ Whole(entries[k])

\* "the file descriptor ... Callers might still need to use it": a descriptor that
\* was given stays open; a file opened by path does not, if it can be truncated.
DescriptorIsCallers ==
  pc \in {"written", "lost"} =>
    /\ ~input.byPath => file.fd # "closed"
    /\ input.byPath /\ ~input.kernelBug /\ ~input.fails => file.fd # "open"

LegalName(s) == \A k \in DOMAIN s : s[k] \in 1 .. 3

\* Once Init accepted the process, a dump fails only because a call failed: what it
\* finds there, and a kernel that refuses ftruncate, never end a dump to a given
\* descriptor.  Init refuses one that does not refer to the principal mapping
\* (MinidumpSkippedIfRequested).
HealthyDumpIsWritten ==
  \/ input.fails \/ input.refused
  \/ input.kernelBug /\ input.byPath
  \/ \E k \in DOMAIN input.modules : ~LegalName(input.modules[k].name)
  \/ pc \notin {"failed", "lost"}

\* The k-th entry of the directory was written to the file.
InFile(k) == \E w \in file.writes : w.block = dir.at /\ w.at = dir.at + (k - 1) * EntrySize

\* The promise of MinidumpFormat, about the directory as it is in the file.
directory ==
  [k \in DOMAIN entries |->
     IF ~InFile(k) THEN "missing" ELSE IF entries[k] = Nowhere THEN "null" ELSE "stream"]

outcome == IF pc = "lost" THEN "failed" ELSE IF pc = "written" THEN "written" ELSE "writing"

Format ==
  INSTANCE MinidumpFormat WITH directory <- directory, outcome <- outcome, disk <- file.full

MinidumpFormatSpec == Format!Spec
=============================================================================
