------------------------ MODULE MinidumpWriterProofs ------------------------
(* Proofs about MinidumpWriter, for any inputs, page size and build.         *)
EXTENDS MinidumpWriter, MinidumpFileProofs, TLAPS

---------------------------------------------------------------------------
(* The invariant.                                                            *)

Entry == [at : Nat, len : Nat]

\* How far the directory is at each step.
Counted ==
  /\ pc \in {"prepare", "header", "directory", "threads", "stack", "ip", "context"}
       => Len(entries) = 0
  /\ pc \in {"modules", "cv", "name"} => Len(entries) = 1
  /\ pc \in {"app", "memory"} => Len(entries) = 2
  /\ pc = "exception" => Len(entries) = 3
  /\ pc \in {"system", "os"} => Len(entries) = 4
  /\ pc = "file" => Len(entries) \in 5 .. 11
  /\ pc \in {"dso", "link", "debug"} => Len(entries) = 12
  /\ pc \in {"finish", "done", "written"} => Len(entries) = 13

\* The streams a reader cannot do without.
MandatoryAreThere ==
  \A k \in 1 .. Len(entries) : k <= Mandatory => entries[k] # Nowhere

\* Everything but the file.
Rest ==
  /\ input \in Inputs
  /\ pc \in Steps
  /\ i \in Nat \ {0}
  /\ pc = "name" => i <= Len(input.modules)
  /\ list \in [block : Entry, object : Nat]
  /\ pc \in {"stack", "ip", "context", "cv", "name", "memory", "os"} => list.block # Nowhere
  /\ memory \in Seq(Entry)
  /\ entries \in Seq(Entry)
  /\ Counted
  /\ MandatoryAreThere

IInv == Sound(file) /\ Rest

\* What the input at hand is, and that each of its strings takes room.
LEMMA InputFacts ==
  ASSUME input \in Inputs
  PROVE  /\ input \in Input
         /\ \A k \in DOMAIN input.modules : StringSize(input.modules[k].name) \in Nat \ {0}
         /\ \A k \in DOMAIN input.links : StringSize(input.links[k]) \in Nat \ {0}
         /\ \A k \in DOMAIN input.later : StringSize(input.later[k]) \in Nat \ {0}
         /\ StringSize(input.os) \in Nat \ {0}
<1>1. input \in Input
  BY WriterAssumption
<1>2. \A s \in Strings : StringSize(s) \in Nat \ {0}
  BY StringSizePositive DEF Strings
<1>3. ASSUME NEW k \in DOMAIN input.modules PROVE input.modules[k].name \in Strings
  <2> DEFINE Module == [id : Nat, name : Strings]
  <2>1. input.modules \in Seq(Module)
    BY <1>1 DEF Input
  <2> HIDE DEF Module
  <2>2. input.modules[k] \in Module
    BY <2>1
  <2> QED
    BY <2>2 DEF Module
<1>4. /\ \A k \in DOMAIN input.links : input.links[k] \in Strings
      /\ \A k \in DOMAIN input.later : input.later[k] \in Strings
      /\ input.os \in Strings
  <2>1. input.links \in Seq(Strings) /\ input.later \in Seq(Strings) /\ input.os \in Strings
    BY <1>1 DEF Input
  <2> HIDE DEF Strings
  <2> QED
    BY <2>1
<1> QED
  BY <1>1, <1>2, <1>3, <1>4

LEMMA GivenEntry ==
  ASSUME Sound(file), NEW n \in Nat \ {0}
  PROVE  Given(n) \in Entry /\ Given(n) # Nowhere
<1>1. Given(n) = [at |-> file.position, len |-> n]
  BY DEF Given, NewBlock
<1>2. Given(n).len # Nowhere.len
  BY <1>1 DEF Nowhere
<1> QED
  BY <1>1, <1>2 DEF Sound, Entry

LEMMA FilledSound ==
  ASSUME Sound(file), NEW n \in Nat \ {0}
  PROVE  Sound(Filled(n))
BY AllocateSound, CopySound DEF Filled

LEMMA FlushedSound ==
  ASSUME NEW f, Sound(f)
  PROVE  Sound(Flushed(f))
BY CopySound DEF Flushed

LEMMA NowhereIsEntry == Nowhere \in Entry /\ NoList \in [block : Entry, object : Nat]
BY DEF Nowhere, Entry, NoList

\* Enter: one entry more, and never a null among the first five.
LEMMA EnterKeeps ==
  ASSUME Rest, NEW f, Sound(f), NEW entry \in Entry, Enter(f, entry),
         Len(entries) < Mandatory => entry # Nowhere
  PROVE  /\ Sound(file')
         /\ entries' \in Seq(Entry)
         /\ Len(entries') = Len(entries) + 1
         /\ MandatoryAreThere'
         /\ list' = NoList
         /\ list' \in [block : Entry, object : Nat]
<1>1. Sound(file')
  BY FlushedSound, CopySound DEF Enter
<1>2. entries' = Append(entries, entry) /\ entries \in Seq(Entry)
  BY DEF Enter, Rest
<1>3. entries' \in Seq(Entry) /\ Len(entries') = Len(entries) + 1
  BY <1>2
<1>4. ASSUME NEW k \in 1 .. Len(entries'), k <= Mandatory
      PROVE  entries'[k] # Nowhere
  <2>1. CASE k <= Len(entries)
    <3>1. entries'[k] = entries[k]
      BY <1>2, <2>1
    <3> QED
      BY <1>2, <1>4, <2>1, <3>1 DEF Rest, MandatoryAreThere
  <2>2. CASE k = Len(entries) + 1
    <3>1. entries'[k] = entry
      BY <1>2, <2>2
    <3> QED
      BY <1>2, <1>4, <2>2, <3>1 DEF Mandatory
  <2> QED
    BY <1>2, <1>3, <1>4, <2>1, <2>2
<1> QED
  BY <1>1, <1>3, <1>4, NowhereIsEntry DEF Enter, MandatoryAreThere

LEMMA AbandonKeeps ==
  ASSUME IInv, NEW object, Abandon(object)
  PROVE  IInv'
<1>1. Sound(file')
  BY FlushedSound, FlushLostSound DEF Abandon, IInv
<1>2. Rest'
  BY NowhereIsEntry DEF Abandon, IInv, Rest, Counted, MandatoryAreThere, Steps
<1> QED
  BY <1>1, <1>2 DEF IInv

LEMMA NoDebugKeeps ==
  ASSUME IInv, NEW f, Sound(f), pc \in {"dso", "link", "debug"}, NoDebug(f)
  PROVE  IInv'
<1>1. Len(entries) = 12 /\ Rest
  BY DEF IInv, Rest, Counted
<1>2. /\ Enter(f, Nowhere) /\ pc' = "finish"
      /\ UNCHANGED <<input, i, dir, links, memory, context>>
  BY DEF NoDebug
<1>3. Len(entries) < Mandatory => Nowhere # Nowhere
  BY <1>1 DEF Mandatory
<1>4. /\ Sound(file') /\ entries' \in Seq(Entry) /\ Len(entries') = Len(entries) + 1
      /\ MandatoryAreThere' /\ list' \in [block : Entry, object : Nat]
  BY <1>1, <1>2, <1>3, EnterKeeps, NowhereIsEntry
<1>5. Counted'
  BY <1>1, <1>2, <1>4 DEF Counted
<1>6. Rest'
  BY <1>1, <1>2, <1>4, <1>5 DEF Rest, Steps
<1> QED
  BY <1>4, <1>6 DEF IInv

LEMMA StartListKeeps ==
  ASSUME IInv, NEW from, NEW to, NEW n \in Nat, NEW size \in Nat,
         <<from, to>> \in {<<"threads", "stack">>, <<"modules", "cv">>, <<"app", "memory">>},
         StartList(from, to, n, size)
  PROVE  IInv'
<1>1. ListSize(n, size) \in Nat \ {0}
  <2>1. n * size \in Nat
    OBVIOUS
  <2> QED
    BY <2>1 DEF ListSize, Word
<1>2. CASE Refused(ListSize(n, size)) /\ Abandon(Word)
  BY <1>2, AbandonKeeps
<1>3. CASE ~(Refused(ListSize(n, size)) /\ Abandon(Word))
  <2>1. /\ pc = from /\ pc' = to
        /\ file' = Allocate(file, ListSize(n, size))
        /\ list' = [block |-> Given(ListSize(n, size)), object |-> Word]
        /\ i' = 1
        /\ UNCHANGED <<input, dir, links, memory, context, entries>>
    BY <1>3 DEF StartList
  <2>2. Sound(file')
    BY <1>1, <2>1, AllocateSound DEF IInv
  <2>3. Given(ListSize(n, size)) \in Entry /\ Given(ListSize(n, size)) # Nowhere
    BY <1>1, GivenEntry DEF IInv
  <2>4. list' \in [block : Entry, object : Nat] /\ list'.block # Nowhere
    BY <2>1, <2>3 DEF Word
  <2>5. Rest'
    BY <2>1, <2>4 DEF IInv, Rest, Counted, MandatoryAreThere, Steps
  <2> QED
    BY <2>2, <2>5 DEF IInv
<1> QED
  BY <1>2, <1>3

LEMMA EndListKeeps ==
  ASSUME IInv, NEW from, NEW to, NEW n,
         <<from, to>> \in {<<"stack", "modules">>, <<"cv", "app">>, <<"memory", "exception">>},
         EndList(from, to, n)
  PROVE  IInv'
<1>1. /\ pc = from /\ pc' = to /\ i' = 1
      /\ Enter(file, list.block)
      /\ UNCHANGED <<input, dir, links, memory, context>>
  BY DEF EndList, Go
<1>2. list.block \in Entry /\ list.block # Nowhere
  BY <1>1 DEF IInv, Rest
<1>3. /\ Sound(file') /\ entries' \in Seq(Entry) /\ Len(entries') = Len(entries) + 1
      /\ MandatoryAreThere' /\ list' \in [block : Entry, object : Nat]
  BY <1>1, <1>2, EnterKeeps DEF IInv
<1>4. \/ pc = "stack" /\ pc' = "modules"
      \/ pc = "cv" /\ pc' = "app"
      \/ pc = "memory" /\ pc' = "exception"
  BY <1>1
<1>5. /\ Len(entries) \in Nat
      /\ pc = "stack" => Len(entries) = 0
      /\ pc = "cv" => Len(entries) = 1
      /\ pc = "memory" => Len(entries) = 2
  BY DEF IInv, Rest, Counted
<1>6. Counted'
  <2>1. CASE pc = "stack" /\ pc' = "modules"
    <3>1. Len(entries) = 0
      BY <1>5, <2>1
    <3>2. Len(entries') = 1
      BY <1>3, <3>1
    <3> QED
      BY <2>1, <3>2 DEF Counted
  <2>2. CASE pc = "cv" /\ pc' = "app"
    <3>1. Len(entries) = 1
      BY <1>5, <2>2
    <3>2. Len(entries') = 2
      BY <1>3, <3>1
    <3> QED
      BY <2>2, <3>2 DEF Counted
  <2>3. CASE pc = "memory" /\ pc' = "exception"
    <3>1. Len(entries) = 2
      BY <1>5, <2>3
    <3>2. Len(entries') = 3
      BY <1>3, <3>1
    <3> QED
      BY <2>3, <3>2 DEF Counted
  <2> QED
    BY <1>4, <2>1, <2>2, <2>3
<1>7. Rest'
  BY <1>1, <1>3, <1>4, <1>6 DEF IInv, Rest, Steps
<1> QED
  BY <1>3, <1>7 DEF IInv

LEMMA RememberKeeps ==
  ASSUME IInv, NEW from, NEW to, NEW n \in Nat, Remember(from, to, n)
  PROVE  Sound(file') /\ memory' \in Seq(Entry) /\ pc = from /\ pc' = to
<1>1. CASE n = 0
  BY <1>1 DEF Remember, IInv, Rest
<1>2. CASE n > 0
  <2>1. n \in Nat \ {0}
    BY <1>2
  <2>2. file' = Filled(n) /\ memory' = Append(memory, Given(n)) /\ pc = from /\ pc' = to
    BY <1>2 DEF Remember
  <2>3. Given(n) \in Entry
    BY <2>1, GivenEntry DEF IInv
  <2>4. memory' \in Seq(Entry)
    BY <2>2, <2>3 DEF IInv, Rest
  <2> QED
    BY <2>1, <2>2, <2>4, FilledSound DEF IInv
<1> QED
  BY <1>1, <1>2

\* A step that leaves the directory and the list alone, within one stream.
LEMMA WithinKeeps ==
  ASSUME IInv, Sound(file'), input' = input, list' = list, entries' = entries,
         memory' \in Seq(Entry), i' \in Nat \ {0},
         \/ pc = "stack" /\ pc' = "ip"
         \/ pc = "ip" /\ pc' = "context"
         \/ pc = "context" /\ pc' = "stack"
         \/ pc = "cv" /\ pc' = "name" /\ i' <= Len(input.modules)
         \/ pc = "name" /\ pc' = "cv"
         \/ pc = "app" /\ pc' = "app"
         \/ pc = "memory" /\ pc' = "memory"
         \/ pc = "dso" /\ pc' \in {"debug", "link"}
         \/ pc = "link" /\ pc' \in {"link", "debug"}
         \/ pc = "finish" /\ pc' = "done"
         \/ pc = "done" /\ pc' = "written"
         \/ pc \in {"prepare", "failed"} /\ pc' \in {"failed", "lost"}
         \/ pc' = "killed"
         \/ pc # "name" /\ pc' = pc
         \/ pc' = pc /\ i' = i
  PROVE  IInv'
<1>1. Counted'
  BY DEF IInv, Rest, Counted
<1>2. MandatoryAreThere'
  BY DEF IInv, Rest, MandatoryAreThere
<1>3. pc' \in Steps
  BY DEF IInv, Rest, Steps
<1>4. pc' = "name" => i' <= Len(input'.modules)
  BY DEF IInv, Rest
<1>5. pc' \in {"stack", "ip", "context", "cv", "name", "memory", "os"} => list'.block # Nowhere
  BY DEF IInv, Rest
<1> QED
  BY <1>1, <1>2, <1>3, <1>4, <1>5 DEF IInv, Rest

\* The sizes that are written are positive.
LEMMA Sizes ==
  {HeaderSize, NumStreams * EntrySize, ContextSize, ExceptionSize, SystemSize,
   DebugSize + DynSize} \subseteq Nat \ {0}
BY DEF HeaderSize, NumStreams, EntrySize, ContextSize, ExceptionSize, SystemSize,
       DebugSize, DynSize
---------------------------------------------------------------------------
(* One lemma for every part of a dump.                                       *)

LEMMA PrepareKeeps == ASSUME IInv, Prepare PROVE IInv'
<1>1. Sound(file')
  <2>1. Sound(Opened(file))
    <3> DEFINE g == [file EXCEPT !.fd = "open"]
    <3>1. DOMAIN g = Fields /\ g = [x \in Fields |-> g[x]]
      BY DEF IInv, Sound, Fields
    <3>2. g.position = file.position /\ g.size = file.size /\ g.blocks = file.blocks
      BY DEF IInv, Sound, Fields
    <3>3. Opened(file) = g
      BY DEF Opened
    <3> HIDE DEF g
    <3> QED
      BY <3>1, <3>2, <3>3, SameBlocksSound DEF IInv
  <2>2. Sound(GivenFile(file, input.kernelBug))
    <3> DEFINE g == [file EXCEPT !.fd = "open", !.owned = FALSE, !.bypass = input.kernelBug]
    <3>1. DOMAIN g = Fields /\ g = [x \in Fields |-> g[x]]
      BY DEF IInv, Sound, Fields
    <3>2. g.position = file.position /\ g.size = file.size /\ g.blocks = file.blocks
      BY DEF IInv, Sound, Fields
    <3>3. GivenFile(file, input.kernelBug) = g
      BY DEF GivenFile
    <3> HIDE DEF g
    <3> QED
      BY <3>1, <3>2, <3>3, SameBlocksSound DEF IInv
  <2> QED
    BY <2>1, <2>2 DEF Prepare, IInv
<1>2. Rest'
  BY DEF Prepare, IInv, Rest, Counted, MandatoryAreThere, Steps
<1> QED
  BY <1>1, <1>2 DEF IInv

LEMMA HeaderKeeps == ASSUME IInv, WriteHeader \/ WriteDirectory PROVE IInv'
<1>1. CASE WriteHeader
  <2>1. HeaderSize \in Nat \ {0}
    BY Sizes
  <2>2. CASE Refused(HeaderSize) /\ Abandon(HeaderSize)
    BY <2>2, AbandonKeeps
  <2>3. CASE ~(Refused(HeaderSize) /\ Abandon(HeaderSize))
    <3>1. /\ pc = "header" /\ pc' = "directory" /\ file' = Allocate(file, HeaderSize)
          /\ list' = [block |-> Given(HeaderSize), object |-> HeaderSize]
          /\ UNCHANGED <<input, i, dir, links, memory, context, entries>>
      BY <1>1, <2>3 DEF WriteHeader
    <3>2. Sound(file') /\ Given(HeaderSize) \in Entry
      BY <2>1, <3>1, AllocateSound, GivenEntry DEF IInv
    <3>3. list' \in [block : Entry, object : Nat]
      BY <2>1, <3>1, <3>2
    <3>4. Rest'
      BY <3>1, <3>3 DEF IInv, Rest, Counted, MandatoryAreThere, Steps
    <3> QED
      BY <3>2, <3>4 DEF IInv
  <2> QED
    BY <2>2, <2>3
<1>2. CASE WriteDirectory
  <2>1. NumStreams * EntrySize \in Nat \ {0}
    BY Sizes
  <2>2. CASE Refused(NumStreams * EntrySize) /\ Abandon(0)
    BY <2>2, AbandonKeeps
  <2>3. CASE ~(Refused(NumStreams * EntrySize) /\ Abandon(0))
    <3>1. /\ pc = "directory" /\ pc' = "threads"
          /\ file' = Flushed(Allocate(file, NumStreams * EntrySize))
          /\ list' = NoList
          /\ UNCHANGED <<input, i, links, memory, context, entries>>
      BY <1>2, <2>3 DEF WriteDirectory
    <3>2. Sound(file')
      BY <2>1, <3>1, AllocateSound, FlushedSound DEF IInv
    <3>3. Rest'
      BY <3>1, NowhereIsEntry DEF IInv, Rest, Counted, MandatoryAreThere, Steps
    <3> QED
      BY <3>2, <3>3 DEF IInv
  <2> QED
    BY <2>2, <2>3
<1> QED
  BY <1>1, <1>2

LEMMA ThreadsKeep ==
  ASSUME IInv, ThreadList \/ ThreadStack \/ ThreadIp \/ ThreadContext \/ EndThreads
  PROVE  IInv'
<1>1. input \in Input /\ i \in Nat \ {0} /\ memory \in Seq(Entry)
  BY InputFacts DEF IInv, Rest
<1>2. CASE ThreadList
  <2>1. NumThreads \in Nat /\ ThreadSize \in Nat
    BY <1>1 DEF NumThreads, Input, ThreadSize
  <2> QED
    BY <1>2, <2>1, StartListKeeps DEF ThreadList
<1>3. CASE ThreadStack
  <2>1. i <= Len(input.threads) /\ input.threads \in Seq(Nat)
    BY <1>1, <1>3 DEF ThreadStack, NumThreads, Input
  <2>4. input.threads[i] \in Nat
    BY <1>1, <2>1
  <2>2. CASE Remember("stack", "ip", input.threads[i])
             /\ UNCHANGED <<input, i, list, dir, links, context, entries>>
    <3>1. Sound(file') /\ memory' \in Seq(Entry) /\ pc = "stack" /\ pc' = "ip"
      BY <2>2, <2>4, RememberKeeps
    <3> QED
      BY <1>1, <2>2, <3>1, WithinKeeps
  <2>3. CASE Abandon(0)
    BY <2>3, AbandonKeeps
  <2> QED
    BY <1>3, <2>2, <2>3 DEF ThreadStack
<1>4. CASE ThreadIp
  <2> DEFINE n == IF i = input.crashed THEN input.ip ELSE 0
  <2>1. n \in Nat
    BY <1>1 DEF Input
  <2>2. CASE Remember("ip", "context", n)
             /\ UNCHANGED <<input, i, list, dir, links, context, entries>>
    <3> HIDE DEF n
    <3>1. Sound(file') /\ memory' \in Seq(Entry) /\ pc = "ip" /\ pc' = "context"
      BY <2>1, <2>2, RememberKeeps
    <3> QED
      BY <1>1, <2>2, <3>1, WithinKeeps
  <2>3. CASE Abandon(0)
    BY <2>3, AbandonKeeps
  <2> QED
    BY <1>4, <2>2, <2>3 DEF ThreadIp
<1>5. CASE ThreadContext
  <2>1. CASE Refused(ContextSize) /\ Abandon(ContextSize)
    BY <2>1, AbandonKeeps
  <2>2. CASE ~(Refused(ContextSize) /\ Abandon(ContextSize))
    <3>1. /\ pc = "context" /\ pc' = "stack" /\ i' = i + 1
          /\ file' = CopyIndexAfterObject(Filled(ContextSize), list.block, Word, i - 1, ThreadSize)
          /\ UNCHANGED <<input, list, dir, links, memory, entries>>
      BY <1>5, <2>2 DEF ThreadContext, Go
    <3>2. Sound(Filled(ContextSize))
      BY Sizes, FilledSound DEF IInv
    <3>3. Sound(file')
      BY <3>1, <3>2, CopySound DEF CopyIndexAfterObject
    <3>4. i' \in Nat \ {0}
      BY <1>1, <3>1
    <3> QED
      BY <1>1, <3>1, <3>3, <3>4, WithinKeeps
  <2> QED
    BY <2>1, <2>2
<1>6. CASE EndThreads
  BY <1>6, EndListKeeps DEF EndThreads
<1> QED
  BY <1>2, <1>3, <1>4, <1>5, <1>6

\* A string that is written whole ends an element of its list.
LEMMA StringGiven ==
  ASSUME Sound(file), NEW s, StringSize(s) \in Nat \ {0}, NEW b
  PROVE  /\ Sound(Allocate(file, StringSize(s)))
         /\ Sound(WriteString(Allocate(file, StringSize(s)), b, s))
BY AllocateSound, WriteStringSound

LEMMA ModuleIdKeeps == ASSUME IInv, ModuleId PROVE IInv'
<1>1. input \in Input /\ i \in Nat \ {0} /\ memory \in Seq(Entry)
  BY InputFacts DEF IInv, Rest
<1> DEFINE Module == [id : Nat, name : Strings]
           n == CvHeader + input.modules[i].id
<1>2. i <= Len(input.modules) /\ input.modules \in Seq(Module)
  BY <1>1 DEF ModuleId, NumModules, Input
<1>3. input.modules[i] \in Module
  <2> HIDE DEF Module
  <2> QED
    BY <1>1, <1>2
<1>10. input.modules[i].id \in Nat
  BY <1>3
<1>4. n \in Nat \ {0}
  BY <1>10 DEF CvHeader
<1> HIDE DEF n
<1>5. CASE Abandon(0)
  BY <1>5, AbandonKeeps
<1>6. CASE ~Abandon(0)
  <2>1. /\ pc = "cv" /\ pc' = "name"
        /\ file' \in {file, Filled(n)}
        /\ UNCHANGED <<input, i, list, dir, links, memory, context, entries>>
    BY <1>6 DEF ModuleId, Go, n
  <2>2. Sound(file')
    BY <1>4, <2>1, FilledSound DEF IInv
  <2> QED
    BY <1>1, <1>2, <2>1, <2>2, WithinKeeps
<1> QED
  BY <1>5, <1>6

LEMMA ModuleNameKeeps == ASSUME IInv, ModuleName PROVE IInv'
<1> DEFINE s == input.modules[i].name
           f == Allocate(file, StringSize(s))
           b == Given(StringSize(s))
<1>1. input \in Input /\ i \in Nat \ {0} /\ memory \in Seq(Entry)
  BY InputFacts DEF IInv, Rest
<1>2. pc = "name"
  BY DEF ModuleName
<1>3. i <= Len(input.modules) /\ input.modules \in Seq([id : Nat, name : Strings])
  BY <1>1, <1>2 DEF IInv, Rest, Input
<1>4. i \in DOMAIN input.modules
  BY <1>1, <1>3
<1>5. StringSize(s) \in Nat \ {0}
  BY <1>4, InputFacts DEF IInv, Rest
<1>6. Sound(WriteString(f, b, s))
  BY <1>5, StringGiven DEF IInv
<1>7. CASE Abandon(Word)
  BY <1>7, AbandonKeeps
<1>8. CASE /\ file' = CopyIndexAfterObject(WriteString(f, b, s), list.block,
                                           Word, i - 1, ModuleSize)
           /\ NextElement("name", "cv")
           /\ UNCHANGED memory
  <2> HIDE DEF s, f, b
  <2>1. Sound(file')
    BY <1>6, <1>8, CopySound DEF CopyIndexAfterObject
  <2>2. /\ pc' = "cv" /\ i' \in Nat \ {0}
        /\ input' = input /\ list' = list /\ entries' = entries /\ memory' = memory
    BY <1>1, <1>8 DEF NextElement, Go
  <2> QED
    BY <1>1, <1>2, <2>1, <2>2, WithinKeeps
<1>9. CASE /\ file' = Flushed(WriteString(f, b, s))
           /\ pc' = "failed"
           /\ list' = NoList
           /\ UNCHANGED <<input, i, dir, links, memory, context, entries>>
  <2> HIDE DEF s, f, b
  <2>1. Sound(file')
    BY <1>6, <1>9, FlushedSound
  <2>2. Rest'
    BY <1>9, NowhereIsEntry DEF IInv, Rest, Counted, MandatoryAreThere, Steps
  <2> QED
    BY <2>1, <2>2 DEF IInv
<1> QED
  BY <1>7, <1>8, <1>9 DEF ModuleName

LEMMA ModulesKeep ==
  ASSUME IInv, ModuleList \/ ModuleId \/ ModuleName \/ EndModules
  PROVE  IInv'
<1>1. CASE ModuleList
  <2>1. input \in Input
    BY InputFacts DEF IInv, Rest
  <2>2. NumModules \in Nat /\ ModuleSize \in Nat
    BY <2>1 DEF NumModules, Input, ModuleSize
  <2> QED
    BY <1>1, <2>2, StartListKeeps DEF ModuleList
<1>2. CASE EndModules
  BY <1>2, EndListKeeps DEF EndModules
<1> QED
  BY <1>1, <1>2, ModuleIdKeeps, ModuleNameKeeps

LEMMA MemoryKeeps ==
  ASSUME IInv, AppMemory \/ MemoryList \/ MemoryEntry \/ EndMemory
  PROVE  IInv'
<1>1. input \in Input /\ i \in Nat \ {0} /\ memory \in Seq(Entry)
  BY InputFacts DEF IInv, Rest
<1>2. CASE AppMemory
  <2>1. i <= Len(input.app) /\ input.app \in Seq(Nat \ {0})
    BY <1>1, <1>2 DEF AppMemory, Input
  <2>2. input.app[i] \in Nat
    BY <1>1, <2>1
  <2>3. CASE Remember("app", "app", input.app[i])
             /\ i' = i + 1 /\ UNCHANGED <<input, list, dir, links, context, entries>>
    <3>1. Sound(file') /\ memory' \in Seq(Entry) /\ pc = "app" /\ pc' = "app"
      BY <2>2, <2>3, RememberKeeps
    <3>2. i' \in Nat \ {0}
      BY <1>1, <2>3
    <3> QED
      BY <2>3, <3>1, <3>2, WithinKeeps
  <2>4. CASE Abandon(0)
    BY <2>4, AbandonKeeps
  <2> QED
    BY <1>2, <2>3, <2>4 DEF AppMemory
<1>3. CASE MemoryList
  <2>1. Len(memory) \in Nat /\ DescriptorSize \in Nat
    BY <1>1 DEF DescriptorSize
  <2> QED
    BY <1>3, <2>1, StartListKeeps DEF MemoryList
<1>4. CASE MemoryEntry
  <2>1. /\ pc = "memory" /\ pc' = "memory" /\ i' = i + 1
        /\ file' = CopyIndexAfterObject(file, list.block, Word, i - 1, DescriptorSize)
        /\ input' = input /\ list' = list /\ entries' = entries /\ memory' = memory
    BY <1>4 DEF MemoryEntry, NextElement, Go
  <2>2. Sound(file')
    BY <2>1, CopySound DEF CopyIndexAfterObject, IInv
  <2>3. i' \in Nat \ {0}
    BY <1>1, <2>1
  <2> QED
    BY <1>1, <2>1, <2>2, <2>3, WithinKeeps
<1>5. CASE EndMemory
  BY <1>5, EndListKeeps DEF EndMemory
<1> QED
  BY <1>2, <1>3, <1>4, <1>5

\* The numbers of the entries written by WriteFile.
LEMMA FileEntries ==
  ASSUME NEW k \in 5 .. 11
  PROVE  /\ k + 2 = NumStreams => k = 11
         /\ k + 2 # NumStreams => k + 1 \in 5 .. 11
         /\ k - Mandatory + 1 \in 1 .. 7
         /\ ~(k < Mandatory)
BY DEF NumStreams, Mandatory

\* The end of a stream that is written in one step.
LEMMA OneEntryKeeps ==
  ASSUME IInv, NEW f, Sound(f), NEW entry \in Entry, Enter(f, entry),
         Len(entries) < Mandatory => entry # Nowhere,
         UNCHANGED <<input, i, dir, links, memory, context>>,
         \/ pc = "exception" /\ pc' = "system"
         \/ pc = "os" /\ pc' = "file"
         \/ pc = "file" /\ pc' = IF Len(entries) + 2 = NumStreams THEN "dso" ELSE "file"
         \/ pc = "debug" /\ pc' = "finish"
  PROVE  IInv'
<1>1. /\ Sound(file') /\ entries' \in Seq(Entry) /\ Len(entries') = Len(entries) + 1
      /\ MandatoryAreThere' /\ list' \in [block : Entry, object : Nat]
  BY EnterKeeps DEF IInv
<1>2. /\ Len(entries) \in Nat
      /\ pc = "exception" => Len(entries) = 3
      /\ pc = "os" => Len(entries) = 4
      /\ pc = "file" => Len(entries) \in 5 .. 11
      /\ pc = "debug" => Len(entries) = 12
  BY DEF IInv, Rest, Counted
<1>3. Counted'
  <2>1. CASE pc = "exception" /\ pc' = "system"
    <3>1. Len(entries) = 3
      BY <1>2, <2>1
    <3>2. Len(entries') = 4
      BY <1>1, <3>1
    <3> QED
      BY <2>1, <3>2 DEF Counted
  <2>2. CASE pc = "os" /\ pc' = "file"
    <3>1. Len(entries) = 4
      BY <1>2, <2>2
    <3>2. Len(entries') = 5
      BY <1>1, <3>1
    <3> QED
      BY <2>2, <3>2 DEF Counted
  <2>3. CASE pc = "file" /\ Len(entries) + 2 = NumStreams /\ pc' = "dso"
    <3>1. Len(entries) = 11
      BY <1>2, <2>3, FileEntries
    <3>2. Len(entries') = 12
      BY <1>1, <3>1
    <3> QED
      BY <2>3, <3>2 DEF Counted
  <2>4. CASE pc = "file" /\ Len(entries) + 2 # NumStreams /\ pc' = "file"
    <3>1. Len(entries) + 1 \in 5 .. 11
      BY <1>2, <2>4, FileEntries
    <3>3. Len(entries') \in 5 .. 11
      BY <1>1, <3>1
    <3> QED
      BY <2>4, <3>3 DEF Counted
  <2>5. CASE pc = "debug" /\ pc' = "finish"
    <3>1. Len(entries) = 12
      BY <1>2, <2>5
    <3>2. Len(entries') = 13
      BY <1>1, <3>1
    <3> QED
      BY <2>5, <3>2 DEF Counted
  <2> QED
    BY <2>1, <2>2, <2>3, <2>4, <2>5
<1>4. pc' \in {"system", "file", "dso", "finish"}
  OBVIOUS
<1>5. Rest'
  BY <1>1, <1>3, <1>4 DEF IInv, Rest, Steps
<1> QED
  BY <1>1, <1>5 DEF IInv

LEMMA ExceptionKeeps == ASSUME IInv, ExceptionStream PROVE IInv'
<1>1. ExceptionSize \in Nat \ {0}
  BY Sizes
<1>2. CASE Abandon(ExceptionSize)
  BY <1>2, AbandonKeeps
<1>3. CASE ~Abandon(ExceptionSize)
  <2>1. /\ pc = "exception" /\ pc' = "system"
        /\ Enter(Filled(ExceptionSize), Given(ExceptionSize))
        /\ UNCHANGED <<input, i, dir, links, memory, context>>
    BY <1>3 DEF ExceptionStream, Go
  <2>2. Sound(Filled(ExceptionSize))
    BY <1>1, FilledSound DEF IInv
  <2>3. Given(ExceptionSize) \in Entry /\ Given(ExceptionSize) # Nowhere
    BY <1>1, GivenEntry DEF IInv
  <2> QED
    BY <2>1, <2>2, <2>3, OneEntryKeeps
<1> QED
  BY <1>2, <1>3

LEMMA SystemKeeps == ASSUME IInv, SystemInfo \/ OSInformation PROVE IInv'
<1>1. CASE SystemInfo
  <2>1. SystemSize \in Nat \ {0}
    BY Sizes
  <2>2. CASE Abandon(SystemSize)
    BY <2>2, AbandonKeeps
  <2>3. CASE ~Abandon(SystemSize)
    <3>1. /\ pc = "system" /\ pc' = "os" /\ file' = Allocate(file, SystemSize)
          /\ list' = [block |-> Given(SystemSize), object |-> SystemSize]
          /\ UNCHANGED <<input, i, dir, links, memory, context, entries>>
      BY <1>1, <2>3 DEF SystemInfo
    <3>2. Sound(file') /\ Given(SystemSize) \in Entry /\ Given(SystemSize) # Nowhere
      BY <2>1, <3>1, AllocateSound, GivenEntry DEF IInv
    <3>3. list' \in [block : Entry, object : Nat] /\ list'.block # Nowhere
      BY <2>1, <3>1, <3>2
    <3>4. Rest'
      BY <3>1, <3>3 DEF IInv, Rest, Counted, MandatoryAreThere, Steps
    <3> QED
      BY <3>2, <3>4 DEF IInv
  <2> QED
    BY <2>2, <2>3
<1>2. CASE OSInformation
  <2> DEFINE s == input.os
             g == WriteString(Allocate(file, StringSize(s)), Given(StringSize(s)), s)
  <2>1. StringSize(s) \in Nat \ {0}
    BY InputFacts DEF IInv, Rest
  <2>2. Sound(g)
    BY <2>1, StringGiven DEF IInv
  <2>3. Sound(FlushLost(file, Word)) /\ Sound(file)
    BY FlushLostSound DEF IInv
  <2>4. /\ pc = "os" /\ pc' = "file"
        /\ Enter(g, list.block) \/ Enter(FlushLost(file, Word), list.block)
             \/ Enter(file, list.block)
        /\ UNCHANGED <<input, i, dir, links, memory, context>>
    BY <1>2 DEF OSInformation, Go
  <2>5. list.block \in Entry /\ list.block # Nowhere
    BY <2>4 DEF IInv, Rest
  <2> HIDE DEF g, s
  <2> QED
    BY <2>2, <2>3, <2>4, <2>5, OneEntryKeeps
<1> QED
  BY <1>1, <1>2

LEMMA WriteFileKeeps == ASSUME IInv, WriteFile PROVE IInv'
<1> DEFINE n == input.files[Len(entries) - Mandatory + 1]
<1>1. /\ pc = "file" /\ pc' = IF Len(entries) + 2 = NumStreams THEN "dso" ELSE "file"
      /\ (n > 0 /\ Enter(Filled(n), Given(n))) \/ Enter(file, Nowhere)
      /\ UNCHANGED <<input, i, dir, links, memory, context>>
  BY DEF WriteFile, Go
<1>2. Len(entries) \in 5 .. 11
  BY <1>1 DEF IInv, Rest, Counted
<1>3. Len(entries) - Mandatory + 1 \in 1 .. 7
  BY <1>2, FileEntries
<1>4. input \in Input
  BY InputFacts DEF IInv, Rest
<1>5. input.files \in [1 .. 7 -> Nat]
  BY <1>4 DEF Input
<1>6. n \in Nat
  BY <1>3, <1>5
<1>7. ~(Len(entries) < Mandatory)
  BY <1>2, FileEntries
<1> HIDE DEF n
<1>8. CASE n > 0 /\ Enter(Filled(n), Given(n))
  <2>1. n \in Nat \ {0}
    BY <1>6, <1>8
  <2>2. Sound(Filled(n)) /\ Given(n) \in Entry
    BY <2>1, FilledSound, GivenEntry DEF IInv
  <2> QED
    BY <1>1, <1>7, <1>8, <2>2, OneEntryKeeps
<1>9. CASE Enter(file, Nowhere)
  <2>1. Sound(file) /\ Nowhere \in Entry
    BY NowhereIsEntry DEF IInv
  <2> QED
    BY <1>1, <1>7, <1>9, <2>1, OneEntryKeeps
<1> QED
  BY <1>1, <1>8, <1>9

LEMMA CountLinksKeeps == ASSUME IInv, CountLinks PROVE IInv'
<1> DEFINE n == Len(input.links) * LinkMapSize
<1>1. input \in Input /\ memory \in Seq(Entry)
  BY InputFacts DEF IInv, Rest
<1>2. n \in Nat
  <2>1. Len(input.links) \in Nat
    BY <1>1 DEF Input
  <2> QED
    BY <2>1 DEF LinkMapSize
<1> HIDE DEF n
<1>3. pc = "dso"
  BY DEF CountLinks
<1>4. CASE NoDebug(file)
  BY <1>3, <1>4, NoDebugKeeps DEF IInv
<1>5. CASE ~NoDebug(file)
  <2>1. /\ \/ n = 0 /\ pc' = "debug" /\ UNCHANGED <<file, links>>
           \/ n > 0 /\ pc' = "link" /\ file' = Allocate(file, n)
        /\ i' = 1
        /\ UNCHANGED <<input, list, dir, memory, context, entries>>
    BY <1>5 DEF CountLinks, n
  <2>2. Sound(file')
    <3>1. CASE n = 0 /\ UNCHANGED file
      BY <3>1 DEF IInv
    <3>2. CASE n > 0 /\ file' = Allocate(file, n)
      <4>1. n \in Nat \ {0}
        BY <1>2, <3>2
      <4> QED
        BY <3>2, <4>1, AllocateSound DEF IInv
    <3> QED
      BY <2>1, <3>1, <3>2
  <2>3. pc' \in {"debug", "link"}
    BY <2>1
  <2>4. /\ input' = input /\ list' = list /\ entries' = entries
        /\ memory' \in Seq(Entry) /\ i' \in Nat \ {0}
    BY <1>1, <2>1
  <2> QED
    BY <1>3, <2>2, <2>3, <2>4, WithinKeeps
<1> QED
  BY <1>4, <1>5

LEMMA WriteLinkKeeps == ASSUME IInv, WriteLink PROVE IInv'
<1> DEFINE s == input.later[i]
           f == Allocate(file, StringSize(s))
           b == Given(StringSize(s))
<1>1. input \in Input /\ i \in Nat \ {0} /\ memory \in Seq(Entry)
  BY InputFacts DEF IInv, Rest
<1>2. pc = "link"
  BY DEF WriteLink
<1>3. i <= Len(input.later) /\ input.later \in Seq(Strings)
  BY <1>1 DEF WriteLink, Input
<1>4. i \in DOMAIN input.later
  BY <1>1, <1>3
<1>5. StringSize(s) \in Nat \ {0}
  BY <1>4, InputFacts DEF IInv, Rest
<1>6. Sound(WriteString(f, b, s))
  BY <1>5, StringGiven DEF IInv
<1>7. Sound(FlushLost(file, Word)) /\ Sound(file)
  BY FlushLostSound DEF IInv
<1>8. CASE /\ file' = CopyIndexAfterObject(WriteString(f, b, s), links, 0,
                                           i - 1, LinkMapSize)
           /\ NextElement("link", "link")
           /\ UNCHANGED memory
  <2> HIDE DEF s, f, b
  <2>1. Sound(file')
    BY <1>6, <1>8, CopySound DEF CopyIndexAfterObject
  <2>2. /\ pc' = "link" /\ i' \in Nat \ {0}
        /\ input' = input /\ list' = list /\ entries' = entries /\ memory' = memory
    BY <1>1, <1>8 DEF NextElement, Go
  <2> QED
    BY <1>1, <1>2, <2>1, <2>2, WithinKeeps
<1>9. CASE NoDebug(WriteString(f, b, s)) \/ NoDebug(FlushLost(file, Word)) \/ NoDebug(file)
  <2> HIDE DEF s, f, b
  <2> QED
    BY <1>2, <1>6, <1>7, <1>9, NoDebugKeeps
<1> QED
  BY <1>8, <1>9 DEF WriteLink

LEMMA DebugKeeps == ASSUME IInv, WriteDebug PROVE IInv'
<1> DEFINE n == DebugSize + DynSize
           f == Copy(Copy(Allocate(file, n), Given(n), file.position + DebugSize, DynSize),
                     Given(n), file.position, DebugSize)
<1>1. n \in Nat \ {0}
  BY Sizes
<1>2. Sound(f) /\ Given(n) \in Entry /\ Given(n) # Nowhere
  <2> HIDE DEF n
  <2> QED
    BY <1>1, AllocateSound, CopySound, GivenEntry DEF IInv
<1>3. Sound(FlushLost(file, DebugSize))
  BY FlushLostSound DEF IInv
<1>4. pc = "debug"
  BY DEF WriteDebug
<1>5. \/ /\ Enter(f, Given(n))
         /\ pc' = "finish"
         /\ UNCHANGED <<input, i, dir, links, memory, context>>
      \/ NoDebug(FlushLost(file, DebugSize))
  BY DEF WriteDebug
<1> HIDE DEF f, n
<1>6. CASE NoDebug(FlushLost(file, DebugSize))
  BY <1>3, <1>4, <1>6, NoDebugKeeps
<1>7. CASE ~NoDebug(FlushLost(file, DebugSize))
  BY <1>2, <1>4, <1>5, <1>7, OneEntryKeeps
<1> QED
  BY <1>6, <1>7

\* The end of a dump, wherever it comes.
LEMMA EndKeeps ==
  ASSUME IInv, EndLinks \/ Finish \/ Destroy \/ DiskFills \/ Kill
  PROVE  IInv'
<1>1. i \in Nat \ {0} /\ memory \in Seq(Entry) /\ Sound(file)
  BY DEF IInv, Rest
<1>2. CASE EndLinks \/ Finish \/ Kill
  <2>1. /\ \/ pc = "link" /\ pc' = "debug"
           \/ pc = "finish" /\ pc' = "done"
           \/ pc' = "killed"
        /\ UNCHANGED <<input, file, i, list, dir, links, memory, context, entries>>
    BY <1>2 DEF EndLinks, Finish, Kill, Go
  <2> QED
    BY <1>1, <2>1, WithinKeeps
<1>3. CASE Destroy
  <2>1. /\ \/ pc = "done" /\ pc' = "written"
           \/ pc = "failed" /\ pc' = "lost"
        /\ UNCHANGED <<input, i, list, dir, links, memory, context, entries>>
    BY <1>3 DEF Destroy, Go
  <2>2. Sound(file')
    BY <1>1, <1>3, ClosedSound DEF Destroy
  <2> QED
    BY <1>1, <2>1, <2>2, WithinKeeps
<1>4. CASE DiskFills
  <2> DEFINE g == [file EXCEPT !.full = TRUE]
  <2>1. DOMAIN g = Fields /\ g = [x \in Fields |-> g[x]]
    BY <1>1 DEF Sound, Fields
  <2>2. g.position = file.position /\ g.size = file.size /\ g.blocks = file.blocks
    BY <1>1 DEF Sound, Fields
  <2>3. file' = g /\ UNCHANGED <<input, pc, i, list, dir, links, memory, context, entries>>
    BY <1>4 DEF DiskFills
  <2> HIDE DEF g
  <2>4. Sound(file')
    BY <1>1, <2>1, <2>2, <2>3, SameBlocksSound
  <2> QED
    BY <1>1, <2>3, <2>4, WithinKeeps
<1> QED
  BY <1>2, <1>3, <1>4
---------------------------------------------------------------------------
(* The theorems.                                                             *)

LEMMA InitSound == Init => IInv
<1> SUFFICES ASSUME Init PROVE IInv
  OBVIOUS
<1>1. Sound(file)
  BY DEF Init, NewFile, Sound, Fields, BlocksAreDisjoint
<1>2. Rest
  BY NowhereIsEntry DEF Init, Rest, Counted, MandatoryAreThere, Steps
<1> QED
  BY <1>1, <1>2 DEF IInv

LEMMA StepSound == IInv /\ [Next]_vars => IInv'
<1> SUFFICES ASSUME IInv, [Next]_vars PROVE IInv'
  OBVIOUS
<1>1. CASE UNCHANGED vars
  BY <1>1 DEF IInv, Rest, Counted, MandatoryAreThere, vars
<1>2. CASE Next
  BY <1>2, PrepareKeeps, HeaderKeeps, ThreadsKeep, ModulesKeep, MemoryKeeps,
     ExceptionKeeps, SystemKeeps, WriteFileKeeps, CountLinksKeeps, WriteLinkKeeps,
     DebugKeeps, EndKeeps DEF Next
<1> QED
  BY <1>1, <1>2

LEMMA SoundAlways == Spec => []IInv
BY InitSound, StepSound, PTL DEF Spec

\* Whatever ftruncate refuses, the disk does and the process holds, no byte of the
\* file is given to two blocks and every block was made room for.
THEOREM BlocksTheorem == Spec => []DisjointBlocks
<1>1. IInv => DisjointBlocks
  BY DEF IInv, Sound, DisjointBlocks
<1> QED
  BY <1>1, SoundAlways, PTL
---------------------------------------------------------------------------
(* The descriptor: between Prepare and Destroy no step touches it.           *)

\* A file with the descriptor, whoever closes it, the way it grows and the disk as
\* they are now, and with what is written so far: with no more on a full disk.
Kept(f) ==
  /\ DOMAIN f = Fields
  /\ f.fd = file.fd
  /\ f.owned <=> file.owned
  /\ f.bypass <=> file.bypass
  /\ f.full <=> file.full
  /\ file.writes \subseteq f.writes
  /\ file.full => f.writes = file.writes

LEMMA AllocateKept == ASSUME NEW f, Kept(f), NEW n PROVE Kept(Allocate(f, n))
BY DEF Kept, Allocate, Fields

LEMMA CopyKept ==
  ASSUME NEW f, Kept(f), NEW b, NEW place, NEW len
  PROVE  Kept(Copy(f, b, place, len))
BY DEF Kept, Copy, Copies, Fields

LEMMA IndexKept ==
  ASSUME NEW f, Kept(f), NEW b, NEW object, NEW k, NEW len
  PROVE  Kept(CopyIndexAfterObject(f, b, object, k, len))
BY CopyKept DEF CopyIndexAfterObject

LEMMA FlushLostKept == ASSUME NEW f, Kept(f), NEW object PROVE Kept(FlushLost(f, object))
BY DEF Kept, FlushLost, Fields

LEMMA WriteStringKept ==
  ASSUME NEW f, Kept(f), NEW b, NEW s
  PROVE  Kept(WriteString(f, b, s))
<1> DEFINE chars == {CharWrite(b, s, k) : k \in Copied(f, b, s)}
           last == IF CanWriteString(f, b, s) THEN {EndWrite(b, s)} ELSE {}
<1>1. \A place, len : file.full => ~Copies(f, place, len)
  BY DEF Kept, Copies
<1>2. ASSUME file.full PROVE Copied(f, b, s) = {} /\ ~CanWriteString(f, b, s)
  <2>1. \A k \in 1 .. Len(s) : k \in 1 .. k
    OBVIOUS
  <2> QED
    BY <1>1, <1>2, <2>1 DEF Copied, CanWriteString
<1>3. file.full => chars = {} /\ last = {}
  BY <1>2
<1> HIDE DEF chars, last
<1>4. Kept([f EXCEPT !.writes = @ \cup chars \cup last])
  BY <1>3 DEF Kept, Fields
<1> QED
  BY <1>4, CopyKept DEF WriteString, chars, last

LEMMA FlushedKept == ASSUME NEW f, Kept(f) PROVE Kept(Flushed(f))
BY CopyKept DEF Flushed

LEMMA FilledKept == ASSUME Kept(file), NEW n PROVE Kept(Filled(n))
BY AllocateKept, CopyKept DEF Filled

LEMMA EnterKept == ASSUME NEW f, Kept(f), NEW entry, Enter(f, entry) PROVE Kept(file')
BY FlushedKept, CopyKept DEF Enter

LEMMA AbandonKept ==
  ASSUME Kept(file), NEW object, Abandon(object)
  PROVE  Kept(file') /\ pc' = "failed" /\ UNCHANGED input
BY FlushedKept, FlushLostKept DEF Abandon

\* The steps at which the descriptor is the writer's.
Writing == {"header", "directory", "threads", "stack", "ip", "context", "modules", "cv", "name",
            "app", "memory", "exception", "system", "os", "file", "dso", "link", "debug",
            "finish", "done"}

\* A step of a stream writer, or one that ends it.
Quiet ==
  /\ Kept(file')
  /\ UNCHANGED input
  /\ \/ pc \in Writing /\ pc' \in Writing \cup {"failed"}
     \/ pc = pc'
     \/ pc' = "killed"

LEMMA StepsAreQuiet == ASSUME Sound(file), Next PROVE Prepare \/ Destroy \/ DiskFills \/ Quiet
<1>1. Kept(file)
  BY DEF Sound, Kept
<1> USE DEF Writing
<1>2. CASE WriteHeader \/ WriteDirectory
  BY <1>1, <1>2, AllocateKept, FlushedKept, AbandonKept DEF WriteHeader, WriteDirectory, Quiet
<1>3. CASE ThreadList \/ ModuleList \/ MemoryList \/ SystemInfo
  BY <1>1, <1>3, AllocateKept, AbandonKept
  DEF ThreadList, ModuleList, MemoryList, SystemInfo, StartList, Quiet
<1>4. CASE EndThreads \/ EndModules \/ EndMemory
  BY <1>1, <1>4, EnterKept DEF EndThreads, EndModules, EndMemory, EndList, Go, Quiet
<1>5. CASE ThreadStack \/ ThreadIp \/ AppMemory
  BY <1>1, <1>5, FilledKept, AbandonKept DEF ThreadStack, ThreadIp, AppMemory, Remember, Quiet
<1>6. CASE ThreadContext \/ MemoryEntry
  BY <1>1, <1>6, FilledKept, IndexKept, AbandonKept
  DEF ThreadContext, MemoryEntry, NextElement, Go, Quiet
<1>7. CASE ModuleId
  BY <1>1, <1>7, FilledKept, AbandonKept DEF ModuleId, Go, Quiet
<1>8. CASE ModuleName
  BY <1>1, <1>8, AllocateKept, WriteStringKept, IndexKept, FlushedKept, AbandonKept
  DEF ModuleName, NextElement, Go, Quiet
<1>9. CASE ExceptionStream \/ OSInformation \/ WriteFile
  <2>1. CASE ExceptionStream
    BY <1>1, <2>1, FilledKept, EnterKept, AbandonKept DEF ExceptionStream, Go, Quiet
  <2>2. CASE OSInformation
    BY <1>1, <2>2, AllocateKept, WriteStringKept, FlushLostKept, EnterKept
    DEF OSInformation, Go, Quiet
  <2>3. CASE WriteFile
    BY <1>1, <2>3, FilledKept, EnterKept DEF WriteFile, Go, Quiet
  <2> QED
    BY <1>9, <2>1, <2>2, <2>3
<1>10. CASE CountLinks
  BY <1>1, <1>10, AllocateKept, EnterKept DEF CountLinks, NoDebug, Quiet
<1>11. CASE WriteLink
  BY <1>1, <1>11, AllocateKept, WriteStringKept, FlushLostKept, IndexKept, EnterKept
  DEF WriteLink, NoDebug, NextElement, Go, Quiet
<1>12. CASE WriteDebug
  BY <1>1, <1>12, AllocateKept, CopyKept, FlushLostKept, EnterKept DEF WriteDebug, NoDebug, Quiet
<1>13. CASE EndLinks \/ Finish \/ Kill
  BY <1>1, <1>13 DEF EndLinks, Finish, Kill, Go, Quiet
<1> QED
  BY <1>2, <1>3, <1>4, <1>5, <1>6, <1>7, <1>8, <1>9, <1>10, <1>11, <1>12, <1>13 DEF Next

\* Who closes the file is who opened it.
Lent == file.fd = "open" /\ (file.owned <=> input.byPath)

DescriptorInv ==
  /\ pc = "prepare" => file.fd = "none" /\ file.owned
  /\ pc \in Writing => Lent
  /\ pc = "failed" => Lent \/ file.fd = "none"
  /\ DescriptorIsCallers

LEMMA DescriptorStep == ASSUME IInv, DescriptorInv, Next PROVE DescriptorInv'
<1>1. Sound(file) /\ DOMAIN file = Fields
  BY DEF IInv, Sound
<1> USE DEF DescriptorInv, Lent, Writing, DescriptorIsCallers
<1>2. CASE Prepare
  BY <1>1, <1>2 DEF Prepare, Opened, GivenFile, Fields
<1>3. CASE Destroy
  <2>1. pc \in {"done", "failed"} /\ pc' \in {"written", "lost"} /\ UNCHANGED input
    BY <1>3 DEF Destroy, Go
  <2>2. \A f, again : DOMAIN f = Fields =>
          Closed(f, again).fd = IF f.fd = "open" /\ (f.bypass \/ again) THEN "closed" ELSE f.fd
    BY DEF Closed, Fields
  <2>3. \A f, again : DOMAIN f = Fields =>
          DOMAIN Closed(f, again) = Fields /\ (Closed(f, again).owned <=> f.owned)
    BY DEF Closed, Fields
  <2>4. PICK once \in Truncates, again \in Truncates :
          LET f == IF input.byPath THEN Closed(file, once) ELSE file
          IN  file' = IF f.owned THEN Closed(f, again) ELSE f
    BY <1>3 DEF Destroy
  <2>5. ~input.byPath => file'.fd # "closed"
    BY <1>1, <2>1, <2>2, <2>4
  <2>6. ASSUME input.byPath, ~input.kernelBug, ~input.fails PROVE file'.fd # "open"
    <3>1. once = TRUE /\ again = TRUE
      BY <2>6 DEF Truncates
    <3>2. Closed(file, once).fd # "open" /\ DOMAIN Closed(file, once) = Fields
      BY <1>1, <2>2, <2>3, <3>1
    <3>3. Closed(Closed(file, once), again).fd # "open"
      BY <2>2, <3>1, <3>2
    <3> QED
      BY <2>4, <2>6, <3>2, <3>3
  <2> QED
    BY <2>1, <2>5, <2>6
<1>4. CASE DiskFills
  BY <1>1, <1>4 DEF DiskFills, Fields
<1>5. CASE Quiet
  BY <1>5 DEF Quiet, Kept
<1> QED
  BY <1>1, <1>2, <1>3, <1>4, <1>5, StepsAreQuiet

\* A descriptor that was given stays open for its owner, on every path out of the
\* dump; a file opened by path does not, unless ftruncate refuses or a call fails.
THEOREM DescriptorTheorem == Spec => []DescriptorIsCallers
<1>1. Init => DescriptorInv
  BY DEF Init, NewFile, DescriptorInv, Writing, DescriptorIsCallers
<1>2. IInv /\ DescriptorInv /\ [Next]_vars => DescriptorInv'
  <2>1. ASSUME DescriptorInv, UNCHANGED vars PROVE DescriptorInv'
    BY <2>1 DEF vars, DescriptorInv, Lent, DescriptorIsCallers
  <2> QED
    BY <2>1, DescriptorStep
<1>3. DescriptorInv => DescriptorIsCallers
  BY DEF DescriptorInv
<1> QED
  BY <1>1, <1>2, <1>3, SoundAlways, PTL DEF Spec
---------------------------------------------------------------------------
(* The blocks the writer holds, and the writes that stay in them.            *)

\* What the code takes for granted: a 64-bit build, no character beyond the basic
\* plane, and no library loaded between the two walks over the list of them.
Neat ==
  /\ ~Narrow
  /\ \A k \in DOMAIN input.modules : input.modules[k].name \in Basic
  /\ \A k \in DOMAIN input.later : input.later[k] \in Basic
  /\ input.os \in Basic
  /\ Len(input.later) <= Len(input.links)

Good(f) == f \in File /\ Sound(f) /\ (Neat => WritesFit(f))

\* A file that a step makes of the present one.
Well(f) == Good(f) /\ file.blocks \subseteq f.blocks

\* The blocks that are referred to, and those the objects of a stream are in.
Placed ==
  /\ list.object \in Nat
  /\ list.object # 0 => list.block \in file.blocks /\ list.object <= list.block.len
  /\ {list.block, dir, links, context} \subseteq file.blocks \cup {Nowhere}
  /\ memory \in Seq(file.blocks)
  /\ entries \in Seq(file.blocks \cup {Nowhere})
  /\ Len(entries) <= NumStreams

\* The list of a stream: its block has room for n elements.
ListOf(n, size) == list.block \in file.blocks /\ list.block.len = ListSize(n, size)

\* What the loops write to.
Room ==
  /\ pc \in {"stack", "ip", "context"} => ListOf(NumThreads, ThreadSize)
  /\ pc \in {"ip", "context"} => i <= NumThreads
  /\ pc \in {"cv", "name"} => ListOf(NumModules, ModuleSize)
  /\ pc = "memory" => ListOf(Len(memory), DescriptorSize)
  /\ pc = "os" => list.block \in file.blocks
  /\ pc = "link" => links \in file.blocks /\ links.len = Len(input.links) * LinkMapSize
  /\ pc \notin {"prepare", "header", "directory", "failed", "lost", "killed"} =>
       dir \in file.blocks /\ dir.len = NumStreams * EntrySize

WInv == IInv /\ Good(file) /\ Placed /\ Room

LEMMA AllocateWell ==
  ASSUME Good(file), NEW n \in Nat \ {0}
  PROVE  /\ Well(Allocate(file, n))
         /\ Given(n) \in Allocate(file, n).blocks
         /\ Given(n) \in Block /\ Given(n).at = file.position /\ Given(n).len = n
<1>1. /\ Allocate(file, n) \in File
      /\ Allocate(file, n).blocks = file.blocks \cup {NewBlock(file, n)}
      /\ Allocate(file, n).writes = file.writes
      /\ NewBlock(file, n) \in Block
      /\ NewBlock(file, n).at = file.position
      /\ NewBlock(file, n).len = n
  BY AllocateFacts DEF Good
<1>2. Sound(Allocate(file, n))
  BY AllocateSound DEF Good
<1>3. Neat => WritesFit(Allocate(file, n))
  BY <1>1 DEF Good, WritesFit, Inside
<1> QED
  BY <1>1, <1>2, <1>3 DEF Well, Good, Given

LEMMA CopyWell ==
  ASSUME NEW f, Well(f), NEW b, b.at \in Nat, NEW at \in Nat, NEW len \in Nat \ {0},
         Neat => b \in f.blocks /\ b.at <= at /\ at + len <= b.at + b.len
  PROVE  Well(Copy(f, b, at, len)) /\ Copy(f, b, at, len).blocks = f.blocks
<1>1. Copy(f, b, at, len) \in File /\ Copy(f, b, at, len).blocks = f.blocks
  BY CopyFacts DEF Well, Good
<1>2. Sound(Copy(f, b, at, len))
  BY CopySound DEF Well, Good
<1>3. Neat => WritesFit(Copy(f, b, at, len))
  BY CopyFits DEF Well, Good
<1> QED
  BY <1>1, <1>2, <1>3 DEF Well, Good

LEMMA PlacedAt ==
  ASSUME Good(file), NEW b \in file.blocks \cup {Nowhere}
  PROVE  b.at \in Nat /\ b.len \in Nat
BY DEF Good, Sound, Block, Nowhere

\* The k-th element of an array of n.
LEMMA IndexWell ==
  ASSUME Good(file), NEW f, Well(f), NEW b \in file.blocks \cup {Nowhere},
         NEW object \in Nat, NEW k \in Nat, NEW len \in Nat \ {0},
         Neat => b \in f.blocks /\ object + k * len + len <= b.len
  PROVE  /\ Well(CopyIndexAfterObject(f, b, object, k, len))
         /\ CopyIndexAfterObject(f, b, object, k, len).blocks = f.blocks
<1> DEFINE m == k * len
<1>1. m \in Nat
  OBVIOUS
<1>2. b.at \in Nat /\ b.len \in Nat
  BY PlacedAt
<1>3. Neat => b \in f.blocks /\ object + m + len <= b.len
  OBVIOUS
<1> DEFINE at == b.at + object + m
<1>4. CopyIndexAfterObject(f, b, object, k, len) = Copy(f, b, at, len)
  BY DEF CopyIndexAfterObject
<1> HIDE DEF m
<1>5. at \in Nat
  BY <1>1, <1>2
<1>6. Neat => b \in f.blocks /\ b.at <= at /\ at + len <= b.at + b.len
  BY <1>1, <1>2, <1>3
<1> HIDE DEF at
<1>7. Well(Copy(f, b, at, len)) /\ Copy(f, b, at, len).blocks = f.blocks
  BY <1>2, <1>5, <1>6, CopyWell
<1> QED
  BY <1>4, <1>7

LEMMA FilledWell ==
  ASSUME Good(file), NEW n \in Nat \ {0}
  PROVE  Well(Filled(n)) /\ Given(n) \in Filled(n).blocks
<1>1. /\ Well(Allocate(file, n)) /\ Given(n) \in Allocate(file, n).blocks
      /\ Given(n).at = file.position /\ Given(n).len = n /\ file.position \in Nat
  BY AllocateWell DEF Good, Sound
<1> QED
  BY <1>1, CopyWell DEF Filled

LEMMA WriteStringWell ==
  ASSUME Good(file), NEW s \in Strings, Neat => s \in Basic
  PROVE  LET n == StringSize(s)
             g == WriteString(Allocate(file, n), Given(n), s)
         IN  Well(g) /\ Given(n) \in g.blocks
<1> DEFINE n == StringSize(s)
           f == Allocate(file, n)
           b == Given(n)
           g == WriteString(f, b, s)
<1>1. n \in Nat \ {0} /\ s \in Seq(0 .. 4)
  BY StringSizePositive DEF Strings
<1>2. Well(f) /\ b \in f.blocks /\ b.len = n
  BY <1>1, AllocateWell
<1>3. g \in File /\ g.blocks = f.blocks
  BY <1>1, <1>2, WriteStringFacts DEF Well, Good
<1>4. Sound(g)
  BY <1>2, WriteStringSound DEF Well, Good
<1>5. Neat => WritesFit(g)
  BY <1>2, WriteStringFits DEF Well, Good
<1> QED
  BY <1>2, <1>3, <1>4, <1>5 DEF Well, Good

LEMMA FlushLostWell ==
  ASSUME Good(file), NEW object \in Nat \ {0}
  PROVE  Well(FlushLost(file, object))
<1>1. Sound(FlushLost(file, object))
  BY FlushLostSound DEF Good
<1>2. Neat => FlushLost(file, object) = file
  BY FlushLostFacts DEF Neat, Good
<1>3. /\ FlushLost(file, object) \in File
      /\ FlushLost(file, object).blocks = file.blocks
  BY FlushLostFacts DEF Good
<1> QED
  BY <1>1, <1>2, <1>3 DEF Well, Good

LEMMA FlushedWell ==
  ASSUME Good(file), Placed, NEW f, Well(f)
  PROVE  Well(Flushed(f)) /\ Flushed(f).blocks = f.blocks
<1>1. CASE list.object = 0
  BY <1>1 DEF Flushed
<1>2. CASE list.object # 0
  <2>1. list.object \in Nat \ {0} /\ list.block \in f.blocks /\ list.object <= list.block.len
    BY <1>2 DEF Placed, Well
  <2>2. list.block.at \in Nat
    BY PlacedAt DEF Placed
  <2>3. list.block.len \in Nat
    BY PlacedAt DEF Placed
  <2>4. list.block.at <= list.block.at /\ list.block.at + list.object <= list.block.at + list.block.len
    BY <2>1, <2>2, <2>3
  <2> QED
    BY <1>2, <2>1, <2>2, <2>4, CopyWell DEF Flushed
<1> QED
  BY <1>1, <1>2

LEMMA SeqGrows ==
  ASSUME NEW S, NEW T, S \subseteq T, NEW s \in Seq(S)
  PROVE  s \in Seq(T)
OBVIOUS

\* Where an entry may be written.
Entering == {"stack", "cv", "memory", "exception", "os", "file", "dso", "link", "debug"}

\* The directory has room for the entry of every stream that ends.
LEMMA CountedBelow ==
  ASSUME IInv, pc \in Entering
  PROVE  Len(entries) <= 12 /\ Len(entries) \in Nat
<1>1. /\ pc = "stack" => Len(entries) = 0
      /\ pc = "cv" => Len(entries) = 1
      /\ pc = "memory" => Len(entries) = 2
      /\ pc = "exception" => Len(entries) = 3
      /\ pc = "os" => Len(entries) = 4
      /\ pc = "file" => Len(entries) \in 5 .. 11
      /\ pc \in {"dso", "link", "debug"} => Len(entries) = 12
  BY DEF IInv, Rest, Counted
<1>2. Len(entries) \in (5 .. 11) \cup {0, 1, 2, 3, 4, 12}
  BY <1>1 DEF Entering
<1> DEFINE n == Len(entries)
<1>3. n \in (5 .. 11) \cup {0, 1, 2, 3, 4, 12}
  BY <1>2
<1> HIDE DEF n
<1>4. n <= 12 /\ n \in Nat
  BY <1>3
<1> QED
  BY <1>4 DEF n

\* Enter: an entry in the room of the directory.
LEMMA EnterWell ==
  ASSUME Good(file), Placed, NEW f, Well(f), NEW entry, entry \in f.blocks \cup {Nowhere},
         dir \in file.blocks, dir.len = NumStreams * EntrySize, Len(entries) <= 12,
         Enter(f, entry)
  PROVE  /\ Well(file') /\ file'.blocks = f.blocks
         /\ entries' \in Seq(file'.blocks \cup {Nowhere})
         /\ Len(entries') <= NumStreams
<1>1. Well(Flushed(f)) /\ Flushed(f).blocks = f.blocks
  BY FlushedWell
<1> DEFINE n == Len(entries)
<1>2. n \in Nat /\ n <= 12
  BY DEF Placed
<1>3. dir.at \in Nat /\ dir.len = 156 /\ dir \in Flushed(f).blocks
  BY <1>1, PlacedAt DEF NumStreams, EntrySize, Well
<1>4. file' = Copy(Flushed(f), dir, dir.at + n * 12, 12)
  BY DEF Enter, EntrySize
<1> HIDE DEF n
<1>5. dir.at + n * 12 \in Nat /\ dir.at <= dir.at + n * 12 /\ dir.at + n * 12 + 12 <= dir.at + dir.len
  BY <1>2, <1>3
<1>6. Well(file') /\ file'.blocks = f.blocks
  BY <1>1, <1>3, <1>4, <1>5, CopyWell
<1>7. entries' = Append(entries, entry) /\ entries \in Seq(file.blocks \cup {Nowhere})
  BY DEF Enter, Placed
<1>8. file.blocks \cup {Nowhere} \subseteq file'.blocks \cup {Nowhere} /\ entry \in file'.blocks \cup {Nowhere}
  BY <1>6 DEF Well
<1>9. entries \in Seq(file'.blocks \cup {Nowhere})
  BY <1>7, <1>8, SeqGrows
<1>10. Len(entries') = n + 1
  BY <1>7 DEF n
<1>11. n + 1 <= NumStreams
  BY <1>2 DEF NumStreams
<1> QED
  BY <1>6, <1>7, <1>8, <1>9, <1>10, <1>11

\* What the end of a step leaves where it was.
LEMMA StaysPlaced ==
  ASSUME Placed, file.blocks \subseteq file'.blocks
  PROVE  /\ memory \in Seq(file'.blocks)
         /\ entries \in Seq(file'.blocks \cup {Nowhere})
BY SeqGrows DEF Placed

\* What every step but Prepare comes to.
GoesWell == Well(file') /\ input' = input /\ Placed' /\ Room'

LEMMA AbandonWell ==
  ASSUME WInv, NEW object \in Nat, Abandon(object)
  PROVE  GoesWell
<1>1. Well(file)
  BY DEF WInv, Well
<1>2. Well(IF object = 0 THEN file ELSE FlushLost(file, object))
  BY <1>1, FlushLostWell DEF WInv
<1>3. Well(file')
  BY <1>2, FlushedWell DEF Abandon, WInv
<1>4. file.blocks \subseteq file'.blocks
  BY <1>3 DEF Well
<1>5. memory' \in Seq(file'.blocks) /\ entries' \in Seq(file'.blocks \cup {Nowhere})
  BY <1>4, StaysPlaced DEF WInv, Abandon
<1>6. Placed'
  BY <1>4, <1>5 DEF Abandon, WInv, Placed, NoList
<1>7. Room'
  BY DEF Abandon, Room
<1> QED
  BY <1>3, <1>6, <1>7 DEF GoesWell, Abandon

\* A new list, or an object alone.
LEMMA StartWell ==
  ASSUME WInv, NEW n \in Nat \ {0}, NEW object \in Nat, object <= n,
         file' = Allocate(file, n), list' = [block |-> Given(n), object |-> object],
         UNCHANGED <<input, dir, links, memory, context, entries>>
  PROVE  /\ Well(file') /\ Placed' /\ list'.block \in file'.blocks /\ list'.block.len = n
         /\ file.blocks \subseteq file'.blocks
<1>1. /\ Well(file') /\ Given(n) \in file'.blocks /\ Given(n).len = n
  BY AllocateWell DEF WInv
<1>2. file.blocks \subseteq file'.blocks
  BY <1>1 DEF Well
<1>3. memory' \in Seq(file'.blocks) /\ entries' \in Seq(file'.blocks \cup {Nowhere})
  BY <1>2, StaysPlaced DEF WInv
<1> HIDE DEF Given
<1>4. list'.block = Given(n) /\ list'.object = object
  OBVIOUS
<1>5. Placed'
  BY <1>1, <1>2, <1>3, <1>4 DEF WInv, Placed
<1> QED
  BY <1>1, <1>2, <1>4, <1>5

LEMMA StartListWell ==
  ASSUME WInv, NEW from, NEW to, NEW n \in Nat, NEW size \in Nat,
         \/ from = "threads" /\ to = "stack" /\ n = NumThreads /\ size = ThreadSize
         \/ from = "modules" /\ to = "cv" /\ n = NumModules /\ size = ModuleSize
         \/ from = "app" /\ to = "memory" /\ n = Len(memory) /\ size = DescriptorSize,
         StartList(from, to, n, size)
  PROVE  GoesWell
<1>1. ListSize(n, size) \in Nat \ {0} /\ Word <= ListSize(n, size) /\ Word \in Nat
  <2>1. n * size \in Nat
    OBVIOUS
  <2> QED
    BY <2>1 DEF ListSize, Word
<1>2. CASE Abandon(Word)
  BY <1>1, <1>2, AbandonWell
<1>3. CASE ~Abandon(Word)
  <2>1. /\ pc = from /\ pc' = to
        /\ file' = Allocate(file, ListSize(n, size))
        /\ list' = [block |-> Given(ListSize(n, size)), object |-> Word]
        /\ UNCHANGED <<input, dir, links, memory, context, entries>>
    BY <1>3 DEF StartList
  <2>2. /\ Well(file') /\ Placed' /\ list'.block \in file'.blocks
        /\ list'.block.len = ListSize(n, size) /\ file.blocks \subseteq file'.blocks
    BY <1>1, <2>1, StartWell
  <2>3. dir' \in file'.blocks /\ dir'.len = NumStreams * EntrySize
    BY <2>1, <2>2 DEF WInv, Room
  <2>4. ListOf(n, size)'
    BY <2>1, <2>2 DEF ListOf
  <2>5. Room'
    BY <2>1, <2>2, <2>3 DEF Room, ListOf, NumThreads, NumModules
  <2> QED
    BY <2>1, <2>2, <2>5 DEF GoesWell
<1> QED
  BY <1>2, <1>3

LEMMA EnterGoesWell ==
  ASSUME WInv, NEW f, Well(f), NEW entry, entry \in f.blocks \cup {Nowhere},
         pc \in Entering, Enter(f, entry),
         UNCHANGED <<input, dir, links, memory, context>>,
         pc' \in {"modules", "app", "exception", "system", "file", "dso", "finish"}
  PROVE  GoesWell
<1>1. dir \in file.blocks /\ dir.len = NumStreams * EntrySize
  BY DEF WInv, Room, Entering
<1>2. Len(entries) <= 12
  BY CountedBelow DEF WInv
<1>3. /\ Well(file') /\ file'.blocks = f.blocks
      /\ entries' \in Seq(file'.blocks \cup {Nowhere}) /\ Len(entries') <= NumStreams
  BY <1>1, <1>2, EnterWell DEF WInv
<1>4. file.blocks \subseteq file'.blocks
  BY <1>3 DEF Well
<1>5. memory' \in Seq(file'.blocks)
  BY <1>4, StaysPlaced DEF WInv
<1>6. list' = NoList
  BY DEF Enter
<1>7. Placed'
  BY <1>3, <1>4, <1>5, <1>6 DEF WInv, Placed, NoList
<1>8. Room'
  BY <1>1, <1>4 DEF Room
<1> QED
  BY <1>3, <1>7, <1>8 DEF GoesWell

\* A step within a stream: the list, the directory and the link maps stay.
LEMMA WithinWell ==
  ASSUME WInv, Well(file'), UNCHANGED <<input, list, dir, links, entries>>,
         context' = context \/ context' \in file'.blocks,
         memory' \in Seq(file'.blocks),
         \/ pc = "stack" /\ pc' = "ip" /\ i <= NumThreads /\ i' = i
         \/ pc = "ip" /\ pc' = "context" /\ i' = i
         \/ pc = "context" /\ pc' = "stack"
         \/ pc = "cv" /\ pc' = "name"
         \/ pc = "name" /\ pc' = "cv"
         \/ pc = "app" /\ pc' = "app"
         \/ pc = "memory" /\ pc' = "memory" /\ memory' = memory
         \/ pc = "dso" /\ pc' = "debug"
         \/ pc = "link" /\ pc' = "link"
         \/ pc = "link" /\ pc' = "debug"
         \/ pc = "finish" /\ pc' = "done"
         \/ pc = "done" /\ pc' = "written"
         \/ pc' \in {"failed", "lost", "killed"}
         \/ pc = pc' /\ i' = i /\ memory' = memory
  PROVE  GoesWell
<1>1. file.blocks \subseteq file'.blocks
  BY DEF Well
<1>2. entries' \in Seq(file'.blocks \cup {Nowhere})
  BY <1>1, StaysPlaced DEF WInv
<1>3. Placed'
  BY <1>1, <1>2 DEF WInv, Placed
<1>4. Room'
  <2>1. /\ pc' \in {"stack", "ip", "context"} => pc \in {"stack", "ip", "context"}
        /\ pc' \in {"cv", "name"} => pc \in {"cv", "name"}
        /\ pc' = "memory" => pc = "memory" /\ memory' = memory
        /\ pc' = "os" => pc = "os"
        /\ pc' = "link" => pc = "link"
        /\ pc' \notin {"prepare", "header", "directory", "failed", "lost", "killed"} =>
             pc \notin {"prepare", "header", "directory", "failed", "lost", "killed"}
        /\ pc' \in {"ip", "context"} => i' = i /\ (i <= NumThreads \/ pc \in {"ip", "context"})
    OBVIOUS
  <2>2. NumThreads' = NumThreads /\ NumModules' = NumModules
    BY DEF NumThreads, NumModules
  <2>3. \A n, size : ListOf(n, size) => ListOf(n, size)'
    BY <1>1 DEF ListOf
  <2> QED
    BY <1>1, <2>1, <2>2, <2>3 DEF WInv, Room, ListOf
<1> QED
  BY <1>3, <1>4 DEF GoesWell

\* Prepare only opens the file.
LEMMA PrepareWell == ASSUME WInv, Prepare PROVE GoesWell
<1>1. \/ file' = Opened(file) \/ file' = GivenFile(file, input.kernelBug) \/ file' = file
  BY DEF Prepare
<1>2. input \in Input
  BY InputFacts DEF WInv, IInv, Rest
<1>3. input.kernelBug \in BOOLEAN
  BY <1>2 DEF Input
<1>4. /\ file' \in File /\ file'.blocks = file.blocks /\ file'.writes = file.writes
  BY <1>1, <1>3 DEF WInv, Good, Opened, GivenFile, File
<1>5. Sound(file')
  BY PrepareKeeps DEF WInv, IInv
<1>6. /\ pc' \in {"header", "failed"}
      /\ UNCHANGED <<input, i, list, dir, links, memory, context, entries>>
  BY DEF Prepare
<1>7. Well(file')
  BY <1>4, <1>5, <1>6 DEF WInv, Well, Good, WritesFit, Inside
<1>8. Placed'
  BY <1>4, <1>6 DEF WInv, Placed
<1>9. Room'
  BY <1>6 DEF Room
<1> QED
  BY <1>6, <1>7, <1>8, <1>9 DEF GoesWell

LEMMA HeaderWell == ASSUME WInv, WriteHeader \/ WriteDirectory PROVE GoesWell
<1>0. HeaderSize \in Nat \ {0} /\ NumStreams * EntrySize \in Nat \ {0}
  BY Sizes
<1>1. CASE Abandon(HeaderSize) \/ Abandon(0)
  BY <1>0, <1>1, AbandonWell
<1>2. CASE WriteHeader /\ ~Abandon(HeaderSize)
  <2>1. /\ pc' = "directory" /\ file' = Allocate(file, HeaderSize)
        /\ list' = [block |-> Given(HeaderSize), object |-> HeaderSize]
        /\ UNCHANGED <<input, i, dir, links, memory, context, entries>>
    BY <1>2 DEF WriteHeader
  <2>2. Well(file') /\ Placed'
    BY <1>0, <2>1, StartWell
  <2> QED
    BY <2>1, <2>2 DEF GoesWell, Room
<1>3. CASE WriteDirectory /\ ~Abandon(0)
  <2> DEFINE n == NumStreams * EntrySize
  <2>1. /\ pc' = "threads" /\ file' = Flushed(Allocate(file, n))
        /\ list' = NoList /\ dir' = Given(n)
        /\ UNCHANGED <<input, i, links, memory, context, entries>>
    BY <1>3 DEF WriteDirectory
  <2>2. n \in Nat \ {0}
    BY <1>0
  <2> HIDE DEF n
  <2>3. /\ Well(Allocate(file, n)) /\ Given(n) \in Allocate(file, n).blocks /\ Given(n).len = n
    BY <2>2, AllocateWell DEF WInv
  <2>4. Well(file') /\ dir' \in file'.blocks /\ dir'.len = n
    BY <2>1, <2>3, FlushedWell DEF WInv
  <2>5. file.blocks \subseteq file'.blocks
    BY <2>4 DEF Well
  <2>6. memory' \in Seq(file'.blocks) /\ entries' \in Seq(file'.blocks \cup {Nowhere})
    BY <2>1, <2>5, StaysPlaced DEF WInv
  <2>7. Placed'
    BY <2>1, <2>4, <2>5, <2>6 DEF WInv, Placed, NoList
  <2>8. Room'
    BY <2>1, <2>4 DEF Room, n
  <2> QED
    BY <2>1, <2>4, <2>7, <2>8 DEF GoesWell
<1> QED
  BY <1>1, <1>2, <1>3

LEMMA RememberWell ==
  ASSUME WInv, NEW from, NEW to, NEW n \in Nat, Remember(from, to, n)
  PROVE  Well(file') /\ memory' \in Seq(file'.blocks) /\ pc = from /\ pc' = to
<1>1. CASE n = 0 /\ UNCHANGED <<file, memory>> /\ pc' = to
  BY <1>1 DEF Remember, WInv, Well, Placed
<1>2. CASE ~(n = 0 /\ UNCHANGED <<file, memory>> /\ pc' = to)
  <2>1. n \in Nat \ {0} /\ file' = Filled(n) /\ memory' = Append(memory, Given(n))
        /\ pc = from /\ pc' = to
    BY <1>2 DEF Remember
  <2>2. Well(file') /\ Given(n) \in file'.blocks
    BY <2>1, FilledWell DEF WInv
  <2>3. memory \in Seq(file'.blocks)
    BY <2>2, StaysPlaced DEF WInv, Well
  <2> QED
    BY <2>1, <2>2, <2>3
<1> QED
  BY <1>1, <1>2

LEMMA InputRead ==
  ASSUME WInv
  PROVE  /\ input \in Input /\ i \in Nat \ {0}
         /\ input.threads \in Seq(Nat) /\ input.ip \in Nat
         /\ input.app \in Seq(Nat \ {0}) /\ input.os \in Strings
         /\ input.files \in [1 .. 7 -> Nat]
         /\ input.modules \in Seq([id : Nat, name : Strings])
         /\ input.links \in Seq(Strings) /\ input.later \in Seq(Strings)
         /\ NumThreads \in Nat /\ NumModules \in Nat
<1>1. input \in Input /\ i \in Nat \ {0}
  BY InputFacts DEF WInv, IInv, Rest
<1>2. /\ input.threads \in Seq(Nat) /\ input.ip \in Nat
      /\ input.app \in Seq(Nat \ {0}) /\ input.os \in Strings
      /\ input.files \in [1 .. 7 -> Nat]
      /\ input.links \in Seq(Strings) /\ input.later \in Seq(Strings)
  BY <1>1 DEF Input
<1>3. input.modules \in Seq([id : Nat, name : Strings])
  BY <1>1 DEF Input
<1>4. \A S, q : q \in Seq(S) => Len(q) \in Nat
  OBVIOUS
<1>5. NumThreads \in Nat /\ NumModules \in Nat
  BY <1>2, <1>3, <1>4, Zenon DEF NumThreads, NumModules
<1> QED
  BY <1>1, <1>2, <1>3, <1>5

LEMMA ThreadsWell ==
  ASSUME WInv, ThreadList \/ ThreadStack \/ ThreadIp \/ ThreadContext \/ EndThreads
  PROVE  GoesWell
<1>1. input.threads \in Seq(Nat) /\ input.ip \in Nat /\ NumThreads \in Nat /\ i \in Nat \ {0}
  BY InputRead
<1>2. CASE ThreadList
  BY <1>1, <1>2, StartListWell DEF ThreadList, ThreadSize
<1>3. CASE ThreadStack
  <2>1. i <= NumThreads /\ input.threads[i] \in Nat
    BY <1>1, <1>3 DEF ThreadStack, NumThreads
  <2>2. CASE Abandon(0)
    BY <2>2, AbandonWell
  <2>3. CASE Remember("stack", "ip", input.threads[i])
             /\ UNCHANGED <<input, i, list, dir, links, context, entries>>
    <3>1. Well(file') /\ memory' \in Seq(file'.blocks) /\ pc = "stack" /\ pc' = "ip"
      BY <2>1, <2>3, RememberWell
    <3> QED
      BY <2>1, <2>3, <3>1, WithinWell
  <2> QED
    BY <1>3, <2>2, <2>3 DEF ThreadStack
<1>4. CASE ThreadIp
  <2> DEFINE n == IF i = input.crashed THEN input.ip ELSE 0
  <2>1. n \in Nat
    BY <1>1
  <2>2. CASE Abandon(0)
    BY <2>2, AbandonWell
  <2>3. CASE Remember("ip", "context", n)
             /\ UNCHANGED <<input, i, list, dir, links, context, entries>>
    <3> HIDE DEF n
    <3>1. Well(file') /\ memory' \in Seq(file'.blocks) /\ pc = "ip" /\ pc' = "context"
      BY <2>1, <2>3, RememberWell
    <3> QED
      BY <2>3, <3>1, WithinWell
  <2> QED
    BY <1>4, <2>2, <2>3 DEF ThreadIp
<1>5. CASE ThreadContext
  <2>0. ContextSize \in Nat \ {0} /\ ContextSize \in Nat
    BY Sizes
  <2>1. CASE Abandon(ContextSize)
    BY <2>0, <2>1, AbandonWell
  <2>2. CASE ~Abandon(ContextSize)
    <3>1. /\ pc = "context" /\ pc' = "stack"
          /\ file' = CopyIndexAfterObject(Filled(ContextSize), list.block, Word, i - 1, ThreadSize)
          /\ context' = IF i = input.crashed THEN Given(ContextSize) ELSE context
          /\ UNCHANGED <<input, list, dir, links, memory, entries>>
      BY <1>5, <2>2 DEF ThreadContext, Go
    <3>2. Well(Filled(ContextSize)) /\ Given(ContextSize) \in Filled(ContextSize).blocks
      BY <2>0, FilledWell DEF WInv
    <3>3. /\ list.block \in file.blocks /\ list.block.len = ListSize(NumThreads, ThreadSize)
          /\ i <= NumThreads
      BY <3>1 DEF WInv, Room, ListOf
    <3>4. Word + (i - 1) * ThreadSize + ThreadSize <= list.block.len
      BY <1>1, <3>3 DEF ListSize, ThreadSize, Word
    <3>5. i - 1 \in Nat /\ Word \in Nat /\ ThreadSize \in Nat \ {0} /\ list.block \in Filled(ContextSize).blocks
      BY <1>1, <3>2, <3>3 DEF Word, ThreadSize, Well
    <3>6. Well(file') /\ file'.blocks = Filled(ContextSize).blocks
      BY <3>1, <3>2, <3>3, <3>4, <3>5, IndexWell DEF WInv
    <3>7. memory' \in Seq(file'.blocks)
      BY <3>1, <3>6, StaysPlaced DEF WInv, Well
    <3>8. context' = context \/ context' \in file'.blocks
      BY <3>1, <3>2, <3>6
    <3> QED
      BY <3>1, <3>6, <3>7, <3>8, WithinWell
  <2> QED
    BY <2>1, <2>2
<1>6. CASE EndThreads
  <2>1. /\ pc = "stack" /\ pc' = "modules" /\ Enter(file, list.block)
        /\ UNCHANGED <<input, dir, links, memory, context>>
    BY <1>6 DEF EndThreads, EndList, Go
  <2>2. Well(file) /\ list.block \in file.blocks \cup {Nowhere}
    BY DEF WInv, Well, Placed
  <2> QED
    BY <2>1, <2>2, EnterGoesWell DEF Entering
<1> QED
  BY <1>2, <1>3, <1>4, <1>5, <1>6

LEMMA ModulesWell ==
  ASSUME WInv, ModuleList \/ ModuleId \/ EndModules
  PROVE  GoesWell
<1>1. NumModules \in Nat /\ i \in Nat \ {0}
  BY InputRead
<1>2. CASE ModuleList
  BY <1>1, <1>2, StartListWell DEF ModuleList, ModuleSize
<1>3. CASE ModuleId
  <2> DEFINE Module == [id : Nat, name : Strings]
             n == CvHeader + input.modules[i].id
  <2>1. i <= Len(input.modules) /\ input.modules \in Seq(Module)
    BY <1>3, InputRead DEF ModuleId, NumModules
  <2>2. input.modules[i] \in Module
    <3> HIDE DEF Module
    <3> QED
      BY <1>1, <2>1
  <2>3. n \in Nat \ {0}
    BY <2>2 DEF CvHeader
  <2> HIDE DEF n
  <2>4. CASE Abandon(0)
    BY <2>4, AbandonWell
  <2>5. CASE ~Abandon(0)
    <3>1. /\ pc = "cv" /\ pc' = "name"
          /\ file' \in {file, Filled(n)}
          /\ UNCHANGED <<input, i, list, dir, links, memory, context, entries>>
      BY <1>3, <2>5 DEF ModuleId, Go, n
    <3>2. Well(file')
      BY <2>3, <3>1, FilledWell DEF WInv, Well
    <3>3. memory' \in Seq(file'.blocks)
      BY <3>1, <3>2, StaysPlaced DEF WInv, Well
    <3> QED
      BY <3>1, <3>2, <3>3, WithinWell
  <2> QED
    BY <2>4, <2>5
<1>4. CASE EndModules
  <2>1. /\ pc = "cv" /\ pc' = "app" /\ Enter(file, list.block)
        /\ UNCHANGED <<input, dir, links, memory, context>>
    BY <1>4 DEF EndModules, EndList, Go
  <2>2. Well(file) /\ list.block \in file.blocks \cup {Nowhere}
    BY DEF WInv, Well, Placed
  <2> QED
    BY <2>1, <2>2, EnterGoesWell DEF Entering
<1> QED
  BY <1>2, <1>3, <1>4

LEMMA ModuleNameWell == ASSUME WInv, ModuleName PROVE GoesWell
<1> DEFINE Module == [id : Nat, name : Strings]
           s == input.modules[i].name
           n == StringSize(s)
           g == WriteString(Allocate(file, n), Given(n), s)
<1>1. /\ pc = "name" /\ i \in Nat \ {0} /\ i <= Len(input.modules)
      /\ input.modules \in Seq(Module) /\ NumModules \in Nat
  BY InputRead DEF ModuleName, WInv, IInv, Rest
<1>2. i \in DOMAIN input.modules /\ input.modules[i] \in Module
  <2> HIDE DEF Module
  <2> QED
    BY <1>1
<1>3. s \in Strings
  BY <1>2
<1>4. Neat => s \in Basic
  BY <1>2 DEF Neat
<1> HIDE DEF s
<1>5. Well(g)
  BY <1>3, <1>4, WriteStringWell DEF WInv
<1>6. Word \in Nat
  BY DEF Word
<1>7. CASE Abandon(Word)
  BY <1>6, <1>7, AbandonWell
<1>8. CASE /\ file' = CopyIndexAfterObject(g, list.block, Word, i - 1, ModuleSize)
           /\ NextElement("name", "cv")
           /\ UNCHANGED memory
  <2> HIDE DEF g
  <2>1. /\ list.block \in file.blocks /\ list.block.len = ListSize(NumModules, ModuleSize)
        /\ i <= NumModules
    BY <1>1 DEF WInv, Room, ListOf, NumModules
  <2>2. Word + (i - 1) * ModuleSize + ModuleSize <= list.block.len
    BY <1>1, <2>1 DEF ListSize, ModuleSize, Word
  <2>3. i - 1 \in Nat /\ ModuleSize \in Nat \ {0} /\ list.block \in g.blocks
    BY <1>1, <1>5, <2>1 DEF ModuleSize, Well
  <2>4. Well(file')
    BY <1>5, <1>6, <1>8, <2>1, <2>2, <2>3, IndexWell DEF WInv
  <2>5. /\ pc' = "cv" /\ UNCHANGED <<input, list, dir, links, memory, context, entries>>
    BY <1>8 DEF NextElement, Go
  <2>6. memory' \in Seq(file'.blocks)
    BY <2>4, <2>5, StaysPlaced DEF WInv, Well
  <2> QED
    BY <1>1, <2>4, <2>5, <2>6, WithinWell
<1>9. CASE /\ file' = Flushed(g)
           /\ pc' = "failed"
           /\ list' = NoList
           /\ UNCHANGED <<input, i, dir, links, memory, context, entries>>
  <2> HIDE DEF g
  <2>1. Well(file')
    BY <1>5, <1>9, FlushedWell DEF WInv
  <2>2. file.blocks \subseteq file'.blocks
    BY <2>1 DEF Well
  <2>3. memory' \in Seq(file'.blocks) /\ entries' \in Seq(file'.blocks \cup {Nowhere})
    BY <1>9, <2>2, StaysPlaced DEF WInv
  <2>4. Placed'
    BY <1>9, <2>2, <2>3 DEF WInv, Placed, NoList
  <2>5. Room'
    BY <1>9 DEF Room
  <2> QED
    BY <1>9, <2>1, <2>4, <2>5 DEF GoesWell
<1> QED
  BY <1>7, <1>8, <1>9 DEF ModuleName, s

LEMMA MemoryWell ==
  ASSUME WInv, AppMemory \/ MemoryList \/ MemoryEntry \/ EndMemory
  PROVE  GoesWell
<1>1. i \in Nat \ {0} /\ input.app \in Seq(Nat \ {0}) /\ memory \in Seq(file.blocks)
  BY InputRead DEF WInv, Placed
<1>2. CASE AppMemory
  <2>1. input.app[i] \in Nat
    BY <1>1, <1>2 DEF AppMemory
  <2>2. CASE Abandon(0)
    BY <2>2, AbandonWell
  <2>3. CASE Remember("app", "app", input.app[i])
             /\ i' = i + 1 /\ UNCHANGED <<input, list, dir, links, context, entries>>
    <3>1. Well(file') /\ memory' \in Seq(file'.blocks) /\ pc = "app" /\ pc' = "app"
      BY <2>1, <2>3, RememberWell
    <3> QED
      BY <2>3, <3>1, WithinWell
  <2> QED
    BY <1>2, <2>2, <2>3 DEF AppMemory
<1>3. CASE MemoryList
  <2>1. Len(memory) \in Nat /\ DescriptorSize \in Nat
    BY <1>1 DEF DescriptorSize
  <2> QED
    BY <1>3, <2>1, StartListWell DEF MemoryList
<1>4. CASE MemoryEntry
  <2>1. /\ pc = "memory" /\ pc' = "memory" /\ i <= Len(memory)
        /\ file' = CopyIndexAfterObject(file, list.block, Word, i - 1, DescriptorSize)
        /\ UNCHANGED <<input, list, dir, links, memory, context, entries>>
    BY <1>4 DEF MemoryEntry, NextElement, Go
  <2>2. /\ list.block \in file.blocks /\ list.block.len = ListSize(Len(memory), DescriptorSize)
    BY <2>1 DEF WInv, Room, ListOf
  <2> DEFINE n == Len(memory)
  <2>3. n \in Nat /\ i <= n /\ list.block.len = ListSize(n, DescriptorSize)
    BY <1>1, <2>1, <2>2
  <2> HIDE DEF n
  <2>4. Word + (i - 1) * DescriptorSize + DescriptorSize <= list.block.len
    BY <1>1, <2>3 DEF ListSize, DescriptorSize, Word
  <2>5. i - 1 \in Nat /\ DescriptorSize \in Nat \ {0} /\ Word \in Nat /\ Well(file)
    BY <1>1 DEF DescriptorSize, Word, WInv, Well
  <2>6. Well(file')
    BY <2>1, <2>2, <2>4, <2>5, IndexWell DEF WInv
  <2>7. memory' \in Seq(file'.blocks)
    BY <2>1, <2>6, StaysPlaced DEF WInv, Well
  <2> QED
    BY <2>1, <2>6, <2>7, WithinWell
<1>5. CASE EndMemory
  <2>1. /\ pc = "memory" /\ pc' = "exception" /\ Enter(file, list.block)
        /\ UNCHANGED <<input, dir, links, memory, context>>
    BY <1>5 DEF EndMemory, EndList, Go
  <2>2. Well(file) /\ list.block \in file.blocks \cup {Nowhere}
    BY DEF WInv, Well, Placed
  <2> QED
    BY <2>1, <2>2, EnterGoesWell DEF Entering
<1> QED
  BY <1>2, <1>3, <1>4, <1>5

LEMMA StreamsWell ==
  ASSUME WInv, ExceptionStream \/ SystemInfo \/ OSInformation \/ WriteFile
  PROVE  GoesWell
<1>1. CASE ExceptionStream
  <2>0. ExceptionSize \in Nat \ {0} /\ ExceptionSize \in Nat
    BY Sizes
  <2>1. CASE Abandon(ExceptionSize)
    BY <2>0, <2>1, AbandonWell
  <2>2. CASE ~Abandon(ExceptionSize)
    <3>1. /\ pc = "exception" /\ pc' = "system"
          /\ Enter(Filled(ExceptionSize), Given(ExceptionSize))
          /\ UNCHANGED <<input, i, dir, links, memory, context>>
      BY <1>1, <2>2 DEF ExceptionStream, Go
    <3>2. Well(Filled(ExceptionSize)) /\ Given(ExceptionSize) \in Filled(ExceptionSize).blocks
      BY <2>0, FilledWell DEF WInv
    <3> QED
      BY <3>1, <3>2, EnterGoesWell DEF Entering
  <2> QED
    BY <2>1, <2>2
<1>2. CASE SystemInfo
  <2>0. SystemSize \in Nat \ {0} /\ SystemSize \in Nat /\ SystemSize <= SystemSize
    BY Sizes
  <2>1. CASE Abandon(SystemSize)
    BY <2>0, <2>1, AbandonWell
  <2>2. CASE ~Abandon(SystemSize)
    <3>1. /\ pc = "system" /\ pc' = "os" /\ file' = Allocate(file, SystemSize)
          /\ list' = [block |-> Given(SystemSize), object |-> SystemSize]
          /\ UNCHANGED <<input, i, dir, links, memory, context, entries>>
      BY <1>2, <2>2 DEF SystemInfo
    <3>2. /\ Well(file') /\ Placed' /\ list'.block \in file'.blocks
          /\ file.blocks \subseteq file'.blocks
      BY <2>0, <3>1, StartWell
    <3>3. dir' \in file'.blocks /\ dir'.len = NumStreams * EntrySize
      BY <3>1, <3>2 DEF WInv, Room
    <3> QED
      BY <3>1, <3>2, <3>3 DEF GoesWell, Room
  <2> QED
    BY <2>1, <2>2
<1>3. CASE OSInformation
  <2> DEFINE n == StringSize(input.os)
             g == WriteString(Allocate(file, n), Given(n), input.os)
  <2>1. input.os \in Strings /\ (Neat => input.os \in Basic)
    BY InputRead DEF Neat
  <2>2. Well(g) /\ Well(file)
    BY <2>1, WriteStringWell DEF WInv, Well
  <2>3. Well(FlushLost(file, Word))
    BY FlushLostWell DEF WInv, Word
  <2>4. /\ pc = "os" /\ pc' = "file"
        /\ \/ Enter(g, list.block) \/ Enter(FlushLost(file, Word), list.block)
           \/ Enter(file, list.block)
        /\ UNCHANGED <<input, i, dir, links, memory, context>>
    BY <1>3 DEF OSInformation, Go
  <2> HIDE DEF g
  <2>5. \A f : Well(f) => list.block \in f.blocks \cup {Nowhere}
    BY DEF WInv, Placed, Well
  <2> QED
    BY <2>2, <2>3, <2>4, <2>5, EnterGoesWell DEF Entering
<1>4. CASE WriteFile
  <2> DEFINE m == Len(entries) - Mandatory + 1
             n == input.files[m]
  <2>1. /\ pc = "file" /\ pc' \in {"dso", "file"}
        /\ (n > 0 /\ Enter(Filled(n), Given(n))) \/ Enter(file, Nowhere)
        /\ UNCHANGED <<input, i, dir, links, memory, context>>
    BY <1>4 DEF WriteFile, Go
  <2>2. Len(entries) \in 5 .. 11
    BY <2>1 DEF WInv, IInv, Rest, Counted
  <2>3. m \in 1 .. 7
    BY <2>2, FileEntries
  <2> HIDE DEF m
  <2>4. n \in Nat
    BY <2>3, InputRead
  <2> HIDE DEF n
  <2>5. CASE n > 0 /\ Enter(Filled(n), Given(n))
    <3>1. n \in Nat \ {0}
      BY <2>4, <2>5
    <3>2. Well(Filled(n)) /\ Given(n) \in Filled(n).blocks
      BY <3>1, FilledWell DEF WInv
    <3> QED
      BY <2>1, <2>5, <3>2, EnterGoesWell DEF Entering
  <2>6. CASE Enter(file, Nowhere)
    <3>1. Well(file)
      BY DEF WInv, Well
    <3> QED
      BY <2>1, <2>6, <3>1, EnterGoesWell DEF Entering
  <2> QED
    BY <2>1, <2>5, <2>6
<1> QED
  BY <1>1, <1>2, <1>3, <1>4

LEMMA NoDebugWell ==
  ASSUME WInv, NEW f, Well(f), pc \in {"dso", "link", "debug"}, NoDebug(f)
  PROVE  GoesWell
BY EnterGoesWell DEF NoDebug, Entering

LEMMA LinksWell == ASSUME WInv, CountLinks \/ EndLinks PROVE GoesWell
<1> DEFINE n == Len(input.links) * LinkMapSize
<1>0. n \in Nat
  <2>1. Len(input.links) \in Nat
    BY InputRead
  <2> QED
    BY <2>1 DEF LinkMapSize
<1> HIDE DEF n
<1>1. Well(file)
  BY DEF WInv, Well
<1>2. CASE pc = "dso" /\ NoDebug(file)
  BY <1>1, <1>2, NoDebugWell
<1>3. CASE EndLinks \/ (CountLinks /\ n = 0 /\ pc' = "debug" /\ UNCHANGED <<file, links, entries>>)
  <2>1. /\ pc \in {"dso", "link"} /\ pc' = "debug" /\ file' = file
        /\ UNCHANGED <<input, list, dir, links, memory, context, entries>>
    BY <1>3 DEF EndLinks, CountLinks, NoDebug, Enter, Go
  <2>2. memory' \in Seq(file'.blocks)
    BY <2>1 DEF WInv, Placed
  <2>3. Well(file')
    BY <1>1, <2>1
  <2> QED
    BY <2>1, <2>2, <2>3, WithinWell
<1>4. CASE /\ pc = "dso" /\ pc' = "link" /\ n > 0 /\ file' = Allocate(file, n) /\ links' = Given(n)
           /\ UNCHANGED <<input, list, dir, memory, context, entries>>
  <2>1. n \in Nat \ {0}
    BY <1>0, <1>4
  <2>2. Well(file') /\ links' \in file'.blocks /\ links'.len = n
    BY <1>4, <2>1, AllocateWell DEF WInv
  <2>3. file.blocks \subseteq file'.blocks
    BY <2>2 DEF Well
  <2>4. memory' \in Seq(file'.blocks) /\ entries' \in Seq(file'.blocks \cup {Nowhere})
    BY <1>4, <2>3, StaysPlaced DEF WInv
  <2>5. Placed'
    BY <1>4, <2>2, <2>3, <2>4 DEF WInv, Placed
  <2>6. dir' \in file'.blocks /\ dir'.len = NumStreams * EntrySize
    BY <1>4, <2>3 DEF WInv, Room
  <2>7. Room'
    BY <1>4, <2>2, <2>6 DEF Room, n
  <2> QED
    BY <1>4, <2>2, <2>5, <2>7 DEF GoesWell
<1> QED
  BY <1>2, <1>3, <1>4 DEF CountLinks, n

LEMMA WriteLinkWell == ASSUME WInv, WriteLink PROVE GoesWell
<1> DEFINE s == input.later[i]
           n == StringSize(s)
           g == WriteString(Allocate(file, n), Given(n), s)
<1>1. /\ pc = "link" /\ i \in Nat \ {0} /\ i <= Len(input.later)
      /\ input.later \in Seq(Strings)
  BY InputRead DEF WriteLink
<1>2. i \in DOMAIN input.later /\ s \in Strings
  <2> HIDE DEF Strings
  <2> QED
    BY <1>1
<1>3. Neat => s \in Basic
  BY <1>2 DEF Neat
<1> HIDE DEF s
<1>4. Well(g) /\ Well(file)
  BY <1>2, <1>3, WriteStringWell DEF WInv, Well
<1>5. Well(FlushLost(file, Word))
  BY FlushLostWell DEF WInv, Word
<1>6. CASE NoDebug(g) \/ NoDebug(FlushLost(file, Word)) \/ NoDebug(file)
  <2> HIDE DEF g
  <2> QED
    BY <1>1, <1>4, <1>5, <1>6, NoDebugWell
<1>7. CASE /\ file' = CopyIndexAfterObject(g, links, 0, i - 1, LinkMapSize)
           /\ NextElement("link", "link")
           /\ UNCHANGED memory
  <2> HIDE DEF g
  <2>1. links \in file.blocks /\ links.len = Len(input.links) * LinkMapSize
    BY <1>1 DEF WInv, Room
  <2> DEFINE k == Len(input.links)
  <2>2. k \in Nat /\ (Neat => i <= k)
    <3>1. Len(input.links) \in Nat /\ Len(input.later) \in Nat
      <4>1. \A q \in Seq(Strings) : Len(q) \in Nat
        OBVIOUS
      <4> QED
        BY <4>1, InputRead, Zenon
    <3> QED
      BY <1>1, <3>1 DEF Neat
  <2>3. links.len = k * 20
    BY <2>1 DEF LinkMapSize
  <2> HIDE DEF k
  <2>4. Neat => links \in g.blocks /\ 0 + (i - 1) * LinkMapSize + LinkMapSize <= links.len
    BY <1>1, <1>4, <2>1, <2>2, <2>3 DEF LinkMapSize, Well
  <2>5. i - 1 \in Nat /\ LinkMapSize \in Nat \ {0}
    BY <1>1 DEF LinkMapSize
  <2>6. Well(file')
    BY <1>4, <1>7, <2>1, <2>4, <2>5, IndexWell DEF WInv
  <2>7. pc' = "link" /\ UNCHANGED <<input, list, dir, links, memory, context, entries>>
    BY <1>7 DEF NextElement, Go
  <2>8. memory' \in Seq(file'.blocks)
    BY <2>6, <2>7, StaysPlaced DEF WInv, Well
  <2> QED
    BY <1>1, <2>6, <2>7, <2>8, WithinWell
<1> QED
  BY <1>6, <1>7 DEF WriteLink, s

LEMMA DebugWell == ASSUME WInv, WriteDebug PROVE GoesWell
<1> DEFINE n == DebugSize + DynSize
           b == Given(n)
           f == Allocate(file, n)
           g == Copy(f, b, file.position + DebugSize, DynSize)
           h == Copy(g, b, file.position, DebugSize)
<1>1. n \in Nat \ {0} /\ n = 56 /\ DebugSize = 40 /\ DynSize = 16
  BY DEF DebugSize, DynSize
<1>2. /\ Well(f) /\ b \in f.blocks /\ b.at = file.position /\ b.len = n /\ file.position \in Nat
  BY <1>1, AllocateWell DEF WInv, Good, Sound
<1> HIDE DEF n, b, f
<1>3. Well(g) /\ g.blocks = f.blocks
  BY <1>1, <1>2, CopyWell
<1> HIDE DEF g
<1>4. Well(h) /\ h.blocks = f.blocks
  BY <1>1, <1>2, <1>3, CopyWell
<1> HIDE DEF h
<1>5. Well(FlushLost(file, DebugSize))
  BY <1>1, FlushLostWell DEF WInv
<1>6. /\ pc = "debug"
      /\ \/ Enter(h, b) /\ pc' = "finish" /\ UNCHANGED <<input, i, dir, links, memory, context>>
         \/ NoDebug(FlushLost(file, DebugSize))
  BY DEF WriteDebug, h, g, f, b, n
<1>7. CASE NoDebug(FlushLost(file, DebugSize))
  BY <1>5, <1>6, <1>7, NoDebugWell
<1>8. CASE Enter(h, b) /\ pc' = "finish" /\ UNCHANGED <<input, i, dir, links, memory, context>>
  BY <1>2, <1>4, <1>6, <1>8, EnterGoesWell DEF Entering
<1> QED
  BY <1>6, <1>7, <1>8

LEMMA EndWell == ASSUME WInv, Finish \/ Destroy \/ DiskFills \/ Kill PROVE GoesWell
<1>1. file \in File /\ memory \in Seq(file.blocks) /\ Well(file)
  BY DEF WInv, Good, Placed, Well
<1>2. \A f \in File : \A t :
        /\ Closed(f, t) \in File /\ Closed(f, t).blocks = f.blocks
        /\ Closed(f, t).writes = f.writes
  BY DEF Closed, File
<1>3. /\ file' \in File /\ file'.blocks = file.blocks /\ file'.writes = file.writes
  <2>1. CASE Finish \/ Kill
    BY <1>1, <2>1 DEF Finish, Kill
  <2>2. CASE Destroy
    BY <1>1, <1>2, <2>2 DEF Destroy
  <2>3. CASE DiskFills
    BY <1>1, <2>3 DEF DiskFills, File
  <2> QED
    BY <2>1, <2>2, <2>3
<1>4. Sound(file')
  BY EndKeeps DEF WInv, IInv
<1>5. Well(file')
  BY <1>1, <1>3, <1>4 DEF Well, Good, WritesFit, Inside
<1>6. /\ \/ pc = "finish" /\ pc' = "done"
         \/ pc = "done" /\ pc' = "written"
         \/ pc' \in {"failed", "lost", "killed"}
         \/ pc' = pc
      /\ UNCHANGED <<input, i, list, dir, links, memory, context, entries>>
  BY DEF Finish, Destroy, DiskFills, Kill, Go
<1>7. memory' \in Seq(file'.blocks)
  BY <1>1, <1>3, <1>6
<1> QED
  BY <1>5, <1>6, <1>7, WithinWell

LEMMA NextWell == ASSUME WInv, Next PROVE GoesWell
BY PrepareWell, HeaderWell, ThreadsWell, ModulesWell, ModuleNameWell, MemoryWell,
   StreamsWell, LinksWell, WriteLinkWell, DebugWell, EndWell DEF Next

LEMMA WInvStep == ASSUME WInv, [Next]_vars PROVE WInv'
<1>1. IInv'
  BY StepSound DEF WInv
<1>2. CASE UNCHANGED vars
  <2>1. UNCHANGED <<input, file, pc, i, list, dir, links, memory, context, entries>>
    BY <1>2 DEF vars
  <2>2. Good(file') /\ (Neat <=> Neat')
    BY <2>1 DEF WInv, Neat, Good
  <2>3. Placed' /\ Room'
    BY <2>1 DEF WInv, Placed, Room, ListOf, NumThreads, NumModules
  <2> QED
    BY <1>1, <2>2, <2>3 DEF WInv, Good
<1>3. CASE Next
  <2>1. GoesWell
    BY <1>3, NextWell
  <2>2. Neat <=> Neat'
    BY <2>1 DEF GoesWell, Neat
  <2> QED
    BY <1>1, <2>1, <2>2 DEF WInv, GoesWell, Well, Good
<1> QED
  BY <1>2, <1>3

LEMMA WInvInit == Init => WInv
<1> SUFFICES ASSUME Init PROVE WInv
  OBVIOUS
<1>1. file \in File /\ file.writes = {}
  BY DEF Init, NewFile, File
<1>2. Good(file)
  BY <1>1, InitSound DEF Good, IInv, WritesFit
<1>3. Placed /\ Room
  BY DEF Init, Placed, Room, NoList, NumStreams
<1> QED
  BY <1>2, <1>3, InitSound DEF WInv

LEMMA WInvAlways == Spec => []WInv
BY WInvInit, WInvStep, PTL DEF Spec

\* Every variable keeps its type, whatever is dumped and whatever call fails.
THEOREM TypeTheorem == Spec => []TypeOK
<1>1. WInv => TypeOK
  <2> SUFFICES ASSUME WInv PROVE TypeOK
    OBVIOUS
  <2>1. input \in Inputs /\ pc \in Steps /\ i \in Nat \ {0} /\ file \in File
    BY DEF WInv, IInv, Rest, Good
  <2> QED
    BY <2>1 DEF WInv, Placed, TypeOK
<1> QED
  BY <1>1, WInvAlways, PTL

\* In a 64-bit build, when no name has a surrogate pair and the list of the libraries
\* does not grow between the two walks over it: no write goes outside of the block it
\* is meant for.
THEOREM WritesTheorem ==
  ASSUME ~Narrow,
         \A in \in Inputs :
           /\ \A k \in DOMAIN in.modules : in.modules[k].name \in Basic
           /\ \A k \in DOMAIN in.later : in.later[k] \in Basic
           /\ in.os \in Basic
           /\ Len(in.later) <= Len(in.links)
  PROVE  Spec => []WritesStayInBlocks
<1>1. WInv => WritesStayInBlocks
  BY DEF WInv, IInv, Rest, Good, Neat, WritesStayInBlocks
<1> QED
  BY <1>1, WInvAlways, PTL

\* A process and a kernel that give a dump no reason to fail.
Healthy ==
  /\ ~input.fails
  /\ ~input.refused
  /\ ~(input.kernelBug /\ input.byPath)
  /\ \A k \in DOMAIN input.modules : LegalName(input.modules[k].name)

HealthyInv ==
  Healthy =>
    /\ pc \notin {"failed", "lost"}
    /\ ~file.full
    /\ pc \in Writing /\ input.kernelBug => file.bypass

\* Then no block is refused, no string cut short, and nothing abandoned.
LEMMA NothingIsAbandoned ==
  ASSUME WInv, HealthyInv, Healthy, Next
  PROVE  pc' # "failed"
<1>1. ~input.fails /\ ~input.refused /\ ~file.full
  BY DEF Healthy, HealthyInv
<1> USE DEF Writing
<1>2. pc \in Writing => \A n : ~Refused(n)
  BY DEF Refused, Grows, Healthy, HealthyInv
<1>3. CASE Prepare \/ WriteHeader \/ WriteDirectory
  BY <1>1, <1>2, <1>3 DEF Prepare, WriteHeader, WriteDirectory
<1>4. CASE ThreadList \/ ModuleList \/ MemoryList \/ SystemInfo
  BY <1>2, <1>4 DEF ThreadList, ModuleList, MemoryList, SystemInfo, StartList
<1>5. CASE EndThreads \/ EndModules \/ EndMemory
  BY <1>5 DEF EndThreads, EndModules, EndMemory, EndList, Go
<1>6. CASE ThreadStack \/ ThreadIp \/ AppMemory
  BY <1>1, <1>2, <1>6 DEF ThreadStack, ThreadIp, AppMemory, Remember
<1>7. CASE ThreadContext \/ MemoryEntry \/ ModuleId
  BY <1>2, <1>7 DEF ThreadContext, MemoryEntry, ModuleId, NextElement, Go
<1>8. CASE ModuleName
  <2> DEFINE Module == [id : Nat, name : Strings]
             s == input.modules[i].name
             n == StringSize(s)
             f == Allocate(file, n)
  <2>1. /\ pc = "name" /\ i \in Nat \ {0} /\ i <= Len(input.modules)
        /\ input.modules \in Seq(Module)
    BY <1>8, InputRead DEF ModuleName, WInv, IInv, Rest
  <2>2. i \in DOMAIN input.modules /\ input.modules[i] \in Module
    <3> HIDE DEF Module
    <3> QED
      BY <2>1
  <2>3. s \in Strings /\ LegalName(s)
    BY <2>2 DEF Healthy
  <2>4. s \in Seq(1 .. 3)
    BY <2>3 DEF LegalName, Strings
  <2>5. n \in Nat \ {0}
    BY <2>3, StringSizePositive DEF Strings
  <2>6. Well(f) /\ Given(n) \in f.blocks /\ Given(n).len = n
    BY <2>5, AllocateWell DEF WInv
  <2>7. ~f.full
    BY <1>1, <2>5, AllocateFacts DEF WInv, Good
  <2>8. CanWriteString(f, Given(n), s)
    BY <2>4, <2>6, <2>7, LegalIsWritten DEF Well, Good
  <2>9. pc' = "cv"
    BY <1>2, <1>8, <2>1, <2>8 DEF ModuleName, NextElement, Go
  <2> QED
    BY <2>9
<1>9. CASE ExceptionStream \/ OSInformation \/ WriteFile
  BY <1>2, <1>9 DEF ExceptionStream, OSInformation, WriteFile, Go
<1>10. CASE CountLinks \/ WriteLink \/ WriteDebug
  BY <1>10 DEF CountLinks, WriteLink, WriteDebug, NoDebug, NextElement, Go
<1>11. CASE EndLinks \/ Finish \/ Destroy \/ Kill
  BY <1>11 DEF EndLinks, Finish, Destroy, Kill, Go
<1>12. CASE DiskFills
  BY <1>1, <1>12 DEF DiskFills
<1> QED
  BY <1>3, <1>4, <1>5, <1>6, <1>7, <1>8, <1>9, <1>10, <1>11, <1>12 DEF Next

LEMMA HealthyStep ==
  ASSUME WInv, HealthyInv, Next
  PROVE  HealthyInv'
<1>1. input' = input
  BY NextWell DEF GoesWell
<1>2. Healthy' <=> Healthy
  BY <1>1 DEF Healthy
<1> SUFFICES ASSUME Healthy
             PROVE  /\ pc' \notin {"failed", "lost"}
                    /\ ~file'.full
                    /\ pc' \in Writing /\ input'.kernelBug => file'.bypass
  BY <1>2 DEF HealthyInv
<1>3. Sound(file) /\ DOMAIN file = Fields
  BY DEF WInv, Good, Sound
<1>4. pc' # "failed"
  BY NothingIsAbandoned
<1>5. CASE Prepare
  BY <1>1, <1>3, <1>5 DEF Prepare, Opened, GivenFile, Fields, Healthy, HealthyInv, Writing
<1>6. CASE Destroy
  <2>1. \A f, again : DOMAIN f = Fields =>
          /\ DOMAIN Closed(f, again) = Fields
          /\ Closed(f, again).full = f.full
          /\ Closed(f, again).bypass = f.bypass
    BY DEF Closed, Fields
  <2>2. file'.full = file.full /\ file'.bypass = file.bypass
    BY <1>3, <1>6, <2>1 DEF Destroy
  <2>3. pc = "done" /\ pc' = "written"
    BY <1>6 DEF Destroy, Go, HealthyInv
  <2> QED
    BY <1>1, <2>2, <2>3 DEF HealthyInv, Writing
<1>7. CASE Quiet
  <2>1. (file'.bypass <=> file.bypass) /\ (file'.full => file.full)
    BY <1>7 DEF Quiet, Kept
  <2>2. (pc \in Writing /\ pc' \in Writing) \/ pc' = pc \/ pc' = "killed"
    BY <1>4, <1>7 DEF Quiet
  <2>3. /\ ~input.fails /\ ~file.full /\ pc \notin {"failed", "lost"}
        /\ pc \in Writing /\ input.kernelBug => file.bypass
    BY DEF Healthy, HealthyInv
  <2>4. "failed" \notin Writing /\ "lost" \notin Writing /\ "killed" \notin Writing
    BY DEF Writing
  <2>5. pc' \notin {"failed", "lost"} /\ (pc' \in Writing => pc \in Writing)
    BY <2>2, <2>3, <2>4
  <2> QED
    BY <1>1, <2>1, <2>3, <2>5, Zenon
<1>8. CASE DiskFills
  BY <1>8 DEF DiskFills, Healthy
<1> QED
  BY <1>3, <1>5, <1>6, <1>7, <1>8, StepsAreQuiet

\* Once Init accepted the process, a dump fails only because a call failed: with a
\* kernel that refuses ftruncate, a process with nothing in it or any of its parts
\* missing, the writer comes to its end.
THEOREM HealthyTheorem == Spec => []HealthyDumpIsWritten
<1>1. Init => HealthyInv
  BY DEF Init, NewFile, HealthyInv, Writing
<1>2. WInv /\ HealthyInv /\ [Next]_vars => HealthyInv'
  <2>1. ASSUME HealthyInv, UNCHANGED vars PROVE HealthyInv'
    BY <2>1 DEF vars, HealthyInv, Healthy
  <2> QED
    BY <2>1, HealthyStep
<1>3. HealthyInv => HealthyDumpIsWritten
  BY DEF HealthyInv, Healthy, HealthyDumpIsWritten
<1> QED
  BY <1>1, <1>2, <1>3, WInvAlways, PTL DEF Spec

---------------------------------------------------------------------------
(* The streams: what has been written to each block.                         *)

\* Every write is meant for a block of the file.
Tagged(f) == \A w \in f.writes : \E b \in f.blocks : w.block = b.at

\* A file that a step makes of the present one, writing to the blocks at X alone.
Traced(f, X) ==
  /\ f \in File /\ Sound(f) /\ ~f.full
  /\ file.blocks \subseteq f.blocks
  /\ Tagged(f)
  /\ file.writes \subseteq f.writes
  /\ \A w \in f.writes : w \in file.writes \/ w.block \in X

\* The block of no finished stream is the directory's, the list's or the link maps'.
Separate ==
  /\ dir # Nowhere /\ list.object # 0 => dir.at # list.block.at
  /\ \A k \in DOMAIN entries : entries[k] # Nowhere =>
       /\ dir # Nowhere => entries[k].at # dir.at
       /\ list.object # 0 => entries[k].at # list.block.at
       /\ pc = "link" => entries[k].at # links.at

Element(b, k, size) == [block |-> b.at, at |-> b.at + Word + (k - 1) * size, len |-> size]

\* A list of which the elements before the i-th are written, and nothing else.
Listed(size) ==
  /\ list.object = Word
  /\ WritesOf(list.block) = {Element(list.block, k, size) : k \in 1 .. i - 1}

Contents ==
  /\ pc \in {"stack", "ip", "context"} => Listed(ThreadSize) /\ i <= NumThreads + 1
  /\ pc \in {"cv", "name"} => Listed(ModuleSize) /\ i <= NumModules + 1
  /\ pc = "memory" => Listed(DescriptorSize) /\ i <= Len(memory) + 1
  /\ pc = "os" => /\ list.object = SystemSize /\ list.block.len = SystemSize
                  /\ WritesOf(list.block) = {}

EntriesWhole == \A k \in DOMAIN entries : entries[k] = Nowhere \/ Whole(entries[k])

Streams == ~file.full /\ Tagged(file) /\ Separate /\ Contents /\ EntriesWhole

StreamsInv == ~file.full => Streams

\* The positions a step may write to.
Mine ==
  {file.position}
    \cup (IF dir # Nowhere THEN {dir.at} ELSE {})
    \cup (IF list.object # 0 THEN {list.block.at} ELSE {})
    \cup (IF pc = "link" THEN {links.at} ELSE {})

LEMMA BlocksBefore ==
  ASSUME NEW f, Sound(f), NEW b \in f.blocks
  PROVE  /\ b \in Block /\ b # Nowhere /\ b.at < f.position
         /\ \A c \in f.blocks : b.at = c.at => b = c
<1>1. b \in Block /\ f.position \in Nat /\ End(b) <= f.position
  BY DEF Sound, BlocksAreDisjoint
<1>2. b # Nowhere
  BY <1>1 DEF Block, Nowhere
<1>3. b.at < f.position
  BY <1>1 DEF Block, End
<1>4. ASSUME NEW c \in f.blocks, b.at = c.at PROVE b = c
  <2>1. c \in Block
    BY DEF Sound
  <2>2. ~Apart(b, c)
    BY <1>1, <1>4, <2>1 DEF Apart, End, Block
  <2> QED
    BY <2>2 DEF Sound, BlocksAreDisjoint
<1> QED
  BY <1>1, <1>2, <1>3, <1>4

LEMMA TracedNow == ASSUME WInv, ~file.full, Tagged(file) PROVE Traced(file, {})
BY DEF WInv, Good, Traced

LEMMA TracedMore ==
  ASSUME NEW f, NEW X, NEW Y, X \subseteq Y, Traced(f, X)
  PROVE  Traced(f, Y)
BY DEF Traced

LEMMA TracedAllocate ==
  ASSUME WInv, Traced(file, {}), NEW n \in Nat \ {0}
  PROVE  /\ Traced(Allocate(file, n), {})
         /\ Allocate(file, n).writes = file.writes
         /\ Given(n) \in Allocate(file, n).blocks
         /\ Given(n).at = file.position /\ Given(n).len = n
<1>1. /\ Allocate(file, n) \in File
      /\ Allocate(file, n).blocks = file.blocks \cup {NewBlock(file, n)}
      /\ Allocate(file, n).writes = file.writes
      /\ Allocate(file, n).full = file.full
  BY AllocateFacts DEF WInv, Good
<1>2. /\ Given(n) \in Allocate(file, n).blocks
      /\ Given(n).at = file.position /\ Given(n).len = n
  BY AllocateWell DEF WInv
<1>3. Sound(Allocate(file, n))
  BY AllocateSound DEF WInv, Good
<1> QED
  BY <1>1, <1>2, <1>3 DEF Traced, Tagged

LEMMA TracedCopy ==
  ASSUME WInv, NEW X, NEW f, Traced(f, X), NEW b \in f.blocks, NEW Y,
         X \subseteq Y, b.at \in Y, NEW at \in Nat, NEW len \in Nat \ {0}
  PROVE  /\ Traced(Copy(f, b, at, len), Y)
         /\ Copy(f, b, at, len).blocks = f.blocks
         /\ at + len <= b.at + b.len =>
              Copy(f, b, at, len).writes =
                f.writes \cup {[block |-> b.at, at |-> at, len |-> len]}
<1> DEFINE w == [block |-> b.at, at |-> at, len |-> len]
           g == Copy(f, b, at, len)
<1>1. b.at \in Nat /\ f \in File /\ Sound(f) /\ ~f.full
  BY DEF Traced, Sound, Block
<1>2. /\ g \in File /\ g.blocks = f.blocks /\ g.full = f.full
      /\ g.writes = f.writes \cup (IF Copies(f, at, len) THEN {w} ELSE {})
  BY <1>1, CopyFacts
<1>3. Sound(g)
  BY <1>1, CopySound
<1>4. at + len <= b.at + b.len => Copies(f, at, len)
  BY <1>1, CopiesInside
<1>5. w.block = b.at
  OBVIOUS
<1> HIDE DEF g, w
<1>6. Tagged(g)
  BY <1>2, <1>5 DEF Tagged, Traced
<1>7. Traced(g, Y)
  BY <1>1, <1>2, <1>3, <1>5, <1>6 DEF Traced
<1> QED
  BY <1>2, <1>4, <1>7 DEF g, w

LEMMA TracedFilled ==
  ASSUME WInv, Traced(file, {}), NEW n \in Nat \ {0}
  PROVE  /\ Traced(Filled(n), {file.position})
         /\ Filled(n).writes =
              file.writes \cup {[block |-> file.position, at |-> file.position, len |-> n]}
         /\ Given(n) \in Filled(n).blocks
         /\ Given(n).at = file.position /\ Given(n).len = n
<1> DEFINE f == Allocate(file, n)
           b == Given(n)
<1>1. /\ Traced(f, {}) /\ f.writes = file.writes
      /\ b \in f.blocks /\ b.at = file.position /\ b.len = n
  BY TracedAllocate
<1>2. file.position \in Nat
  BY DEF WInv, Good, Sound
<1>3. Filled(n) = Copy(f, b, file.position, n)
  BY DEF Filled
<1> HIDE DEF f, b
<1>4. file.position + n <= b.at + b.len
  BY <1>1, <1>2
<1> DEFINE Y == {file.position}
<1>5. b.at \in Y /\ {} \subseteq Y
  BY <1>1
<1> HIDE DEF Y
<1>6. /\ Traced(Filled(n), Y)
      /\ Filled(n).blocks = f.blocks
      /\ Filled(n).writes = f.writes \cup {[block |-> b.at, at |-> file.position, len |-> n]}
  BY <1>1, <1>2, <1>3, <1>4, <1>5, TracedCopy
<1> QED
  BY <1>1, <1>6 DEF b, Y

LEMMA TracedString ==
  ASSUME WInv, Traced(file, {}), NEW s \in Strings
  PROVE  LET n == StringSize(s)
             g == WriteString(Allocate(file, n), Given(n), s)
         IN  Traced(g, {file.position})
<1> DEFINE n == StringSize(s)
           f == Allocate(file, n)
           b == Given(n)
           g == WriteString(f, b, s)
<1>1. n \in Nat \ {0} /\ s \in Seq(0 .. 4)
  BY StringSizePositive DEF Strings
<1>2. /\ Traced(f, {}) /\ b \in f.blocks /\ b.at = file.position
  BY <1>1, TracedAllocate
<1> HIDE DEF n, f, b
<1>3. /\ g \in File /\ g.blocks = f.blocks /\ g.full = f.full
      /\ f.writes \subseteq g.writes
      /\ \A w \in g.writes : w \in f.writes \/ w.block = b.at
  BY <1>1, <1>2, WriteStringFacts DEF Traced
<1>4. Sound(g)
  BY <1>2, WriteStringSound DEF Traced
<1> HIDE DEF g
<1>5. Traced(g, {file.position})
  BY <1>2, <1>3, <1>4 DEF Traced, Tagged
<1> QED
  BY <1>5 DEF g, f, b, n

\* The write of the stream's object, if there is one.
Object ==
  IF list.object = 0 THEN {}
  ELSE {[block |-> list.block.at, at |-> list.block.at, len |-> list.object]}

LEMMA TracedFlushed ==
  ASSUME WInv, NEW X, NEW f, Traced(f, X), NEW Y, X \subseteq Y,
         list.object # 0 => list.block.at \in Y
  PROVE  /\ Traced(Flushed(f), Y)
         /\ Flushed(f).blocks = f.blocks
         /\ Flushed(f).writes = f.writes \cup Object
<1>1. CASE list.object = 0
  <2>1. Flushed(f) = f /\ Object = {}
    BY <1>1 DEF Flushed, Object
  <2>2. f.writes \cup Object = f.writes
    BY <2>1
  <2> QED
    BY <2>1, <2>2, TracedMore
<1>2. CASE list.object # 0
  <2>1. list.object \in Nat \ {0} /\ list.block \in f.blocks /\ list.object <= list.block.len
    BY <1>2 DEF WInv, Placed, Traced
  <2>2. list.block.at \in Nat /\ list.block.len \in Nat
    BY PlacedAt DEF WInv, Placed
  <2>3. list.block.at + list.object <= list.block.at + list.block.len
    BY <2>1, <2>2
  <2>4. /\ Traced(Copy(f, list.block, list.block.at, list.object), Y)
        /\ Copy(f, list.block, list.block.at, list.object).blocks = f.blocks
        /\ Copy(f, list.block, list.block.at, list.object).writes =
             f.writes \cup {[block |-> list.block.at, at |-> list.block.at, len |-> list.object]}
    BY <2>1, <2>2, <2>3, TracedCopy
  <2> QED
    BY <1>2, <2>4 DEF Flushed, Object
<1> QED
  BY <1>1, <1>2

\* Enter writes the object and an entry of the directory.
LEMMA TracedEnter ==
  ASSUME WInv, NEW X, NEW f, Traced(f, X), pc \in Entering, NEW entry, Enter(f, entry),
         NEW Y, X \subseteq Y, dir.at \in Y, list.object # 0 => list.block.at \in Y
  PROVE  /\ Traced(file', Y)
         /\ file'.blocks = f.blocks
         /\ \E w : w.block = dir.at /\ file'.writes = (f.writes \cup Object) \cup {w}
<1>1. /\ Traced(Flushed(f), Y)
      /\ Flushed(f).blocks = f.blocks
      /\ Flushed(f).writes = f.writes \cup Object
  BY TracedFlushed
<1>2. dir \in file.blocks /\ dir.len = 156
  BY DEF WInv, Room, Entering, NumStreams, EntrySize
<1> DEFINE n == Len(entries)
<1>3. n \in Nat /\ n <= 12
  BY CountedBelow DEF WInv
<1>4. dir.at \in Nat /\ dir \in Flushed(f).blocks
  BY <1>1, <1>2, PlacedAt DEF WInv, Traced
<1>5. file' = Copy(Flushed(f), dir, dir.at + n * 12, 12)
  BY DEF Enter, EntrySize
<1> HIDE DEF n
<1>6. dir.at + n * 12 \in Nat /\ (dir.at + n * 12) + 12 <= dir.at + dir.len
  BY <1>2, <1>3, <1>4
<1>7. /\ Traced(file', Y)
      /\ file'.blocks = Flushed(f).blocks
      /\ file'.writes = Flushed(f).writes
                          \cup {[block |-> dir.at, at |-> dir.at + n * 12, len |-> 12]}
  BY <1>1, <1>4, <1>5, <1>6, TracedCopy
<1> QED
  BY <1>1, <1>7

\* What is written to a block is what was, if the step writes to others.
LEMMA WritesStay ==
  ASSUME NEW X, Traced(file', X), NEW b, b.at \notin X
  PROVE  WritesOf(b)' = {w \in file'.writes : w.block = b.at} /\ WritesOf(b)' = WritesOf(b)
BY DEF Traced, WritesOf

LEMMA EntryPlaced ==
  ASSUME WInv, NEW k \in DOMAIN entries, entries[k] # Nowhere
  PROVE  entries[k] \in file.blocks
BY DEF WInv, Placed

\* A step writes to no block of a finished stream.
LEMMA FinishedStay ==
  ASSUME WInv, Streams, Traced(file', Mine), NEW k \in DOMAIN entries, entries[k] # Nowhere
  PROVE  \E b \in file.blocks : b = entries[k] /\ b.at \in Nat /\ b.at < file.position /\ Whole(b)'
<1>1. PICK b \in file.blocks : b = entries[k] /\ Whole(b)
  BY EntryPlaced DEF Streams, EntriesWhole
<1>2. b.at < file.position /\ file.position \in Nat /\ b.at \in Nat
  BY <1>1, BlocksBefore DEF WInv, Good, Sound, Block
<1>3. b.at \notin Mine
  BY <1>1, <1>2 DEF Mine, Streams, Separate
<1>4. WritesOf(b)' = WritesOf(b)
  BY <1>3, WritesStay
<1>5. Whole(b)'
  BY <1>1, <1>4 DEF Whole
<1> QED
  BY <1>1, <1>2, <1>5

\* The objects of a stream that goes on keep away from the finished ones.
LEMMA SeparateStays ==
  ASSUME WInv, Separate, UNCHANGED <<dir, entries>>,
         list' = list \/ list' = NoList,
         pc' = "link" => pc = "link" /\ links' = links
  PROVE  Separate'
BY DEF Separate, NoList

\* A step that ends no stream.
LEMMA GoesOn ==
  ASSUME WInv, Streams, Traced(file', Mine), UNCHANGED <<dir, entries>>,
         list' = list \/ list' = NoList,
         pc' = "link" => pc = "link" /\ links' = links,
         Contents'
  PROVE  Streams'
<1>1. Tagged(file)' /\ ~file'.full
  BY DEF Traced, Tagged
<1>2. EntriesWhole'
  <2>1. ASSUME NEW k \in DOMAIN entries, entries[k] # Nowhere PROVE entries'[k] = Nowhere \/ Whole(entries[k])'
    <3>1. PICK b \in file.blocks : b = entries[k] /\ Whole(b)'
      BY <2>1, FinishedStay
    <3>2. entries'[k] = b
      BY <3>1
    <3> QED
      BY <3>1, <3>2
  <2> QED
    BY <2>1 DEF EntriesWhole
<1>3. Separate'
  BY SeparateStays DEF Streams
<1> QED
  BY <1>1, <1>2, <1>3 DEF Streams

\* The end of a stream.
LEMMA Finishes ==
  ASSUME WInv, Streams, Traced(file', Mine), NEW e, entries' = Append(entries, e), list' = NoList,
         UNCHANGED dir, pc' # "link", Contents', dir \in file.blocks,
         e # Nowhere => /\ Whole(e)'
                        /\ e.at # dir.at
  PROVE  Streams'
<1>1. Tagged(file)' /\ ~file'.full
  BY DEF Traced, Tagged
<1>2. entries \in Seq(file.blocks \cup {Nowhere})
  BY DEF WInv, Placed
<1>3. /\ DOMAIN entries' = 1 .. Len(entries) + 1 /\ Len(entries) \in Nat
      /\ DOMAIN entries = 1 .. Len(entries)
      /\ entries'[Len(entries) + 1] = e
      /\ \A k \in DOMAIN entries : entries'[k] = entries[k]
  BY <1>2
<1>4. \A k \in DOMAIN entries' : k \in DOMAIN entries \/ entries'[k] = e
  BY <1>3
<1>5. ASSUME NEW k \in DOMAIN entries', entries'[k] # Nowhere
      PROVE  Whole(entries[k])' /\ entries'[k].at # dir.at
  <2>1. CASE k \in DOMAIN entries
    <3>1. entries'[k] = entries[k]
      BY <1>3, <2>1
    <3>2. PICK b \in file.blocks : b = entries[k] /\ Whole(b)'
      BY <1>5, <2>1, <3>1, FinishedStay
    <3>3. dir # Nowhere
      BY BlocksBefore DEF WInv, Good
    <3> QED
      BY <1>5, <2>1, <3>1, <3>2, <3>3 DEF Streams, Separate
  <2>2. CASE entries'[k] = e
    BY <1>5, <2>2
  <2> QED
    BY <1>4, <2>1, <2>2
<1>6. EntriesWhole'
  BY <1>5 DEF EntriesWhole
<1>7. Separate'
  BY <1>5 DEF Separate, NoList
<1> QED
  BY <1>1, <1>6, <1>7 DEF Streams

---------------------------------------------------------------------------
(* The elements of a list, and the stream they make.                         *)

\* The object of a stream is in a block of the file, before the next block.
LEMMA ListPlaced ==
  ASSUME WInv, list.object # 0
  PROVE  /\ list.block \in file.blocks /\ list.block \in Block
         /\ list.block.at \in Nat /\ list.block.len \in Nat \ {0}
         /\ list.block.at < file.position /\ list.block.at \in Mine
<1>1. list.block \in file.blocks
  BY DEF WInv, Placed
<1>2. list.block \in Block /\ list.block.at < file.position
  BY <1>1, BlocksBefore DEF WInv, Good
<1> QED
  BY <1>1, <1>2 DEF Block, Mine

LEMMA MineHolds ==
  ASSUME WInv, Streams
  PROVE  /\ {file.position} \subseteq Mine
         /\ {} \subseteq Mine
         /\ list.object # 0 => list.block.at \in Mine
         /\ dir \in file.blocks => dir.at \in Mine /\ dir # Nowhere
         /\ pc = "link" => links.at \in Mine
         /\ Traced(file, Mine)
<1>1. dir \in file.blocks => dir # Nowhere
  BY BlocksBefore DEF WInv, Good
<1>2. Traced(file, Mine)
  <2>1. Traced(file, {})
    BY TracedNow DEF Streams
  <2> QED
    BY <2>1, TracedMore
<1> QED
  BY <1>1, <1>2 DEF Mine

LEMMA ListedStays ==
  ASSUME WInv, NEW size, Listed(size), Traced(file', {file.position}), UNCHANGED <<list, i>>
  PROVE  Listed(size)'
<1>1. list.block.at \notin {file.position}
  <2>1. list.object # 0
    BY DEF Listed, Word
  <2>2. list.block.at < file.position /\ list.block.at \in Nat
    BY <2>1, ListPlaced
  <2> QED
    BY <2>2
<1>2. WritesOf(list.block)' = WritesOf(list.block)
  BY <1>1 DEF Traced, WritesOf
<1> QED
  BY <1>2 DEF Listed, Element

LEMMA ListedGrows ==
  ASSUME WInv, NEW size \in Nat \ {0}, Listed(size), i \in Nat \ {0},
         NEW f, Traced(f, {file.position}),
         Word + (i - 1) * size + size <= list.block.len,
         file' = CopyIndexAfterObject(f, list.block, Word, i - 1, size),
         list' = list, i' = i + 1
  PROVE  Traced(file', Mine) /\ Listed(size)'
<1> DEFINE b == list.block
           at == b.at + Word + (i - 1) * size
           w == [block |-> b.at, at |-> at, len |-> size]
<1>1. list.object # 0
  BY DEF Listed, Word
<1>2. /\ b \in file.blocks /\ b.at \in Nat /\ b.len \in Nat \ {0}
      /\ b.at < file.position /\ b.at \in Mine
  BY <1>1, ListPlaced
<1>3. (i - 1) * size \in Nat
  OBVIOUS
<1>4. at \in Nat /\ at + size <= b.at + b.len
  BY <1>2, <1>3 DEF Word
<1>5. file' = Copy(f, b, at, size)
  BY DEF CopyIndexAfterObject
<1>6. b \in f.blocks /\ {file.position} \subseteq Mine
  BY <1>2 DEF Traced, Mine
<1>7. w = Element(b, i, size)
  BY DEF Element
<1> HIDE DEF at
<1>8. Traced(file', Mine) /\ file'.writes = f.writes \cup {w}
  BY <1>2, <1>4, <1>5, <1>6, TracedCopy
<1>9. \A v \in f.writes : v.block = b.at <=> v \in WritesOf(b)
  BY <1>2 DEF Traced, WritesOf
<1>10. WritesOf(b) \subseteq f.writes
  BY DEF Traced, WritesOf
<1>11. {v \in file'.writes : v.block = b.at} = WritesOf(b) \cup {w}
  BY <1>8, <1>9, <1>10
<1>12. WritesOf(b)' = WritesOf(b) \cup {w}
  BY <1>11 DEF WritesOf
<1> HIDE DEF w
<1>13. 1 .. i' - 1 = (1 .. i - 1) \cup {i}
  OBVIOUS
<1>14. WritesOf(b) \cup {w} = {Element(b, k, size) : k \in 1 .. i' - 1}
  BY <1>7, <1>13 DEF Listed
<1> QED
  BY <1>8, <1>12, <1>14 DEF Listed, Element

\* A list is whole with its count and all its elements.
LEMMA ListIsWhole ==
  ASSUME NEW b \in Block, NEW n \in Nat, NEW size \in Nat \ {0}, b.len = ListSize(n, size),
         WritesOf(b)' = {Element(b, k, size) : k \in 1 .. n}
                           \cup {[block |-> b.at, at |-> b.at, len |-> Word]}
  PROVE  Whole(b)'
<1> DEFINE W == WritesOf(b)'
           head == [block |-> b.at, at |-> b.at, len |-> Word]
<1>1. head \in W /\ head.at = b.at /\ End(head) = b.at + 4
  BY DEF Word, End
<1>2. b.at \in Nat /\ End(b) = b.at + 4 + n * size
  BY DEF Block, ListSize, Word, End
<1>3. \A k \in 1 .. n : Element(b, k, size) \in W
  OBVIOUS
<1>4. \A k \in Nat : k * size \in Nat /\ (k - 1) * size + size = k * size
  OBVIOUS
<1>5. \A k \in 1 .. n : End(Element(b, k, size)) = b.at + 4 + k * size
  BY <1>2, <1>4 DEF End, Element, Word
<1>6. \A k \in 1 .. n : Element(b, k, size).at + size = b.at + 4 + k * size
  BY <1>2, <1>4 DEF Element, Word
<1>7. ASSUME NEW w \in W
      PROVE  End(w) = End(b) \/ \E v \in W : v.at = End(w)
  <2>1. CASE w = head
    <3>1. CASE n = 0
      <4>1. n * size = 0
        BY <3>1
      <4> QED
        BY <1>1, <1>2, <2>1, <4>1
    <3>2. CASE n > 0
      <4>1. 1 \in 1 .. n /\ 1 * size = size
        BY <3>2
      <4>2. Element(b, 1, size).at = b.at + 4
        BY <1>2 DEF Element, Word
      <4> QED
        BY <1>1, <1>3, <2>1, <4>1, <4>2
    <3> QED
      BY <3>1, <3>2
  <2>2. CASE \E k \in 1 .. n : w = Element(b, k, size)
    <3>1. PICK k \in 1 .. n : w = Element(b, k, size)
      BY <2>2
    <3>2. End(w) = b.at + 4 + k * size
      BY <1>5, <3>1
    <3>3. CASE k = n
      BY <1>2, <3>2, <3>3
    <3>4. CASE k # n
      <4>1. k + 1 \in 1 .. n /\ (k + 1) - 1 = k
        BY <3>4
      <4>2. Element(b, k + 1, size).at = b.at + 4 + k * size
        BY <4>1 DEF Element, Word
      <4> QED
        BY <1>3, <3>2, <4>1, <4>2
    <3> QED
      BY <3>3, <3>4
  <2> QED
    BY <2>1, <2>2
<1> QED
  BY <1>1, <1>7 DEF Whole

\* The end of a list: only its count is written to it, and an entry for it.
LEMMA ListEnds ==
  ASSUME WInv, Streams, NEW n \in Nat, NEW size \in Nat \ {0}, Listed(size),
         list.block.len = ListSize(n, size), i - 1 = n,
         pc \in Entering, Enter(file, list.block), UNCHANGED dir, pc' # "link", Contents'
  PROVE  Streams'
<1> DEFINE b == list.block
           head == [block |-> b.at, at |-> b.at, len |-> Word]
<1>1. list.object = Word /\ list.object # 0
  BY DEF Listed, Word
<1>2. b \in file.blocks /\ b \in Block /\ b.at \in Mine
  BY <1>1, ListPlaced
<1>3. dir \in file.blocks
  BY DEF WInv, Room, Entering
<1>4. dir # Nowhere /\ dir.at \in Mine /\ Traced(file, Mine)
  BY <1>3, MineHolds
<1>5. dir.at # b.at
  BY <1>1, <1>4 DEF Streams, Separate
<1>6. /\ Traced(file', Mine)
      /\ \E w : w.block = dir.at /\ file'.writes = (file.writes \cup Object) \cup {w}
  BY <1>2, <1>4, TracedEnter
<1>7. Object = {head}
  BY <1>1 DEF Object
<1>8. PICK w : w.block = dir.at /\ file'.writes = (file.writes \cup {head}) \cup {w}
  BY <1>6, <1>7
<1>9. {v \in file'.writes : v.block = b.at} = WritesOf(b) \cup {head}
  BY <1>5, <1>8 DEF WritesOf
<1>10. ASSUME NEW c, c = b PROVE Whole(c)'
  <2>1. WritesOf(c)' = {Element(c, k, size) : k \in 1 .. n}
                           \cup {[block |-> c.at, at |-> c.at, len |-> Word]}
    BY <1>9, <1>10 DEF WritesOf, Listed
  <2>2. c \in Block /\ c.len = ListSize(n, size)
    BY <1>2, <1>10
  <2> QED
    BY <2>1, <2>2, ListIsWhole
<1>11. PICK c : c = b
  OBVIOUS
<1>12. entries' = Append(entries, c) /\ list' = NoList
  BY <1>11 DEF Enter
<1>13. c # Nowhere => Whole(c)' /\ c.at # dir.at
  BY <1>5, <1>10, <1>11
<1> HIDE DEF b
<1> QED
  BY <1>3, <1>6, <1>12, <1>13, Finishes

\* The end of a stream in a block of its own: what was written to it is the same.
LEMMA BlockEnds ==
  ASSUME WInv, Streams, NEW f, Traced(f, {file.position}), NEW e, e.at = file.position,
         NEW R, \A r \in R : r.block = file.position, f.writes = file.writes \cup R,
         (\E w \in R : w.at = e.at) /\ \A w \in R : End(w) = End(e) \/ \E v \in R : v.at = End(w),
         pc \in Entering, Enter(f, e), UNCHANGED dir, pc' # "link", Contents'
  PROVE  Streams'
<1>1. dir \in file.blocks
  BY DEF WInv, Room, Entering
<1>2. dir # Nowhere /\ dir.at \in Mine /\ {file.position} \subseteq Mine
      /\ (list.object # 0 => list.block.at \in Mine)
  BY <1>1, MineHolds
<1>3. \A b \in file.blocks : b.at # file.position
  <2>1. \A b \in file.blocks : b.at < file.position /\ b.at \in Nat
    BY BlocksBefore DEF WInv, Good, Block
  <2>2. file.position \in Nat
    BY DEF WInv, Good, Sound
  <2> QED
    BY <2>1, <2>2
<1>4. /\ Traced(file', Mine)
      /\ \E w : w.block = dir.at /\ file'.writes = (f.writes \cup Object) \cup {w}
  BY <1>2, TracedEnter
<1>5. PICK w : w.block = dir.at /\ file'.writes = (f.writes \cup Object) \cup {w}
  BY <1>4
<1>6. \A v \in Object : v.block # file.position
  BY <1>3, ListPlaced DEF Object
<1>7. \A v \in file.writes : v.block # file.position
  BY <1>3 DEF Streams, Tagged
<1>8. {v \in file'.writes : v.block = e.at} = R
  BY <1>1, <1>3, <1>5, <1>6, <1>7
<1>9. WritesOf(e)' = R
  BY <1>8 DEF WritesOf
<1>10. Whole(e)'
  BY <1>9 DEF Whole, End
<1>11. entries' = Append(entries, e) /\ list' = NoList
  BY DEF Enter
<1>12. e # Nowhere => Whole(e)' /\ e.at # dir.at
  BY <1>1, <1>3, <1>10
<1> QED
  BY <1>1, <1>4, <1>11, <1>12, Finishes

\* A stream that is left out.
LEMMA NoneEnds ==
  ASSUME WInv, Streams, NEW f, Traced(f, Mine), pc \in Entering, Enter(f, Nowhere),
         UNCHANGED dir, pc' # "link", Contents'
  PROVE  Streams'
<1>1. dir \in file.blocks
  BY DEF WInv, Room, Entering
<1>2. dir.at \in Mine /\ (list.object # 0 => list.block.at \in Mine)
  BY <1>1, MineHolds
<1>3. Traced(file', Mine)
  BY <1>2, TracedEnter
<1>4. entries' = Append(entries, Nowhere) /\ list' = NoList
  BY DEF Enter
<1> QED
  BY <1>1, <1>3, <1>4, Finishes

---------------------------------------------------------------------------
(* One lemma for every part of a dump.                                       *)

LEMMA NothingLost ==
  ASSUME ~Narrow, WInv, NEW object \in Nat \ {0}
  PROVE  FlushLost(file, object) = file
BY FlushLostFacts DEF WInv, Good

LEMMA AbandonStreams ==
  ASSUME ~Narrow, WInv, Streams, NEW object \in Nat, Abandon(object)
  PROVE  Streams'
<1>1. file' = Flushed(file)
  BY NothingLost DEF Abandon
<1>2. Traced(file', Mine)
  BY <1>1, MineHolds, TracedFlushed
<1>3. Contents'
  BY DEF Abandon, Contents
<1> QED
  BY <1>2, <1>3, GoesOn DEF Abandon

\* Nothing has been written to a new block.
LEMMA StartStreams ==
  ASSUME WInv, Streams, NEW n \in Nat \ {0}, NEW object \in Nat \ {0},
         file' = Allocate(file, n), list' = [block |-> Given(n), object |-> object],
         UNCHANGED <<dir, entries>>, pc' # "link"
  PROVE  /\ WritesOf(list.block)' = {}
         /\ list'.object = object /\ list'.block.len = n
         /\ Contents' => Streams'
<1>1. Traced(file, {})
  BY TracedNow DEF Streams
<1>2. /\ Traced(file', {}) /\ file'.writes = file.writes
      /\ list'.block.at = file.position /\ list'.object = object /\ list'.block.len = n
  BY <1>1, TracedAllocate
<1>3. \A b \in file.blocks : b.at # file.position
  <2>1. \A b \in file.blocks : b.at < file.position /\ b.at \in Nat
    BY BlocksBefore DEF WInv, Good, Block
  <2>2. file.position \in Nat
    BY DEF WInv, Good, Sound
  <2> QED
    BY <2>1, <2>2
<1>4. WritesOf(list.block)' = {}
  BY <1>2, <1>3 DEF WritesOf, Streams, Tagged
<1>5. Traced(file', Mine)
  BY <1>2, MineHolds, TracedMore
<1>6. Tagged(file)' /\ ~file'.full
  BY <1>2 DEF Traced, Tagged
<1>7. EntriesWhole'
  <2>1. ASSUME NEW k \in DOMAIN entries, entries[k] # Nowhere PROVE entries'[k] = Nowhere \/ Whole(entries[k])'
    <3>1. PICK b \in file.blocks : b = entries[k] /\ Whole(b)'
      BY <1>5, <2>1, FinishedStay
    <3>2. entries'[k] = b
      BY <3>1
    <3> QED
      BY <3>1, <3>2
  <2> QED
    BY <2>1 DEF EntriesWhole
<1>8. Separate'
  <2>1. dir # Nowhere => dir.at # file.position
    BY <1>3 DEF WInv, Placed
  <2>2. \A k \in DOMAIN entries : entries[k] # Nowhere => entries[k].at # file.position
    BY <1>3, EntryPlaced
  <2> QED
    BY <1>2, <2>1, <2>2 DEF Streams, Separate
<1> QED
  BY <1>2, <1>4, <1>6, <1>7, <1>8 DEF Streams

LEMMA StartListStreams ==
  ASSUME ~Narrow, WInv, Streams, NEW from, NEW to, NEW n \in Nat, NEW size \in Nat,
         \/ from = "threads" /\ to = "stack" /\ n = NumThreads /\ size = ThreadSize
         \/ from = "modules" /\ to = "cv" /\ n = NumModules /\ size = ModuleSize
         \/ from = "app" /\ to = "memory" /\ n = Len(memory) /\ size = DescriptorSize,
         StartList(from, to, n, size)
  PROVE  Streams'
<1>1. ListSize(n, size) \in Nat \ {0} /\ Word \in Nat \ {0} /\ Word \in Nat
  <2>1. n * size \in Nat
    OBVIOUS
  <2> QED
    BY <2>1 DEF ListSize, Word
<1>2. CASE Abandon(Word)
  BY <1>1, <1>2, AbandonStreams
<1>3. CASE ~Abandon(Word)
  <2>1. /\ pc = from /\ pc' = to /\ i' = 1
        /\ file' = Allocate(file, ListSize(n, size))
        /\ list' = [block |-> Given(ListSize(n, size)), object |-> Word]
        /\ UNCHANGED <<input, dir, links, memory, context, entries>>
    BY <1>3 DEF StartList
  <2>2. /\ WritesOf(list.block)' = {} /\ list'.object = Word /\ (Contents' => Streams')
    BY <1>1, <2>1, StartStreams
  <2>3. {Element(list.block, k, size)' : k \in 1 .. i' - 1} = {}
    BY <2>1
  <2>4. Listed(size)'
    BY <2>1, <2>2 DEF Listed
  <2>5. i' <= n + 1
    BY <2>1
  <2>6. Contents'
    BY <2>1, <2>4, <2>5 DEF Contents, Listed, NumThreads, NumModules
  <2> QED
    BY <2>2, <2>6
<1> QED
  BY <1>2, <1>3

\* Memory that is dumped goes to a block of its own.
LEMMA FilledTraced ==
  ASSUME WInv, Streams, NEW n \in Nat \ {0}
  PROVE  Traced(Filled(n), {file.position})
BY TracedNow, TracedFilled DEF Streams

LEMMA NowTraced == ASSUME WInv, Streams PROVE Traced(file, {file.position})
<1>1. Traced(file, {})
  BY TracedNow DEF Streams
<1> QED
  BY <1>1, TracedMore

LEMMA RememberTraced ==
  ASSUME WInv, Streams, NEW from, NEW to, NEW n \in Nat, Remember(from, to, n)
  PROVE  Traced(file', {file.position})
<1>1. CASE file' = file
  BY <1>1, NowTraced
<1>2. CASE file' # file
  <2>1. n \in Nat \ {0} /\ file' = Filled(n)
    BY <1>2 DEF Remember
  <2> QED
    BY <2>1, FilledTraced
<1> QED
  BY <1>1, <1>2

\* A step within a stream that writes to no block but a new one.
LEMMA AsideStreams ==
  ASSUME WInv, Streams, Traced(file', {file.position}), UNCHANGED <<input, list, dir, entries>>,
         \/ i' = i /\ pc = "stack" /\ pc' = "ip"
         \/ i' = i /\ pc = "ip" /\ pc' = "context"
         \/ i' = i /\ pc = "cv" /\ pc' = "name"
         \/ pc' \in {"app", "debug", "done", "written", "failed", "lost", "killed"}
  PROVE  Streams'
<1>1. Traced(file', Mine)
  BY MineHolds, TracedMore
<1>2. CASE i' = i /\ pc \in {"stack", "ip"} /\ pc' \in {"ip", "context"}
  <2>1. Listed(ThreadSize)'
    BY <1>2, ListedStays DEF Streams, Contents
  <2>2. i' <= NumThreads' + 1
    BY <1>2 DEF Streams, Contents, NumThreads
  <2>3. Contents'
    BY <1>2, <2>1, <2>2 DEF Contents
  <2> QED
    BY <1>1, <1>2, <2>3, GoesOn
<1>3. CASE i' = i /\ pc = "cv" /\ pc' = "name"
  <2>1. Listed(ModuleSize)'
    BY <1>3, ListedStays DEF Streams, Contents
  <2>2. i' <= NumModules' + 1
    BY <1>3 DEF Streams, Contents, NumModules
  <2>3. Contents'
    BY <1>3, <2>1, <2>2 DEF Contents
  <2> QED
    BY <1>1, <1>3, <2>3, GoesOn
<1>4. CASE pc' \in {"app", "debug", "done", "written", "failed", "lost", "killed"}
  <2>1. Contents'
    BY <1>4 DEF Contents
  <2> QED
    BY <1>1, <1>4, <2>1, GoesOn
<1> QED
  BY <1>2, <1>3, <1>4

LEMMA ElementSizes ==
  {ThreadSize, ModuleSize, DescriptorSize} \subseteq Nat \ {0}
BY DEF ThreadSize, ModuleSize, DescriptorSize

\* The i-th of n elements is in its list.
LEMMA ElementFits ==
  ASSUME NEW n \in Nat, NEW k \in Nat \ {0}, k <= n, NEW size \in {ThreadSize, ModuleSize, DescriptorSize}
  PROVE  Word + (k - 1) * size + size <= ListSize(n, size)
<1>1. size \in {48, 108, 16}
  BY DEF ThreadSize, ModuleSize, DescriptorSize
<1>2. CASE size = 48
  BY <1>2 DEF ListSize, Word
<1>3. CASE size = 108
  BY <1>3 DEF ListSize, Word
<1>4. CASE size = 16
  BY <1>4 DEF ListSize, Word
<1> QED
  BY <1>1, <1>2, <1>3, <1>4

LEMMA ThreadsStreams ==
  ASSUME ~Narrow, WInv, Streams,
         ThreadList \/ ThreadStack \/ ThreadIp \/ ThreadContext \/ EndThreads
  PROVE  Streams'
<1>1. input.threads \in Seq(Nat) /\ input.ip \in Nat /\ NumThreads \in Nat /\ i \in Nat \ {0}
  BY InputRead
<1>2. CASE ThreadList
  BY <1>1, <1>2, StartListStreams DEF ThreadList, ThreadSize
<1>3. CASE ThreadStack
  <2>1. input.threads[i] \in Nat
    BY <1>1, <1>3 DEF ThreadStack, NumThreads
  <2>2. CASE Abandon(0)
    BY <2>2, AbandonStreams
  <2>3. CASE Remember("stack", "ip", input.threads[i])
             /\ UNCHANGED <<input, i, list, dir, links, context, entries>>
    <3>1. Traced(file', {file.position}) /\ pc = "stack" /\ pc' = "ip"
      BY <2>1, <2>3, RememberTraced DEF Remember
    <3> QED
      BY <2>3, <3>1, AsideStreams
  <2> QED
    BY <1>3, <2>2, <2>3 DEF ThreadStack
<1>4. CASE ThreadIp
  <2> DEFINE n == IF i = input.crashed THEN input.ip ELSE 0
  <2>1. n \in Nat
    BY <1>1
  <2>2. CASE Abandon(0)
    BY <2>2, AbandonStreams
  <2>3. CASE Remember("ip", "context", n)
             /\ UNCHANGED <<input, i, list, dir, links, context, entries>>
    <3> HIDE DEF n
    <3>1. Traced(file', {file.position}) /\ pc = "ip" /\ pc' = "context"
      BY <2>1, <2>3, RememberTraced DEF Remember
    <3> QED
      BY <2>3, <3>1, AsideStreams
  <2> QED
    BY <1>4, <2>2, <2>3 DEF ThreadIp
<1>5. CASE ThreadContext
  <2>0. ContextSize \in Nat \ {0} /\ ContextSize \in Nat
    BY Sizes
  <2>1. CASE Abandon(ContextSize)
    BY <2>0, <2>1, AbandonStreams
  <2>2. CASE ~Abandon(ContextSize)
    <3>1. /\ pc = "context" /\ pc' = "stack" /\ i' = i + 1
          /\ file' = CopyIndexAfterObject(Filled(ContextSize), list.block, Word, i - 1, ThreadSize)
          /\ UNCHANGED <<input, list, dir, links, memory, entries>>
      BY <1>5, <2>2 DEF ThreadContext, Go
    <3>2. Listed(ThreadSize) /\ list.block.len = ListSize(NumThreads, ThreadSize) /\ i <= NumThreads
      BY <3>1 DEF WInv, Room, ListOf, Streams, Contents
    <3>3. Word + (i - 1) * ThreadSize + ThreadSize <= list.block.len
      BY <1>1, <3>2, ElementFits
    <3>4. Traced(Filled(ContextSize), {file.position}) /\ ThreadSize \in Nat \ {0}
      BY <2>0, FilledTraced, ElementSizes
    <3>5. Traced(file', Mine) /\ Listed(ThreadSize)'
      BY <1>1, <3>1, <3>2, <3>3, <3>4, ListedGrows
    <3>6. i' <= NumThreads' + 1
      BY <1>1, <3>1, <3>2 DEF NumThreads
    <3>7. Contents'
      BY <3>1, <3>5, <3>6 DEF Contents
    <3> QED
      BY <3>1, <3>5, <3>7, GoesOn
  <2> QED
    BY <2>1, <2>2
<1>6. CASE EndThreads
  <2>1. /\ pc = "stack" /\ pc' = "modules" /\ Enter(file, list.block) /\ i > NumThreads
        /\ UNCHANGED <<input, dir, links, memory, context>>
    BY <1>6 DEF EndThreads, EndList, Go
  <2>2. /\ Listed(ThreadSize) /\ list.block.len = ListSize(NumThreads, ThreadSize)
        /\ i <= NumThreads + 1
    BY <2>1 DEF WInv, Room, ListOf, Streams, Contents
  <2>3. i - 1 = NumThreads /\ ThreadSize \in Nat \ {0}
    BY <1>1, <2>1, <2>2, ElementSizes
  <2>4. Contents' /\ pc' # "link" /\ pc \in Entering
    BY <2>1 DEF Contents, Entering
  <2> QED
    BY <1>1, <2>1, <2>2, <2>3, <2>4, ListEnds
<1> QED
  BY <1>2, <1>3, <1>4, <1>5, <1>6

LEMMA ModulesStreams ==
  ASSUME ~Narrow, WInv, Streams, ModuleList \/ ModuleId \/ ModuleName \/ EndModules
  PROVE  Streams'
<1>1. NumModules \in Nat /\ i \in Nat \ {0}
  BY InputRead
<1>2. CASE ModuleList
  BY <1>1, <1>2, StartListStreams DEF ModuleList, ModuleSize
<1>3. CASE ModuleId
  <2> DEFINE Module == [id : Nat, name : Strings]
             n == CvHeader + input.modules[i].id
  <2>1. i <= Len(input.modules) /\ input.modules \in Seq(Module)
    BY <1>3, InputRead DEF ModuleId, NumModules
  <2>2. input.modules[i] \in Module
    <3> HIDE DEF Module
    <3> QED
      BY <1>1, <2>1
  <2>3. n \in Nat \ {0}
    BY <2>2 DEF CvHeader
  <2> HIDE DEF n
  <2>4. CASE Abandon(0)
    BY <2>4, AbandonStreams
  <2>5. CASE ~Abandon(0)
    <3>1. /\ pc = "cv" /\ pc' = "name"
          /\ file' \in {file, Filled(n)}
          /\ UNCHANGED <<input, i, list, dir, links, memory, context, entries>>
      BY <1>3, <2>5 DEF ModuleId, Go, n
    <3>2. Traced(file', {file.position})
      BY <2>3, <3>1, FilledTraced, NowTraced
    <3> QED
      BY <3>1, <3>2, AsideStreams
  <2> QED
    BY <2>4, <2>5
<1>4. CASE ModuleName
  <2> DEFINE Module == [id : Nat, name : Strings]
             s == input.modules[i].name
             n == StringSize(s)
             g == WriteString(Allocate(file, n), Given(n), s)
  <2>1. /\ pc = "name" /\ i <= Len(input.modules)
        /\ input.modules \in Seq(Module)
    BY <1>4, InputRead DEF ModuleName, WInv, IInv, Rest
  <2>2. i \in DOMAIN input.modules /\ input.modules[i] \in Module /\ i <= NumModules
    <3> HIDE DEF Module
    <3> QED
      BY <1>1, <2>1 DEF NumModules
  <2>3. s \in Strings
    BY <2>2
  <2> HIDE DEF s
  <2>4. Traced(g, {file.position})
    BY <2>3, TracedNow, TracedString DEF Streams
  <2>5. CASE Abandon(Word)
    BY <2>5, AbandonStreams DEF Word
  <2>6. CASE /\ file' = CopyIndexAfterObject(g, list.block, Word, i - 1, ModuleSize)
             /\ NextElement("name", "cv")
             /\ UNCHANGED memory
    <3> HIDE DEF g
    <3>1. Listed(ModuleSize) /\ list.block.len = ListSize(NumModules, ModuleSize)
      BY <2>1 DEF WInv, Room, ListOf, Streams, Contents
    <3>2. Word + (i - 1) * ModuleSize + ModuleSize <= list.block.len
      BY <1>1, <2>2, <3>1, ElementFits
    <3>3. pc' = "cv" /\ i' = i + 1 /\ UNCHANGED <<input, list, dir, links, context, entries>>
      BY <2>6 DEF NextElement, Go
    <3>4. ModuleSize \in Nat \ {0}
      BY ElementSizes
    <3>5. Traced(file', Mine) /\ Listed(ModuleSize)'
      BY <1>1, <2>4, <2>6, <3>1, <3>2, <3>3, <3>4, ListedGrows
    <3>6. i' <= NumModules' + 1
      BY <1>1, <2>2, <3>3 DEF NumModules
    <3>7. Contents'
      BY <3>3, <3>5, <3>6 DEF Contents
    <3> QED
      BY <3>3, <3>5, <3>7, GoesOn
  <2>7. CASE /\ file' = Flushed(g)
             /\ pc' = "failed"
             /\ list' = NoList
             /\ UNCHANGED <<input, i, dir, links, memory, context, entries>>
    <3> HIDE DEF g
    <3>1. {file.position} \subseteq Mine /\ (list.object # 0 => list.block.at \in Mine)
      BY MineHolds
    <3>2. Traced(file', Mine)
      BY <2>4, <2>7, <3>1, TracedFlushed
    <3>3. Contents'
      BY <2>7 DEF Contents
    <3> QED
      BY <2>7, <3>2, <3>3, GoesOn
  <2> QED
    BY <1>4, <2>5, <2>6, <2>7 DEF ModuleName, s
<1>5. CASE EndModules
  <2>1. /\ pc = "cv" /\ pc' = "app" /\ Enter(file, list.block) /\ i > NumModules
        /\ UNCHANGED <<input, dir, links, memory, context>>
    BY <1>5 DEF EndModules, EndList, Go
  <2>2. /\ Listed(ModuleSize) /\ list.block.len = ListSize(NumModules, ModuleSize)
        /\ i <= NumModules + 1
    BY <2>1 DEF WInv, Room, ListOf, Streams, Contents
  <2>3. i - 1 = NumModules /\ ModuleSize \in Nat \ {0}
    BY <1>1, <2>1, <2>2, ElementSizes
  <2>4. Contents' /\ pc' # "link" /\ pc \in Entering
    BY <2>1 DEF Contents, Entering
  <2> QED
    BY <1>1, <2>1, <2>2, <2>3, <2>4, ListEnds
<1> QED
  BY <1>2, <1>3, <1>4, <1>5

LEMMA MemoryStreams ==
  ASSUME ~Narrow, WInv, Streams, AppMemory \/ MemoryList \/ MemoryEntry \/ EndMemory
  PROVE  Streams'
<1>1. i \in Nat \ {0} /\ input.app \in Seq(Nat \ {0}) /\ memory \in Seq(file.blocks)
  BY InputRead DEF WInv, Placed
<1> DEFINE n == Len(memory)
<1>6. n \in Nat
  BY <1>1
<1> HIDE DEF n
<1>2. CASE AppMemory
  <2>1. input.app[i] \in Nat
    BY <1>1, <1>2 DEF AppMemory
  <2>2. CASE Abandon(0)
    BY <2>2, AbandonStreams
  <2>3. CASE Remember("app", "app", input.app[i])
             /\ i' = i + 1 /\ UNCHANGED <<input, list, dir, links, context, entries>>
    <3>1. Traced(file', {file.position}) /\ pc' = "app"
      BY <2>1, <2>3, RememberTraced DEF Remember
    <3> QED
      BY <2>3, <3>1, AsideStreams
  <2> QED
    BY <1>2, <2>2, <2>3 DEF AppMemory
<1>3. CASE MemoryList
  <2>1. DescriptorSize \in Nat
    BY DEF DescriptorSize
  <2> QED
    BY <1>3, <1>6, <2>1, StartListStreams DEF MemoryList, n
<1>4. CASE MemoryEntry
  <2>1. /\ pc = "memory" /\ pc' = "memory" /\ i <= n /\ i' = i + 1
        /\ file' = CopyIndexAfterObject(file, list.block, Word, i - 1, DescriptorSize)
        /\ UNCHANGED <<input, list, dir, links, memory, context, entries>>
    BY <1>4 DEF MemoryEntry, NextElement, Go, n
  <2>2. Listed(DescriptorSize) /\ list.block.len = ListSize(n, DescriptorSize)
    BY <2>1 DEF WInv, Room, ListOf, Streams, Contents, n
  <2>3. Word + (i - 1) * DescriptorSize + DescriptorSize <= list.block.len
    BY <1>1, <1>6, <2>1, <2>2, ElementFits
  <2>4. Traced(file, {file.position}) /\ DescriptorSize \in Nat \ {0}
    BY NowTraced, ElementSizes
  <2>5. Traced(file', Mine) /\ Listed(DescriptorSize)'
    BY <1>1, <2>1, <2>2, <2>3, <2>4, ListedGrows
  <2>6. i' <= n + 1 /\ n = Len(memory')
    BY <1>1, <1>6, <2>1 DEF n
  <2>7. Contents'
    BY <2>1, <2>5, <2>6 DEF Contents
  <2> QED
    BY <2>1, <2>5, <2>7, GoesOn
<1>5. CASE EndMemory
  <2>1. /\ pc = "memory" /\ pc' = "exception" /\ Enter(file, list.block) /\ i > n
        /\ UNCHANGED <<input, dir, links, memory, context>>
    BY <1>5 DEF EndMemory, EndList, Go, n
  <2>2. /\ Listed(DescriptorSize) /\ list.block.len = ListSize(n, DescriptorSize)
        /\ i <= n + 1
    BY <2>1 DEF WInv, Room, ListOf, Streams, Contents, n
  <2>3. i - 1 = n /\ DescriptorSize \in Nat \ {0}
    BY <1>1, <1>6, <2>1, <2>2, ElementSizes
  <2>4. Contents' /\ pc' # "link" /\ pc \in Entering
    BY <2>1 DEF Contents, Entering
  <2> QED
    BY <1>6, <2>1, <2>2, <2>3, <2>4, ListEnds
<1> QED
  BY <1>2, <1>3, <1>4, <1>5

\* A block that is filled at once is a whole stream.
LEMMA FilledEnds ==
  ASSUME WInv, Streams, NEW n \in Nat \ {0}, pc \in Entering, Enter(Filled(n), Given(n)),
         UNCHANGED dir, pc' # "link", Contents'
  PROVE  Streams'
<1> DEFINE w == [block |-> file.position, at |-> file.position, len |-> n]
           e == Given(n)
           R == {w}
<1>1. Traced(file, {})
  BY TracedNow DEF Streams
<1>2. /\ Traced(Filled(n), {file.position})
      /\ Filled(n).writes = file.writes \cup R
      /\ e.at = file.position /\ e.len = n
  BY <1>1, TracedFilled
<1> HIDE DEF e
<1>3. w.at = e.at /\ End(w) = End(e) /\ w.block = file.position
  BY <1>2 DEF End
<1>4. /\ \A r \in R : r.block = file.position
      /\ \E r \in R : r.at = e.at
      /\ \A r \in R : End(r) = End(e) \/ \E v \in R : v.at = End(r)
  BY <1>3
<1> HIDE DEF w, R
<1> QED
  BY <1>2, <1>4, BlockEnds DEF e

LEMMA StreamsStreams ==
  ASSUME ~Narrow, WInv, Streams, ExceptionStream \/ SystemInfo \/ WriteFile
  PROVE  Streams'
<1>1. CASE ExceptionStream
  <2>0. ExceptionSize \in Nat \ {0} /\ ExceptionSize \in Nat
    BY Sizes
  <2>1. CASE Abandon(ExceptionSize)
    BY <2>0, <2>1, AbandonStreams
  <2>2. CASE ~Abandon(ExceptionSize)
    <3>1. /\ pc = "exception" /\ pc' = "system"
          /\ Enter(Filled(ExceptionSize), Given(ExceptionSize))
          /\ UNCHANGED <<input, i, dir, links, memory, context>>
      BY <1>1, <2>2 DEF ExceptionStream, Go
    <3>2. Contents' /\ pc' # "link" /\ pc \in Entering
      BY <3>1 DEF Contents, Entering
    <3> QED
      BY <2>0, <3>1, <3>2, FilledEnds
  <2> QED
    BY <2>1, <2>2
<1>2. CASE SystemInfo
  <2>0. SystemSize \in Nat \ {0} /\ SystemSize \in Nat
    BY Sizes
  <2>1. CASE Abandon(SystemSize)
    BY <2>0, <2>1, AbandonStreams
  <2>2. CASE ~Abandon(SystemSize)
    <3>1. /\ pc = "system" /\ pc' = "os" /\ file' = Allocate(file, SystemSize)
          /\ list' = [block |-> Given(SystemSize), object |-> SystemSize]
          /\ UNCHANGED <<input, i, dir, links, memory, context, entries>>
      BY <1>2, <2>2 DEF SystemInfo
    <3>2. /\ WritesOf(list.block)' = {} /\ list'.object = SystemSize
          /\ list'.block.len = SystemSize /\ (Contents' => Streams')
      BY <2>0, <3>1, StartStreams
    <3>3. Contents'
      BY <3>1, <3>2 DEF Contents
    <3> QED
      BY <3>2, <3>3
  <2> QED
    BY <2>1, <2>2
<1>3. CASE WriteFile
  <2> DEFINE m == Len(entries) - Mandatory + 1
             n == input.files[m]
  <2>1. /\ pc = "file" /\ pc' \in {"dso", "file"}
        /\ (n > 0 /\ Enter(Filled(n), Given(n))) \/ Enter(file, Nowhere)
        /\ UNCHANGED <<input, i, dir, links, memory, context>>
    BY <1>3 DEF WriteFile, Go
  <2>2. Len(entries) \in 5 .. 11
    BY <2>1 DEF WInv, IInv, Rest, Counted
  <2>3. m \in 1 .. 7
    BY <2>2, FileEntries
  <2> HIDE DEF m
  <2>4. n \in Nat
    BY <2>3, InputRead
  <2> HIDE DEF n
  <2>5. Contents' /\ pc' # "link" /\ pc \in Entering
    BY <2>1 DEF Contents, Entering
  <2>6. CASE n > 0 /\ Enter(Filled(n), Given(n))
    <3>1. n \in Nat \ {0}
      BY <2>4, <2>6
    <3> QED
      BY <2>1, <2>5, <2>6, <3>1, FilledEnds
  <2>7. CASE Enter(file, Nowhere)
    BY <2>1, <2>5, <2>7, MineHolds, NoneEnds
  <2> QED
    BY <2>1, <2>6, <2>7
<1> QED
  BY <1>1, <1>2, <1>3

\* The system's record is written whole, whether or not its name could be.
LEMMA SystemEnds == ASSUME ~Narrow, WInv, Streams, OSInformation PROVE Streams'
<1> DEFINE n == StringSize(input.os)
           g == WriteString(Allocate(file, n), Given(n), input.os)
           b == list.block
           w == [block |-> b.at, at |-> b.at, len |-> SystemSize]
<1>1. Traced(g, {file.position})
  BY InputRead, TracedNow, TracedString DEF Streams
<1>2. Traced(file, {file.position})
  BY NowTraced
<1>3. /\ pc = "os" /\ pc' = "file"
      /\ Enter(g, b) \/ Enter(file, b)
      /\ UNCHANGED <<input, i, dir, links, memory, context>>
  <2>1. FlushLost(file, Word) = file
    BY NothingLost DEF Word
  <2> QED
    BY <2>1 DEF OSInformation, Go
<1> HIDE DEF g
<1>4. PICK f : Traced(f, {file.position}) /\ Enter(f, b)
  BY <1>1, <1>2, <1>3
<1>5. /\ list.object = SystemSize /\ list.object # 0 /\ b.len = SystemSize /\ WritesOf(b) = {}
  BY <1>3 DEF Streams, Contents, SystemSize
<1>6. b \in file.blocks /\ b.at \in Mine /\ b.at < file.position /\ b.at \in Nat
  BY <1>5, ListPlaced
<1>7. dir \in file.blocks /\ pc \in Entering
  BY <1>3 DEF WInv, Room, Entering
<1>8. dir.at \in Mine /\ dir # Nowhere /\ {file.position} \subseteq Mine
  BY <1>7, MineHolds
<1>9. dir.at # b.at
  BY <1>5, <1>8 DEF Streams, Separate
<1>10. /\ Traced(file', Mine)
       /\ \E v : v.block = dir.at /\ file'.writes = (f.writes \cup Object) \cup {v}
  BY <1>4, <1>6, <1>7, <1>8, TracedEnter
<1>11. PICK v : v.block = dir.at /\ file'.writes = (f.writes \cup {w}) \cup {v}
  BY <1>5, <1>10 DEF Object
<1>12. \A u \in f.writes : u.block # b.at
  <2>1. file.position \in Nat
    BY DEF WInv, Good, Sound
  <2> QED
    BY <1>4, <1>5, <1>6, <2>1 DEF Traced, WritesOf
<1>13. {u \in file'.writes : u.block = b.at} = {w}
  BY <1>9, <1>11, <1>12
<1>14. ASSUME NEW c, c = b PROVE Whole(c)'
  <2>1. WritesOf(c)' = {w}
    BY <1>13, <1>14 DEF WritesOf
  <2>2. w.at = c.at /\ End(w) = End(c)
    BY <1>5, <1>14 DEF End
  <2> HIDE DEF w
  <2> QED
    BY <2>1, <2>2 DEF Whole
<1>15. PICK c : c = b
  OBVIOUS
<1>16. entries' = Append(entries, c) /\ list' = NoList
  BY <1>4, <1>15 DEF Enter
<1>17. c # Nowhere => Whole(c)' /\ c.at # dir.at
  BY <1>9, <1>14, <1>15
<1>18. Contents' /\ pc' # "link" /\ UNCHANGED dir
  BY <1>3 DEF Contents
<1> HIDE DEF b
<1> QED
  BY <1>7, <1>10, <1>16, <1>17, <1>18, Finishes

LEMMA NoDebugStreams ==
  ASSUME WInv, Streams, NEW f, Traced(f, Mine), pc \in {"dso", "link", "debug"}, NoDebug(f)
  PROVE  Streams'
<1>1. pc' = "finish" /\ Enter(f, Nowhere) /\ UNCHANGED dir /\ pc \in Entering
  BY DEF NoDebug, Entering
<1>2. Contents' /\ pc' # "link"
  BY <1>1 DEF Contents
<1> QED
  BY <1>1, <1>2, NoneEnds

LEMMA LinksStreams == ASSUME ~Narrow, WInv, Streams, CountLinks \/ EndLinks PROVE Streams'
<1> DEFINE n == Len(input.links) * LinkMapSize
<1>0. n \in Nat
  <2>1. Len(input.links) \in Nat
    BY InputRead
  <2> QED
    BY <2>1 DEF LinkMapSize
<1> HIDE DEF n
<1>1. Traced(file, Mine) /\ Traced(file, {file.position})
  BY MineHolds, NowTraced
<1>2. CASE pc = "dso" /\ NoDebug(file)
  BY <1>1, <1>2, NoDebugStreams
<1>3. CASE EndLinks \/ (CountLinks /\ n = 0 /\ pc' = "debug" /\ UNCHANGED <<file, links, entries>>)
  <2>1. /\ pc' = "debug" /\ file' = file
        /\ UNCHANGED <<input, list, dir, links, memory, context, entries>>
    BY <1>3 DEF EndLinks, CountLinks, NoDebug, Enter, Go
  <2>2. Traced(file', {file.position})
    BY <1>1, <2>1
  <2> QED
    BY <2>1, <2>2, AsideStreams
<1>4. CASE /\ pc = "dso" /\ pc' = "link" /\ n > 0 /\ file' = Allocate(file, n) /\ links' = Given(n)
           /\ UNCHANGED <<input, list, dir, memory, context, entries>>
  <2>1. n \in Nat \ {0} /\ Traced(file, {})
    BY <1>0, <1>4, TracedNow DEF Streams
  <2>2. Traced(file', {}) /\ links'.at = file.position
    BY <1>4, <2>1, TracedAllocate
  <2>3. Traced(file', Mine)
    BY <2>2, MineHolds, TracedMore
  <2>4. Tagged(file)' /\ ~file'.full
    BY <2>2 DEF Traced, Tagged
  <2>5. Contents'
    BY <1>4 DEF Contents
  <2>6. \A k \in DOMAIN entries : entries[k] # Nowhere =>
          \E b \in file.blocks : b = entries[k] /\ b.at # file.position /\ Whole(b)'
    <3>1. file.position \in Nat
      BY DEF WInv, Good, Sound
    <3>2. ASSUME NEW k \in DOMAIN entries, entries[k] # Nowhere
          PROVE  \E b \in file.blocks : b = entries[k] /\ b.at # file.position /\ Whole(b)'
      <4>1. PICK b \in file.blocks : /\ b = entries[k] /\ b.at \in Nat /\ b.at < file.position
                                     /\ Whole(b)'
        BY <2>3, <3>2, FinishedStay
      <4>2. b.at # file.position
        BY <3>1, <4>1
      <4> QED
        BY <4>1, <4>2
    <3> QED
      BY <3>2
  <2>7. EntriesWhole'
    <3>1. ASSUME NEW k \in DOMAIN entries, entries[k] # Nowhere
          PROVE  entries'[k] = Nowhere \/ Whole(entries[k])'
      <4>1. PICK b \in file.blocks : b = entries[k] /\ Whole(b)'
        BY <2>6, <3>1
      <4>2. entries'[k] = b
        BY <1>4, <4>1
      <4> QED
        BY <4>1, <4>2
    <3> QED
      BY <1>4, <3>1 DEF EntriesWhole
  <2>8. Separate'
    BY <1>4, <2>2, <2>6 DEF Streams, Separate
  <2> QED
    BY <2>4, <2>5, <2>7, <2>8 DEF Streams
<1> QED
  BY <1>2, <1>3, <1>4 DEF CountLinks, n

\* A library that was not counted is written behind the link maps: to no stream's
\* block, as far as the writes are told apart by what they are meant for.
LEMMA WriteLinkStreams == ASSUME ~Narrow, WInv, Streams, WriteLink PROVE Streams'
<1> DEFINE s == input.later[i]
           n == StringSize(s)
           g == WriteString(Allocate(file, n), Given(n), s)
<1>1. /\ pc = "link" /\ i \in Nat \ {0} /\ i <= Len(input.later)
      /\ input.later \in Seq(Strings)
  BY InputRead DEF WriteLink
<1>2. i \in DOMAIN input.later /\ s \in Strings
  <2> HIDE DEF Strings
  <2> QED
    BY <1>1
<1> HIDE DEF s
<1>3. Traced(g, {file.position})
  BY <1>2, TracedNow, TracedString DEF Streams
<1>4. Traced(g, Mine) /\ Traced(file, Mine)
  BY <1>3, MineHolds, TracedMore
<1>5. FlushLost(file, Word) = file
  BY NothingLost DEF Word
<1>6. CASE NoDebug(g) \/ NoDebug(FlushLost(file, Word)) \/ NoDebug(file)
  <2> HIDE DEF g
  <2> QED
    BY <1>1, <1>4, <1>5, <1>6, NoDebugStreams
<1>7. CASE /\ file' = CopyIndexAfterObject(g, links, 0, i - 1, LinkMapSize)
           /\ NextElement("link", "link")
           /\ UNCHANGED memory
  <2> HIDE DEF g
  <2> DEFINE k == (i - 1) * LinkMapSize
  <2>1. links \in g.blocks /\ links.at \in Mine /\ links.at \in Nat
    <3>1. links \in file.blocks
      BY <1>1 DEF WInv, Room
    <3>2. links.at \in Nat
      BY <3>1, BlocksBefore DEF WInv, Good, Block
    <3> QED
      BY <1>1, <1>4, <3>1, <3>2, MineHolds DEF Traced
  <2>2. k \in Nat /\ LinkMapSize \in Nat \ {0}
    BY <1>1 DEF LinkMapSize
  <2>3. file' = Copy(g, links, links.at + 0 + k, LinkMapSize)
    BY <1>7 DEF CopyIndexAfterObject
  <2> HIDE DEF k
  <2>4. links.at + 0 + k \in Nat
    BY <2>1, <2>2
  <2>5. Traced(file', Mine)
    BY <1>4, <2>1, <2>2, <2>3, <2>4, TracedCopy
  <2>6. pc' = "link" /\ UNCHANGED <<input, list, dir, links, memory, context, entries>>
    BY <1>7 DEF NextElement, Go
  <2>7. Contents'
    BY <2>6 DEF Contents
  <2> QED
    BY <1>1, <2>5, <2>6, <2>7, GoesOn
<1> QED
  BY <1>6, <1>7 DEF WriteLink, s

\* The record and the section behind it fill their block.
LEMMA DebugStreams == ASSUME ~Narrow, WInv, Streams, WriteDebug PROVE Streams'
<1> DEFINE n == DebugSize + DynSize
           e == Given(n)
           p == file.position
           f == Allocate(file, n)
           g == Copy(f, e, p + DebugSize, DynSize)
           h == Copy(g, e, p, DebugSize)
           u == [block |-> e.at, at |-> p + DebugSize, len |-> DynSize]
           v == [block |-> e.at, at |-> p, len |-> DebugSize]
           X == {p}
           R == {u, v}
<1>1. n \in Nat \ {0} /\ n = 56 /\ DebugSize = 40 /\ DynSize = 16 /\ p \in Nat /\ Traced(file, {})
  BY TracedNow DEF DebugSize, DynSize, WInv, Good, Sound, Streams
<1>2. /\ Traced(f, {}) /\ f.writes = file.writes
      /\ e \in f.blocks /\ e.at = p /\ e.len = n
  BY <1>1, TracedAllocate
<1>3. e.at \in X /\ {} \subseteq X /\ X \subseteq X
  BY <1>2
<1> HIDE DEF n, e, f, p, X
<1>4. (p + DebugSize) + DynSize <= e.at + e.len /\ p + DebugSize <= e.at + e.len
      /\ p + DebugSize \in Nat /\ DebugSize \in Nat \ {0} /\ DynSize \in Nat \ {0}
  BY <1>1, <1>2
<1>5. Traced(g, X) /\ g.blocks = f.blocks /\ g.writes = f.writes \cup {u}
  BY <1>2, <1>3, <1>4, TracedCopy
<1> HIDE DEF g
<1>6. Traced(h, X) /\ h.writes = g.writes \cup {v}
  <2>1. e \in g.blocks /\ p \in Nat /\ DebugSize \in Nat \ {0}
    BY <1>1, <1>2, <1>4, <1>5
  <2> HIDE DEF v
  <2>2. Traced(h, X) /\ h.writes = g.writes \cup {[block |-> e.at, at |-> p, len |-> DebugSize]}
    BY <1>3, <1>4, <1>5, <2>1, TracedCopy
  <2> QED
    BY <2>2 DEF v
<1> HIDE DEF h
<1>7. h.writes = file.writes \cup R
  BY <1>2, <1>5, <1>6
<1>8. /\ u.block = p /\ v.block = p /\ v.at = e.at /\ End(v) = u.at /\ End(u) = End(e)
  BY <1>1, <1>2 DEF End
<1>9. FlushLost(file, DebugSize) = file
  BY <1>4, NothingLost
<1>10. /\ pc = "debug"
       /\ \/ Enter(h, e) /\ pc' = "finish" /\ UNCHANGED <<input, i, dir, links, memory, context>>
          \/ NoDebug(file)
  BY <1>9 DEF WriteDebug, h, g, f, e, n, p
<1> HIDE DEF u, v
<1>11. /\ \A r \in R : r.block = file.position
       /\ \E r \in R : r.at = e.at
       /\ \A r \in R : End(r) = End(e) \/ \E x \in R : x.at = End(r)
  BY <1>8 DEF p
<1> HIDE DEF R
<1>12. CASE NoDebug(file)
  BY <1>10, <1>12, MineHolds, NoDebugStreams
<1>13. CASE Enter(h, e) /\ pc' = "finish" /\ UNCHANGED <<input, i, dir, links, memory, context>>
  <2>1. Contents' /\ pc' # "link" /\ pc \in Entering
    BY <1>10, <1>13 DEF Contents, Entering
  <2>2. Traced(h, {file.position}) /\ e.at = file.position
    BY <1>2, <1>6 DEF X, p
  <2> QED
    BY <1>7, <1>11, <1>13, <2>1, <2>2, BlockEnds
<1> QED
  BY <1>10, <1>12, <1>13

LEMMA OpenStreams ==
  ASSUME ~Narrow, WInv, WInv', Streams,
         Prepare \/ WriteHeader \/ WriteDirectory \/ Finish \/ Destroy \/ Kill
  PROVE  Streams'
<1>1. file' \in File /\ Sound(file')
  BY DEF WInv, Good
<1>2. CASE Prepare \/ Finish \/ Destroy \/ Kill
  <2>1. \A f \in File : \A t :
          /\ Closed(f, t) \in File /\ Closed(f, t).blocks = f.blocks
          /\ Closed(f, t).writes = f.writes /\ Closed(f, t).full = f.full
    BY DEF Closed, File
  <2>2. file \in File /\ ~file.full /\ Tagged(file)
    BY DEF WInv, Good, Streams
  <2>3. file'.blocks = file.blocks /\ file'.writes = file.writes /\ file'.full = file.full
    <3>1. CASE Prepare
      BY <2>2, <3>1 DEF Prepare, Opened, GivenFile, File
    <3>2. CASE Finish \/ Kill
      BY <3>2 DEF Finish, Kill
    <3>3. CASE Destroy
      BY <2>1, <2>2, <3>3 DEF Destroy
    <3> QED
      BY <1>2, <3>1, <3>2, <3>3
  <2>4. Traced(file', {})
    BY <1>1, <2>2, <2>3 DEF Traced, Tagged
  <2>5. Traced(file', Mine)
    BY <2>4, MineHolds, TracedMore
  <2>6. /\ pc' \in {"header", "done", "written", "failed", "lost", "killed"}
        /\ UNCHANGED <<input, i, list, dir, links, memory, context, entries>>
    BY <1>2 DEF Prepare, Finish, Destroy, Kill, Go
  <2>7. Contents'
    BY <2>6 DEF Contents
  <2> QED
    BY <2>5, <2>6, <2>7, GoesOn
<1>0. HeaderSize \in Nat \ {0} /\ HeaderSize \in Nat /\ NumStreams * EntrySize \in Nat \ {0}
  BY Sizes
<1>3. CASE Abandon(HeaderSize) \/ Abandon(0)
  BY <1>0, <1>3, AbandonStreams
<1>4. CASE WriteHeader /\ ~Abandon(HeaderSize)
  <2>1. /\ pc' = "directory" /\ file' = Allocate(file, HeaderSize)
        /\ list' = [block |-> Given(HeaderSize), object |-> HeaderSize]
        /\ UNCHANGED <<input, i, dir, links, memory, context, entries>>
    BY <1>4 DEF WriteHeader
  <2>2. Contents'
    BY <2>1 DEF Contents
  <2> QED
    BY <1>0, <2>1, <2>2, StartStreams
<1>5. CASE WriteDirectory /\ ~Abandon(0)
  <2> DEFINE n == NumStreams * EntrySize
  <2>1. /\ pc = "directory" /\ pc' = "threads" /\ file' = Flushed(Allocate(file, n))
        /\ list' = NoList /\ dir' = Given(n)
        /\ UNCHANGED <<input, i, links, memory, context, entries>>
    BY <1>5 DEF WriteDirectory
  <2>2. Len(entries) = 0 /\ entries \in Seq(Entry)
    BY <2>1 DEF WInv, IInv, Rest, Counted
  <2>3. DOMAIN entries = {}
    BY <2>2
  <2>4. n \in Nat \ {0}
    BY <1>0
  <2> HIDE DEF n
  <2>5. Traced(file, {})
    BY TracedNow DEF Streams
  <2>6. Traced(Allocate(file, n), {})
    BY <2>4, <2>5, TracedAllocate
  <2>7. Traced(file', Mine)
    BY <2>1, <2>6, MineHolds, TracedFlushed
  <2>8. Tagged(file)' /\ ~file'.full
    BY <2>7 DEF Traced, Tagged
  <2>9. EntriesWhole' /\ Separate' /\ Contents'
    BY <2>1, <2>3 DEF EntriesWhole, Separate, Contents, NoList
  <2> QED
    BY <2>8, <2>9 DEF Streams
<1> QED
  BY <1>2, <1>3, <1>4, <1>5 DEF WriteHeader, WriteDirectory

\* A disk once full stays so.
LEMMA FullStays == ASSUME WInv, Next, file.full PROVE file'.full
<1>1. Sound(file) /\ DOMAIN file = Fields
  BY DEF WInv, Good, Sound
<1>2. CASE Prepare
  BY <1>1, <1>2 DEF Prepare, Opened, GivenFile, Fields
<1>3. CASE Destroy
  <2>1. \A f, again : DOMAIN f = Fields =>
          /\ DOMAIN Closed(f, again) = Fields
          /\ Closed(f, again).full = f.full
    BY DEF Closed, Fields
  <2> QED
    BY <1>1, <1>3, <2>1 DEF Destroy
<1>4. CASE DiskFills
  BY <1>1, <1>4 DEF DiskFills, Fields
<1>5. CASE Quiet
  BY <1>5 DEF Quiet, Kept
<1> QED
  BY <1>1, <1>2, <1>3, <1>4, <1>5, StepsAreQuiet

LEMMA StreamsStep ==
  ASSUME ~Narrow, WInv, WInv', StreamsInv, [Next]_vars
  PROVE  StreamsInv'
<1>1. CASE UNCHANGED vars
  <2>1. UNCHANGED <<input, file, pc, i, list, dir, links, memory, context, entries>>
    BY <1>1 DEF vars
  <2>2. ASSUME Streams PROVE Streams'
    <3>1. Tagged(file)' /\ ~file'.full /\ Separate'
      BY <2>1, <2>2 DEF Streams, Tagged, Separate
    <3>2. Contents'
      BY <2>1, <2>2 DEF Streams, Contents, Listed, Element, WritesOf, NumThreads, NumModules
    <3>3. EntriesWhole'
      BY <2>1, <2>2 DEF Streams, EntriesWhole, Whole, WritesOf
    <3> QED
      BY <3>1, <3>2, <3>3 DEF Streams
  <2> QED
    BY <2>1, <2>2 DEF StreamsInv
<1>2. CASE Next /\ Streams /\ ~DiskFills
  BY <1>2, OpenStreams, ThreadsStreams, ModulesStreams, MemoryStreams, StreamsStreams,
     SystemEnds, LinksStreams, WriteLinkStreams, DebugStreams DEF Next, StreamsInv
<1>3. CASE DiskFills
  <2>1. file'.full
    BY <1>3 DEF DiskFills, WInv, Good, File
  <2> QED
    BY <2>1 DEF StreamsInv
<1>4. CASE Next /\ ~Streams
  <2>1. file.full
    BY <1>4 DEF StreamsInv
  <2>2. file'.full
    BY <1>4, <2>1, FullStays
  <2> QED
    BY <2>2 DEF StreamsInv
<1> QED
  BY <1>1, <1>2, <1>3, <1>4

\* In a 64-bit build: unless the disk is full, an entry of the directory stands for
\* a stream all of whose bytes have been written, whatever is refused or fails
\* elsewhere.
THEOREM StreamsTheorem ==
  ASSUME ~Narrow
  PROVE  Spec => []StreamsAreWhole
<1>1. Init => StreamsInv
  BY DEF Init, NewFile, StreamsInv, Streams, Tagged, Separate, Contents, EntriesWhole, NoList
<1>2. WInv /\ WInv' /\ StreamsInv /\ [Next]_vars => StreamsInv'
  BY StreamsStep
<1>3. StreamsInv => StreamsAreWhole
  BY DEF StreamsInv, Streams, EntriesWhole, StreamsAreWhole
<1> QED
  BY <1>1, <1>2, <1>3, WInvAlways, PTL DEF Spec
---------------------------------------------------------------------------
(* The refinement: a step of the writer is a step of its promise.            *)

\* What a step does to the directory and to the outcome.
Moves ==
  \/ UNCHANGED <<entries, outcome>> /\ (dir' = dir \/ entries = <<>>)
  \/ /\ outcome = "writing" /\ outcome' = "writing" /\ dir' = dir
     /\ pc \in Entering
     /\ \E f, e : Kept(f) /\ Enter(f, e)
  \/ /\ UNCHANGED <<entries, dir>> /\ outcome = "writing"
     /\ outcome' = "failed" \/ (outcome' = "written" /\ pc = "done")

LEMMA NextMoves == ASSUME IInv, Next PROVE Moves
<1>0. Kept(file)
  BY DEF IInv, Sound, Kept
<1>1. CASE Prepare \/ WriteHeader
  BY <1>1 DEF Prepare, WriteHeader, Abandon, outcome, Moves
<1>2. CASE WriteDirectory
  <2>1. Len(entries) = 0 /\ entries \in Seq(Entry)
    BY <1>2 DEF WriteDirectory, IInv, Rest, Counted
  <2>2. entries = <<>>
    BY <2>1
  <2> QED
    BY <1>2, <2>2 DEF WriteDirectory, Abandon, outcome, Moves
<1>3. CASE ThreadList \/ ModuleList \/ MemoryList
  BY <1>3 DEF ThreadList, ModuleList, MemoryList, StartList, Abandon, outcome, Moves
<1>4. CASE ThreadStack \/ ThreadIp \/ ThreadContext \/ ModuleId
  BY <1>4 DEF ThreadStack, ThreadIp, ThreadContext, ModuleId, Remember, Go, Abandon,
     outcome, Moves
<1>5. CASE EndThreads \/ EndModules \/ EndMemory
  BY <1>0, <1>5 DEF EndThreads, EndModules, EndMemory, EndList, Go, outcome, Moves, Entering
<1>6. CASE ModuleName
  BY <1>6 DEF ModuleName, NextElement, Go, Abandon, outcome, Moves
<1>7. CASE AppMemory \/ MemoryEntry
  BY <1>7 DEF AppMemory, MemoryEntry, Remember, NextElement, Go, Abandon, outcome, Moves
<1>8. CASE ExceptionStream
  BY <1>0, <1>8, FilledKept DEF ExceptionStream, Go, Abandon, outcome, Moves, Entering
<1>9. CASE SystemInfo
  BY <1>9 DEF SystemInfo, Abandon, outcome, Moves
<1>10. CASE OSInformation
  BY <1>0, <1>10, AllocateKept, WriteStringKept, FlushLostKept
  DEF OSInformation, Go, outcome, Moves, Entering
<1>11. CASE WriteFile
  BY <1>0, <1>11, FilledKept DEF WriteFile, Go, outcome, Moves, Entering
<1>12. CASE CountLinks
  BY <1>0, <1>12 DEF CountLinks, NoDebug, outcome, Moves, Entering
<1>13. CASE WriteLink
  BY <1>0, <1>13, AllocateKept, WriteStringKept, FlushLostKept
  DEF WriteLink, NoDebug, NextElement, Go, outcome, Moves, Entering
<1>14. CASE WriteDebug
  BY <1>0, <1>14, AllocateKept, CopyKept, FlushLostKept
  DEF WriteDebug, NoDebug, outcome, Moves, Entering
<1>15. CASE EndLinks \/ Finish \/ DiskFills \/ Kill
  BY <1>15 DEF EndLinks, Finish, DiskFills, Kill, Go, outcome, Moves
<1>16. CASE Destroy
  <2>1. /\ \/ pc = "done" /\ pc' = "written"
           \/ pc = "failed" /\ pc' = "lost"
        /\ UNCHANGED <<entries, dir>>
    BY <1>16 DEF Destroy, Go
  <2>2. CASE pc = "done" /\ pc' = "written"
    <3>1. outcome = "writing" /\ outcome' = "written"
      BY <2>2 DEF outcome
    <3> QED
      BY <2>1, <2>2, <3>1 DEF Moves
  <2>3. CASE pc = "failed" /\ pc' = "lost"
    <3>1. outcome = "writing" /\ outcome' = "failed"
      BY <2>3 DEF outcome
    <3> QED
      BY <2>1, <3>1 DEF Moves
  <2> QED
    BY <2>1, <2>2, <2>3
<1> QED
  BY <1>1, <1>2, <1>3, <1>4, <1>5, <1>6, <1>7, <1>8, <1>9, <1>10, <1>11, <1>12, <1>13,
     <1>14, <1>15, <1>16 DEF Next

\* Nothing that was written is taken back, nothing is written to a full disk, and
\* only one step fills it.
LEMMA WritesGrow ==
  ASSUME Sound(file), Next
  PROVE  /\ file.writes \subseteq file'.writes
         /\ file.full => file'.writes = file.writes
         /\ DiskFills \/ (file'.full <=> file.full)
<1>1. DOMAIN file = Fields
  BY DEF Sound
<1>2. CASE Prepare
  BY <1>1, <1>2 DEF Prepare, Opened, GivenFile, Fields
<1>3. CASE Destroy
  <2>1. \A f, again : DOMAIN f = Fields =>
          /\ DOMAIN Closed(f, again) = Fields
          /\ Closed(f, again).full <=> f.full
          /\ Closed(f, again).writes = f.writes
    BY DEF Closed, Fields
  <2> QED
    BY <1>1, <1>3, <2>1 DEF Destroy
<1>4. CASE DiskFills
  BY <1>1, <1>4 DEF DiskFills, Fields
<1>5. CASE Quiet
  BY <1>5 DEF Quiet, Kept
<1> QED
  BY <1>2, <1>3, <1>4, <1>5, StepsAreQuiet

\* Unless the disk is full, an entry that is entered reaches the file.
LEMMA EnterIsInFile ==
  ASSUME WInv, Well(file'), pc \in Entering, dir' = dir, NEW f, Kept(f), NEW e, Enter(f, e),
         ~file.full, NEW k, k = Len(entries) + 1
  PROVE  InFile(k)'
<1> DEFINE n == Len(entries)
           g == Flushed(f)
<1>1. n <= 12 /\ n \in Nat /\ k = n + 1
  BY CountedBelow DEF WInv
<1>2. dir \in file'.blocks /\ dir.len = 156 /\ dir.at \in Nat
  BY PlacedAt DEF WInv, Room, Entering, Well, NumStreams, EntrySize
<1>3. dir.at + 156 <= file'.position /\ file'.position <= file'.size
      /\ file'.position \in Nat /\ file'.size \in Nat
  BY <1>2 DEF Well, Good, Sound, BlocksAreDisjoint, End
<1>4. Kept(g) /\ file' = Copy(g, dir, dir.at + n * 12, 12)
  BY FlushedKept DEF Enter, EntrySize
<1> HIDE DEF n, g
<1>5. file'.size = g.size
  BY <1>4 DEF Copy, Kept, Fields
<1>6. Copies(g, dir.at + n * 12, 12)
  <2>1. dir.at + n * 12 + 12 <= file'.size
    BY <1>1, <1>2, <1>3
  <2> QED
    BY <1>4, <1>5, <2>1 DEF Copies, Fits, Kept
<1>7. [block |-> dir.at, at |-> dir.at + n * 12, len |-> 12] \in file'.writes
  BY <1>4, <1>6 DEF Copy, Kept, Fields
<1>8. k - 1 = n
  BY <1>1
<1>9. \E w \in file'.writes : w.block = (dir').at /\ w.at = (dir').at + (k - 1) * 12
  BY <1>7, <1>8
<1> QED
  BY <1>9 DEF InFile, EntrySize

\* Whatever was entered before the disk was full is in the file.
EntriesInFile == ~file.full => \A k \in 1 .. Len(entries) : InFile(k)

\* What a step does to the entries that were entered before.
LEMMA OldEntries ==
  ASSUME WInv, EntriesInFile, Next, dir' = dir, NEW k \in 1 .. Len(entries)
  PROVE  InFile(k)' <=> InFile(k)
<1>1. /\ file.writes \subseteq file'.writes
      /\ file.full => file'.writes = file.writes
  BY WritesGrow DEF WInv, Good
<1>2. CASE file.full
  BY <1>1, <1>2 DEF InFile
<1>3. CASE ~file.full
  <2>1. InFile(k)
    BY <1>3 DEF EntriesInFile
  <2> QED
    BY <1>1, <2>1 DEF InFile
<1> QED
  BY <1>2, <1>3

LEMMA EntriesStep ==
  ASSUME WInv, EntriesInFile, [Next]_vars
  PROVE  EntriesInFile'
<1>1. CASE UNCHANGED vars
  BY <1>1 DEF vars, EntriesInFile, InFile
<1>2. CASE Next
  <2>1. Moves /\ GoesWell
    BY <1>2, NextMoves, NextWell DEF WInv
  <2>2. file'.full \/ ~file.full
    BY <1>2, FullStays
  <2>3. CASE dir' = dir /\ entries' = entries
    BY <1>2, <2>2, <2>3, OldEntries DEF EntriesInFile
  <2>4. CASE entries = <<>> /\ entries' = entries
    <3>1. Len(entries') = 0
      BY <2>4
    <3> QED
      BY <3>1 DEF EntriesInFile
  <2>5. ASSUME dir' = dir, pc \in Entering, NEW f, NEW e, Kept(f), Enter(f, e), ~file'.full
        PROVE  \A k \in 1 .. Len(entries') : InFile(k)'
    <3>1. entries \in Seq(Entry) /\ entries' = Append(entries, e)
      BY <2>5 DEF Enter, WInv, IInv, Rest
    <3>2. Len(entries') = Len(entries) + 1 /\ Len(entries) \in Nat
      BY <3>1
    <3>3. ~file.full /\ Well(file')
      BY <2>1, <2>2, <2>5 DEF GoesWell
    <3>4. \A k : k = Len(entries) + 1 => InFile(k)'
      BY <2>5, <3>3, EnterIsInFile
    <3>5. \A k \in 1 .. Len(entries) : InFile(k)'
      BY <1>2, <2>5, OldEntries, <3>3 DEF EntriesInFile
    <3>6. \A k \in 1 .. Len(entries') : k \in 1 .. Len(entries) \/ k = Len(entries) + 1
      BY <3>2
    <3> QED
      BY <3>4, <3>5, <3>6
  <2> QED
    BY <2>1, <2>3, <2>4, <2>5 DEF Moves, EntriesInFile
<1> QED
  BY <1>1, <1>2

LEMMA DirectoryIsSequence ==
  IInv => /\ directory \in Seq({"stream", "null", "missing"})
          /\ Len(directory) = Len(entries)
<1> SUFFICES ASSUME IInv
             PROVE  /\ directory \in Seq({"stream", "null", "missing"})
                    /\ Len(directory) = Len(entries)
  OBVIOUS
<1>1. DOMAIN entries = 1 .. Len(entries) /\ Len(entries) \in Nat
  BY DEF IInv, Rest
<1> DEFINE n == Len(entries)
           kind(k) == IF ~InFile(k) THEN "missing"
                      ELSE IF entries[k] = Nowhere THEN "null" ELSE "stream"
<1>2. directory = [k \in 1 .. n |-> kind(k)]
  BY <1>1 DEF directory
<1>3. \A k \in 1 .. n : kind(k) \in {"stream", "null", "missing"}
  OBVIOUS
<1>4. n \in Nat
  BY <1>1
<1> HIDE DEF n, kind
<1>5. directory \in [1 .. n -> {"stream", "null", "missing"}]
  BY <1>2, <1>3
<1>6. directory \in Seq({"stream", "null", "missing"}) /\ Len(directory) = n
  BY <1>4, <1>5
<1> QED
  BY <1>6 DEF n

\* The new entry of the directory, in the file or missing from it.
LEMMA EnterRefines ==
  ASSUME WInv, WInv', EntriesInFile, EntriesInFile', Next, ~DiskFills,
         outcome = "writing", outcome' = "writing", dir' = dir,
         NEW e, entries' = Append(entries, e), Len(entries) <= 12
  PROVE  Format!Enter
<1>1. entries \in Seq(Entry) /\ entries' \in Seq(Entry)
  BY DEF WInv, IInv, Rest
<1>2. PICK n \in Nat : n = Len(entries)
  BY <1>1
<1> DEFINE K == {"stream", "null", "missing"}
<1>3. /\ Len(entries') = n + 1 /\ DOMAIN entries = 1 .. n /\ DOMAIN entries' = 1 .. n + 1
      /\ entries'[n + 1] = e /\ \A k \in 1 .. n : entries'[k] = entries[k]
  BY <1>1, <1>2
<1>4. directory \in Seq(K) /\ Len(directory) = n
  BY <1>2, DirectoryIsSequence DEF WInv
<1>5. (directory \in Seq(K) /\ Len(directory) = Len(entries))'
  <2>1. IInv'
    BY DEF WInv
  <2> QED
    BY <2>1, DirectoryIsSequence, PTL
<1>6. \A k \in 1 .. n : directory[k] = IF ~InFile(k) THEN "missing"
                                       ELSE IF entries[k] = Nowhere THEN "null" ELSE "stream"
  BY <1>3 DEF directory
<1>7. \A k \in 1 .. n + 1 : directory'[k] = IF ~InFile(k)' THEN "missing"
                                            ELSE IF entries'[k] = Nowhere THEN "null" ELSE "stream"
  BY <1>3 DEF directory
<1>8. \A k \in 1 .. n : directory'[k] = directory[k]
  <2>1. \A k \in 1 .. n : InFile(k)' <=> InFile(k)
    BY <1>2, OldEntries
  <2> QED
    BY <1>2, <1>3, <1>6, <1>7, <2>1
<1>9. file'.full = file.full
  <2>1. (file'.full <=> file.full) /\ file.full \in BOOLEAN /\ file'.full \in BOOLEAN
    BY WritesGrow DEF WInv, Good, File
  <2> QED
    BY <2>1
<1> DEFINE d == directory'[n + 1]
<1>10. d \in Format!Kind(n + 1) \cup (IF file.full THEN {"missing"} ELSE {})
  <2>1. n + 1 \in 1 .. n + 1
    BY <1>2
  <2>2. n + 1 <= Mandatory => e # Nowhere
    BY <1>1, <1>3, <2>1 DEF WInv, IInv, Rest, MandatoryAreThere
  <2>3. file.full \/ InFile(n + 1)'
    BY <1>3, <1>9, <2>1 DEF EntriesInFile
  <2>4. d = IF ~InFile(n + 1)' THEN "missing" ELSE IF e = Nowhere THEN "null" ELSE "stream"
    BY <1>3, <1>7, <2>1
  <2> HIDE DEF d
  <2> QED
    BY <2>2, <2>3, <2>4 DEF Format!Kind
<1>11. directory' = Append(directory, d)
  BY <1>3, <1>4, <1>5, <1>8
<1> HIDE DEF d
<1>12. Len(directory) < NumStreams
  BY <1>2, <1>4 DEF NumStreams
<1> QED
  BY <1>4, <1>9, <1>10, <1>11, <1>12 DEF Format!Enter

LEMMA StepRefines ==
  ASSUME WInv, WInv', EntriesInFile, EntriesInFile', [Next]_vars
  PROVE  [Format!Next]_<<directory, file.full, outcome>>
<1>1. CASE UNCHANGED vars
  BY <1>1 DEF vars, directory, InFile, outcome
<1>2. CASE DiskFills
  <2>1. /\ ~file.full /\ file'.full = TRUE /\ file'.writes = file.writes
        /\ UNCHANGED <<entries, dir, pc>>
        /\ pc \notin {"written", "lost"}
    BY <1>2 DEF DiskFills, WInv, Good, Sound, Fields
  <2>2. directory' = directory /\ outcome = "writing" /\ outcome' = outcome
    BY <2>1 DEF directory, InFile, outcome
  <2> QED
    BY <2>1, <2>2 DEF Format!Next, Format!DiskFills
<1>3. CASE Next /\ ~DiskFills
  <2>1. Moves
    BY <1>3, NextMoves DEF WInv
  <2>2. file'.full = file.full
    <3>1. (file'.full <=> file.full) /\ file.full \in BOOLEAN /\ file'.full \in BOOLEAN
      BY <1>3, WritesGrow DEF WInv, Good, File
    <3> QED
      BY <3>1
  <2>3. entries \in Seq(Entry) /\ DOMAIN entries = 1 .. Len(entries)
    BY DEF WInv, IInv, Rest
  <2>4. ASSUME entries' = entries, dir' = dir \/ entries = <<>> PROVE directory' = directory
    <3>1. \A k \in DOMAIN entries : InFile(k)' <=> InFile(k)
      BY <1>3, <2>3, <2>4, OldEntries
    <3> QED
      BY <2>4, <3>1 DEF directory
  <2>5. CASE UNCHANGED <<entries, outcome>> /\ (dir' = dir \/ entries = <<>>)
    BY <2>2, <2>4, <2>5
  <2>6. CASE /\ outcome = "writing" /\ outcome' = "writing" /\ dir' = dir
             /\ pc \in Entering
             /\ \E f, e : Kept(f) /\ Enter(f, e)
    <3>1. PICK e : entries' = Append(entries, e)
      BY <2>6 DEF Enter
    <3>2. Len(entries) <= 12
      BY <2>6, CountedBelow DEF WInv
    <3>3. Format!Enter
      BY <1>3, <2>6, <3>1, <3>2, EnterRefines
    <3> QED
      BY <3>3 DEF Format!Next
  <2>7. CASE /\ UNCHANGED <<entries, dir>> /\ outcome = "writing"
             /\ outcome' = "failed" \/ (outcome' = "written" /\ pc = "done")
    <3>1. directory' = directory
      BY <2>4, <2>7
    <3>2. pc = "done" => Len(directory) = NumStreams
      BY DirectoryIsSequence DEF WInv, IInv, Rest, Counted, NumStreams
    <3> QED
      BY <2>2, <2>7, <3>1, <3>2 DEF Format!Next, Format!Complete, Format!Fail
  <2> QED
    BY <2>1, <2>5, <2>6, <2>7 DEF Moves
<1> QED
  BY <1>1, <1>2, <1>3

\* Whatever fails, the directory in the file grows in its order and an entry once
\* written stays; the streams a reader cannot do without are never null; only a dump
\* all of whose thirteen entries were produced ends as written; and each of them is
\* in the file, unless the disk was full before it was written.
THEOREM FormatTheorem == Spec => MinidumpFormatSpec
<1>1. Init => Format!Init /\ EntriesInFile
  BY DEF Init, NewFile, Format!Init, directory, outcome, EntriesInFile
<1>2. WInv /\ EntriesInFile /\ [Next]_vars => EntriesInFile'
  BY EntriesStep
<1>3. WInv /\ WInv' /\ EntriesInFile /\ EntriesInFile' /\ [Next]_vars
        => [Format!Next]_<<directory, file.full, outcome>>
  BY StepRefines
<1> HIDE DEF Init, Next, vars, WInv, EntriesInFile, Format!Init, Format!Next, directory, outcome
<1>4. Spec => Format!Init /\ [][Format!Next]_<<directory, file.full, outcome>>
  BY <1>1, <1>2, <1>3, WInvAlways, PTL DEF Spec
<1> QED
  BY <1>4 DEF MinidumpFormatSpec, Format!Spec
=============================================================================
