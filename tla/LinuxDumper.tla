---------------------------- MODULE LinuxDumper ----------------------------
(***************************************************************************)
(* linux_dumper.cc, and what minidump_writer.cc does with it: the auxiliary *)
(* vector and the maps file become the list of mappings; the list decides   *)
(* which memory is taken for the stack of a thread, which of its words are  *)
(* kept, and which modules the dump names.  The input is the process as it  *)
(* is while it is stopped.  Addresses are numbers below Space.              *)
(***************************************************************************)
EXTENDS Integers, Sequences, FiniteSets

CONSTANTS
  PageSize,        \* getpagesize()
  Word,            \* sizeof(uintptr_t)
  Space,           \* 2 ^ the bits of a uintptr_t
  StackToCapture,  \* kStackToCapture
  ExtraLen,        \* kLimitMaxExtraThreadStackLen
  BaseThreads,     \* kLimitBaseThreadCount
  IPHalf,          \* half of kIPMemorySize
  SmallInt,        \* small_int_magnitude
  BucketSize,      \* 2 ^ the shift of the test bits
  Buckets,         \* 2 ^ test_bits
  ModuleMin,       \* the smallest mapping that is a module
  MaxDyn,          \* more dynamic entries than these are not looked at
  Defaced,         \* the word that replaces another
  Paths, LongPaths, \* names with a '/'; those that do not fit MappingInfo.name
  Gate, NoName,    \* kLinuxGateLibraryName; the empty name
  Inputs           \* the processes considered

Line ==
  [kind : {"mapping", "other", "overlong"}, start : 0 .. Space - 1, end : 0 .. Space - 1,
   offset : Nat, exec : BOOLEAN, path : Paths \cup {NoName}]

\* from and to are system_mapping_info, the range of the kernel.
Mapping ==
  [from : Nat, to : Nat, start : 0 .. Space - 1, size : 0 .. Space - 1, offset : Nat,
   exec : BOOLEAN, name : Paths \cup {Gate, NoName}]

\* What the header of a library says: is it ET_DYN, the addresses of its
\* segments, the number of dynamic entries, is one of them for packed relocations.
Elf == [dyn : BOOLEAN, loads : SUBSET Nat, dynamic : Nat, packed : BOOLEAN]

Place == [sp : 0 .. Space - 1, ip : 0 .. Space - 1]

\* auxv and maps as they are read; elf by the address of the header; memory is
\* repeated over the whole process; tight: a size limit is set and the estimate
\* is above it; given: AddMappingInfo.
Process(in) ==
  /\ in.auxv \in Seq([type : Nat, value : 0 .. Space - 1])
  /\ in.maps \in Seq(Line)
  /\ \A a \in DOMAIN in.elf : in.elf[a] \in Elf
  /\ in.memory \in Seq(0 .. Space - 1) \ {<<>>}
  /\ in.context \in Place /\ in.threads \in Seq(Place) /\ in.crashed \in Nat
  /\ in.principal \in Nat /\ {in.skip, in.sanitize, in.tight} \subseteq BOOLEAN
  /\ in.given \in Seq(Mapping)

\* The kernel lists pages, in the order of their addresses and none twice.
Ordered(maps) ==
  /\ \A k \in DOMAIN maps :
        maps[k].start < maps[k].end /\ maps[k].start % PageSize = 0 /\ maps[k].end % PageSize = 0
  /\ \A j, k \in DOMAIN maps : j < k => maps[j].end <= maps[k].start

ASSUME DumperAssumption ==
  /\ {PageSize, Word, ExtraLen, BucketSize, Buckets, StackToCapture, IPHalf} \subseteq Nat \ {0}
  /\ {BaseThreads, SmallInt, ModuleMin, MaxDyn} \subseteq Nat
  /\ Space \in Nat /\ Defaced \in 0 .. Space - 1
  /\ PageSize % ExtraLen = 0 /\ ExtraLen % Word = 0 /\ StackToCapture % PageSize = 0
  /\ LongPaths \subseteq Paths
  /\ Gate # NoName /\ {Gate, NoName} \cap Paths = {}
  /\ \A in \in Inputs : Process(in) /\ Ordered(in.maps)

AtNull    == 0
AtEntry   == 9
AtSysinfo == 33
AtMax     == AtSysinfo

VARIABLES
  input,
  phase,
  n,          \* the index of the loop that runs
  auxv,       \* auxv_: the entries read
  mappings,   \* mappings_
  stack,      \* what was made of the last thread, or NoStack
  ipMemory,   \* the memory around the instruction pointer, or NoStack
  modules     \* the module list

vars == <<input, phase, n, auxv, mappings, stack, ipMemory, modules>>

NoStack == [thread |-> 0]

Init ==
  /\ input \in Inputs
  /\ phase = "auxv"
  /\ n = 1
  /\ auxv = <<>>
  /\ mappings = <<>>
  /\ stack = NoStack
  /\ ipMemory = NoStack
  /\ modules = <<>>
-----------------------------------------------------------------------------
(* ReadAuxv.                                                                *)

Aux(type) == IF type \in DOMAIN auxv THEN auxv[type] ELSE 0

AuxLeft == n <= Len(input.auxv) /\ input.auxv[n].type # AtNull

ReadAuxEntry ==
  /\ phase = "auxv" /\ AuxLeft
  /\ LET e == input.auxv[n] IN
       auxv' = IF e.type <= AtMax
               THEN [t \in DOMAIN auxv \cup {e.type} |-> IF t = e.type THEN e.value ELSE auxv[t]]
               ELSE auxv
  /\ n' = n + 1
  /\ UNCHANGED <<input, phase, mappings, stack, ipMemory, modules>>

\* Nothing read ends the dump.
AuxvRead ==
  /\ phase = "auxv" /\ ~AuxLeft
  /\ phase' = IF DOMAIN auxv = {} THEN "failed" ELSE "maps"
  /\ n' = 1
  /\ UNCHANGED <<input, auxv, mappings, stack, ipMemory, modules>>
-----------------------------------------------------------------------------
(* EnumerateMappings.                                                       *)

LastOf(s) == s[Len(s)]

\* The name of a line, before it is found too long.
NameOf(line) ==
  IF line.path # NoName THEN line.path
  ELSE IF Aux(AtSysinfo) # 0 /\ line.start = Aux(AtSysinfo) THEN Gate
  ELSE NoName

\* Mutant: a hole between the two is overlooked.
ContinuesAfterHole(line) ==
  /\ NameOf(line) # NoName
  /\ mappings # <<>>
  /\ LastOf(mappings).name = NameOf(line)
  /\ line.exec = LastOf(mappings).exec \/ (~LastOf(mappings).exec /\ line.exec)

\* The line is one more segment of the library that was mapped last.
Continues(line) ==
  /\ NameOf(line) # NoName
  /\ mappings # <<>>
  /\ line.start = LastOf(mappings).start + LastOf(mappings).size
  /\ LastOf(mappings).name = NameOf(line)
  /\ line.exec = LastOf(mappings).exec \/ (~LastOf(mappings).exec /\ line.exec)

NewMapping(line) ==
  [from |-> line.start, to |-> line.end, start |-> line.start, size |-> line.end - line.start,
   offset |-> IF NameOf(line) = Gate THEN 0 ELSE line.offset,
   exec |-> line.exec,
   name |-> IF NameOf(line) \in LongPaths THEN NoName ELSE NameOf(line)]

Grown(m, line) ==
  [m EXCEPT !.to = line.end, !.size = line.end - m.start, !.exec = @ \/ line.exec]

\* GetNextLine gives up at a line that does not fit its buffer.
MapsLeft == n <= Len(input.maps) /\ input.maps[n].kind # "overlong"

ReadLine ==
  /\ phase = "maps" /\ MapsLeft
  /\ LET line == input.maps[n] IN
       mappings' =
         IF line.kind # "mapping" THEN mappings
         ELSE IF Continues(line)
              THEN [mappings EXCEPT ![Len(mappings)] = Grown(@, line)]
              ELSE Append(mappings, NewMapping(line))
  /\ n' = n + 1
  /\ UNCHANGED <<input, phase, auxv, stack, ipMemory, modules>>

Lesser(a, b) == IF a <= b THEN a ELSE b
Greater(a, b) == IF a <= b THEN b ELSE a

Least(S) == CHOOSE i \in S : \A j \in S : i <= j

\* Sums of addresses wrap.
End(m) == (m.start + m.size) % Space

\* FindMapping, by the range of the library's own addresses: 0 for none.
FindMapping(a) ==
  LET found == {i \in DOMAIN mappings :
                  mappings[i].start <= a /\ a - mappings[i].start < mappings[i].size} IN
  IF found = {} THEN 0 ELSE Least(found)

\* Mutant: the others are moved one place less.
ToSecond(s, i) ==
  [j \in DOMAIN s |->
     IF j = 2 /\ i > 1 THEN s[i] ELSE IF 2 < j /\ j <= i THEN s[j - 1] ELSE s[j]]

ToFront(s, i) ==
  [j \in DOMAIN s |-> IF j = 1 THEN s[i] ELSE IF j <= i THEN s[j - 1] ELSE s[j]]

\* The mapping with the entry point comes first.
EntryFirst ==
  /\ phase = "maps" /\ ~MapsLeft
  /\ LET i == FindMapping(Aux(AtEntry)) IN
       mappings' = IF Aux(AtEntry) = 0 \/ i = 0 THEN mappings ELSE ToFront(mappings, i)
  /\ phase' = IF mappings = <<>> THEN "failed" ELSE "late"
  /\ n' = 1
  /\ UNCHANGED <<input, auxv, stack, ipMemory, modules>>
-----------------------------------------------------------------------------
(* LatePostprocessMappings, with the threads stopped.                       *)

MinOr(S, default) == IF S = {} THEN default ELSE Least(S)

\* GetEffectiveLoadBias of a library whose header is elf.
EffectiveLoadBias(elf, start) ==
  LET minVaddr == MinOr(elf.loads, Space - 1) IN
  IF minVaddr # 0 /\ elf.dynamic <= MaxDyn /\ elf.packed
  THEN (start - minVaddr) % Space
  ELSE start

HasLibrary(m) ==
  /\ m.exec /\ m.name \in Paths
  /\ m.start \in DOMAIN input.elf
  /\ input.elf[m.start].dyn

\* Mutant: a library that starts lower is not longer for it.
BiasedSameSize(m) ==
  LET bias == EffectiveLoadBias(input.elf[m.start], m.start) IN
  [m EXCEPT !.size = @ + bias - m.start, !.start = bias]

Biased(m) ==
  LET bias == EffectiveLoadBias(input.elf[m.start], m.start) IN
  [m EXCEPT !.size = (@ + m.start - bias) % Space, !.start = bias]

LatePostprocess ==
  /\ phase = "late" /\ n <= Len(mappings)
  /\ mappings' = IF HasLibrary(mappings[n])
                 THEN [mappings EXCEPT ![n] = Biased(@)] ELSE mappings
  /\ n' = n + 1
  /\ UNCHANGED <<input, phase, auxv, stack, ipMemory, modules>>
-----------------------------------------------------------------------------
(* The stack of a thread.                                                   *)

\* FindMappingNoBias, by the kernel's range: 0 for none.
FindMappingNoBias(a) ==
  LET found == {i \in DOMAIN mappings : mappings[i].from <= a /\ a < mappings[i].to} IN
  IF found = {} THEN 0 ELSE Least(found)

Contains(i, a) == i # 0 /\ mappings[i].from <= a /\ a < mappings[i].to

PageOf(a) == a - (a % PageSize)

\* GetStackInfo of a stack pointer in mapping i: how much is taken.
StackLen(i, sp) ==
  Lesser(StackToCapture, mappings[i].size - (PageOf(sp) - mappings[i].start))

\* The start of the first piece of ExtraLen bytes that reaches sp.
Chunk(sp) ==
  CHOOSE a \in {PageOf(sp) + k * ExtraLen : k \in 0 .. PageSize \div ExtraLen} :
    /\ a + ExtraLen >= sp
    /\ a = PageOf(sp) \/ a < sp

\* Mutant: GetStackInfo without the bound of the mapping.
PlainCapture(sp, limited) ==
  IF limited /\ StackToCapture > ExtraLen
  THEN [start |-> Chunk(sp), len |-> ExtraLen]
  ELSE [start |-> PageOf(sp), len |-> StackToCapture]

\* The range FillThreadStack copies, where there is a mapping.
Capture(sp, limited) ==
  LET len == StackLen(FindMapping(PageOf(sp)), sp) IN
  IF limited /\ len > ExtraLen
  THEN [start |-> Chunk(sp), len |-> ExtraLen]
  ELSE [start |-> PageOf(sp), len |-> len]

\* CopyFromProcess: the words of a range, and the index of the first one that
\* is on the stack.
Copied(range) ==
  [j \in 1 .. range.len \div Word |->
     input.memory[((range.start \div Word + j - 1) % Len(input.memory)) + 1]]

FirstWord(range, sp) == (sp - range.start + Word - 1) \div Word + 1

\* StackHasPointerToMapping, and a pc in that mapping.
PointsTo(words, first, i) ==
  \E j \in first .. Len(words) : mappings[i].from <= words[j] /\ words[j] <= mappings[i].to
-----------------------------------------------------------------------------
(* SanitizeStackCopy.                                                       *)

Signed(a) == IF a < Space \div 2 THEN a ELSE a - Space

Small(a) == -SmallInt <= Signed(a) /\ Signed(a) <= SmallInt

\* Mutant: the end of a mapping does not count.
HalfBuckets ==
  {b % Buckets : b \in UNION {(mappings[i].start \div BucketSize) ..
                                (End(mappings[i]) \div BucketSize - 1) :
                                i \in {k \in DOMAIN mappings : mappings[k].exec}}}

\* could_hit_mapping.
CouldHit ==
  {b % Buckets : b \in UNION {(mappings[i].start \div BucketSize) ..
                                (End(mappings[i]) \div BucketSize) :
                                i \in {k \in DOMAIN mappings : mappings[k].exec}}}

\* The executable mapping a word points into, 0 for none.
Hit(a) ==
  LET i == FindMappingNoBias(a) IN
  IF (a \div BucketSize) % Buckets \in CouldHit /\ i # 0 /\ mappings[i].exec THEN i ELSE 0

\* A word that needs no search: last is the mapping that was hit last.
Plain(a, sp, last) == Small(a) \/ Contains(FindMappingNoBias(sp), a) \/ Contains(last, a)

\* last_hit_mapping after one more word.
NextHit(last, a, sp) == IF Plain(a, sp, last) \/ Hit(a) = 0 THEN last ELSE Hit(a)

\* And after the word j of those from first on.
LastHit(words, first, sp) ==
  LET after[j \in 0 .. Len(words)] ==
        IF j < first THEN 0 ELSE NextHit(after[j - 1], words[j], sp)
  IN after

Sanitized(words, first, sp) ==
  LET last == LastHit(words, first, sp) IN
  [j \in DOMAIN words |->
     IF j < first THEN 0
     ELSE IF Plain(words[j], sp, last[j - 1]) \/ Hit(words[j]) # 0 THEN words[j]
     ELSE Defaced]
-----------------------------------------------------------------------------
(* The writer's Init, and WriteThreadListStream.                            *)

Principal == FindMappingNoBias(input.principal)

InRange(a, i, last) == mappings[i].from <= a /\ a <= mappings[i].to - 1 + last

\* CrashingThreadReferencesPrincipalMapping.
CrashReferences ==
  LET sp == input.context.sp IN
  /\ Principal # 0
  /\ \/ InRange(input.context.ip, Principal, 0)
     \/ /\ FindMapping(PageOf(sp)) # 0
        /\ LET range == Capture(sp, FALSE) IN
             PointsTo(Copied(range), FirstWord(range, sp), Principal)

LateInitDone ==
  /\ phase = "late" /\ n > Len(mappings)
  /\ phase' = IF input.skip /\ ~CrashReferences THEN "failed" ELSE "threads"
  /\ n' = 1
  /\ UNCHANGED <<input, auxv, mappings, stack, ipMemory, modules>>

\* The crashed thread is described by its context.
Registers(t) == IF t = input.crashed THEN input.context ELSE input.threads[t]

Limited(t) == input.tight /\ t > BaseThreads /\ t # input.crashed

\* FillThreadStack.
StackOf(t) ==
  LET sp    == Registers(t).sp
      ip    == Registers(t).ip
      range == Capture(sp, Limited(t))
      words == Copied(range)
      first == FirstWord(range, sp)
      wanted == \/ ~input.skip
                \/ /\ Principal # 0
                   /\ (InRange(ip, Principal, 1) \/ PointsTo(words, first, Principal))
  IN
  IF FindMapping(PageOf(sp)) = 0 \/ ~wanted THEN NoStack
  ELSE [thread |-> t, start |-> range.start, raw |-> words,
        words |-> IF input.sanitize THEN Sanitized(words, first, sp) ELSE words]

\* The memory around the instruction pointer, within the mapping it is in.
IpRange(ip) ==
  LET i     == FindMapping(ip)
      first == Greater(mappings[i].start, ip - IPHalf)
      after == Lesser(End(mappings[i]), ip + IPHalf)
  IN IF i = 0 THEN NoStack ELSE [thread |-> input.crashed, start |-> first, len |-> after - first]

WriteThread ==
  /\ phase = "threads" /\ n <= Len(input.threads)
  /\ stack' = StackOf(n)
  /\ ipMemory' = IF n = input.crashed THEN IpRange(input.context.ip) ELSE ipMemory
  /\ n' = n + 1
  /\ UNCHANGED <<input, phase, auxv, mappings, modules>>
-----------------------------------------------------------------------------
(* WriteMappings.                                                           *)

ShouldInclude(m) == m.name # NoName /\ (m.offset = 0 \/ m.exec) /\ m.size >= ModuleMin

\* HaveMappingInfo: the caller has described this one.
Given(m) ==
  \E k \in DOMAIN input.given :
    /\ m.start >= input.given[k].start
    /\ End(m) <= End(input.given[k])

IsModule(m) == ShouldInclude(m) /\ ~Given(m)

\* Those of the mappings that are modules, in their order.
OwnModules ==
  LET among[k \in 0 .. Len(mappings)] ==
        IF k = 0 THEN <<>>
        ELSE IF IsModule(mappings[k]) THEN Append(among[k - 1], mappings[k]) ELSE among[k - 1]
  IN among[Len(mappings)]

WriteMappings ==
  /\ phase = "threads" /\ n > Len(input.threads)
  /\ modules' = OwnModules \o input.given
  /\ phase' = "dumped"
  /\ UNCHANGED <<input, n, auxv, mappings, stack, ipMemory>>

Next ==
  \/ ReadAuxEntry \/ AuxvRead \/ ReadLine \/ EntryFirst \/ LatePostprocess
  \/ LateInitDone \/ WriteThread \/ WriteMappings

Spec == Init /\ [][Next]_vars
-----------------------------------------------------------------------------
(* Properties.                                                              *)

\* The types of the variables but phase, which WholeWriter continues.
DataTypeOK ==
  /\ n \in Nat \ {0}
  /\ DOMAIN auxv \subseteq 0 .. AtMax /\ \A t \in DOMAIN auxv : auxv[t] \in 0 .. Space - 1
  /\ mappings \in Seq(Mapping) /\ modules \in Seq(Mapping)
  /\ stack # NoStack =>
       /\ DOMAIN stack.words = DOMAIN stack.raw
       /\ \A j \in DOMAIN stack.words : stack.words[j] \in 0 .. Space - 1

\* The lines EnumerateMappings gets to see.
LinesRead ==
  {k \in DOMAIN input.maps :
     input.maps[k].kind = "mapping" /\ \A j \in 1 .. k : input.maps[j].kind # "overlong"}

InLine(a, k) == input.maps[k].start <= a /\ a < input.maps[k].end

\* EnumerateMappings merges lines into libraries and moves one to the front: every
\* line read is in a mapping that has its name and is executable if the line is,
\* every byte of a mapping is of a line of that name, no two mappings overlap.
MappingsAreLines ==
  phase \in {"late", "threads", "dumped"} =>
    /\ \A k \in LinesRead :
         \E i \in DOMAIN mappings :
           /\ mappings[i].from <= input.maps[k].start /\ input.maps[k].end <= mappings[i].to
           /\ input.maps[k].exec => mappings[i].exec
           /\ input.maps[k].path \in Paths \ LongPaths => mappings[i].name = input.maps[k].path
    /\ \A i \in DOMAIN mappings : \A a \in mappings[i].from .. mappings[i].to - 1 :
         /\ \E k \in LinesRead : InLine(a, k) /\ mappings[i].name \in {input.maps[k].path, Gate, NoName}
         /\ \A j \in DOMAIN mappings : Contains(j, a) => j = i

\* GetStackInfo, FillThreadStack and the copy around the instruction pointer look
\* an address up by the ranges LatePostprocessMappings has moved.  Still, unless the
\* main program itself was moved, what is copied for a mapped stack pointer is memory
\* of the mapping it is in, and reaches it, or ends just below it where the stacks
\* are limited.  What is copied for a mapped instruction pointer has it inside and
\* stays in the range of its mapping, the moved one: it may begin below the mapping
\* itself, in memory that is another's.
CapturesAreLive ==
  /\ stack # NoStack =>
       LET sp == Registers(stack.thread).sp
           i  == FindMappingNoBias(sp)
           end == stack.start + Len(stack.raw) * Word
       IN i # 0 /\ mappings[1].start = mappings[1].from =>
            /\ mappings[i].from <= stack.start /\ end <= mappings[i].to
            /\ stack.start <= sp
            /\ sp < end \/ (Limited(stack.thread) /\ sp = end)
  /\ ipMemory # NoStack =>
       LET ip == input.context.ip
           i  == FindMappingNoBias(ip)
       IN i # 0 /\ mappings[1].start = mappings[1].from =>
            /\ ipMemory.start <= ip /\ ip < ipMemory.start + ipMemory.len
            /\ ipMemory.start + ipMemory.len <= mappings[i].to
            /\ mappings[i].start <= ipMemory.start

\* SanitizeStackCopy, with its cache, its bits and the moved ranges, keeps of a
\* stack what the maps file says: small numbers and pointers into code or into the
\* stack's own mapping stay, what points to anonymous data or nowhere is defaced,
\* and nothing is left of what is below the stack pointer.
SanitizedKeepsPointersOnly ==
  stack # NoStack /\ input.sanitize =>
    LET sp    == Registers(stack.thread).sp
        first == FirstWord([start |-> stack.start], sp)
        Data(k) == ~input.maps[k].exec /\ input.maps[k].path = NoName /\ ~InLine(sp, k)
    IN \A j \in DOMAIN stack.raw :
         LET w == stack.raw[j] IN
         /\ j < first => stack.words[j] = 0
         /\ j >= first /\ (\/ Small(w)
                          \/ \E k \in LinesRead : InLine(w, k) /\ (input.maps[k].exec \/ InLine(sp, k)))
              => stack.words[j] = w
         /\ j >= first /\ ~Small(w) /\ (\A k \in LinesRead : InLine(w, k) => Data(k))
              => stack.words[j] = Defaced

\* linux_dumper.cc says why EnumerateMappings moves the mapping of the entry point:
\* the format takes the first module for the main executable.
MainIsFirst ==
  phase = "dumped" =>
    LET i == FindMappingNoBias(Aux(AtEntry)) IN
    Aux(AtEntry) # 0 /\ i # 0 /\ IsModule(mappings[i]) =>
      modules # <<>> /\ modules[1] = mappings[i]
=============================================================================
