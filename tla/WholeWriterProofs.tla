------------------------- MODULE WholeWriterProofs -------------------------
(***************************************************************************)
(* Theorems about WholeWriter: the types of all variables, what              *)
(* LinuxDumperProofs shows of the list and of the stacks, now that the text  *)
(* follows the minidump, and the two parts of the text, however long it is.  *)
(***************************************************************************)
EXTENDS WholeWriter, LinuxDumperProofs, FiniteSetTheorems

Minidump == {"auxv", "maps", "late", "threads", "dumped", "failed"}
Text == {"text", "thread", "unwind", "backtrace", "write", "told", "died"}

\* Before the walk nothing is counted, before the text nothing is written; the walk
\* is at a frame.
Walking ==
  /\ phase \notin {"unwind", "write", "told"} => frames = 0
  /\ phase = "unwind" => n \in DOMAIN report.frames /\ frames < MaxFrame
  /\ phase \in Minidump \cup {"text"} => text = <<>>

TextTypes ==
  /\ phase \in Minidump \cup Text
  /\ text \in Seq(STRING) /\ pipe \in Seq(STRING) /\ frames \in 0 .. MaxFrame

WInv == ListInv /\ TextTypes /\ Walking

\* What ReportAssumption says of one report.
LEMMA ReportFacts ==
  ASSUME ListInv
  PROVE  /\ Report(report)
         /\ report.frames \in Seq(Frame) /\ FirstPart \in Seq(STRING)
         /\ <<Caret>> \o report.thread \in Seq(STRING) /\ report.thread \in Seq(STRING)
         /\ \A k \in DOMAIN report.frames :
              /\ report.frames[k].text \in Seq(STRING)
              /\ report.next[k] \in 0 .. Len(report.frames)
<1>1. Report(report)
  BY ReportAssumption DEF ListInv, IInv, report
<1>2. /\ report.frames \in Seq(Frame) /\ report.head \in Seq(STRING) /\ report.symbol \in Seq(STRING)
      /\ report.thread \in Seq(STRING)
      /\ DOMAIN report.next = DOMAIN report.frames
      /\ \A k \in DOMAIN report.next : report.next[k] \in 0 .. Len(report.frames)
  BY <1>1 DEF Report
<1>3. ASSUME NEW k \in DOMAIN report.frames PROVE report.frames[k].text \in Seq(STRING)
  <2> DEFINE F == Frame
  <2> HIDE DEF F
  <2>1. report.frames \in Seq(F)
    BY <1>2 DEF F
  <2>2. report.frames[k] \in F
    BY <2>1
  <2> QED
    BY <2>2, Zenon DEF F, Frame
<1>4. FirstPart \in Seq(STRING)
  <2> DEFINE h == report.head
             t == IF report.method = "named" THEN report.symbol ELSE <<>>
  <2>1. FirstPart = h \o t
    BY DEF FirstPart
  <2>2. h \in Seq(STRING) /\ <<>> \in Seq(STRING) /\ report.symbol \in Seq(STRING)
    BY <1>2
  <2>3. t \in Seq(STRING)
    BY <2>2
  <2> HIDE DEF h, t
  <2> QED
    BY <2>1, <2>2, <2>3
<1>5. Caret \in STRING
  BY ReportAssumption
<1> QED
  BY <1>1, <1>2, <1>3, <1>4, <1>5

\* What CrashInfo keeps of a text and one more.
LEMMA AppendedFacts ==
  ASSUME text \in Seq(STRING), NEW s \in Seq(STRING)
  PROVE  /\ Appended(s) \in Seq(STRING)
         /\ Len(Appended(s)) = Lesser(Len(text) + Len(s), Capacity - 1)
         /\ \A j \in 1 .. Len(Appended(s)) :
              Appended(s)[j] = IF j <= Len(text) THEN text[j] ELSE s[j - Len(text)]
<1> DEFINE u == text \o s
           m == Lesser(Len(text) + Len(s), Capacity - 1)
<1>1. /\ u \in Seq(STRING) /\ Len(u) = Len(text) + Len(s)
      /\ \A j \in 1 .. Len(u) : u[j] = IF j <= Len(text) THEN text[j] ELSE s[j - Len(text)]
  OBVIOUS
<1>2. Capacity - 1 \in Nat
  BY ReportAssumption
<1>3. m \in 0 .. Len(u)
  BY <1>1, <1>2 DEF Lesser
<1>4. Appended(s) = SubSeq(u, 1, m)
  BY DEF Appended
<1> HIDE DEF u, m
<1>5. SubSeq(u, 1, m) \in Seq(STRING) /\ Len(SubSeq(u, 1, m)) = m
      /\ \A j \in 1 .. m : SubSeq(u, 1, m)[j] = u[j]
  BY <1>1, <1>3
<1> QED
  BY <1>1, <1>3, <1>4, <1>5 DEF m

\* The steps of the text leave the list alone.
LEMMA TextKeeps ==
  ASSUME WInv, TextNext
  PROVE  /\ UNCHANGED <<input, auxv, mappings, stack, ipMemory, modules>>
         /\ phase \notin {"auxv", "maps", "late", "threads"}
         /\ phase' \in Text \cup {"failed"}
         /\ n' \in Nat \ {0}
<1>1. n \in Nat \ {0}
  BY DEF WInv, ListInv, IInv
<1>2. CASE StartText \/ DumpCrashInfo \/ DumpThread \/ BacktraceFrame \/ BacktraceDone \/ WriteText
  BY <1>1, <1>2 DEF StartText, DumpCrashInfo, DumpThread, BacktraceFrame, BacktraceDone, WriteText, Go, Text
<1>3. CASE UnwindFrame
  <2>1. n \in DOMAIN report.frames /\ report.next[n] \in 0 .. Len(report.frames)
        /\ Len(report.frames) \in Nat
    BY <1>3, ReportFacts DEF UnwindFrame, WInv, Walking
  <2> QED
    BY <1>1, <1>3, <2>1 DEF UnwindFrame, Go, Text
<1> QED
  BY <1>2, <1>3 DEF TextNext

LEMMA ListStays ==
  ASSUME WInv, [WholeNext]_allVars
  PROVE  ListInv'
<1>1. CASE Next
  BY <1>1, ListStep DEF WInv
<1>2. CASE UNCHANGED allVars
  BY <1>2, ListStep DEF WInv, allVars
<1>3. CASE TextNext
  <2>1. /\ UNCHANGED <<input, auxv, mappings, stack, ipMemory>>
        /\ phase' \in Text \cup {"failed"} /\ n' \in Nat \ {0}
    BY <1>3, TextKeeps
  <2> QED
    BY <2>1 DEF Text, WInv, ListInv, IInv, AuxOK, Shape
<1> QED
  BY <1>1, <1>2, <1>3 DEF WholeNext

\* The types of the text, and where the walk is.
LEMMA TextStep ==
  ASSUME WInv, [WholeNext]_allVars
  PROVE  TextTypes' /\ Walking'
<1>1. /\ MaxFrame \in Nat \ {0} /\ Unknown \in Seq(STRING) /\ <<>> \in Seq(STRING)
      /\ <<Caret>> \o report.thread \in Seq(STRING)
  BY ReportAssumption, ReportFacts DEF WInv
<1>2. TextTypes /\ Walking
  BY DEF WInv
<1>3. CASE UNCHANGED allVars
  BY <1>2, <1>3 DEF allVars, vars, textVars, TextTypes, Walking, report
<1>4. CASE Next /\ UNCHANGED textVars
  <2>1. phase \in Minidump /\ phase' \in Minidump
    BY <1>4 DEF Next, ReadAuxEntry, AuxvRead, ReadLine, EntryFirst, LatePostprocess,
                LateInitDone, WriteThread, WriteMappings, Minidump
  <2> QED
    BY <1>2, <1>4, <2>1 DEF textVars, TextTypes, Walking, Minidump
<1>5. CASE StartText \/ BacktraceDone
  BY <1>2, <1>5 DEF StartText, BacktraceDone, Go, textVars, TextTypes, Walking, Minidump, Text
<1>6. CASE DumpCrashInfo
  <2>1. Appended(FirstPart) \in Seq(STRING)
    BY <1>2, ReportFacts, AppendedFacts DEF TextTypes, WInv
  <2> QED
    BY <1>2, <1>6, <2>1 DEF DumpCrashInfo, Go, TextTypes, Walking, Minidump, Text
<1>7. CASE DumpThread
  <2>1. Appended(<<Caret>> \o report.thread) \in Seq(STRING)
    BY <1>1, <1>2, AppendedFacts DEF TextTypes
  <2>2. /\ phase = "thread" /\ UNCHANGED <<input, frames, pipe>> /\ n' = 1
        /\ text' = Appended(<<Caret>> \o report.thread)
        /\ phase' \in {"write", "unwind", "backtrace"}
        /\ phase' = "unwind" => report.starts /\ report.sdk < AndroidO
    <3>1. Report(report)
      BY ReportFacts DEF WInv
    <3> QED
      BY <1>7, <3>1 DEF DumpThread, Go, Report
  <2>3. phase' = "unwind" => 1 \in DOMAIN report.frames
    BY <2>2, ReportFacts DEF WInv, Report
  <2> QED
    BY <1>1, <1>2, <2>1, <2>2, <2>3 DEF TextTypes, Walking, Minidump, Text, report
<1>8. CASE UnwindFrame
  <2>1. /\ phase = "unwind" /\ n \in DOMAIN report.frames /\ frames < MaxFrame
        /\ report.frames[n].text \in Seq(STRING)
        /\ report.next[n] \in 0 .. Len(report.frames) /\ Len(report.frames) \in Nat
        /\ DOMAIN report.frames = 1 .. Len(report.frames)
    BY <1>2, <1>8, ReportFacts DEF UnwindFrame, Walking, WInv
  <2>2. /\ frames' \in {frames, frames + 1} /\ pipe' = pipe /\ input' = input
        /\ \E s \in Seq(STRING) : text' = Appended(s)
        /\ \/ phase' = "write"
           \/ phase' = "unwind" /\ report.next[n] > 0 /\ n' = report.next[n] /\ frames' < MaxFrame
    BY <1>1, <1>8, <2>1 DEF UnwindFrame, Counted, Go
  <2>3. text' \in Seq(STRING)
    BY <1>2, <2>2, AppendedFacts DEF TextTypes
  <2>4. frames' \in 0 .. MaxFrame /\ pipe' \in Seq(STRING) /\ phase' \in Text
    BY <1>1, <1>2, <2>1, <2>2 DEF TextTypes, Text
  <2>5. phase' = "unwind" => n' \in DOMAIN report'.frames /\ frames' < MaxFrame
    <3>1. report' = report
      BY <2>2 DEF report
    <3> QED
      BY <2>1, <2>2, <3>1
  <2>6. phase' \in {"unwind", "write"}
    BY <2>2
  <2> QED
    BY <2>3, <2>4, <2>5, <2>6, Zenon DEF TextTypes, Walking, Minidump
<1>9. CASE BacktraceFrame
  <2>1. n \in DOMAIN report.frames /\ report.frames[n].text \in Seq(STRING)
    <3>1. n \in Nat \ {0} /\ n <= Len(report.frames)
      BY <1>9 DEF BacktraceFrame, WInv, ListInv, IInv
    <3> QED
      BY <3>1, ReportFacts DEF WInv
  <2>2. text' \in Seq(STRING)
    BY <1>2, <1>9, <2>1, AppendedFacts DEF BacktraceFrame, TextTypes
  <2> QED
    BY <1>2, <1>9, <2>2 DEF BacktraceFrame, Go, TextTypes, Walking, Minidump, Text
<1>10. CASE WriteText
  BY <1>1, <1>2, <1>10 DEF WriteText, Go, TextTypes, Walking, Minidump, Text
<1> QED
  BY <1>3, <1>4, <1>5, <1>6, <1>7, <1>8, <1>9, <1>10 DEF WholeNext, TextNext

LEMMA WholeAlways == WholeSpec => []WInv
<1>1. TextInit => WInv
  <2>1. Init => ListInv
    BY InitStep DEF Init, ListInv, AuxOK, Shape
  <2>2. MaxFrame \in Nat
    BY ReportAssumption
  <2> QED
    BY <2>1, <2>2 DEF TextInit, Init, WInv, TextTypes, Walking, Minidump
<1>2. WInv /\ [WholeNext]_allVars => WInv'
  BY ListStays, TextStep DEF WInv
<1> QED
  BY <1>1, <1>2, PTL DEF WholeSpec
-----------------------------------------------------------------------------
(* Types.                                                                    *)

\* What the dump has taken is made of words and of mappings.
Taken ==
  /\ modules \in Seq(Mapping)
  /\ stack # NoStack =>
       /\ DOMAIN stack.words = DOMAIN stack.raw
       /\ \A j \in DOMAIN stack.words : stack.words[j] \in 0 .. Space - 1

LEMMA StackWords ==
  ASSUME ListInv, phase = "threads", NEW t \in 1 .. Len(input.threads), NEW s, s = StackOf(t), s # NoStack
  PROVE  DOMAIN s.words = DOMAIN s.raw /\ \A j \in DOMAIN s.words : s.words[j] \in 0 .. Space - 1
<1> DEFINE sp == Registers(t).sp
           c == Capture(sp, Limited(t))
           words == Copied(c)
           first == FirstWord(c, sp)
           kept == Sanitized(words, first, sp)
           A == 0 .. Space - 1
<1>1. s = [thread |-> t, start |-> c.start, raw |-> words, words |-> IF input.sanitize THEN kept ELSE words]
  BY StackFacts
<1>2. FindMapping(PageOf(sp)) # 0
  BY DEF StackOf
<1>3. sp \in Nat
  <2>1. sp \in 0 .. Space - 1 /\ Space \in Nat
    BY RegistersFacts, DumperAssumption DEF ListInv, IInv
  <2> HIDE DEF sp
  <2> QED
    BY <2>1
<1> HIDE DEF sp, c
<1>4. \A j \in DOMAIN words : words[j] \in A
  BY <1>2, <1>3, CopyFacts DEF c
<1>5. Defaced \in A /\ 0 \in A
  BY DumperAssumption
<1> HIDE DEF words, first, A
<1>6. DOMAIN kept = DOMAIN words /\ \A j \in DOMAIN words : kept[j] \in {0, words[j], Defaced}
  BY DEF Sanitized
<1> HIDE DEF kept
<1>7. \A j \in DOMAIN words : kept[j] \in A
  BY <1>4, <1>5, <1>6
<1>8. s.raw = words /\ s.words \in {kept, words}
  BY <1>1
<1> QED
  BY <1>4, <1>6, <1>7, <1>8 DEF A

LEMMA TakenStep ==
  ASSUME WInv, Taken, [WholeNext]_allVars
  PROVE  Taken'
<1>1. ASSUME UNCHANGED <<stack, modules>> PROVE Taken'
  BY <1>1 DEF Taken
<1>2. CASE UNCHANGED allVars \/ TextNext
  BY <1>1, <1>2, TextKeeps DEF allVars, vars
<1>3. CASE WriteThread
  <2>1. phase = "threads" /\ n \in 1 .. Len(input.threads) /\ stack' = StackOf(n) /\ modules' = modules
    BY <1>3, WriteThreadFacts DEF WriteThread, WInv
  <2>2. stack' # NoStack =>
          /\ DOMAIN stack'.words = DOMAIN stack'.raw
          /\ \A j \in DOMAIN stack'.words : stack'.words[j] \in 0 .. Space - 1
    BY <2>1, StackWords DEF WInv
  <2> QED
    BY <2>1, <2>2 DEF Taken
<1>4. CASE WriteMappings
  <2>1. modules' = OwnModules \o input.given /\ stack' = stack
    BY <1>4 DEF WriteMappings
  <2>2. OwnModules \in Seq(Mapping) /\ input.given \in Seq(Mapping)
    BY ModulesFacts, FileFacts DEF WInv, ListInv, IInv, Process
  <2> DEFINE M == Mapping
  <2> HIDE DEF M
  <2>3. modules' \in Seq(M)
    BY <2>1, <2>2 DEF M
  <2> QED
    BY <2>1, <2>3 DEF Taken, M
<1>5. CASE Next /\ ~WriteThread /\ ~WriteMappings
  BY <1>1, <1>5 DEF Next, ReadAuxEntry, AuxvRead, ReadLine, EntryFirst, LatePostprocess, LateInitDone
<1> QED
  BY <1>2, <1>3, <1>4, <1>5 DEF WholeNext

\* The child's variables keep their types, from the auxiliary vector to the text that
\* is in the pipe: no word of a stack is out of the address space, and dumpTrack
\* never counts more than MAX_FRAME_.
THEOREM WholeTypeTheorem == WholeSpec => []WholeTypeOK
<1>1. TextInit => Taken
  BY DEF TextInit, Init, Taken
<1>2. WInv /\ Taken => WholeTypeOK
  BY Zenon DEF WInv, ListInv, IInv, AuxOK, Taken, TextTypes, Minidump, Text, WholeTypeOK, DataTypeOK
<1> QED
  BY <1>1, <1>2, TakenStep, WholeAlways, PTL DEF WholeSpec
-----------------------------------------------------------------------------
(* The list and the stacks.                                                  *)

\* After the dump the list is what it was: what LinuxDumperProofs shows of the maps
\* file and of the main program holds until the child ends.
THEOREM WholeListTheorem == WholeSpec => [](MappingsAreLines /\ MainIsFirst)
<1>1. TextInit => MainIsFirst
  BY DEF TextInit, Init, MainIsFirst
<1>2. ASSUME WInv, MainIsFirst, [WholeNext]_allVars PROVE MainIsFirst'
  <2>1. CASE Next
    BY <1>2, <2>1, MainStep DEF WInv
  <2>2. CASE TextNext
    <3>1. phase' # "dumped"
      BY <1>2, <2>2, TextKeeps DEF Text
    <3> QED
      BY <3>1 DEF MainIsFirst
  <2>3. CASE UNCHANGED allVars
    BY <1>2, <2>3 DEF allVars, vars, MainIsFirst, FindMappingNoBias, Aux, IsModule, ShouldInclude, Given
  <2> QED
    BY <1>2, <2>1, <2>2, <2>3 DEF WholeNext
<1>3. WInv => MappingsAreLines
  BY InvImplies DEF WInv, ListInv
<1> QED
  BY <1>1, <1>2, <1>3, WholeAlways, PTL DEF WholeSpec

\* And what it shows of the stacks, with the exceptions CapturesAreLive names.
THEOREM WholeStacksTheorem ==
  ASSUME NoneIsMovedUp
  PROVE  WholeSpec => [](CapturesAreLive /\ SanitizedKeepsPointersOnly)
<1> DEFINE Live == StackIsLive /\ IpIsLive /\ SanitizedKeepsPointersOnly
<1>1. TextInit => Live
  BY DEF TextInit, Init, StackIsLive, IpIsLive, SanitizedKeepsPointersOnly
<1>2. WInv /\ Live /\ [WholeNext]_allVars => Live'
  BY TextKeeps, LiveStep, SanitizedStep DEF WholeNext, allVars, vars, WInv
<1>3. Live => CapturesAreLive /\ SanitizedKeepsPointersOnly
  BY DEF StackIsLive, IpIsLive, CapturesAreLive
<1> QED
  BY <1>1, <1>2, <1>3, WholeAlways, PTL DEF WholeSpec
-----------------------------------------------------------------------------
(* The parts of the text.                                                    *)

Fits == Len(FirstPart) + 1 + Len(report.thread) < Capacity

Plainly ==
  /\ NoCaret(FirstPart) /\ NoCaret(report.thread) /\ NoCaret(Unknown)
  /\ \A k \in DOMAIN report.frames : NoCaret(report.frames[k].text)

\* s begins with the two parts, and has no other separator.
TwoParts(s) ==
  LET f == Len(FirstPart) IN
  /\ f + 1 + Len(report.thread) <= Len(s) /\ Len(s) < Capacity
  /\ \A j \in 1 .. f : s[j] = FirstPart[j]
  /\ s[f + 1] = Caret
  /\ \A j \in 1 .. Len(report.thread) : s[f + 1 + j] = report.thread[j]
  /\ \A j \in 1 .. Len(s) : j # f + 1 => s[j] # Caret

\* What the text is while it is written.
Written ==
  Fits /\ Plainly =>
    /\ phase = "thread" => text = FirstPart
    /\ phase \in {"unwind", "backtrace", "write"} => TwoParts(text)
    /\ phase = "told" => TwoParts(pipe)

\* A text with both parts keeps them.
LEMMA PartsStay ==
  ASSUME WInv, Fits, TwoParts(text), NEW s \in Seq(STRING), NoCaret(s)
  PROVE  TwoParts(Appended(s))
<1> DEFINE u == Appended(s)
           f == Len(FirstPart)
           t == Len(report.thread)
<1>1. f \in Nat /\ t \in Nat /\ f + 1 + t < Capacity /\ Capacity \in Nat
  <2>1. FirstPart \in Seq(STRING) /\ report.thread \in Seq(STRING)
    BY ReportFacts DEF WInv
  <2>2. f \in Nat /\ t \in Nat
    BY <2>1
  <2>3. Capacity \in Nat
    BY ReportAssumption
  <2> QED
    BY <2>2, <2>3 DEF Fits
<1>2. text \in Seq(STRING) /\ Len(text) \in Nat /\ Len(s) \in Nat
  BY DEF WInv, TextTypes
<1>3. /\ u \in Seq(STRING) /\ Len(u) = Lesser(Len(text) + Len(s), Capacity - 1)
      /\ \A j \in 1 .. Len(u) : u[j] = IF j <= Len(text) THEN text[j] ELSE s[j - Len(text)]
  BY <1>2, AppendedFacts
<1>4. /\ f + 1 + t <= Len(text) /\ Len(text) < Capacity
      /\ \A j \in 1 .. f : text[j] = FirstPart[j]
      /\ text[f + 1] = Caret
      /\ \A j \in 1 .. t : text[f + 1 + j] = report.thread[j]
      /\ \A j \in 1 .. Len(text) : j # f + 1 => text[j] # Caret
  BY DEF TwoParts
<1> DEFINE L == Len(text)
           m == Len(s)
           N == Len(u)
<1> HIDE DEF u, f, t
<1>5. N \in Nat /\ L <= N /\ N <= L + m /\ N < Capacity /\ L \in Nat /\ m \in Nat
  BY <1>1, <1>2, <1>3, <1>4 DEF Lesser
<1> HIDE DEF L, m, N
<1>6. \A j \in 1 .. L : u[j] = text[j]
  BY <1>3, <1>5 DEF L, N
<1>7. ASSUME NEW j \in 1 .. N, j # f + 1 PROVE u[j] # Caret
  <2>1. CASE j <= L
    BY <1>4, <1>5, <1>6, <1>7, <2>1 DEF L
  <2>2. CASE ~(j <= L)
    <3>1. u[j] = s[j - L] /\ j - L \in 1 .. m
      BY <1>3, <1>5, <2>2 DEF L, N
    <3> QED
      BY <3>1 DEF NoCaret, m
  <2> QED
    BY <2>1, <2>2
<1>8. /\ f + 1 + t <= N
      /\ \A j \in 1 .. f : u[j] = FirstPart[j]
      /\ u[f + 1] = Caret
      /\ \A j \in 1 .. t : u[f + 1 + j] = report.thread[j]
  BY <1>1, <1>4, <1>5, <1>6 DEF L
<1> QED
  BY <1>5, <1>7, <1>8 DEF TwoParts, f, t, u, N

\* The first part, alone in the buffer.
LEMMA FirstFits ==
  ASSUME WInv, Fits, text = <<>>
  PROVE  Appended(FirstPart) = FirstPart
<1>1. FirstPart \in Seq(STRING) /\ text \in Seq(STRING) /\ Capacity \in Nat /\ report.thread \in Seq(STRING)
  BY ReportFacts, ReportAssumption DEF WInv, TextTypes
<1> DEFINE F == FirstPart
           f == Len(F)
           t == Len(report.thread)
<1>2. f \in Nat /\ t \in Nat /\ f + 1 + t < Capacity
  <2>1. f \in Nat /\ t \in Nat
    BY <1>1
  <2> QED
    BY <2>1 DEF Fits
<1> HIDE DEF F
<1>3. F \in Seq(STRING) /\ text \o F = F
  BY <1>1 DEF F
<1> HIDE DEF f, t
<1>4. Lesser(Len(text) + f, Capacity - 1) = f
  <2>1. Len(text) = 0
    OBVIOUS
  <2> QED
    BY <1>1, <1>2, <2>1 DEF Lesser
<1>5. SubSeq(F, 1, f) = F
  BY <1>3 DEF f
<1> QED
  BY <1>3, <1>4, <1>5 DEF Appended, F, f

\* The thread's part after it.
LEMMA SecondFits ==
  ASSUME WInv, Fits, Plainly, text = FirstPart
  PROVE  TwoParts(Appended(<<Caret>> \o report.thread))
<1> DEFINE F == FirstPart
           T == report.thread
           s == <<Caret>> \o T
           u == Appended(s)
           f == Len(F)
           t == Len(T)
<1>1. F \in Seq(STRING) /\ T \in Seq(STRING) /\ s \in Seq(STRING) /\ text \in Seq(STRING) /\ Capacity \in Nat
  BY ReportFacts, ReportAssumption DEF WInv, TextTypes
<1>2. NoCaret(F) /\ NoCaret(T) /\ f + 1 + t < Capacity /\ text = F
  BY DEF Plainly, Fits
<1>3. /\ Len(u) = Lesser(Len(text) + Len(s), Capacity - 1)
      /\ \A j \in 1 .. Len(u) : u[j] = IF j <= Len(text) THEN text[j] ELSE s[j - Len(text)]
  BY <1>1, AppendedFacts
<1> HIDE DEF u, F, T
<1>4. f \in Nat /\ t \in Nat /\ Len(s) = t + 1 /\ s[1] = Caret /\ \A j \in 1 .. t : s[j + 1] = T[j]
  BY <1>1
<1> HIDE DEF s
<1>5. \A j \in 1 .. f : F[j] # Caret
  BY <1>1, <1>2 DEF NoCaret
<1>6. \A j \in 1 .. t : T[j] # Caret
  BY <1>1, <1>2 DEF NoCaret
<1>7. Len(text) = f
  BY <1>2
<1> HIDE DEF f, t
<1>8. Len(u) = f + 1 + t
  BY <1>1, <1>2, <1>3, <1>4, <1>7 DEF Lesser
<1>9. \A j \in 1 .. f : u[j] = F[j]
  BY <1>2, <1>3, <1>4, <1>7, <1>8
<1>10. \A j \in 1 .. t + 1 : u[f + j] = s[j]
  <2> TAKE j \in 1 .. t + 1
  <2>1. f + j \in 1 .. f + 1 + t /\ ~(f + j <= f) /\ (f + j) - f = j
    BY <1>4
  <2> QED
    BY <1>3, <1>7, <1>8, <2>1
<1>11. u[f + 1] = Caret /\ \A j \in 1 .. t : u[f + 1 + j] = T[j]
  <2>1. u[f + 1] = Caret
    BY <1>4, <1>10
  <2>2. ASSUME NEW j \in 1 .. t PROVE u[f + 1 + j] = T[j]
    <3>1. j + 1 \in 1 .. t + 1 /\ f + (j + 1) = f + 1 + j
      BY <1>4
    <3> QED
      BY <1>4, <1>10, <3>1
  <2> QED
    BY <2>1, <2>2
<1>12. ASSUME NEW j \in 1 .. f + 1 + t, j # f + 1 PROVE u[j] # Caret
  <2>1. CASE j \in 1 .. f
    BY <1>5, <1>9, <2>1
  <2>2. CASE j \notin 1 .. f
    <3>1. j - (f + 1) \in 1 .. t /\ f + 1 + (j - (f + 1)) = j
      BY <1>4, <1>12, <2>2
    <3> QED
      BY <1>6, <1>11, <3>1
  <2> QED
    BY <2>1, <2>2
<1>13. f + 1 + t <= Len(u) /\ Len(u) < Capacity /\ \A j \in 1 .. Len(u) : j # f + 1 => u[j] # Caret
  BY <1>2, <1>4, <1>8, <1>12
<1> QED
  BY <1>9, <1>11, <1>13, Zenon DEF TwoParts, f, t, F, T, u, s

\* With one input, what is meant by the two parts is the same.
LEMMA SameParts ==
  ASSUME input' = input
  PROVE  /\ Fits' <=> Fits
         /\ Plainly' <=> Plainly
         /\ FirstPart' = FirstPart
         /\ \A x : x = text' /\ TwoParts(x) => TwoParts(text)'
         /\ \A x : x = pipe' /\ TwoParts(x) => TwoParts(pipe)'
<1>1. FirstPart' = FirstPart /\ report' = report
  BY DEF FirstPart, report
<1>2. Fits' <=> Fits
  BY <1>1 DEF Fits
<1>3. Plainly' <=> Plainly
  BY <1>1 DEF Plainly, NoCaret
<1>4. ASSUME NEW x, x = text', TwoParts(x) PROVE TwoParts(text)'
  BY <1>1, <1>4 DEF TwoParts
<1>5. ASSUME NEW x, x = pipe', TwoParts(x) PROVE TwoParts(pipe)'
  BY <1>1, <1>5 DEF TwoParts
<1> QED
  BY <1>1, <1>2, <1>3, <1>4, <1>5

LEMMA WrittenStep ==
  ASSUME WInv, Written, [WholeNext]_allVars
  PROVE  Written'
<1>1. ASSUME phase' \in Minidump \cup {"text", "died"} PROVE Written'
  BY <1>1 DEF Written, Minidump
<1>2. ASSUME UNCHANGED <<input, phase, text, pipe>> PROVE Written'
  BY <1>2, SameParts DEF Written
<1>3. CASE Next \/ StartText
  <2>1. phase' \in Minidump \cup {"text"}
    BY <1>3 DEF Next, ReadAuxEntry, AuxvRead, ReadLine, EntryFirst, LatePostprocess,
                LateInitDone, WriteThread, WriteMappings, StartText, Go, Minidump, WInv, TextTypes
  <2> QED
    BY <1>1, <2>1
<1>4. CASE DumpCrashInfo
  <2>1. text = <<>> /\ text' = Appended(FirstPart) /\ input' = input /\ phase' \in {"died", "thread"}
    BY <1>4 DEF DumpCrashInfo, Go, WInv, Walking
  <2>2. Fits => text' = FirstPart'
    BY <2>1, FirstFits, SameParts
  <2> QED
    BY <2>1, <2>2, SameParts DEF Written
<1>5. CASE DumpThread
  <2>1. /\ phase = "thread" /\ text' = Appended(<<Caret>> \o report.thread)
        /\ input' = input /\ phase' \in {"unwind", "backtrace", "write"}
    BY <1>5 DEF DumpThread, Go
  <2>2. Fits /\ Plainly => TwoParts(text)'
    BY <2>1, SecondFits, SameParts DEF Written
  <2> QED
    BY <2>1, <2>2, SameParts DEF Written
<1>6. CASE UnwindFrame \/ BacktraceFrame
  <2>1. /\ phase \in {"unwind", "backtrace"} /\ phase' \in {"unwind", "backtrace", "write"}
        /\ input' = input /\ n \in DOMAIN report.frames
        /\ \E s \in {Unknown, report.frames[n].text} : text' = Appended(s)
    <3>1. n \in Nat \ {0}
      BY DEF WInv, ListInv, IInv
    <3>2. report.frames \in Seq(Frame)
      BY ReportFacts DEF WInv
    <3>3. BacktraceFrame => n \in DOMAIN report.frames
      BY <3>1, <3>2 DEF BacktraceFrame
    <3> QED
      BY <1>6, <3>3 DEF UnwindFrame, BacktraceFrame, Go, WInv, Walking
  <2>2. PICK s \in {Unknown, report.frames[n].text} : text' = Appended(s)
    BY <2>1
  <2>3. s \in Seq(STRING)
    BY <2>1, <2>2, ReportFacts, ReportAssumption DEF WInv
  <2>4. ASSUME Fits, Plainly PROVE TwoParts(text)'
    <3>1. NoCaret(s) /\ TwoParts(text)
      BY <2>1, <2>2, <2>4 DEF Plainly, Written
    <3>2. TwoParts(Appended(s))
      BY <2>3, <2>4, <3>1, PartsStay
    <3> QED
      BY <2>1, <2>2, <3>2, SameParts
  <2> QED
    BY <2>1, <2>4, SameParts DEF Written
<1>7. CASE BacktraceDone
  BY <1>7, SameParts DEF BacktraceDone, Go, textVars, Written
<1>8. CASE WriteText
  BY <1>8, SameParts DEF WriteText, Go, Written
<1> QED
  BY <1>2, <1>3, <1>4, <1>5, <1>6, <1>7, <1>8 DEF WholeNext, TextNext, allVars, vars, textVars

\* Two sequences with the same elements are equal.
LEMMA SameSequence ==
  ASSUME NEW S, NEW r \in Seq(S), NEW s \in Seq(S), Len(r) = Len(s),
         \A j \in 1 .. Len(r) : r[j] = s[j]
  PROVE  r = s
OBVIOUS

\* strtok makes two parts of such a text.
LEMMA SplitInTwo ==
  ASSUME WInv, NEW p \in Seq(STRING), TwoParts(p), Plainly, FirstPart # <<>>, report.thread # <<>>
  PROVE  Cardinality(Starts(p)) = 2
<1> DEFINE F == FirstPart
           T == report.thread
           f == Len(F)
           t == Len(T)
           N == Len(p)
<1>1. F \in Seq(STRING) /\ T \in Seq(STRING)
  BY ReportFacts DEF WInv
<1>2. F # <<>> /\ T # <<>>
  OBVIOUS
<1>3. /\ f + 1 + t <= N /\ p[f + 1] = Caret
      /\ \A j \in 1 .. N : j # f + 1 => p[j] # Caret
  BY DEF TwoParts
<1> HIDE DEF F, T
<1>4. f \in Nat \ {0} /\ t \in Nat \ {0} /\ N \in Nat /\ DOMAIN p = 1 .. N
  BY <1>1, <1>2
<1> HIDE DEF f, t, N
<1>5. Starts(p) = {1, f + 2}
  <2>1. ASSUME NEW k \in Starts(p) PROVE k \in {1, f + 2}
    <3>1. k \in 1 .. N /\ (k = 1 \/ p[k - 1] = Caret)
      BY <1>4 DEF Starts
    <3>2. CASE k # 1
      <4>1. k - 1 \in 1 .. N /\ p[k - 1] = Caret
        BY <1>4, <3>1, <3>2
      <4>2. k - 1 = f + 1
        BY <1>3, <4>1
      <4> QED
        BY <1>4, <3>1, <4>2
    <3> QED
      BY <3>2
  <2>2. 1 \in 1 .. N /\ 1 # f + 1 /\ f + 2 \in 1 .. N /\ f + 2 # f + 1 /\ (f + 2) - 1 = f + 1
    BY <1>3, <1>4
  <2>3. 1 \in Starts(p) /\ f + 2 \in Starts(p)
    BY <1>3, <1>4, <2>2 DEF Starts
  <2> QED
    BY <2>1, <2>3
<1>6. 1 # f + 2
  BY <1>4
<1>7. IsFiniteSet({1}) /\ Cardinality({1}) = 1
  BY FS_Singleton
<1>8. Cardinality({1} \cup {f + 2}) = 2
  <2>1. \A x : x \notin {1} => Cardinality({1} \cup {x}) = Cardinality({1}) + 1
    BY <1>7, FS_AddElement
  <2>2. f + 2 \notin {1}
    BY <1>6
  <2>3. Cardinality({1} \cup {f + 2}) = Cardinality({1}) + 1
    BY <2>1, <2>2, Zenon
  <2>4. 1 + 1 = 2
    OBVIOUS
  <2> QED
    BY <1>7, <2>3, <2>4, Zenon
<1>9. {1, f + 2} = {1} \cup {f + 2}
  OBVIOUS
<1> QED
  BY <1>5, <1>8, <1>9

\* However many frames there are, and whatever they say, CrashInfo loses only what is
\* behind the two parts: dump2Java finds the first one whole, the second from the
\* name of the thread on, and no third.
THEOREM PartsTheorem == WholeSpec => []TextHasBothParts
<1>1. TextInit => Written
  BY DEF TextInit, Init, Written
<1>2. WInv /\ Written => TextHasBothParts
  <2> DEFINE body == FirstPart \o <<Caret>> \o report.thread
  <2> SUFFICES ASSUME WInv, Written, phase = "told", Fits, Plainly, FirstPart # <<>>, report.thread # <<>>
               PROVE  /\ Len(body) <= Len(pipe) /\ Len(pipe) < Capacity
                      /\ SubSeq(pipe, 1, Len(body)) = body
                      /\ Cardinality(Starts(pipe)) = 2
    BY DEF TextHasBothParts, Fits, Plainly
  <2>1. TwoParts(pipe) /\ pipe \in Seq(STRING)
    BY DEF Written, WInv, TextTypes
  <2>2. FirstPart \in Seq(STRING) /\ report.thread \in Seq(STRING) /\ Caret \in STRING
    BY ReportFacts, ReportAssumption DEF WInv
  <2> DEFINE F == FirstPart
             T == report.thread
             f == Len(F)
             t == Len(T)
             part == SubSeq(pipe, 1, Len(body))
  <2>3. /\ f + 1 + t <= Len(pipe) /\ Len(pipe) < Capacity
        /\ \A j \in 1 .. f : pipe[j] = F[j]
        /\ pipe[f + 1] = Caret
        /\ \A j \in 1 .. t : pipe[f + 1 + j] = T[j]
    BY <2>1 DEF TwoParts
  <2>4. Cardinality(Starts(pipe)) = 2
    BY <2>1, SplitInTwo
  <2> HIDE DEF F, T
  <2>5. f \in Nat /\ t \in Nat /\ F \in Seq(STRING) /\ T \in Seq(STRING)
    BY <2>2 DEF F, T
  <2>6. body = F \o <<Caret>> \o T
    BY DEF F, T
  <2> HIDE DEF body
  <2>7. /\ body \in Seq(STRING) /\ Len(body) = f + 1 + t
        /\ \A j \in 1 .. f : body[j] = F[j]
        /\ body[f + 1] = Caret
        /\ \A j \in 1 .. t : body[f + 1 + j] = T[j]
    BY <2>2, <2>5, <2>6
  <2> HIDE DEF f, t
  <2>8. ASSUME NEW j \in 1 .. f + 1 + t PROVE pipe[j] = body[j]
    <3>1. j \in 1 .. f \/ j = f + 1 \/ (j - (f + 1) \in 1 .. t /\ f + 1 + (j - (f + 1)) = j)
      BY <2>5
    <3> QED
      BY <2>3, <2>7, <3>1
  <2>9. /\ part \in Seq(STRING) /\ Len(part) = f + 1 + t
        /\ \A j \in 1 .. f + 1 + t : part[j] = pipe[j]
    BY <2>1, <2>3, <2>5, <2>7
  <2> HIDE DEF part
  <2>10. part = body
    <3>1. Len(part) = Len(body) /\ \A j \in 1 .. Len(part) : part[j] = body[j]
      BY <2>7, <2>8, <2>9
    <3> QED
      BY <2>7, <2>9, <3>1, SameSequence
  <2> QED
    BY <2>3, <2>4, <2>7, <2>10 DEF part
<1> QED
  BY <1>1, <1>2, WrittenStep, WholeAlways, PTL DEF WholeSpec
=============================================================================
