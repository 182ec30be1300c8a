---------------------------- MODULE WholeWriter ----------------------------
(***************************************************************************)
(* DoDump in the child: the minidump, from the list of mappings, and then   *)
(* the text of minidump_whole_track_writer.cc with its stack trace, which   *)
(* dump2Java splits into the two parts of the report.  Texts are sequences  *)
(* of characters of which only the separator matters.                       *)
(***************************************************************************)
EXTENDS LinuxDumper

CONSTANTS
  Caret,      \* HEAD_THREAD
  Capacity,   \* MAX_LOG_NUM_, with the Nul
  MaxFrame,   \* MAX_FRAME_
  AndroidL, AndroidO,
  Unknown     \* "unKnow frame"

Frame == [readable : BOOLEAN, text : Seq(STRING)]

\* head: up to the name of the crashed method; method: what dladdr finds; again:
\* the dumper of the text attaches as well; loads and starts: the library that
\* walks the stack is found, and takes the context, and then has a first frame;
\* next: unw_step, 0 at the end.
Report(r) ==
  /\ r.sdk \in Nat
  /\ {r.head, r.symbol, r.thread} \subseteq Seq(STRING)
  /\ r.method \in {"none", "named", "nameless"}
  /\ {r.again, r.loads, r.starts} \subseteq BOOLEAN
  /\ r.frames \in Seq(Frame) /\ (r.starts /\ r.sdk < AndroidO => r.frames # <<>>)
  /\ DOMAIN r.next = DOMAIN r.frames /\ \A k \in DOMAIN r.next : r.next[k] \in 0 .. Len(r.frames)

ASSUME ReportAssumption ==
  /\ {MaxFrame, Capacity} \subseteq Nat \ {0} /\ AndroidL < AndroidO
  /\ Caret \in STRING /\ Unknown \in Seq(STRING)
  /\ \A in \in Inputs : Report(in.report)

VARIABLES
  text,    \* stringSplicing_
  frames,  \* the frames libunwind has counted
  pipe     \* log_descriptors: what was written

textVars == <<text, frames, pipe>>
allVars  == <<vars, textVars>>

report == input.report

TextInit == Init /\ text = <<>> /\ frames = 0 /\ pipe = <<>>
-----------------------------------------------------------------------------
(* CrashInfo, a buffer that is never overrun.                               *)

\* Mutant: the buffer starts anew when it is full.
Restarted(s) ==
  IF Len(text) + Len(s) < Capacity THEN text \o s
  ELSE SubSeq(s, 1, Lesser(Len(s), Capacity - 1))

Appended(s) == SubSeq(text \o s, 1, Lesser(Len(text) + Len(s), Capacity - 1))

Go(to) == phase' = to /\ UNCHANGED <<input, auxv, mappings, stack, ipMemory, modules>>

\* WriteMinidump has succeeded: the dumper of the text.
StartText ==
  /\ phase = "dumped"
  /\ Go(IF report.again THEN "text" ELSE "failed")
  /\ UNCHANGED <<n, textVars>>

FirstPart == report.head \o (IF report.method = "named" THEN report.symbol ELSE <<>>)

\* Product, system, cpu, reason and DumpCrashInfoInLib, where a crash outside of
\* every exported symbol hands append a null pointer.
DumpCrashInfo ==
  /\ phase = "text"
  /\ text' = Appended(FirstPart)
  /\ Go(IF report.method = "nameless" THEN "died" ELSE "thread")
  /\ UNCHANGED <<n, frames, pipe>>

\* DumpNativeThreadTrash: which library walks the stack, and whether it can.
DumpThread ==
  /\ phase = "thread"
  /\ text' = Appended(<<Caret>> \o report.thread)
  /\ n' = 1
  /\ Go(IF report.sdk < AndroidL \/ ~report.loads \/ ~report.starts THEN "write"
        ELSE IF report.sdk < AndroidO THEN "unwind" ELSE "backtrace")
  /\ UNCHANGED <<frames, pipe>>

\* Mutant: the frame is not counted.
Uncounted(frame) == frames

\* A frame whose registers cannot be read is not counted.
Counted(frame) == IF frame.readable THEN frames + 1 ELSE frames

\* The loop of dumpTrack, once.
UnwindFrame ==
  /\ phase = "unwind"
  /\ LET frame == report.frames[n] IN
       /\ text' = Appended(IF frame.readable THEN frame.text ELSE Unknown)
       /\ frames' = Counted(frame)
       /\ IF report.next[n] > 0 /\ frames' < MaxFrame
          THEN n' = report.next[n] /\ Go("unwind")
          ELSE n' = n /\ Go("write")
  /\ UNCHANGED pipe

\* LibBackTraceUtils::dumpTrace: all frames, the empty ones left out.
BacktraceFrame ==
  /\ phase = "backtrace" /\ n <= Len(report.frames)
  /\ text' = Appended(report.frames[n].text)
  /\ n' = n + 1
  /\ Go("backtrace")
  /\ UNCHANGED <<frames, pipe>>

BacktraceDone ==
  /\ phase = "backtrace" /\ n > Len(report.frames)
  /\ Go("write")
  /\ UNCHANGED <<n, textVars>>

\* strlen stops at the Nul; the buffer is cleared.
WriteText ==
  /\ phase = "write"
  /\ pipe' = text
  /\ text' = <<>>
  /\ Go("told")
  /\ UNCHANGED <<n, frames>>

TextNext ==
  \/ StartText \/ DumpCrashInfo \/ DumpThread \/ UnwindFrame \/ BacktraceFrame
  \/ BacktraceDone \/ WriteText

WholeNext == (Next /\ UNCHANGED textVars) \/ TextNext

\* The child runs on its own: nobody keeps it from its next step.
WholeSpec == TextInit /\ [][WholeNext]_allVars /\ WF_allVars(TextNext)
-----------------------------------------------------------------------------
(* Properties.                                                              *)

\* The types of all variables.
WholeTypeOK ==
  /\ phase \in {"auxv", "maps", "late", "threads", "dumped", "failed",
                "text", "thread", "unwind", "backtrace", "write", "told", "died"}
  /\ DataTypeOK
  /\ {text, pipe} \subseteq Seq(STRING) /\ frames \in 0 .. MaxFrame

\* The starts of the parts strtok makes of a text.
Starts(s) == {k \in DOMAIN s : s[k] # Caret /\ (k = 1 \/ s[k - 1] = Caret)}

NoCaret(s) == \A k \in DOMAIN s : s[k] # Caret

\* However long the trace is, the text that dump2Java splits has its two parts, the
\* first one whole and the second from the name of the thread on, when the first
\* leaves room for it and no name holds the separator.
TextHasBothParts ==
  LET fits  == Len(FirstPart) + 1 + Len(report.thread) < Capacity
      plain == /\ NoCaret(FirstPart) /\ NoCaret(report.thread) /\ NoCaret(Unknown)
               /\ \A k \in DOMAIN report.frames : NoCaret(report.frames[k].text)
      body  == FirstPart \o <<Caret>> \o report.thread
  IN phase = "told" /\ fits /\ plain /\ FirstPart # <<>> /\ report.thread # <<>> =>
       /\ Len(body) <= Len(pipe) /\ Len(pipe) < Capacity
       /\ SubSeq(pipe, 1, Len(body)) = body
       /\ Cardinality(Starts(pipe)) = 2

\* Frames that lead only to each other, none of which can be read.
Endless == \E S \in SUBSET DOMAIN report.frames : S # {} /\ \A k \in S : ~report.frames[k].readable /\ report.next[k] \in S

\* After the minidump the child ends, on a stack whose frames form a circle too, so
\* that the parent's waitpid returns; dumpTrack's walk has no bound but MAX_FRAME_.
TextEnds == ~Endless => (phase = "dumped" ~> phase \in {"told", "failed", "died"})
=============================================================================
