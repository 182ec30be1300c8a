# Verification of NativeCrash2Java

NativeCrash2Java catches native crashes of an Android app with a modified
Breakpad, writes a minidump and a text with the native stack from a cloned
child, and hands the text to a Java callback before the process dies. This
directory holds TLA+ models of that path, the TLC configurations that check
them, and proofs that TLAPS checks. Paths below are relative to
`src/breakpad/src/main/cpp/`.

## Inventory

| Component | State | Operations | Interacts through |
|---|---|---|---|
| Signal handling: `client/linux/handler/exception_handler.cc` 114-416, 447-502 | `g_handler_stack_`, `old_handlers`, `handlers_installed`, `g_handler_stack_mutex_`, `g_crash_context_`, the kernel's dispositions | constructor, destructor, `SignalHandler`, `HandleSignal`, `SimulateSignalDelivery`, first-chance handler | signals; calls `GenerateDump` under the mutex |
| Dump generation: same file 503-683, `minidump_whole_track_writer.cc`, `char_split_utils.h` | `fdes`, `log_descriptors`, the buffer `log`, the descriptors of both processes | `GenerateDump`, `ThreadEntry`, `DoDump`, `dump2Java`, `WriteMinidump` | two pipes, `clone`, `waitpid`; calls `whole_callback_` |
| Java bridge: `breakpad.cpp` | two semaphores, `g_crash_info`, the callback object and method | `initBreakpadNative`, `DumpCallback`, `CallBackThreadHandler`, `notify2Java` | semaphores between the crashed thread and the callback thread; JNI |
| Alternate stack: `exception_handler.cc` 138-190 | `old_stack`, `new_stack`, `stack_installed` | install, restore | `sigaltstack` of the thread that happens to run it |
| Descriptor: `minidump_descriptor.cc` | mode, path, fd, `c_path_` | `UpdatePath`, `operator=` | copied into the handler |
| Ptrace dumper: `linux_ptrace_dumper.cc` | `threads_`, `threads_suspended_` | enumerate, suspend, resume, read registers and memory | `ptrace`, `/proc` |
| Dumper: `linux_dumper.cc` | `mappings_`, `auxv_` | enumerate mappings, merge, find, stack bounds, sanitise | `/proc/pid/maps` |
| Minidump writer: `minidump_writer.cc`, file writer: `minidump_file_writer.cc` | directory of 13 streams; file, position, size | `Dump`, `Allocate`, `Copy`, `Close` | one file |
| Text: `crash_info_utils.cpp`, `libunwind_utils.cpp`, `libbacktrace_utils.cpp`, `ndk_dlopen` | a bounded line buffer | `append`, `format`, the walk of a stack | system libraries |
| Kotlin API: `BaByteBreakpad.kt` | none | `initBreakpad`, `formatPrint`, `getStack` | JNI |

What is hard here: threads that crash at the same time and retrigger their
signals after the mutex is released; other code that replaces signal handlers;
a child process that shares nothing but what it copied at `clone`; a callback
thread that runs once; initialisation that may be repeated; a process that can
be killed at any step. What makes each part correct is stated in its section.
`PROJECT.json` lists every component with its status and every hazard at its
line.

## Modules

| Module | What it is |
|---|---|
| `ExceptionHandlers` | signal dispositions, handler stack, the path of a crashing thread |
| `ExceptionHandlersProofs` | its theorems |
| `JavaBridge` | semaphores, callback thread, report object |
| `CrashReport` | the promise to Java, which `JavaBridge` implements |
| `JavaBridgeProofs` | its theorems, with the refinement |
| `GenerateDump` | parent, child, pipes and descriptors of one or more dumps |
| `GenerateDumpProofs` | its theorems: types and descriptors, then the report |
| `PtraceDumper` | the child attaches to the threads of the crashed process, twice |
| `PtraceDumperProofs` | its theorems |
| `MinidumpFile` | blocks and writes of one file, as operators |
| `MinidumpFileProofs` | lemmas: what the operators of a file return and keep |
| `MinidumpWriter` | the streams of one minidump, on a `MinidumpFile` that may fail |
| `MinidumpFormat` | the promise to a reader, which `MinidumpWriter` implements |
| `MinidumpWriterProofs` | its theorems, with the refinement |
| `LinuxDumper` | the maps file becomes mappings; stacks and modules by them |
| `LinuxDumperProofs` | its theorems |
| `WholeWriter` | `LinuxDumper`, then the text with its stack trace |
| `WholeWriterProofs` | its theorems, with those of `LinuxDumper` carried over |
| `MC...` | instances for TLC: `MCExceptionHandlers`, `MCJavaBridge`, `MCGenerateDump`, `MCPtraceDumper`, `MCMinidumpWriter`, `MCWholeWriter` |

How they fit together: a crash goes through `ExceptionHandlers`, whose dump is a
boolean; `GenerateDump` is that dump as two processes, in which the text and the
minidump are given; `PtraceDumper`, `LinuxDumper`, `MinidumpWriter` and
`WholeWriter` are what the child does to make them, in this order and without
any other process taking part, which is why the last three need no
interleaving; `JavaBridge` is what happens to the text in the parent. The
interfaces are the phases at the ends: `MinidumpWriter` takes the sizes of the
stacks and names that `LinuxDumper` chooses, `WholeWriter` continues
`LinuxDumper` where the minidump was written, its pipe is the text of
`GenerateDump`, and `PtraceDumper`'s threads are still while all of them run.

Operators called mutants, next to the definition they change, are wrong variants
used to see that each property notices such a mistake; no specification uses
them.

### ExceptionHandlers

A thread runs through `entered` (kernel delivered), `locked`, `trying` /
`dumping` (the loop over `g_handler_stack_`), `tried`, `return` (unlocked, signal
not yet retriggered), `pending`. One action is the code between two points where
another thread can interfere: the lock, the fill of `g_crash_context_`, the dump,
the unlock, the return. `Construct` and `Destruct` are whole, because the code
holds the mutex throughout. Dispositions are abstracted to what decides the
behaviour: `breakpad` (full mask, `SA_SIGINFO`), `noinfo` (put back with
`signal()`), `reset` (repaired, own signal masked only), `old`, `foreign`,
`default`. The kernel's part is external: delivery, the mask, and the forced
death of a thread that faults on a blocked signal. `GenerateDump` is its boolean
here. Other code may take and give back the handler of each signal in `ThirdParty`
again and again. `SigactionFails` is the set of signals on which `sigaction` may
fail: `InstallHandlersLocked` then returns early, with nothing installed, or passes
the signal over, and `RestoreHandlersLocked` falls back to the default handler.
Bound: a handler object is constructed once. Left out: prctl, floating-point
state, the alternate stack.

* `ContextIsMine`: a dump describes its own thread's crash.
* `NoSelfDeadlock`: a fault in the handler does not wait for its own mutex.
* `RestoreLeadsAway`: giving up never leads back to `SignalHandler`.
* `LoneCrashIsAppropriate`: the retriggered signal meets the default handler
  after a dump, the old one otherwise. Without the restriction to one crash this
  is `RetriggerIsAppropriate`, which the code breaks.
* `DumpedOnce`, `CrashEnds`: a dumped crash does not come back, and ends.
* `InfoIsReal`: when a handler was put back without `SA_SIGINFO`,
  `SignalHandler` is entered with arguments that mean nothing, and 362-379 look at the
  handler to notice. The property says when that look fails: only where, between the
  delivery and the look, another thread's crash changed the handler of the signal, a
  handler object came or went, or other code took the handler once more. The
  code has these three windows (a hazard each); giving the handler back, however
  often, is always noticed. `changer` is a history variable for this, which no
  guard reads; it is kept for threads that were entered without the flag.
* `FaultIsServed`: after the repair the fault happens again and the handlers are
  asked. It assumes that other code stops taking handlers some day
  (`BorrowingEnds`: the flag could be lost for ever otherwise), and excepts
  another thread that crashes over and over, a thread that waits for its own
  mutex, and signals that were sent, which do not happen again.

`SimulateSignalDelivery` fills `g_crash_context_` outside the mutex; the properties
about the context are for a run without it.

### JavaBridge and CrashReport

`call` counts through `initBreakpadNative`; `pc` is a crash from `SignalHandler`
to its return; `callback` is one callback thread per call. A semaphore that is
initialised again strands whoever sleeps on it or does not (a choice: bionic
wakes by the old count). `crashInfo` names the crash that allocated
`g_crash_info`, `live` the objects not deleted. `DumpOnly` stands for a dump that
failed or a handler without callback. `sem_wait` is modelled as the wait it is meant
to be: that a signal interrupts it (EINTR at 56 and 130, unchecked) is left out and
listed as a hazard. A callback thread that cannot start is in `bridge_again` and left
out of `bridge_once`, whose properties it would end. A class or method that is not found
(`LookupFails`) is in no run: the crash is then taken and dropped, which `CrashReport`
does not allow.

`CrashReport` has one variable, the phase of each crash, and says: at most one
report is open, it is told once, and only then does the crash go on; a crash that
cannot be reported is skipped and goes on at once. `JavaBridge` maps `pc` and `told` to the
phase (`CrashReportSpec`).

`ReportIsAlive` and `FillsLiveInfo` are stated for a crash before any other was
reported. Without that they fail: the callback thread posts `g_done_semaphore`
and deletes `g_crash_info` afterwards (135-136), so the next crash may find its
own object deleted. No text of the repository promises otherwise, so this is a
hazard and not a finding.

### GenerateDump

Descriptors are numbers, allocated lowest first, in one table for the process and
one per child; a pipe is named by the call that made it. `read`, `write`, `pipe`
and `close` are written as the kernel does them: end of file when no write end is
held anywhere, blocking on a full pipe, failure with fewer than two free
descriptors, no effect of `close(-1)`. The child takes a copy of table, `fdes` and
`log_descriptors` at `Clone`. Texts are short sequences with one `^`; the buffer
keeps what an earlier dump left, `strtok` ends sections with Nul. Calls in
`Crashes` hold the mutex, others are `WriteMinidump`. Left out: the preparation
of `WriteMinidump`, the contents of the minidump, the server of out-of-process
dumps, `callback_` (null in this library).

* `ReportIsOwn`: the first section Java gets is the one the own child wrote, and the
  second begins with the own one. What may follow there are bytes that an earlier,
  longer text left at that very place: `read` overwrites the buffer from its beginning
  (507-510), and nothing clears it or ends the string. A crash after a crash with a
  longer text does get such a tail, and `dump` has it; that is a hazard in
  `PROJECT.json`, and the property bounds what it can be.
* `AppKeepsFiles`: no descriptor of the app is closed.
* `NothingLeaks`: only a failed clone leaves descriptors behind (its log pipe).

`waitpid` may return -1 for the calls in `WaitFails` (580-592): the result is then
false while the child may still run. Texts fit the capacity of a pipe; a longer one
would make the child wait for a parent that waits for it, which is a hazard and
not in the run.

These three are about calls that find two free descriptors. The second
`pipe` is unchecked (564): when it fails, `log_descriptors` keeps its zeros or the
numbers of an earlier call, so the parent closes stdin or what the app opened
since. The model has the failure, the run has enough descriptors to
avoid it, and the proofs assume `Room`.

* `DumpReturns`, `OrphansEnd`: parent and child end, also when the parent dies
  (they hold with three descriptors as well).

### PtraceDumper

`thread`, `traced`, `sigstop` and `frozen` are the kernel's side: a thread runs,
is on its way out (it can be attached but no longer stops), is stopped, a zombie
that waits for its tracer, or gone. Any traced thread may stop for another signal
than the SIGSTOP, the crashed one too (`Stop`). `list` and `i` are `threads_` and the index
of whichever loop runs, `suspended` is the flag the destructor looks at. One
action is one system call of the child, or one turn of a loop. `Drop` is the
removal in `ThreadsSuspend`, where `--i` may wrap below zero and back. `env`
holds what does not change during a crash: the x86 build with its look at the
registers, a process that ignores SIGCHLD, threads with another debugger.
`Dumped` stands for the streams; it needs the registers of every listed thread
but the crashed one. Left out: what is read from the threads.

* `ReadsStillThreads`: while a writer reads, every listed thread is still.
* `LeavesNoneStopped`: neither the next dumper nor the process finds a thread
  stopped that this dumper should have resumed.
* `ChildEnds`: the loops end although threads come and go.
* `ProcessIsResumed` fails: see the run `frozen`.

On ARM, a thread that exits between attach and stop stays in the list, and the
whole minidump and the report fail with it (`WaitExited`, then `DumpFails`).

### MinidumpFile, MinidumpWriter and MinidumpFormat

A file is a record: descriptor, `position_`, `size_`, the offset of `lseek`, the
blocks handed out, and the writes, each with the block it is meant for. `Allocate`
grows the file by at least a page with `ftruncate`, or not at all where the kernel
refuses that with EACCES (`bypass`). Bytes are left out; the
properties only ask where they go. A string is the sequence of the lengths of its
characters in UTF-8, because `CopyStringToMDString` goes wrong or gives up by
those alone.

`MinidumpWriter` has one action per allocation: the header, the directory, then
thirteen streams, with `pc` naming the loop and `i` its index. `Enter` is the end
of every stream writer: the destructor of its object, then `CopyIndex` into the
directory. `refused` is the check of the principal mapping in `Init` (168-172), which
ends a dump before it starts although no call failed. `Granted` and `Refused` are `ftruncate`; `DiskFills` and `Kill` may
happen between any two steps; `Destroy` is the two destructors and which of them
closes. The input is the process: sizes of stacks, of identifiers, of files, the
names, and the list of libraries as it is counted and as it is written.

* `DisjointBlocks`, `WritesStayInBlocks`, `StreamsAreWhole`: no byte for two blocks, no
  write outside of its block, and a list as long as its count whenever the
  directory has it.
* `DescriptorIsCallers`: a given descriptor is not closed, and an own one does not stay
  open, unless `ftruncate` is refused or a call fails.
* `HealthyDumpIsWritten`: once `Init` accepted the process, a dump fails only because a
  call failed. Its exceptions are what the code does: a process that `Init` refuses
  because nothing refers to the principal mapping (the test `MinidumpSkippedIfRequested`
  asks for that), a path on a kernel that refuses `ftruncate`, and a module whose name
  is not UTF-8.
* `MinidumpFormatSpec`: the directory grows in its order, nothing entered changes, the
  first five entries are never null, and only a dump that produced all entries ends
  as written. This is about the directory in the file: `directory` is read from the
  writes (`InFile`), and an entry that did not reach the file is `missing`. That
  happens only when the disk was full before. Such a dump still ends as written, since
  `Dump` ignores what `CopyIndex` returns; `MinidumpFormat` therefore allows it, and
  the hazard is in `PROJECT.json`.

`WritesStayInBlocks` fails with a character outside the basic plane, with
`Narrow = TRUE` after a refused allocation, and when a library is loaded between
counting and writing. These are listed as hazards; the inputs of the run leave
them out.

### LinuxDumper and WholeWriter

The input of a behaviour is a stopped process: auxiliary vector, lines of the
maps file, headers of the libraries, memory, registers, the settings of the
descriptor and what the system libraries find. Nothing else moves, so the
behaviours differ in their inputs alone. `phase` goes `auxv`, `maps`, `late`,
`threads`, `dumped`, and in `WholeWriter` on to `text`, `thread`, `unwind` or
`backtrace`, `write`, `told`; or it ends as `failed` (a function returned false)
or `died` (the child was killed by its own fault). One action is one turn of a
loop: `ReadAuxEntry`, `ReadLine` with the merging rule, `EntryFirst`,
`LatePostprocess` of one mapping, `WriteThread` of one thread, `UnwindFrame`.
`FindMapping`, `Capture`, `Sanitized`, `CrashReferences` and `IsModule` are the pure
functions of the code as operators; sums of addresses wrap at `Space`. A mapping
has its two ranges, `from`..`to` of the kernel and `start`, `size` that packed
relocations move.

* `MappingsAreLines`: the list of mappings is the maps file, merged and reordered.
* `MainIsFirst`: the mapping with the entry point is the first module.
* `CapturesAreLive`: what is copied of a stack is in the mapping of the stack pointer and
  reaches it, although the mapping is looked up by the moved ranges; where stacks are
  limited it may also end just below the stack pointer, and then holds nothing of
  the stack in use (a hazard). What is copied around the instruction pointer has
  it inside and ends in its mapping. It begins in the moved range of that mapping: if
  the mapping was moved down, that may be below the mapping itself, in another's
  memory (a hazard as well). None of this is promised when the main program itself
  was moved: it is the first mapping, and its moved range may cover another's.
* `SanitizedKeepsPointersOnly`: the bits, the caches and the two ranges together decide
  as the maps file would.
* `TextHasBothParts`: `strtok` finds two parts in what was written, however the text is
  cut, when the part before the trace fits and no name holds the separator.
* `TextEnds`: the walk of the stack ends, on circles too, except on one without a
  readable frame.

Left out: the partial word above the last one of a stack (lengths are multiples
of a word), the suffix of deleted files and SONAMEs, failing reads of memory,
and that the second dumper of the text reads the maps once more (`again` says
whether it succeeds).

## Runs

| Run | Instance | Shows | Size |
|---|---|---|---|
| `handlers` | 2 threads, 2 signals, 2 handlers, first-chance handler | the safety properties and `CrashEnds` | 326,600 states |
| `handlers_foreign` | 2 threads, 2 signals, 1 handler, `signal()` on SIGSEGV again and again, failing sigaction, client dumps | `InfoIsReal`, `FaultIsServed` | 802,400 |
| `bridge_once` | 2 crashes, 1 initialisation, no failure | types, the crash is told, the process ends | 223 |
| `bridge_again` | 2 crashes, 2 initialisations, threads that fail to start | `ToldOnce`, live report, `CrashReportSpec` | 15,600 |
| `dump` | 2 crashes, one after the other, no stack, no clone, a failed dump, a failed waitpid, a kill | all of GenerateDump | 50,400 |
| `ptrace` | 3 threads, one more created | all of PtraceDumper | 203,800 |
| `minidump` | 72 processes, any call may fail, disk full, kill | all of MinidumpWriter, the refinement of MinidumpFormat | 145,800 |
| `child` | 669 processes of 128 bytes | all of LinuxDumper and WholeWriter | 27,800 |
| `retrigger_race` | 2 threads | violation: the other thread's crash changes the disposition | |
| `second_init` | 1 crash, 2 initialisations | violation: the report is lost | |
| `orphans` | 2 concurrent dumps | violation: two children wait for ever | |
| `frozen` | 2 threads | violation: a pending SIGSTOP stops the process | |

Why the bounds are enough: two threads are needed for every race between crashes
and no property relates three; two signals are needed to tell the signal of a
crash from a nested one; two handlers for a stack that empties and fills again;
two calls and two callback threads for every reuse of a semaphore. Where `signal()` is about, one handler object is enough: it can be removed under a
thread on its way to the check, and the window for that is the same for any other.
Descriptors 0..7 leave room for stdin, one file of the app, a leaked pipe and two
open ones. Texts of four and three bytes make a stale tail
possible; the capacity of four lets a text fill a pipe. The main thread, the
crashed one, one that may exit or be dropped and one created late give every
order of listing, removal and exit that the loops tell apart.

`minidump` has a page of 64 bytes, so that blocks of every kind are smaller and larger than a
page, and processes with everything a dump can hold or with nothing. `child` has
15 lines of a maps file: a library in three segments, one with packed
relocations and a hole, the gate, the program in two segments, a name and a line
that are too long, code and data without a name; every pair of 14 words that lie in,
at the edges of and beside each of them; eight buckets of eight bytes, so that
buckets are shared; stacks of one and two pages, limited and not; frames in a
line, in a circle and at the limit; texts that fit the buffer and that do not.

`handlers_foreign`, `bridge_again`, `orphans`, `minidump` and `child` do not check
deadlock: the last two end. Of the others, in the
first a thread can wait for its own mutex, in the second a crash can wait for a
callback thread that never started, in the third two children wait for each other:
the code stops there too.

Fairness is weak fairness of each step of a thread in `SignalHandler`, of a
callback thread and of a child: the kernel schedules runnable threads, and no
step is retried by somebody else. In `GenerateDump` it is that of a call that has begun
(`GoOn`) and of its child; beginning one (`Start`) is not fair. A thread that is told to stop
stops and one that is leaving leaves: nothing in the kernel's wait depends on the
child. The app is never assumed to crash, to open
files, to call the library or to be killed. `onCrash` is assumed to return. In
`WholeWriter` the child alone runs; its text, whose only loop without a bound in
the code is the walk of the stack, is fair.

## Proofs

`ExceptionHandlersProofs`, for any sets of threads, signals and handlers:
`TypeCorrect`; `ContextTheorem`, from the mutual exclusion of the threads between
lock and unlock, when clients do not call `SimulateSignalDelivery`;
`WayOutTheorem` and `NoSelfDeadlockTheorem`, without code that uses `signal()`, from the
invariant that
`old_handlers` holds no disposition of ours, that uninstalled means away from
`SignalHandler`, and that whoever holds the mutex has every exception signal
blocked. The last part is needed because `NoSelfDeadlock` alone says nothing of
the mask with which the next fault will arrive. Under the same assumption
`DumpedOnceTheorem` and `LoneCrashTheorem`, from `OneHandlerInv`: a dumped crash's
signal leads away and has the default handler until another crash concludes. It
also says that before the first handler nothing was touched: otherwise the one
handler there is could be a later one, which installs `SignalHandler` under a
retriggered signal.

`InfoTheorem` has no hypotheses: any number of threads, any code that uses
`signal()` however often, and failing `sigaction`. `InfoIsReal` speaks only of threads
past the check; `NoticedInv` follows the lost flag to it: at a thread that was entered
without info and is still before the check, the handler of its signal is the one
without the flag, or `changer` names one of the three that hid it. `EveryThreadMoves`
and `ChangerMoves` say what any step may do to any thread as far as this is concerned,
so that the invariant is shown for six moves and not for every pair of an action and
a thread.

`JavaBridgeProofs`, for any number of crashes and initialisations: `TypeCorrect`;
`ToldOnceTheorem`, from `OneReport`, which says that the one open report is in the
first semaphore, or with one callback thread, or in the second semaphore;
`BridgeImplementsReport`, the refinement of `CrashReport` when the lookup of
`onCrash` cannot fail, which also needs `Heard`: past `notify2Java`, Java was
told; `ReportIsAliveTheorem` and `FillsLiveInfoTheorem`, from `Alive`: a callback thread
that is about to delete deletes a report that was read, until another crash has
returned. `OneReport` is needed because `ToldOnce` does not say where a second post
could come from.

`PtraceDumperProofs`, for any number of threads: `TypeCorrect`; `StillTheorem` and
`ResumedTheorem`, from `AttachedAreListed`, which says in which part of `threads_` the attached
threads are at each step, and `PassedAreStill`. The second part is needed because
the kernel may list a thread twice: the one being waited for must not be one that
was passed before.

`MinidumpWriterProofs`, for any processes and any page: `BlocksTheorem`, from
`Sound`, which adds to disjointness that every block ends at or below
`position_` and that below `size_`: without it the next block could overlap.
`FormatTheorem`, the refinement of `MinidumpFormat`, from `WInv` below and from
`EntriesInFile`: while the disk is not full, every entry is in the file at its place.
Because writes are only added (`WritesGrow`), an entry that is there stays, and one that
is missing stays missing (`OldEntries`). `DescriptorTheorem`, because no step but
the first and the last touches the descriptor. The lemmas about single operators
of the file are in `MinidumpFileProofs`.

`TypeTheorem` and `WritesTheorem` come from `WInv`: `Placed` says that the variables
of the C++ scopes stand for blocks of this file, and `Room` that the block a loop
writes to was allocated with the count the loop runs to. `WritesTheorem` has
hypotheses, and each excluded case is a hazard in `PROJECT.json`: a 32-bit build,
where the size of a block may wrap (`Narrow`); a name with a surrogate pair, for which
the string makes less room than it writes; and a process that loads a library between
the two walks over `r_debug`, when the block has the count of the first. Every input
of `minidump.cfg` satisfies them.

`HealthyTheorem`, for every process that `Init` accepts: `HealthyInv` says that while no
call fails nothing is refused, and
that a kernel without `ftruncate` has been noticed before the first block.
`StreamsTheorem`, in a 64-bit build: `Contents` says how many elements of the open
list are written at each step, `Separate` that the blocks the step writes to are not
those of a finished entry, and `EntriesWhole` that what is in the directory is
complete. `StreamsAreWhole` alone is not inductive: nothing in it keeps a later write
from landing in a finished stream.

`LinuxDumperProofs`, for any maps file the kernel may show (`Ordered`), any
auxiliary vector and any libraries: `MappingsTheorem`. While lines are read,
`Reading` says that the mappings are below the lines to come and not moved yet:
only then does a line that starts where the last mapping ends touch no other.
`Covers` and `Apart` speak of the kernel's ranges, which moving one to the front
and `LatePostprocess` keep.

`Shape` is what the rest needs of the list: the kernel's ranges rise, from the second
on once the entry's mapping is in front (`Rising`, `EntryIsFirst`); every range is of
whole pages, and the moved one starts no higher and ends where the kernel's does
(`Paged`); a mapping without a file is one line (`Alone`). `MainTheorem` follows from
`EntryIsFirst`, because the modules are taken in the order of the list.
`CapturesTheorem` uses the order: a library whose range was moved down comes in the
list after the mapping it now overlaps, so that `FindMapping` finds that one first;
only the first mapping has no such place, which is the hypothesis `CapturesAreLive`
has. The theorem says no more than the property: about the memory around the
instruction pointer it bounds the beginning by the moved range only. `SanitizedTheorem` adds the bit set: every executable mapping has the bits of
its whole range set, so that a cleared bit proves that a word points to no code, and
a set one only sends the word to the exact lookup. Both assume `NoneIsMovedUp`: some
segment of a packed library begins at or below the address of its mapping. Otherwise
the bias that `GetEffectiveLoadBias` computes is a wrapped difference, and the
library claims addresses above itself.

The operators these theorems speak of compute along a sequence (strings, modules,
the words of a stack) and are recursive functions. That such a function exists
(`SumExists` of a string's sums, `Iterates` of any other) and what it computes are shown
by induction over a set of numbers (`SetInduction`), for each function anew, because
the library's rules take the formula as a parameter. This is why the modules are the function
`OwnModules` and not the library's `SelectSeq`.

`WholeWriterProofs`: `WholeTypeTheorem`, from `Walking` (`dumpTrack` is at a frame
that is there and has counted fewer than `MAX_FRAME_`; the `do` over `unw_step`
always looks at a first frame, which `ReportAssumption` says of the library).
`WholeListTheorem` and `WholeStacksTheorem` carry the theorems of `LinuxDumper` over:
the steps of the text leave list and stacks alone. `PartsTheorem`: `Written` says that
from the separator on the text has both parts and no second separator (`TwoParts`),
and every append keeps this, also the one that is cut at the end of the buffer.

`GenerateDumpProofs`, for any calls, handlers, texts and descriptors:
`TypeCorrect`; and, when crashes are the only callers (they hold the mutex) and
always find two free descriptors (`Room`), `FilesTheorem` and `LeaksTheorem`, from
`DescriptorInv`: at most one call is under way, at each step it holds exactly
the ends it has not closed, at the numbers in `fdes` and `log_descriptors`, and
every other pipe end is that of a call that could not clone. `AppKeepsFiles` alone
is not inductive because it does not say that the numbers about to be closed are
still the call's. Under the same assumptions,
`ReportTheorem`: `TextInv` follows the child's text from the pipe to
`whole_callback_` (`ChildInv`, `LogPipeInv`; `ResultInv` says that only a call whose child
wrote goes on to read), and `BufferInv` that the buffer holds no separator any more
and that each of its bytes ends a section or is the one a text already told had at
that place. Without the first half the report could have three sections or
another's; the second is what bounds the tail. Both assumptions are needed: `orphans` shows what two calls at once do.

Only model-checked: liveness (`CrashEnds`, `FaultIsServed`, `CrashIsReported`,
`DumpReturns`, `OrphansEnd`, `ChildEnds`, `TextEnds`), which the prover cannot do under
fairness. Every invariant, action property and refinement of the passing runs is
stated by a theorem as well; where a theorem has hypotheses, they are named above.

## Plan

1. Done: `ExceptionHandlers`, `JavaBridge` with `CrashReport`, `GenerateDump`,
   `PtraceDumper`, `MinidumpFile`, `MinidumpWriter` with `MinidumpFormat`,
   `LinuxDumper`, `WholeWriter`, and the theorems of the section above.
2. Left: the alternate stack, per thread; `PageAllocator` (pages handed out never
   overlap).

## Not modelled

* The microdump and the out-of-process client: this library never reaches them.
* ELF and file identifiers, `/proc/cpuinfo`, the registers of each architecture:
  sequential parsing and copying without state, better tested than modelled.
* The DWARF, stabs, PDB and processor headers, the symbol dumper and uploader, the
  unit tests and the sample app: in the repository, not in the library's build. They
  are more than three quarters of its lines, so that the models here cover a small
  share of the repository and most of the path a crash takes.
* Hazards without a property are in `PROJECT.json` with the reason.
