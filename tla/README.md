# Dolin in TLA+

Dolin is an Android application-monitoring kit. **Zap** is a log library whose
native half keeps log lines in an mmap-backed buffer and writes them to files
from a thread of its own; **Hawkeye** catches Java and native crashes, the
native ones with the help of a daemon process. This directory models the parts
in which several threads or processes meet, and two in which bytes are laid out
by hand (the header of the log buffer, the crash report), model-checks them with
TLC and proves the safety properties with TLAPS. All paths below are relative to
the root of the repository as it is laid out under `src/`.

## 1. The system

| Part | Source | What it does |
|---|---|---|
| `FileFlush` | `library_zap/.../cpp/zap_file_flush.*` | a vector of chunks, a mutex, a condition variable, one flusher thread; `StopFlush` ends it |
| `Buffer`, `BufferFlush` | `zap_buffer.*`, `zap_buffer_flush.*` | the bytes not yet written, their copy into a chunk, deflate, the current log file |
| `BufferHeader` | `zap_buffer_header.*` | the header at the start of the mapped file: magic, log length, path, limit |
| JNI functions | `zap.cpp` | `InitNative`, `WriteNative`, `AsyncFlushNative`, `ExpLogFileNative`, `ReleaseNative`, `IsLogFileOverSizeNative` |
| `ZapRecord` | `impl/ZapRecord.java` | owns the native pointer, names the log files, rolls over |
| `ZapPrint`, `ZapLifecycle`, `Zap` | `impl/`, `lifecycle/`, `Zap.java` | configuration, the print path, `onActivityPaused` → `asyncFlush` |
| `ZapData` | `entity/ZapData.java` | a bounded free list shared by all logging threads |
| `ZapFileUtils`, `Config` | `util/`, `entity/` | overdue logs, numbering of files, the limit in megabytes |
| Hawkeye core | `library_hawkeye/.../cpp/hawkeye_core.cpp`, `hawkeye_signal_utils.cpp` | signal handler: sends a crash message to the daemon and waits for the answer |
| Hawkeye daemon | `hawkeye_daemon.cpp`, `hawkeye.cpp` | accept loop, one client after the other, start and stop |
| Report | `hawkeye_private.cpp`, `hawkeye_dumper_utils.cpp`, `hawkeye_unwinder.cpp` | ptrace every thread, dump, detach |
| `MmapGuard`, `FileGuard` | `guard/` | the report buffer |
| Java handlers | `handler/*.java` | uncaught exceptions, shared temporary buffer |
| `ActivityMonitor`, services | `monitor/`, `HawkeyeMonitorService.java` | the list of activities, the monitor process |
| `library_comm`, `library_caps`, `demo` | | helpers; not in the build; user interface |

How a log line travels: a thread calls `Zap.d(...)` → `ZapPrint` formats it →
`ZapRecord.write` → `WriteNative`. If the line does not fit, `WriteNative`
first calls `CallFileFlush`, which under `log_mtx` copies the buffer into a
`BufferFlush`, clears it and calls `FileFlush::AsyncFlush`, which under
`async_mtx` pushes the chunk and notifies the flusher. Then `Append` puts the
line into the buffer. When an activity is paused the main thread runs
`ZapRecord.asyncFlush`: it opens the next log file if the current one has
reached its limit, and flushes. If the process dies the mapped file keeps the
buffer; the next `InitNative` finds it.

How a native crash travels: `InitCore` has put `SignalHandler` in place of the
old handlers. It restores the old one, connects to the local socket of the
monitor process, sends a message and waits for a byte. There
`HawkeyeMonitorService` has started the daemon (`StartDaemon`), whose thread
accepts one client after the other, stops the threads of the crashed process
with ptrace, writes the report through the `MmapGuard`, flushes it to a file,
lets the threads go, answers and calls back. The handler then returns into the
instruction that faulted, or sends the signal again, and the old handler ends
the process. A Java crash stays in its process: `JavaCrashHandler` writes its
report through a guard of the application, finishes the activities and kills.

## 2. Modules

| Module | Models | Kind |
|---|---|---|
| `FlushQueue` | what `FileFlush` promises: accepted chunks are written exactly once, in no promised order; it closes only when nothing is pending | abstract specification |
| `FileFlush` | `zap_file_flush.cpp`, every statement at which another thread can come in between | component |
| `ZapBuffer` | `zap_buffer.cpp`, `zap.cpp` and `ZapRecord.asyncFlush`, composed with `FileFlush` (`FF == INSTANCE FileFlush WITH ...`), plus the death and the restart of the process | composition |
| `MCZapBuffer` | instance of `ZapBuffer` for TLC (message lengths) | model checking |
| `ZapRecycle` | `ZapPrint.recycle`, `ZapRecord.release`, `ReleaseNative`, the destructors of `Buffer` and `BufferFlush`, composed with `FileFlush`, while other threads log | composition |
| `ZapData` | the pool of `entity/ZapData.java` and the print path that uses it | component |
| `BufferHeader` | `zap_buffer_header.cpp` byte by byte, with the operations of `Buffer` that write to that memory | algorithm and component |
| `MCBufferHeader` | values for `BufferHeader` | model checking |
| `CrashService` | what the daemon promises: connections are served in order, each is reported at most once, no answer before the report | abstract specification |
| `Hawkeye` | `hawkeye_core.cpp`, `hawkeye_daemon.cpp`, `hawkeye.cpp`, `HawkeyeMonitorService.java`: the application's threads, the daemon thread, the service, the kernel between them, failing system calls, deaths of both processes | composition |
| `ReportText` | `hawkeye_dumper_utils.cpp`, `hawkeye_unwinder.cpp`, `hawkeye_signal_utils.cpp`, the collectors of `hawkeye_private.cpp` | algorithm |
| `MmapGuard` | `guard/mmap_guard.cpp`, `guard/file_guard.cpp` as operations on an array of characters | algorithm |
| `ReportFile` | `StartDaemon`'s guard, the writes of `DaemonCreateReport`, `Flush`, with kills and restarts, for any contents | composition |
| `CrashReport` | `ReportFile` with the contents of `ReportText`, and what a whole report looks like | composition |
| `MCCrashReport` | the devices a report is made of | model checking |
| `JavaCrash` | `JavaCrashHandler`, `BoostCrashHandler`, `ActivityMonitor` | composition |
| `FileFlushProofs` | invariants and refinement of `FileFlush`; what push and pop do to a vector | proofs |
| `ZapBufferProofs` | the inductive invariant `Shape` of `ZapBuffer`, one lemma per action, the deflate streams; where messages can be lost or cut, and that none is twice | proofs |
| `ZapRecycleProofs` | who frees the buffer, and what a recycle saves | proofs |
| `ZapDataProofs` | the list and the owners of the pool | proofs |
| `HawkeyeProofs` | the contexts, the handlers, the stopped threads, and the refinement of `CrashService` | proofs |
| `JavaCrashProofs` | the foreground, the report of a Java crash, the guard | proofs |
| `BufferHeaderProofs` | the getters and setters of the header, that the operations stay in the mapped memory and that it reads back | proofs |
| `ReportFileProofs` | what `Write` and `Flush` do to the string in the mapping; that a report file is one whole report | proofs |

### FileFlush

| TLA+ | Code |
|---|---|
| `async_buffer`, `data` | the vector; the local variable of `AsyncLogThread` (`<<>>` or one chunk) |
| `fpc` | the flusher: `lock` (about to take `async_mtx`), `drain` (the inner `while`), `flush` (inside `Flush`), `sleep` (has tested `exit`, has not reached `wait`), `waiting`, `done` |
| `spc` | the thread in `StopFlush`; `exit` is `spc # "running"` |
| `MtxHeld` | the flusher owns `async_mtx` in `drain`, `flush`, `sleep`; `AsyncFlush` is one step because all of it is under the mutex |
| `written`, `accepted`, `refused`, `batch` | history |

`exit` is a plain `bool` written without the mutex. The flusher reads it
between two operations on the mutex, so it is re-read in every round; the model
lets the write fall before or after each such read. `SpuriousWakeup` is the
return of a `wait` that has no predicate.

A chunk whose `FILE*` is null makes `Flush` run off its end without a `return`
(undefined behaviour). The two outcomes a build produces are that the chunk is
dropped (the model's `Flush`) and that the process dies (`Crash` in
`ZapBuffer`, possible in every state). The same holds for the destructor of
`BufferFlush`, which passes a pointer into the middle of an array to `delete[]`:
the allocator carries on or aborts, after the `fflush`.

### ZapBuffer

| TLA+ | Code |
|---|---|
| `content`, `write_ptr` | the bytes from `data_ptr` to `write_ptr`, as pieces of messages with their end offsets; `write_ptr` is `GetLength()` |
| `log_len` | the length in the header, which survives the process |
| `zpend` | bytes of the deflate stream that did not fit and are still inside zlib |
| `log_file`, `nfile`, `fsize` | `log_file_ptr`; the number of the last file; the lengths of the files |
| `mapped` | `map_buffer`: mmap, or the heap fallback |
| `pc`, `arg`, `chunk` | each thread inside the JNI functions; `log_mtx` is held exactly in `Holding` |
| `proc`, `disk`, `crashes` | the process; the buffer file after its death |
| `logged`, `returned`, `lost` | history: `WriteNative` called, returned; messages whose bytes were thrown away |
| `overtaken`, `short` | history: threads that have looked at the room and since then another thread has appended (`Waiting`); messages of which `Append` kept less than there was, and whether its thread was overtaken |

`WriteNative` tests `EmptySize()` without `log_mtx`: it is an action of its own.
`Append` and `Clear` are split where the process can die with the bytes and the
length disagreeing. `CallFileFlush` keeps `log_mtx` while `AsyncFlush` waits
for `async_mtx` (`Submit`). `ExpLogPath` includes `InitData`; its own
`CallFileFlush()` goes to `file_flush_ptr`, which no code sets, and does
nothing. `DirtyLength` is 0 because the `Buffer` that `WriteDirty2File` builds
has two null pointers. `Opened` lets every `fopen` fail.

Abstractions: a message is its length; `memcpy`, `memset` and `deflate` are one
step each; `deflate` yields any length from one byte to the message's length
plus `Overhead`; the header's length is constant (a longer path in
`ExpLogPath` makes the buffer smaller by that much, which no property tells
apart); only the process dies, not the kernel, so mapped pages survive.

### ZapRecycle

| TLA+ | Code |
|---|---|
| `buffer`, `file`, `pFileFlush` | the `Buffer` object, its `FILE`, the global pointer: alive, open, set, or not |
| `owner` | who holds `log_mtx`, which lies inside the `Buffer` |
| `chunk[t].owns` | `release_ptr` of a `BufferFlush`: its destructor frees the `Buffer` |
| `Take`, `Submit`, `Unlock` | `CallFileFlush(pFileFlush)` of a logging thread and of `asyncFlush` |
| `ReleaseNative`, `ReleaseSubmit`, `ReleaseUnlock` | `CallFileFlush(pFileFlush, buffer)` |
| `DeleteFileFlush`, `ResetFileFlush` | `delete pFileFlush` (the steps of `StopFlush`), then the reset |
| `faults`, `proc` | undefined uses so far; whether the process survived them |
| `logged`, `stored`, `infile`, `before` | history |

The buffer can be freed in two ways: if it is empty `ReleaseNative` deletes it
(closing the `FILE`), else the last chunk frees it from the flusher by
`operator delete` on a `void *`, which runs no destructor. A use of an object
that is gone is undefined: it is recorded in `faults` and the process dies or
carries on; a call on a freed buffer is given up at that point, and an `fwrite`
to a closed `FILE` writes nothing. Sizes are left to `ZapBuffer`: the buffer holds `Capacity`
messages, and the log file is open and below its limit.

### ZapData

`sPool`, `sPoolSize` and `next` are the fields of the class. `fields` says which
thread's level, tag and message an object carries. The two `synchronized` blocks
are one step each (`ObtainPooled`, `Recycle`); `Fill` and `Reset` are outside of
them, as in the code. `pool` is a history variable: the list from its head.
An object that nobody refers to is garbage and may be allocated again
(`ObtainNew`).

### BufferHeader

The memory is a function from offsets to chars. A `size_t` is `W` chars in the
order of the machine, given by the constant `SizeBytes`, and all sizes count
modulo `Word`, because `GetLogLen` and `GetLogPathLen` test against a difference
that wraps. `InitHeader` is the chain of its `memcpy`s (`Put`), and the getters
and setters are operators on that memory; `WriteDirty2File`,
`InitNative`, `AppendText`, `Clear` and `ExpLogPath` are the actions, in the
order in which `zap.cpp` allows them. `Init` takes any content of
`CacheFile(n)` for a cache file of size `n`.
`path`, `limit` and `log` are history: what the callers asked to be stored.
`InitHeader` writes the compress byte `W` bytes further than `GetIsCompress`
reads it, into the data; `stray` notes whether it ever leaves the memory.
`GetHeader` does not check the length of the path and has no caller in the
library; it is only evaluated on headers `InitHeader` has written.

### Hawkeye

| TLA+ | Code |
|---|---|
| `core`, `saved`, `disp` | `core_context` with its `old_handlers`; for each signal whether our handler is installed |
| `st`, `sig`, `conns` | every thread of the application: not there, outside, or at a system call of `SignalHandler`; the signal it was given; how often it has connected (at most `MaxConn`) |
| `ctx`, `guard`, `pipe` | `daemon_context`, its `mmap_guard` (none, mapped, without a file, not mapped), the byte in the interruptor pipe |
| `dpc`, `cur`, `todo`, `held`, `created` | the daemon thread and the locals of `DaemonProcessClient` and `DaemonCreateReport` |
| `svc`, `started` | `StopDaemon` in its `pthread_join`; the flag of the service |
| `bound`, `listening`, `queue`, `open`, `sent`, `hung` | the local socket: the listener, connections not yet accepted, the client's and the daemon's end |
| `traced`, `leaked` | threads ptrace has stopped; those of them that are not let go, because `waitpid` failed after the attach or `PTRACE_DETACH` failed |
| `missed` | history: threads the dump goes on without, because they started after the task directory was read, were not in `tids` or could not be attached |
| `life`, `alive` | the application, which may die and be started again |
| `faults` | system calls that failed, up to `MaxFault` |

The application has its main thread when it starts; others start and end at any
time. Every system call whose result the code tests, and `PTRACE_DETACH`, whose
failure it only logs, may fail without a reason in the model (`Fault`):
`sigaction`, `socket`, `send`, `recv`, `pipe`, `pthread_create`, `write` to the pipe,
`bind`, `listen`, `select`, the guard's `open` and `mmap`, `PTRACE_ATTACH`, `waitpid`,
`opendir` and the `fopen` of the flush (a `connect` that fails for no reason has the
same effect as a `socket` that does); what the code does next is translated from there, also where it
leaves something behind: a listener that is bound and never closed, a context
without a thread, a guard without a mapping, a thread that stays stopped. A
null `MmapGuard` mapping that is used, and `fclose(NULL)` after an `fopen` that
failed in `Flush`, end the monitor process. A loop that only tries again (an
`accept` that fails, a `recv` that returns 0) is no step. `GetThreads` leaves the
main thread out and cuts the list at `MaxTids`. `SignalHandler` restores what
`old_handlers` holds, which is our own handler when an earlier registration failed
half way and left it there. The kernel's part is external:
`connect` blocks when the backlog is full, a socket of a dead process is closed,
a tracee is released when its tracer ends.

### ReportText, MmapGuard, ReportFile, CrashReport

A text is a sequence of tokens, each one character long, so that the sizes of
`snprintf` buffers, the `\n` that replaces the last character and the null that
`RecordLine` writes keep their effect, while the wording is left out. Every
operator of `ReportText` returns the contents it hands to `MmapGuard::Write`;
what the code reads from `/proc`, properties, logcat or ptrace is a record
`dev`, each source of which may be unreadable. The stack is what libunwindstack
finds, frame by frame. `ReportFile` performs those writes one by one (`Record`),
whatever the contents are; the process may be killed between any two and be
started again on the same file. `CrashReport` joins the two: its `Contents` are
those of `ReportText`. `MmapGuard` never tests the end of its mapping, and `Flush`
measures the string with `strlen`: a write that does not fit, and a flush of a
mapping without a null left in it, lead to `pc = "undefined"`, where nothing more
is claimed.

Two calls have undefined behaviour that the models follow only so far.
`RecordNewline` replaces the null of its text by a newline (`hawkeye_private.cpp:144`), and
`MmapGuard::Write` copies that text with `strcpy` into a scratch array of exactly its
length (`mmap_guard.cpp:69`): the copy runs past the array up to the next null on
the heap. What goes into the mapping is cut to the right length by the `memcpy`
that follows, so either the report is as in the model, or the process dies, which
is a `Kill` of `ReportFile`. `GetLogcatInfo` passes each line of logcat as the format
of `RecordLine`: a conversion in it prints an argument nobody passed. The token of
such a line stands for whatever was printed, and the death of the process is
again a `Kill`.

A trace that the unwinder cuts at `HAWKEYE_MAX_FRAMES` looks like
one that ended: nothing in a report says so.

### JavaCrash

Threads go through `uncaughtException` step by step (`caught`, `record`,
`write`, `flush`, `finish`, `iterate`, `release`, `kill`); `MmapGuard::Write` is
split between its `strlen` and its copy, because two threads may be in it. The
callbacks of the activities run on the main thread. The guard's pointer is not
reset by `release`, so a later use is undefined and ends the behaviour. That the
guard's file does not open or its `mmap` fails is not modelled here; `Hawkeye` has
those cases for the daemon's guard.

## 3. What the runs check

| Run | Configuration | Properties | Result |
|---|---|---|---|
| `file_flush` | four chunks, one without a file, `StopFlush` at any time | `NoSleepOnWork`, `StopDrains`, `WrittenOnce`, `OvertakeOnlyInBatch`, `AcceptedIsFlushed`, `StopReturnsUnlessMissed`, `ImplementsFlushQueue` | hold |
| `zap_full` | two writers and the main thread, three messages, compression, two files, `fopen` and `mmap` may fail, one crash | `TypeOK`, `OnlyKnownLosses`, `NoDuplicate`, `HeaderAtBoundary`, `StreamCutOnlyWhenFull` | hold |
| `zap_quiet` | two writers and the main thread, messages shorter than the buffer, no rollover, no crash, fairness | `ReturnedIsStored`, `NoTruncation`, `WriteReturns`, `TakenReachesFile` | hold |
| `zap_dirty` | one crash | `DirtyIsWritten` | violated |
| `recycle` | two writers, three messages, two calls of `recycle`, fairness | `FreedExactlyOnce`, `RecycledIsWritten`, `WritersReturn` | hold |
| `zap_data` | three threads, five objects, a pool of two | `PoolIsList`, `OneHolder`, `PrintsOwnFields` | hold |
| `header` | cache files of nine sizes with any content, two paths, capacities and limits | `AccessesInBounds`, `MemoryReadsBack` | hold |
| `hawkeye` | two threads, one of which may start and end, two signals, two lives, one failing system call | `ContextOutlivesThread`, `ThreadsReleased`, `FrozenWhileDumped`, `FailedInitRestores`, `ImplementsService` | hold |
| `hawkeye_live` | the same with one life, two connections of a thread, under fairness | `CrashEnds`, `StopReturnsUnlessStuck` | hold |
| `hawkeye_callback` | two crashes, nothing fails | `CallbackHasReport` | violated |
| `report` | several hundred devices, two starts | `FileIsWholeReport`, `HeadingsStartLines`, `PartsInOrder`, `CutListsSaySo`, `SocketListsSaySo` | hold |
| `java` | two threads that may throw, three activities, a list of two, fairness | `ReportBeforeKill`, `GuardWhileInUse`, `ForegroundIsTrue`, `CrashEndsProcess` | hold |

Type invariants: that of `ZapBuffer`, checked by `zap_full` and proved, includes
that of `FileFlush`; that of `ZapData` is a conjunct of the invariant proved in
`ZapDataProofs`, those of `BufferHeader` and `ReportFile` are conjuncts of `Inv` and
`ReportInv`, and the types the arguments need are part of `TypeInv` and
`FileInv` (`ZapRecycle`), of `DispInv`, `WaitInv`, `OnceInv` and `ConnInv`
(`Hawkeye`) and of `FgInv`, `ThreadInv`, `ReportInv` and `GuardInv` (`JavaCrash`).
In the other modules the actions assign constants of their domains and no type
is listed.

What the violated runs show:

* `zap_dirty`: what a dead process left in the buffer file is zeroed by the next
  start, never written.
* `hawkeye_callback`: the guard is deleted after the first report and only
  `StartDaemon` makes one, so the next crash in the same time of the daemon is
  called back without a report file (`hawkeye.cpp:34` says the callback is
  "Called when a crash report is generated").

Several properties are stated with an exception, and the exception is what the
code really does; each of these can be seen by dropping it from the property or
lifting the restriction of the run:

* `StopReturnsUnlessMissed`: `StopFlush` sets `exit` and notifies while the
  flusher is between its test of `exit` and its `wait`; nobody notifies again,
  `join` and with it `Zap.recycle()` never return. This is the only window.
* `ReturnedIsStored` is checked with a file below its limit: the rollover zeroes the
  buffer without flushing it, and lines logged since the last flush are gone.
  `OnlyKnownLosses` counts that, a full buffer, a chunk without a file and the death of
  the process among the losses.
* `NoTruncation`: two writers both find room before either appends, and the second
  line is cut or, when no byte is left, dropped. `zap_quiet` reaches both. The
  property says that this is the only way: a line that fits into the buffer and is
  not overtaken is stored whole.
* `RecycledIsWritten`: `recycle` flushes, so the buffer is empty when
  `ReleaseNative` looks at it; it is deleted and its `FILE` closed while the
  flusher may still have the chunk to write. Nothing else is lost.
* `FreedExactlyOnce` speaks of the first `recycle`: `ZapRecord.ptr` is not reset,
  and a second one deletes the same buffer again.
* `MemoryReadsBack` says nothing of `GetLogLen` on a log that fills the buffer to its
  last byte. Its comment (`zap_buffer_header.cpp:98`) says the length is always
  smaller, and an equal one is taken for no data; `Append` does fill the buffer
  (`zap_buffer.cpp:67`). Code and comment disagree, without effect in the library:
  the only caller, `InitData`, has just stored a length of 0. Nothing is said of the
  compress flag either, which `InitHeader` stores where no getter looks.
* `StreamCutOnlyWhenFull`: the room is compared with the uncompressed length, so
  the end of a deflate stream may not fit and is dropped.
* `StopReturnsUnlessStuck` and `CrashEnds`: while the daemon reads the message of a
  client it selects on that client alone. A client that died or whose `send`
  failed is waited for forever; `StopDaemon`, which means to interrupt `select`
  (`hawkeye_daemon.cpp:314`), does not return, and every later crash hangs in
  its handler. A thread that `waitpid` or `PTRACE_DETACH` failed for stays stopped until
  the daemon ends, and `ThreadsReleased` excepts it too.
* `CrashEnds` and `FailedInitRestores`: when a registration fails half way, the signals
  whose old handler is `SIG_DFL` keep ours. If a later `InitCore` succeeds it saves that
  handler as the old one, and a crash is handled again and again.
* `FrozenWhileDumped`: the main thread runs on unless it is the one that crashed, and
  so do the threads in `missed`. A report shows none of them.
* `CrashEndsProcess`: an activity created while another thread goes through the
  list makes `finishAllActivities` throw; the kill is not reached.
* `ReportBeforeKill` speaks of one crashed thread: two may be in
  `uncaughtException` before the old handler is restored, and share the guard.
* `GuardWhileInUse` needs a list of more than one: destroyed activities stay in
  it, and destroying the only one, also by a rotation, releases the guard. The
  next activity's `onActivityCreated` then finds the list null and throws.

In `ZapBuffer` the limit of a file is only looked at in `asyncFlush`, so flushes
of a full buffer go on into a file over its limit; `library_zap/README.md:36`
says it is continued in a new one. No property depends on it.

### Bounds

The buffer has three bytes and the messages one or two, so that two messages
may fit exactly, may leave one byte, or may not fit. `FileLimit = 2` is reached
by one or two chunks, so a rollover happens with the buffer empty, with
messages in it, and while an older chunk is still queued for the old file;
`100` never. `MaxFile = 2` allows one rollover, or a restart with a new file.
One crash is enough: after it the model is in a state `InitNative` reaches from
any buffer file. Four chunks let the vector grow to two or more while a drain
is going on. `Overhead = 1` makes a message that fits uncompressed overflow the
buffer. `zap_full` identifies states that differ by a permutation of the
writers or of the two messages of equal length; no definition tells these apart
and all its properties are invariants, so the reduction is sound. In `recycle`
a buffer of one message makes every second `WriteNative` flush, so that chunks
of writers are in flight when the buffer goes; the second `recycle` reaches the
code after `pFileFlush` is reset. A pool of two with three threads is empty,
partly filled and full. `Next` logs each message once: messages are told apart
by name, so a repeated line would be another message.

`header`: two chars of four values make sizes wrap at 16, and the file sizes lie
on both sides of every test. `hawkeye`: two threads are a crashed one and
another one, in either role the main thread, and two connections for a backlog
that holds both; `tids` has room for the one other thread, so that the cut of the
list is covered by the proof alone; two lives let the daemon serve a process that is gone while a
new one crashes; one fault puts every single failure in every place. `SIGSEGV`
stands for signals whose old handler is the default (a null pointer to
`UnregisterSignalHandler`), `SIGABRT` for the others. `report`: the limits are
scaled so that every list, trace and buffer is below, at and above its own; the
devices differ from an ordinary one in one source at a time, since the parts of
a report do not read each other's sources. Three have 8, 9 and 30 lines of logcat
more: the mapping has room left, is filled to its last character, and is
overrun. The socket lists are short of, at and above their limit, with blank lines
among the records, alone and next to each other. `java`: the list is full with the
second activity, and the third pushes one out.

`CHECK_DEADLOCK FALSE`: these systems stop when nobody logs, crashes, starts or
stops anything any more, or when the process has ended.

### Fairness

`FileFlush`: weak fairness of the flusher and of the thread inside `StopFlush`:
the scheduler runs a thread that can run. Nobody has to log, to stop or to wake
up spuriously. `ZapBuffer`: weak fairness of every thread inside a JNI function
and of the flusher, strong fairness of `Submit`, the wait for `async_mtx`: a
flusher that keeps waking up spuriously would otherwise take the mutex each
time before the waiting thread. No fairness for `WriteNative`,
`RecordAsyncFlush`, `Crash` or `InitNative`. `ZapRecycle`: weak fairness of the
threads inside native code and of the flusher; none for the calls `WriteNative`
and `Recycle`. `Hawkeye`: weak fairness of the daemon thread, of `Join` and of
every thread inside `SignalHandler`; nobody has to crash, to die, to start or to
stop. `JavaCrash`: weak fairness of every thread inside the handlers; none for
throwing and for the life cycle of activities.

## 4. What is proved

`SafetySpec` is the specification without fairness. All theorems hold for every
set of chunks, threads, messages, objects and signals and every size, under the
named `ASSUME`s of the modules (lengths and capacity are positive; the null
values are not values; the application has finitely many threads and activities;
the list of activities is longer than one, as `MAX_ACTIVITY_NUM` is; those of
`BufferHeader` and `ReportFile` are explained below). Every safety property of a
passing run is proved, except four of `report` and `ReturnedIsStored`, which needs the
restrictions of its run. No theorem has a hypothesis.

| Theorem | States |
|---|---|
| `FileFlushProofs!NoSleepOnWorkHolds`, `StopDrainsHolds`, `WrittenOnceHolds`, `OvertakeOnlyInBatchHolds` | the safety properties of the run `file_flush` |
| `FileFlushProofs!Refinement` | `SafetySpec => FQ!SafetySpec`: `FileFlush` implements the safety part of `FlushQueue` |
| `ZapBufferProofs!TypeCorrect` | types; the write pointer and the length stay inside the buffer |
| `ZapBufferProofs!HeaderAtBoundaryHolds` | the length in the header ends a message except inside `Clear` |
| `ZapBufferProofs!StreamCutOnlyWhenFullHolds` | a chunk ends inside a deflate stream only when the buffer was full |
| `ZapBufferProofs!OnlyKnownLossesHolds` | a returned message is stored or was thrown away at one of the points `lost` names |
| `ZapBufferProofs!NoDuplicateHolds` | every message is in at most one place, once, and not there if it was thrown away |
| `ZapBufferProofs!NoTruncationHolds` | with any number of writers, `Append` cuts (`memcpy`) or drops only a message that was overtaken or is longer than the buffer |
| `ZapRecycleProofs!FreedExactlyOnceHolds` | the first `recycle` frees the buffer, and nothing frees it twice |
| `ZapRecycleProofs!RecycledIsWrittenHolds` | what was appended before `recycle` is in the file afterwards, unless a chunk came after the `fclose` |
| `ZapDataProofs!PoolIsListHolds`, `OneHolderHolds`, `PrintsOwnFieldsHolds` | the free list, its owners and what they print |
| `ZapDataProofs!PoolIsCleanHolds` | a pooled object keeps no message alive (not in a run) |
| `HawkeyeProofs!ContextOutlivesThreadHolds` | the daemon's context outlives the daemon's thread |
| `HawkeyeProofs!FailedInitRestoresHolds` | a failed registration leaves no handler in the place of one that was there |
| `HawkeyeProofs!ThreadsReleasedHolds` | between reports no thread is stopped but those a failed `waitpid` or `PTRACE_DETACH` lost |
| `HawkeyeProofs!FrozenWhileDumpedHolds` | threads stand still while they are dumped, and which others may run |
| `HawkeyeProofs!ServiceRefinement` | `SafetySpec => ImplementsService`: the daemon implements `CrashService` |
| `JavaCrashProofs!ForegroundIsTrueHolds`, `ReportBeforeKillHolds`, `GuardWhileInUseHolds` | the safety properties of the run `java` |
| `BufferHeaderProofs!BufferAccessesInBounds` | whatever the cache file holds, no getter reads and no operation writes outside the mapped memory |
| `BufferHeaderProofs!BufferReadsBack` | path, limit and log are read back as they were stored, the length while it is below `GetLogLen`'s bound |
| `ReportFileProofs!ReportIsWhole` | the string in the mapping is the text written so far, and a report file is one whole report, for any contents and across kills |

`FileFlush`. None of its properties is inductive. `IInv` adds: what the control
states imply (`Control`: waiting means an empty vector, done means exit and an
empty vector, a chunk is in `data` exactly in `flush`), that vector, `data` and
`written` hold every chunk at most once and only accepted ones (`Placement`),
that an accepted chunk is in one of them or had no file (`NothingLost`), and
that while the mutex is held nothing but the batch is pending (`BatchClosed`),
which is what makes overtaking a matter of one drain. The refinement maps
`pending` to the chunks in the vector and in `data`, `closed` to `fpc = "done"`.

`ZapBuffer`. `Shape` adds to the types: `Mutual`, at most one thread is inside
the sections `log_mtx` guards (the writers' unlocked test does not weaken it);
`Lengths`, `write_ptr` is where the last piece ends and equals `log_len` except
inside those sections; `Hands`, which threads have a chunk and what it holds;
`Quiet`, nobody stops the flusher, so `AsyncFlush` accepts. `HeaderAtBoundary`
is preserved only because of `Mutual` and `Lengths`. From there it is shown that
no step shrinks `Stored \cup lost` (`NextKnown`) and that what a thread
has appended is in it before `WriteNative` returns (`Settled`).
`StreamCutOnlyWhenFull` needs `Streams`: bytes stay inside zlib only behind a full
buffer, and a chunk, in a hand or in the vector, is a copy of such a buffer.

`NoDuplicate` speaks of `Texts`, the buffer, the disk, the chunks in hands and in
the vector, and the files, each with its text. `Clean` states it for any set of
places; `TextsMoved` and `TextsDropped` say that carrying a text from one place
to another, or dropping it, keeps `Clean`, and every step but `AppendBytes` is one
of these (`NextHandsOn`). `AppendBytes` needs `Fresh`: a message that is about to be
appended is nowhere yet and in the hands of one thread. `Once` is both.

`NoTruncation` needs `Room`: unless a thread is overtaken, what it found out about the
room without `log_mtx` is still true when it appends, because other threads can
only have emptied the buffer. `AppendOvertakes` is the other half: a step that
takes room away marks every thread that has looked already. With them
`AppendFits` shows of each entry of `short` that it is late or longer than the buffer.

`ZapRecycle`. `IInv` has six parts. `TypeInv` and `FileInv` are types. `OrderInv` is
the order of `recycle` and of `StopFlush` inside it: when the flusher has been joined
the vector is empty. `MutexInv` says who holds `log_mtx`. `FreeInv` counts the
chunks that will free the buffer (`Owners`, `PoppedOwns`): at most one, none before
`ReleaseNative`, and after it the buffer is alive exactly while there is one; with an
empty vector that is `FreedExactlyOnce`. `SavedInv` says where a message that `recycle`
has to save can be (`Safe`), and that it leaves the buffer and the hands before
`StopFlush`; with an empty vector only the file is left.

`ZapData`. The properties of the pool are inductive only together, with
`HolderInv`: a thread in `print` holds an object, and one about to give it back
has reset it. `TailOfPool` and `PushOnPool` say what taking and adding a head
does to a sequence without repetition; `ObtainStep` is shared by the two ways
to obtain.

`Hawkeye`. `ContextOutlivesThread` and (with a type) `FailedInitRestores` are
inductive. `ThreadsReleased` is not: `TraceInv` adds that during a report the
stopped threads are lost ones, the crashed one or held ones, which `Detach` will
release, and that there are none of a process that has ended, so a restarted
process never inherits one. It needs `ContextOutlivesThread`: a second daemon
thread must not be started during a report. `FrozenWhileDumped` rests on
`FrozenInv`, which starts with the attach of the crashed thread and says of
every thread that it is stopped, has ended, is still to be attached or is in `missed`,
and on `WaitInv`: no connection comes from a life still to come, so a restart during a
report is never taken for the process that is dumped.

The refinement maps `pending` to the connection that is served, until it is
dealt with, followed by the backlog, and `phase` to where a connection is. It is
a function of six variables (`PhaseOf`). `Arrive` demands that a connection is
new, which is the hard part: a thread must not connect twice in one life.
`OnceInv` gives the reason: the handler has restored the old one for its signal
before it connects, and `RegisterSignalHandler` does not run again while there is
a `core_context`. `ConnInv` says that a connection is in one place and that those
of threads that have not connected yet are in none. `AppConnects` reduces the steps
of the application to three: nothing the daemon sees, a `Connect` (`Arrive`), a
`Restart` (`Leave`). Of the daemon's steps, three deal with a client (`Finish`: an
error, a refusal, a report), `Reply` is `Answer`, the end of the daemon's thread
or process is `Shutdown`, and the others stutter.

`JavaCrash`. `FgInv` adds to `ForegroundIsTrue` that a change of configuration is only
noted in the foreground. `ThreadInv` says which threads can be in the handlers:
until somebody has thrown, only the main thread, and only to finish activities.
`ReportInv` follows the report of the only thread that has thrown through `Record`,
`Write` and `Flush`. `GuardInv` relates the size of the list to the activities as
far as its users tell apart: an empty list means none was created, a list of one
means at most one was.

`BufferHeader`. `WordAssumption` says that `SizeBytes` is a bijection between the
values of a `size_t` and the patterns of `W` chars: true of either byte order, and
all the proofs use of it is that a word stored and read back is the same
(`ReadsWordBack`) and that any bytes are some word (`ReadsSomeWord`), which is what
a foreign cache file needs. `DataAssumption` gives types; it lets `CacheFile(n)` be
every memory of `n` chars. `RoomAssumption` is about the one caller, which passes
1024 * 400 (`ZapPrint.java:78`): capacity and header together do not wrap, and the
capacity is at least a `size_t` plus the difference of two paths. Without it
`InitHeader`'s misplaced compress byte, or the longer header that `ExpLogPath`
makes in a memory of the old size, could leave the mapping. `Inv` says for an
open buffer (`OpenInv`) that the header holds the path, the limit and the length
of the log (`HeaderIs`), that the log lies behind it and that `write_ptr` is its
end; for a dirty one (`DirtyInv`) only that the file is long enough for what
`WriteDirty2File` tests; and that no byte was written outside (`~stray`). The
argument is one of frames: `PutText` and `PutWord` say what a `memcpy` stores and
that it keeps all else (`Keeps`), `WordKept`, `TextKept` and `HeaderKept` that a
field apart from it is kept. `InitsHeader` goes through the six writes with
them, `Getters` bounds what the getters return for any memory.

`ReportFile`. `ReportAssumption` says that a content has a null nowhere but in its
last place, as `snprintf` leaves it; TLC evaluates it for the contents `ReportText`
computes. `ReportInv` strengthens the property to the whole mapping: it is the
text followed by nulls only (`BufferIs`). The nulls behind the text are needed,
for `Write` finds its place with `strlen`, and a null that `RecordLine` has written
is overwritten by the next content. `WriteAppends` says that `Write` appends
`Shown(content)` whether or not the content brings a null, `NewIsEmpty` that a start
clears what a killed process left. `Text` is a recursive function; that it exists
and unfolds (`TextExists`, `TextUnfolds`) rests on `NatSetInduction`, induction
stated for a set instead of a predicate.

Only model-checked:

* the liveness properties and the fairness part of `ImplementsFlushQueue`: temporal
  reasoning with `ENABLED` is outside the prover;
* `ReturnedIsStored`: for the restrictions of its run (one log file, no death) only;
* `HeadingsStartLines`, `PartsInOrder`, `CutListsSaySo` and `SocketListsSaySo`: they speak
  of what the collectors of `ReportText` compute from a device, by recursive
  operators and folds over lists. For every list that takes an induction over
  data with operators as parameters, which the installed provers cannot
  instantiate.

## 5. Plan

All components in which actors meet are modelled. What would add most next is
`ZapFiles`: numbering in `ZapRecord.init` over restarts and failed `fopen`s,
`ZapFileUtils.cleanOverdueLog`, the limit as a 32-bit integer.

## 6. Not modelled

* `Config`, `ZapFileUtils` and the numbering of files in `ZapRecord.init`:
  sequential file I/O on one thread before the native part starts, over a
  directory that users and other processes change. A restart simply takes the
  next file.
* Interceptors and formatters: text layout.
* The collection of a Java report's text; in `JavaCrash` it is one step.
* `library_comm`: device information and file helpers, stateless reads.
* libunwindstack: external; a stack is what it finds.
* The overwrite mode of `MmapGuard::Write`: no caller. `HawkeyeCore::ReleaseCore`
  outside a failing `InitCore`: no other caller.
* The dumpable flag that `InitCore` sets for ptrace.
* `AnrCrashHandler`: a stub. `library_caps`: not in the build. `demo`: user
  interface.
* Loss of power (pages the kernel has not written): outside what the code tries
  to handle.
