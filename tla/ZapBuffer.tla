------------------------------ MODULE ZapBuffer ------------------------------
(***************************************************************************)
(* The native log pipeline of Zap: the mmap-backed Buffer (zap_buffer.cpp) *)
(* behind the JNI functions of zap.cpp, composed with the flusher          *)
(* (FileFlush).  Threads that log run WriteNative, the main thread runs    *)
(* ZapRecord.asyncFlush from onActivityPaused, and the process may die at  *)
(* any step and be started again.                                          *)
(*                                                                         *)
(* A message is its length; the buffer holds pieces of messages, each with *)
(* the offset at which it ends.  log_mtx is held exactly in the control    *)
(* states Holding; EmptySize() in WriteNative is read without it.  The     *)
(* destruction of the buffer (ReleaseNative) is not part of this module.   *)
(***************************************************************************)
EXTENDS Integers, Sequences, Functions

CONSTANTS
    Writer,     \* the threads that log
    Main,       \* the thread the lifecycle callbacks run on
    Msg,        \* the messages
    MsgLen,     \* their lengths in bytes, as WriteNative is given them
    Capacity,   \* buffer_size minus the header
    Mode,       \* "deflate" if Buffer::compress, else "plain"
    Overhead,   \* how many bytes deflate may add to a message
    FileLimit,  \* limit_size of a log file
    MaxFile,    \* bound: the log files opened
    MaxCrash,   \* bound: the times the process dies
    NoMsg, NoChunk, NoFile

ASSUME ConstantsAssumption ==
    /\ Main \notin Writer
    /\ MsgLen \in [Msg -> Nat \ {0}]
    /\ Capacity \in Nat \ {0}
    /\ Mode \in {"plain", "deflate"}
    /\ Overhead \in Nat
    /\ FileLimit \in Nat \ {0}
    /\ MaxFile \in Nat \ {0} /\ MaxCrash \in Nat
    /\ NoMsg \notin Msg
    /\ NoFile \notin Nat

Thread == Writer \cup {Main}
File == 1 .. MaxFile
\* A piece of a message in the buffer, and where it ends.
Piece == [msg : Msg, end : 1 .. Capacity]
\* A BufferFlush: the FILE*, the bytes, and how many bytes of the deflate
\* stream were still inside zlib when they were taken.
ZChunk == [file : File \cup {NoFile}, text : Seq(Piece), pend : Nat]

VARIABLES
    \* the Buffer object and its bytes
    content, log_len, write_ptr, zpend, log_file, mapped,
    \* the threads inside the JNI functions
    pc, arg, chunk,
    \* the process, the buffer file it leaves behind, the log files
    proc, disk, nfile, fsize, crashes,
    \* history: WriteNative was called, returned; bytes thrown away; threads of
    \* whose look at the room another thread has made use; what Append cut off
    logged, returned, lost, overtaken, short,
    \* FileFlush
    async_buffer, fpc, popped, spc, written, accepted, refused, batch

bufferVars == <<content, log_len, write_ptr, zpend, log_file, mapped>>
threadVars == <<pc, arg, chunk>>
processVars == <<proc, disk, nfile, fsize, crashes>>
historyVars == <<logged, returned, lost, overtaken, short>>
flushVars == <<async_buffer, fpc, popped, spc, written, accepted, refused, batch>>
vars == <<bufferVars, threadVars, processVars, historyVars, flushVars>>

FF == INSTANCE FileFlush WITH
        Chunk <- ZChunk,
        NullFile <- {c \in ZChunk : c.file = NoFile},
        data <- popped

PC == {"idle", "exp", "flush", "clear", "clearlen", "submit", "append", "appendlen"}
\* log_mtx is a lock_guard inside CallFileFlush and inside Append.
Holding == {"clear", "clearlen", "submit", "appendlen"}
MtxHeld == \E t \in Thread : pc[t] \in Holding

EmptyDisk == [text |-> <<>>, log_len |-> 0]

Init ==
    /\ content = <<>> /\ log_len = 0 /\ write_ptr = 0 /\ zpend = 0
    /\ log_file = NoFile /\ mapped = "mmap"
    /\ pc = [t \in Thread |-> "idle"]
    /\ arg = [t \in Thread |-> NoMsg]
    /\ chunk = [t \in Thread |-> NoChunk]
    /\ proc = "down" /\ disk = EmptyDisk /\ nfile = 1
    /\ fsize = [f \in File |-> 0] /\ crashes = 0
    /\ logged = {} /\ returned = {} /\ lost = {} /\ overtaken = {} /\ short = {}
    /\ FF!Init
-----------------------------------------------------------------------------
Msgs(text) == {p.msg : p \in Range(text)}
MsgsOf(chunks) == UNION {Msgs(c.text) : c \in Range(chunks)}

\* The chunk a thread has taken out of the buffer and not yet handed over.
InHand(t) == IF pc[t] \in {"clearlen", "submit"} THEN Msgs(chunk[t].text) ELSE {}
InHands == UNION {InHand(t) : t \in Thread}

\* The bytes of text.
Bytes(text) == IF text = <<>> THEN 0 ELSE text[Len(text)].end

EmptySize == Capacity - write_ptr

\* CallFileFlush returns into WriteNative, or ends AsyncFlushNative.
AfterFlush(t) == IF arg[t] = NoMsg THEN "idle" ELSE "append"
-----------------------------------------------------------------------------
\* Mutation: there is no test.
WriteNativeNoTest(t, m) ==
    /\ proc = "up"
    /\ pc[t] = "idle"
    /\ pc' = [pc EXCEPT ![t] = "append"]
    /\ arg' = [arg EXCEPT ![t] = m]
    /\ logged' = logged \cup {m}
    /\ UNCHANGED <<bufferVars, chunk, processVars, returned, lost, overtaken, short,
                   flushVars>>

\* WriteNative: the test is made before log_mtx is taken.
WriteNative(t, m) ==
    /\ proc = "up"
    /\ pc[t] = "idle"
    /\ pc' = [pc EXCEPT ![t] = IF MsgLen[m] >= EmptySize THEN "flush" ELSE "append"]
    /\ arg' = [arg EXCEPT ![t] = m]
    /\ logged' = logged \cup {m}
    /\ UNCHANGED <<bufferVars, chunk, processVars, returned, lost, overtaken, short,
                   flushVars>>

\* What deflate may produce for a message; memcpy produces its bytes.
Encoded(m) == IF Mode = "deflate" THEN 1 .. MsgLen[m] + Overhead ELSE {MsgLen[m]}

\* Mutations: memcpy without a bound; one byte kept back for a terminator.
WriteSizeUnbounded(out) == out
WriteSizeKeepByte(out) == IF out < EmptySize THEN out ELSE EmptySize - 1

\* How many of out bytes go into the buffer.
WriteSize(out) == IF out <= EmptySize THEN out ELSE EmptySize

\* The other threads that have looked at the room and not appended yet.
Waiting(t) == {u \in Thread \ {t} : pc[u] = "append"}

\* Mutation: Append has no lock_guard.
AppendBytesUnlocked(t) ==
    /\ pc[t] = "append"
    /\ \E c \in Encoded(arg[t]) :
         LET out == c + IF write_ptr = 0 THEN 0 ELSE zpend
             n   == WriteSize(out)
             p   == [msg |-> arg[t], end |-> write_ptr + n]
         IN /\ content' = IF n > 0 THEN Append(content, p) ELSE content
            /\ lost' = IF n > 0 THEN lost ELSE lost \cup {arg[t]}
            /\ overtaken' = (overtaken \ {t}) \cup IF n > 0 THEN Waiting(t) ELSE {}
            /\ short' = IF n = 0 \/ (Mode = "plain" /\ n < c)
                          THEN short \cup {[msg |-> arg[t], late |-> t \in overtaken]}
                          ELSE short
            /\ write_ptr' = write_ptr + n
            /\ zpend' = IF Mode = "deflate" /\ n > 0 THEN out - n ELSE zpend
    /\ pc' = [pc EXCEPT ![t] = "appendlen"]
    /\ UNCHANGED <<log_len, log_file, mapped, arg, chunk, processVars,
                   logged, returned, flushVars>>

\* Append: bytes that do not fit stay in zlib, or are cut off by memcpy.
\* A length of 0 restarts the deflate stream.
AppendBytes(t) ==
    /\ pc[t] = "append"
    /\ ~MtxHeld
    /\ \E c \in Encoded(arg[t]) :
         LET out == c + IF write_ptr = 0 THEN 0 ELSE zpend
             n   == WriteSize(out)
             p   == [msg |-> arg[t], end |-> write_ptr + n]
         IN /\ content' = IF n > 0 THEN Append(content, p) ELSE content
            /\ lost' = IF n > 0 THEN lost ELSE lost \cup {arg[t]}
            /\ overtaken' = (overtaken \ {t}) \cup IF n > 0 THEN Waiting(t) ELSE {}
            /\ short' = IF n = 0 \/ (Mode = "plain" /\ n < c)
                          THEN short \cup {[msg |-> arg[t], late |-> t \in overtaken]}
                          ELSE short
            /\ write_ptr' = write_ptr + n
            /\ zpend' = IF Mode = "deflate" /\ n > 0 THEN out - n ELSE zpend
    /\ pc' = [pc EXCEPT ![t] = "appendlen"]
    /\ UNCHANGED <<log_len, log_file, mapped, arg, chunk, processVars,
                   logged, returned, flushVars>>

\* SetLength, the unlock, and the return of WriteNative.
AppendSetLength(t) ==
    /\ pc[t] = "appendlen"
    /\ log_len' = write_ptr
    /\ returned' = returned \cup {arg[t]}
    /\ arg' = [arg EXCEPT ![t] = NoMsg]
    /\ pc' = [pc EXCEPT ![t] = "idle"]
    /\ UNCHANGED <<content, write_ptr, zpend, log_file, mapped, chunk,
                   processVars, logged, lost, overtaken, short, flushVars>>
-----------------------------------------------------------------------------
\* Mutation: CallFileFlush has no lock_guard.
CallFileFlushUnlocked(t) ==
    /\ pc[t] = "flush"
    /\ IF write_ptr > 0
         THEN /\ chunk' = [chunk EXCEPT ![t] =
                     [file |-> log_file, text |-> content, pend |-> zpend]]
              /\ pc' = [pc EXCEPT ![t] = "clear"]
         ELSE /\ pc' = [pc EXCEPT ![t] = AfterFlush(t)]
              /\ UNCHANGED chunk
    /\ UNCHANGED <<bufferVars, arg, processVars, historyVars, flushVars>>

\* CallFileFlush: with log_mtx, copy a non-empty buffer to a BufferFlush...
CallFileFlush(t) ==
    /\ pc[t] = "flush"
    /\ ~MtxHeld
    /\ IF write_ptr > 0
         THEN /\ chunk' = [chunk EXCEPT ![t] =
                     [file |-> log_file, text |-> content, pend |-> zpend]]
              /\ pc' = [pc EXCEPT ![t] = "clear"]
         ELSE /\ pc' = [pc EXCEPT ![t] = AfterFlush(t)]
              /\ UNCHANGED chunk
    /\ UNCHANGED <<bufferVars, arg, processVars, historyVars, flushVars>>

\* ... Clear it: the bytes first ...
ClearBytes(t) ==
    /\ pc[t] = "clear"
    /\ write_ptr' = 0
    /\ content' = <<>>
    /\ pc' = [pc EXCEPT ![t] = "clearlen"]
    /\ UNCHANGED <<log_len, zpend, log_file, mapped, arg, chunk, processVars,
                   historyVars, flushVars>>

\* Mutation: the BufferFlush is built and never handed over.
ClearAndForget(t) ==
    /\ pc[t] = "clearlen"
    /\ log_len' = 0
    /\ chunk' = [chunk EXCEPT ![t] = NoChunk]
    /\ pc' = [pc EXCEPT ![t] = AfterFlush(t)]
    /\ UNCHANGED <<content, write_ptr, zpend, log_file, mapped, arg,
                   processVars, historyVars, flushVars>>

\* ... then the length in the header ...
ClearSetLength(t) ==
    /\ pc[t] = "clearlen"
    /\ log_len' = 0
    /\ pc' = [pc EXCEPT ![t] = "submit"]
    /\ UNCHANGED <<content, write_ptr, zpend, log_file, mapped, arg, chunk,
                   processVars, historyVars, flushVars>>

\* ... and hand the chunk over, still holding log_mtx.
Submit(t) ==
    /\ pc[t] = "submit"
    /\ FF!AsyncFlush(chunk[t])
    /\ chunk' = [chunk EXCEPT ![t] = NoChunk]
    /\ pc' = [pc EXCEPT ![t] = AfterFlush(t)]
    /\ UNCHANGED <<bufferVars, arg, processVars, historyVars>>
-----------------------------------------------------------------------------
\* A file that is not open has size 0.
IsCurrentLogFileOversize == log_file # NoFile /\ fsize[log_file] >= FileLimit

\* ZapRecord.asyncFlush: isLogFileOverSizeNative, then expLogFileNative if
\* it is, then asyncFlushNative.
RecordAsyncFlush ==
    /\ proc = "up"
    /\ pc[Main] = "idle"
    /\ IsCurrentLogFileOversize => nfile < MaxFile
    /\ pc' = [pc EXCEPT ![Main] =
                IF IsCurrentLogFileOversize THEN "exp" ELSE "flush"]
    /\ UNCHANGED <<bufferVars, arg, chunk, processVars, historyVars, flushVars>>

\* OpenLogFile sets log_file_ptr only when fopen succeeds.
Opened(old, f) == {f, old}

\* Mutation: InitData leaves the old length in the header.
ExpLogPathOldLength ==
    /\ pc[Main] = "exp"
    /\ ~MtxHeld
    /\ nfile' = nfile + 1
    /\ log_file' \in Opened(log_file, nfile + 1)
    /\ content' = <<>> /\ write_ptr' = 0 /\ zpend' = 0
    /\ lost' = lost \cup Msgs(content)
    /\ pc' = [pc EXCEPT ![Main] = "flush"]
    /\ UNCHANGED <<log_len, mapped, arg, chunk, proc, disk, fsize, crashes,
                   logged, returned, overtaken, short, flushVars>>

\* ExpLogPath: its CallFileFlush() goes to file_flush_ptr, which is never
\* set, and does nothing; InitData then zeroes the buffer.
ExpLogPath ==
    /\ pc[Main] = "exp"
    /\ ~MtxHeld
    /\ nfile' = nfile + 1
    /\ log_file' \in Opened(log_file, nfile + 1)
    /\ content' = <<>> /\ write_ptr' = 0 /\ log_len' = 0 /\ zpend' = 0
    /\ lost' = lost \cup Msgs(content)
    /\ pc' = [pc EXCEPT ![Main] = "flush"]
    /\ UNCHANGED <<mapped, arg, chunk, proc, disk, fsize, crashes,
                   logged, returned, overtaken, short, flushVars>>
-----------------------------------------------------------------------------
\* The flusher; Flush also makes the log file longer.  For a chunk without a
\* file it runs off its end: the chunk is dropped, or the process dies (Crash).
FlushToFile ==
    /\ FF!Flush
    /\ LET c == Head(popped)
       IN IF c.file = NoFile
            THEN /\ lost' = lost \cup Msgs(c.text)
                 /\ UNCHANGED fsize
            ELSE /\ fsize' = [fsize EXCEPT ![c.file] = @ + Bytes(c.text)]
                 /\ UNCHANGED lost
    /\ UNCHANGED <<bufferVars, threadVars, proc, disk, nfile, crashes,
                   logged, returned, overtaken, short>>

FlusherStep ==
    /\ proc = "up"
    /\ \/ FlushToFile
       \/ /\ FF!FlusherLock \/ FF!FlusherPop \/ FF!FlusherTestExit
             \/ FF!FlusherWait
          /\ UNCHANGED <<bufferVars, threadVars, processVars, historyVars>>

Spurious ==
    /\ proc = "up"
    /\ FF!SpuriousWakeup
    /\ UNCHANGED <<bufferVars, threadVars, processVars, historyVars>>
-----------------------------------------------------------------------------
\* Everything in memory goes; a mapped buffer stays in the buffer file.
Crash ==
    /\ proc = "up"
    /\ crashes < MaxCrash
    /\ crashes' = crashes + 1
    /\ proc' = "down"
    /\ disk' = IF mapped = "mmap" THEN [text |-> content, log_len |-> log_len]
                                  ELSE disk
    /\ lost' = lost \cup InHands \cup MsgsOf(async_buffer) \cup MsgsOf(popped)
                    \cup (IF mapped = "mmap" THEN {} ELSE Msgs(content))
    /\ content' = <<>> /\ log_len' = 0 /\ write_ptr' = 0 /\ zpend' = 0
    /\ log_file' = NoFile
    /\ pc' = [t \in Thread |-> "idle"]
    /\ arg' = [t \in Thread |-> NoMsg]
    /\ chunk' = [t \in Thread |-> NoChunk]
    /\ async_buffer' = <<>> /\ fpc' = "lock" /\ popped' = <<>>
    /\ accepted' = {} /\ refused' = {} /\ batch' = {}
    /\ overtaken' = {}
    /\ UNCHANGED <<mapped, nfile, fsize, logged, returned, short, spc, written>>

\* GetLength() of the Buffer that WriteDirty2File puts over the old bytes:
\* the constructor leaves write_ptr and data_ptr null, their difference is 0.
DirtyLength(d) == 0

\* WriteDirty2File: what it hands to the new FileFlush.
WriteDirty2File(d) ==
    IF DirtyLength(d) > 0
      THEN <<[file |-> NoFile, text |-> d.text, pend |-> 0]>>
      ELSE <<>>

\* InitNative.  A second start finds the last log file or opens a new one
\* (the numbering is in ZapRecord); mmap and fopen may fail.
InitNative ==
    /\ proc = "down"
    /\ proc' = "up"
    /\ mapped' \in {"mmap", "heap"}
    /\ async_buffer' = WriteDirty2File(disk)
    /\ lost' = IF mapped' = "mmap"
                 THEN lost \cup (Msgs(disk.text) \ MsgsOf(async_buffer'))
                 ELSE lost
    /\ disk' = IF mapped' = "mmap" THEN EmptyDisk ELSE disk
    /\ nfile' \in {nfile, nfile + 1} \cap File
    /\ log_file' \in Opened(NoFile, nfile')
    /\ UNCHANGED <<content, log_len, write_ptr, zpend, threadVars, fsize,
                   crashes, logged, returned, overtaken, short, fpc, popped, spc,
                   written, accepted, refused, batch>>
-----------------------------------------------------------------------------
ThreadStep(t) ==
    \/ AppendBytes(t) \/ AppendSetLength(t)
    \/ CallFileFlush(t) \/ ClearBytes(t) \/ ClearSetLength(t) \/ Submit(t)

Next ==
    \/ \E t \in Writer, m \in Msg \ logged : WriteNative(t, m)
    \/ \E t \in Thread : ThreadStep(t)
    \/ RecordAsyncFlush \/ ExpLogPath
    \/ FlusherStep \/ Spurious
    \/ Crash \/ InitNative

\* A thread inside a JNI function, and the flusher, go on when they can; a
\* thread that waits for async_mtx is not passed over for ever by a flusher
\* that keeps taking it on spurious wakeups.
Fairness ==
    /\ \A t \in Thread : WF_vars(ThreadStep(t)) /\ SF_vars(Submit(t))
    /\ WF_vars(ExpLogPath)
    /\ WF_vars(FlusherStep)

SafetySpec == Init /\ [][Next]_vars
Spec == SafetySpec /\ Fairness
-----------------------------------------------------------------------------
\* The types; write_ptr and the length in the header stay inside the buffer
\* that Append and InitData were given.
TypeOK ==
    /\ content \in Seq(Piece)
    /\ write_ptr \in 0 .. Capacity /\ log_len \in 0 .. Capacity /\ zpend \in Nat
    /\ log_file \in File \cup {NoFile} /\ mapped \in {"mmap", "heap"}
    /\ pc \in [Thread -> PC]
    /\ arg \in [Thread -> Msg \cup {NoMsg}]
    /\ chunk \in [Thread -> ZChunk \cup {NoChunk}]
    /\ proc \in {"up", "down"}
    /\ disk \in [text : Seq(Piece), log_len : 0 .. Capacity]
    /\ nfile \in File /\ fsize \in [File -> Nat] /\ crashes \in 0 .. MaxCrash
    /\ logged \subseteq Msg /\ returned \subseteq Msg /\ lost \subseteq Msg
    /\ overtaken \subseteq Thread /\ short \subseteq [msg : Msg, late : BOOLEAN]
    /\ FF!TypeOK

\* Where the bytes of messages are.
Stored ==
    Msgs(content) \cup Msgs(disk.text) \cup InHands \cup MsgsOf(async_buffer)
      \cup MsgsOf(popped) \cup MsgsOf(written)

\* Without rollover and death of the process: while a log file is open, a
\* message WriteNative has returned for is somewhere between the buffer and the
\* log file, unless Append, overtaken, had no byte for it (zap.cpp:94,
\* zap_buffer.cpp:57-83).
ReturnedIsStored ==
    log_file # NoFile => returned \subseteq Stored \cup {x.msg : x \in {y \in short : y.late}}

\* Messages vanish only where the code throws bytes away: a full buffer in
\* Append, the memset of ExpLogPath and of InitNative, a chunk without a
\* file, and the death of the process.
OnlyKnownLosses == returned \subseteq Stored \cup lost

\* The places that hold bytes, each with its text.
Texts ==
    {<<"buffer", 1, content>>, <<"disk", 1, disk.text>>}
      \cup {<<"hand", t, chunk[t].text>> :
              t \in {u \in Thread : pc[u] \in {"clearlen", "submit"}}}
      \cup {<<"queue", i, async_buffer[i].text>> : i \in DOMAIN async_buffer}
      \cup {<<"popped", i, popped[i].text>> : i \in DOMAIN popped}
      \cup {<<"written", i, written[i].text>> : i \in DOMAIN written}

\* The copy of CallFileFlush and the Clear behind it leave every message in
\* one place: nothing is written to the log files twice, crashes included,
\* and what was thrown away is not also in the buffer, on its way or in a file.
NoDuplicate ==
    /\ \A x, y \in Texts : x # y => Msgs(x[3]) \cap Msgs(y[3]) = {}
    /\ \A x \in Texts : IsInjective([i \in DOMAIN x[3] |-> x[3][i].msg])
    /\ Stored \cap lost = {}

\* If the process dies, the length in the header of the buffer file cuts
\* the bytes behind it at the end of a message, except inside Clear, which
\* zeroes the bytes before the length.
HeaderAtBoundary ==
    \/ log_len = 0
    \/ \E i \in DOMAIN content : content[i].end = log_len
    \/ \E t \in Thread : pc[t] = "clearlen"

\* "缓存写满时异步刷新" (zap.cpp:92), "flush when the buffer is full", is tested
\* without log_mtx: memcpy keeps less of a message than there is, and either
\* mode nothing, only when another thread has appended since that test, or when
\* the message is longer than the buffer.
NoTruncation == \A x \in short : x.late \/ MsgLen[x.msg] > Capacity

\* The only way to cut a deflate stream is to fill the buffer to its last
\* byte: every stream starts afresh with an empty buffer.
StreamCutOnlyWhenFull ==
    \A i \in DOMAIN async_buffer :
      async_buffer[i].pend > 0 => Bytes(async_buffer[i].text) = Capacity

\* "写脏数据" (zap.cpp, OpenMMap): the messages found in the buffer file at
\* start are handed to the flusher.
DirtyIsWritten ==
    [][InitNative =>
         \A i \in DOMAIN disk.text :
           disk.text[i].end <= disk.log_len =>
             disk.text[i].msg \in MsgsOf(async_buffer')]_vars

\* Every WriteNative call returns (or the process dies): log_mtx and
\* async_mtx are always taken in this order, and the flusher needs only
\* the second.
WriteReturns == \A t \in Writer : pc[t] # "idle" ~> pc[t] = "idle"

\* What CallFileFlush takes out of the buffer reaches a log file unless it
\* is lost with the process or for want of a file.
TakenReachesFile ==
    \A m \in Msg : m \in InHands ~> m \in MsgsOf(written) \cup lost
=============================================================================
