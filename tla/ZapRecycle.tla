----------------------------- MODULE ZapRecycle -----------------------------
(***************************************************************************)
(* The end of Zap: ZapPrint.recycle flushes (ZapRecord.asyncFlush) and     *)
(* releases (ZapRecord.release, ReleaseNative) while the flusher works and *)
(* other threads may log.  The model follows the lifetime of the Buffer,   *)
(* of its FILE and of the FileFlush, composed with FileFlush.              *)
(*                                                                         *)
(* A use of an object that is gone is undefined: it is noted in faults,    *)
(* and the process dies or goes on.  ZapRecord.ptr is never reset, so      *)
(* every call reaches the native code.  The log file is open and below its *)
(* limit when recycle begins; the buffer holds Capacity messages.          *)
(***************************************************************************)
EXTENDS Integers, Sequences, Functions

CONSTANTS
    Writer,      \* the threads that log
    Recycler,    \* the thread that calls Zap.recycle()
    Msg,         \* the messages
    Capacity,    \* how many of them the buffer holds
    MaxRecycle,  \* bound: calls of Zap.recycle()
    NoMsg, NoChunk, NoOwner

ASSUME RecycleAssumption ==
    /\ Recycler \notin Writer
    /\ Capacity \in Nat \ {0}
    /\ MaxRecycle \in Nat \ {0}
    /\ NoMsg \notin Msg
    /\ NoOwner \notin Writer \cup {Recycler}

Thread == Writer \cup {Recycler}
\* A BufferFlush; owns is its release_ptr.
RChunk == [msgs : Seq(Msg), owns : {"nothing", "buffer"}]

VARIABLES
    content,     \* the messages in the buffer
    buffer,      \* the Buffer object: "live" or "gone"
    file,        \* its FILE: "open" or "closed"
    owner,       \* who holds log_mtx
    pFileFlush,  \* "set" or "null"
    pc, arg, chunk,
    recycles,    \* calls of recycle so far
    proc,        \* "up" or "dead"
    faults,      \* history: undefined uses so far, by kind
    logged, stored, infile,    \* history: messages given, appended, written
    before,      \* history: what was appended when recycle was first called
    async_buffer, fpc, popped, spc, written, accepted, refused, batch

bufferVars == <<content, buffer, file, owner, pFileFlush>>
threadVars == <<pc, arg, chunk, recycles>>
faultVars == <<proc, faults>>
historyVars == <<logged, stored, infile, before>>
flushVars == <<async_buffer, fpc, popped, spc, written, accepted, refused, batch>>
vars == <<bufferVars, threadVars, faultVars, historyVars, flushVars>>

FF == INSTANCE FileFlush WITH Chunk <- RChunk, NullFile <- {}, data <- popped

Init ==
    /\ content = <<>> /\ buffer = "live" /\ file = "open" /\ owner = NoOwner
    /\ pFileFlush = "set"
    /\ pc = [t \in Thread |-> "idle"]
    /\ arg = [t \in Thread |-> NoMsg]
    /\ chunk = [t \in Thread |-> NoChunk]
    /\ recycles = 0 /\ proc = "up" /\ faults = {}
    /\ logged = {} /\ stored = {} /\ infile = {} /\ before = {}
    /\ FF!Init
-----------------------------------------------------------------------------
\* An undefined use: the process survives it or not.
Fault(k) == faults' = faults \cup {k} /\ proc' \in {"up", "dead"}
NoFault == UNCHANGED faultVars
FaultIf(cond, k) == IF cond THEN Fault(k) ELSE NoFault

Goto(t, l) == pc' = [pc EXCEPT ![t] = l]

\* Where CallFileFlush(pFileFlush) returns to: WriteNative, or release().
AfterFlush(t) == IF t = Recycler THEN "release" ELSE "append"

\* A call on a Buffer that is gone; the model gives up the call there.
UseAfterFree(t) ==
    /\ pc[t] \in {"take", "append"}
    /\ buffer = "gone"
    /\ Fault("use")
    /\ Goto(t, "idle")
    /\ arg' = [arg EXCEPT ![t] = NoMsg]
    /\ UNCHANGED <<bufferVars, chunk, recycles, historyVars, flushVars>>
-----------------------------------------------------------------------------
\* WriteNative: the test of EmptySize(), without log_mtx.
WriteNative(t, m) ==
    /\ pc[t] = "idle"
    /\ logged' = logged \cup {m}
    /\ IF buffer = "gone"
         THEN Fault("use") /\ UNCHANGED <<pc, arg>>
         ELSE /\ NoFault
              /\ arg' = [arg EXCEPT ![t] = m]
              /\ Goto(t, IF Len(content) >= Capacity /\ pFileFlush = "set"
                           THEN "take" ELSE "append")
    /\ UNCHANGED <<bufferVars, chunk, recycles, stored, infile, before, flushVars>>

\* Append: a message that another thread has left no room for is dropped.
AppendLog(t) ==
    /\ pc[t] = "append"
    /\ owner = NoOwner
    /\ buffer = "live"
    /\ IF Len(content) < Capacity
         THEN /\ content' = Append(content, arg[t])
              /\ stored' = stored \cup {arg[t]}
         ELSE UNCHANGED <<content, stored>>
    /\ arg' = [arg EXCEPT ![t] = NoMsg]
    /\ Goto(t, "idle")
    /\ UNCHANGED <<buffer, file, owner, pFileFlush, chunk, recycles, faultVars,
                   logged, infile, before, flushVars>>

\* CallFileFlush(flush): lock, copy and clear a buffer that is not empty ...
Take(t) ==
    /\ pc[t] = "take"
    /\ owner = NoOwner
    /\ buffer = "live"
    /\ IF content # <<>>
         THEN /\ chunk' = [chunk EXCEPT ![t] = [msgs |-> content, owns |-> "nothing"]]
              /\ content' = <<>>
              /\ owner' = t
              /\ Goto(t, "submit")
         ELSE /\ Goto(t, AfterFlush(t))
              /\ UNCHANGED <<chunk, content, owner>>
    /\ UNCHANGED <<buffer, file, pFileFlush, arg, recycles, faultVars,
                   historyVars, flushVars>>

\* ... hand the chunk to the FileFlush, if it is still there ...
HandOver(t) ==
    \/ /\ spc # "joined"
       /\ FF!AsyncFlush(chunk[t])
       /\ NoFault
    \/ /\ spc = "joined"
       /\ Fault("flusher")
       /\ UNCHANGED flushVars

Submit(t) ==
    /\ pc[t] = "submit"
    /\ HandOver(t)
    /\ chunk' = [chunk EXCEPT ![t] = NoChunk]
    /\ Goto(t, "unlock")
    /\ UNCHANGED <<bufferVars, arg, recycles, historyVars>>

\* ... and unlock log_mtx, which is inside the Buffer.
Unlock(t) ==
    /\ pc[t] = "unlock"
    /\ FaultIf(buffer = "gone", "unlock")
    /\ owner' = NoOwner
    /\ Goto(t, AfterFlush(t))
    /\ UNCHANGED <<content, buffer, file, pFileFlush, arg, chunk, recycles,
                   historyVars, flushVars>>

WriterStep(t) ==
    AppendLog(t) \/ Take(t) \/ Submit(t) \/ Unlock(t) \/ UseAfterFree(t)
-----------------------------------------------------------------------------
\* ZapPrint.recycle: asyncFlush tests the size of the file and flushes.
Recycle ==
    /\ pc[Recycler] \in {"idle", "done"}
    /\ recycles < MaxRecycle
    /\ recycles' = recycles + 1
    /\ before' = IF recycles = 0 THEN stored ELSE before
    /\ FaultIf(buffer = "gone", "use")
    /\ Goto(Recycler, IF pFileFlush = "set" THEN "take" ELSE "release")
    /\ UNCHANGED <<bufferVars, arg, chunk, logged, stored, infile, flushVars>>

\* ~Buffer, by delete: Release closes the FILE.
DeleteBuffer ==
    /\ FaultIf(buffer = "gone", "double")
    /\ buffer' = "gone"
    /\ file' = "closed"
    /\ UNCHANGED <<content, owner, pFileFlush>>

\* Mutation: nobody frees the buffer.
ReleaseNativeLeak ==
    /\ pc[Recycler] = "release"
    /\ owner = NoOwner
    /\ Goto(Recycler, "stop")
    /\ UNCHANGED <<bufferVars, arg, chunk, recycles, faultVars, historyVars, flushVars>>

\* ReleaseNative, CallFileFlush(pFileFlush, buffer): without a FileFlush, or
\* with nothing in it, the buffer is deleted, in the second case under its
\* own log_mtx; else its last chunk will free it.
ReleaseNative ==
    /\ pc[Recycler] = "release"
    /\ \/ /\ pFileFlush = "null"
          /\ DeleteBuffer
          /\ Goto(Recycler, "done")
          /\ UNCHANGED chunk
       \/ /\ pFileFlush = "set" /\ owner = NoOwner /\ content = <<>>
          /\ DeleteBuffer
          /\ Goto(Recycler, "runlock")
          /\ UNCHANGED chunk
       \/ /\ pFileFlush = "set" /\ owner = NoOwner /\ content # <<>>
          /\ chunk' = [chunk EXCEPT ![Recycler] = [msgs |-> content, owns |-> "buffer"]]
          /\ content' = <<>>
          /\ owner' = Recycler
          /\ Goto(Recycler, "rsubmit")
          /\ NoFault
          /\ UNCHANGED <<buffer, file, pFileFlush>>
    /\ UNCHANGED <<arg, recycles, historyVars, flushVars>>

ReleaseSubmit ==
    /\ pc[Recycler] = "rsubmit"
    /\ FF!AsyncFlush(chunk[Recycler])
    /\ chunk' = [chunk EXCEPT ![Recycler] = NoChunk]
    /\ Goto(Recycler, "runlock")
    /\ UNCHANGED <<bufferVars, arg, recycles, faultVars, historyVars>>

ReleaseUnlock ==
    /\ pc[Recycler] = "runlock"
    /\ FaultIf(buffer = "gone", "unlock")
    /\ owner' = NoOwner
    /\ Goto(Recycler, "stop")
    /\ UNCHANGED <<content, buffer, file, pFileFlush, arg, chunk, recycles,
                   historyVars, flushVars>>

\* Mutation: the thread is detached, not joined.
DeleteFileFlushNoJoin ==
    /\ pc[Recycler] = "stop"
    /\ FF!StopFlushExit \/ FF!StopFlushNotify
    /\ IF spc' = "join" THEN Goto(Recycler, "null") ELSE UNCHANGED pc
    /\ UNCHANGED <<bufferVars, arg, chunk, recycles, faultVars, historyVars>>

\* delete pFileFlush runs StopFlush ...
DeleteFileFlush ==
    /\ pc[Recycler] = "stop"
    /\ FF!StopFlush
    /\ IF spc' = "joined" THEN Goto(Recycler, "null") ELSE UNCHANGED pc
    /\ UNCHANGED <<bufferVars, arg, chunk, recycles, faultVars, historyVars>>

\* ... and only then is the pointer reset.
ResetFileFlush ==
    /\ pc[Recycler] = "null"
    /\ pFileFlush' = "null"
    /\ Goto(Recycler, "done")
    /\ UNCHANGED <<content, buffer, file, owner, arg, chunk, recycles,
                   faultVars, historyVars, flushVars>>

RecyclerStep ==
    \/ ReleaseNative \/ ReleaseSubmit \/ ReleaseUnlock
    \/ DeleteFileFlush \/ ResetFileFlush
    \/ Take(Recycler) \/ Submit(Recycler) \/ Unlock(Recycler)
-----------------------------------------------------------------------------
\* Flush: fwrite reaches a FILE that is open; the destructor of the chunk
\* frees the Buffer it owns by operator delete, which closes nothing.
FlushToFile ==
    /\ FF!Flush
    /\ LET c == Head(popped)
           k == (IF file = "closed" THEN {"closed"} ELSE {})
                  \cup (IF c.owns = "buffer" /\ buffer = "gone" THEN {"double"} ELSE {})
       IN /\ infile' = IF file = "open" THEN infile \cup Range(c.msgs) ELSE infile
          /\ buffer' = IF c.owns = "buffer" THEN "gone" ELSE buffer
          /\ faults' = faults \cup k
          /\ proc' \in IF k = {} THEN {proc} ELSE {"up", "dead"}
    /\ UNCHANGED <<content, file, owner, pFileFlush, threadVars, logged, stored, before>>

FlusherStep ==
    \/ FlushToFile
    \/ /\ FF!FlusherLock \/ FF!FlusherPop \/ FF!FlusherTestExit \/ FF!FlusherWait
       /\ UNCHANGED <<bufferVars, threadVars, faultVars, historyVars>>

Next ==
    /\ proc = "up"
    /\ \/ \E t \in Writer, m \in Msg \ logged : WriteNative(t, m)
       \/ \E t \in Writer : WriterStep(t)
       \/ Recycle \/ RecyclerStep
       \/ FlusherStep

\* The scheduler runs every thread that is inside the native code.
Fairness ==
    /\ \A t \in Writer : WF_vars(Next /\ WriterStep(t))
    /\ WF_vars(Next /\ RecyclerStep)
    /\ WF_vars(Next /\ FlusherStep)

SafetySpec == Init /\ [][Next]_vars
Spec == SafetySpec /\ Fairness
-----------------------------------------------------------------------------
\* Whatever the other threads do, the first recycle frees the buffer, and
\* frees it once: ReleaseNative deletes it or its last chunk does.
FreedExactlyOnce ==
    recycles = 1 =>
      /\ "double" \notin faults
      /\ pc[Recycler] = "done" => buffer = "gone"

\* When recycle has returned and no chunk came too late for its FILE, what
\* was appended before the call is in the log file, whatever is logged
\* meanwhile: asyncFlush and release take it, StopFlush drains the vector.
RecycledIsWritten ==
    pc[Recycler] = "done" /\ "closed" \notin faults => before \subseteq infile

\* A thread that logs while another recycles returns, unless the process
\* dies: whoever holds log_mtx waits at most for async_mtx, and the flusher
\* gives that up whenever it sleeps.
WritersReturn ==
    \A t \in Writer : pc[t] # "idle" ~> pc[t] = "idle" \/ proc = "dead"
=============================================================================
