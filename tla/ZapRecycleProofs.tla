-------------------------- MODULE ZapRecycleProofs --------------------------
(***************************************************************************)
(* The end of Zap for any number of threads that log, any capacity and any *)
(* number of calls of recycle: the first recycle frees the buffer exactly  *)
(* once, and what was appended before it is in the log file when it        *)
(* returns, unless a chunk came too late for its FILE.                     *)
(***************************************************************************)
EXTENDS ZapRecycle, TLAPS

(* Sequences of messages and of chunks: what pushing to and popping from   *)
(* one does to the set of its elements.                                    *)

\* push_back adds its argument to the elements and nothing else.
LEMMA RangeAppend ==
  ASSUME NEW S, NEW s \in Seq(S), NEW c \in S
  PROVE  /\ Append(s, c) \in Seq(S)
         /\ Range(Append(s, c)) = Range(s) \cup {c}
<1>1. /\ Append(s, c) \in Seq(S)
      /\ DOMAIN Append(s, c) = 1 .. Len(s) + 1
      /\ Append(s, c)[Len(s) + 1] = c
      /\ \A i \in 1 .. Len(s) : Append(s, c)[i] = s[i]
      /\ Len(s) \in Nat
      /\ DOMAIN s = 1 .. Len(s)
  OBVIOUS
<1>2. ASSUME NEW x \in Range(Append(s, c)) PROVE x \in Range(s) \cup {c}
  BY <1>1, <1>2 DEF Range
<1>3. ASSUME NEW x \in Range(s) \cup {c} PROVE x \in Range(Append(s, c))
  <2>1. CASE x = c
    BY <1>1, <2>1 DEF Range
  <2>2. CASE x \in Range(s)
    BY <1>1, <2>2 DEF Range
  <2> QED BY <1>3, <2>1, <2>2
<1> QED BY <1>1, <1>2, <1>3

\* back() and pop_back() split the elements into the last and the others.
LEMMA RangeFrontLast ==
  ASSUME NEW S, NEW s \in Seq(S), s # <<>>
  PROVE  /\ SubSeq(s, 1, Len(s) - 1) \in Seq(S)
         /\ s[Len(s)] \in S
         /\ Range(s) = Range(SubSeq(s, 1, Len(s) - 1)) \cup {s[Len(s)]}
<1>1. /\ Len(s) \in Nat \ {0}
      /\ DOMAIN s = 1 .. Len(s)
      /\ SubSeq(s, 1, Len(s) - 1) \in Seq(S)
      /\ DOMAIN SubSeq(s, 1, Len(s) - 1) = 1 .. Len(s) - 1
      /\ \A i \in 1 .. Len(s) - 1 : SubSeq(s, 1, Len(s) - 1)[i] = s[i]
      /\ s[Len(s)] \in S
  OBVIOUS
<1>2. ASSUME NEW x \in Range(s)
      PROVE  x \in Range(SubSeq(s, 1, Len(s) - 1)) \cup {s[Len(s)]}
  <2>1. PICK i \in 1 .. Len(s) : x = s[i]
    BY <1>1, <1>2 DEF Range
  <2>2. CASE i = Len(s)
    BY <1>1, <2>1, <2>2
  <2>3. CASE i # Len(s)
    <3>1. Len(s) \in Nat
      OBVIOUS
    <3>2. i \in 1 .. Len(s) - 1
      BY <2>3, <3>1
    <3> QED BY Zenon, <1>1, <2>1, <3>2 DEF Range
  <2> QED BY <2>2, <2>3
<1>3. ASSUME NEW x \in Range(SubSeq(s, 1, Len(s) - 1)) \cup {s[Len(s)]}
      PROVE  x \in Range(s)
  BY <1>1, <1>3 DEF Range
<1> QED BY <1>1, <1>2, <1>3

\* The empty vector.
LEMMA RangeEmpty == Range(<<>>) = {} /\ IsInjective(<<>>)
BY DEF Range, IsInjective

\* A vector of one chunk, and what writing it appends.
LEMMA RangeSingle ==
  ASSUME NEW S, NEW c \in S
  PROVE  /\ <<c>> \in Seq(S)
         /\ Range(<<c>>) = {c}
         /\ Head(<<c>>) = c
         /\ \A s \in Seq(S) : s \o <<c>> = Append(s, c)
BY DEF Range
-----------------------------------------------------------------------------
\* Where a thread that logs may be.
WriterPC == {"idle", "take", "append", "submit", "unlock"}
\* Where recycle is: up to the moment it has taken the last of the buffer,
\* and from then on until the FileFlush is stopped.
EarlyPC == {"idle", "take", "submit", "unlock", "release"}
LatePC == {"rsubmit", "runlock", "stop"}

Early == recycles <= 1 /\ pc[Recycler] \in EarlyPC
Over == recycles > 1 \/ pc[Recycler] \in {"null", "done"}

TypeInv ==
    /\ content \in Seq(Msg)
    /\ async_buffer \in Seq(RChunk)
    /\ popped \in Seq(RChunk) /\ Len(popped) = IF fpc = "flush" THEN 1 ELSE 0
    /\ pc \in [Thread -> WriterPC \cup EarlyPC \cup LatePC \cup {"null", "done"}]
    /\ arg \in [Thread -> Msg \cup {NoMsg}]
    /\ chunk \in [Thread -> RChunk \cup {NoChunk}]
    /\ \A t \in Writer : pc[t] \in WriterPC /\ (pc[t] # "idle" => arg[t] \in Msg)
    /\ \A t \in Thread : pc[t] = "submit" =>
          chunk[t] \in RChunk /\ chunk[t].owns = "nothing"
    /\ pc[Recycler] = "rsubmit" =>
          chunk[Recycler] \in RChunk /\ chunk[Recycler].owns = "buffer"

\* The order of the steps of recycle, and of StopFlush within them: a second
\* recycle finds neither a FileFlush nor anything in its vector.
OrderInv ==
    /\ recycles \in Nat
    /\ recycles = 0 <=> pc[Recycler] = "idle"
    /\ pc[Recycler] # "append"
    /\ recycles > 1 => pc[Recycler] \in {"release", "done"}
    /\ pFileFlush = IF recycles > 1 \/ pc[Recycler] = "done" THEN "null" ELSE "set"
    /\ ~Over /\ pc[Recycler] # "stop" => spc = "running"
    /\ pc[Recycler] = "stop" => spc # "joined"
    /\ Over => spc = "joined"
    /\ spc = "joined" => fpc = "done"
    /\ fpc = "done" => async_buffer = <<>> /\ spc # "running"

\* log_mtx; ReleaseNative deletes an empty buffer without noting who holds it.
MutexInv ==
    /\ \A t \in Thread : pc[t] \in {"submit", "unlock"} => owner = t
    /\ pc[Recycler] = "rsubmit" => owner = Recycler
    /\ pc[Recycler] = "runlock" =>
          owner = Recycler \/ (owner = NoOwner /\ buffer = "gone")

\* The chunks that will free the buffer when they are flushed.
Owners == {i \in DOMAIN async_buffer : async_buffer[i].owns = "buffer"}
PoppedOwns == fpc = "flush" /\ popped[1].owns = "buffer"

\* In the first recycle the buffer is there as long as it is used or a chunk
\* is to free it; there is at most one such chunk.
FreeInv ==
    recycles <= 1 =>
      /\ "double" \notin faults
      /\ \A i, j \in Owners : i = j
      /\ PoppedOwns => Owners = {}
      /\ Early \/ pc[Recycler] = "rsubmit" =>
            buffer = "live" /\ Owners = {} /\ ~PoppedOwns
      /\ ~Early /\ pc[Recycler] # "rsubmit" =>
            buffer = IF Owners # {} \/ PoppedOwns THEN "live" ELSE "gone"

\* The messages in the vector, or popped from it and not yet written.
Queued == {m \in Msg : \E c \in Range(async_buffer) \cup Range(popped) : m \in Range(c.msgs)}

\* What recycle has to save.
Due == IF recycles = 0 THEN stored ELSE before

\* Where a message can be while recycle has not given it up.
Safe(m) ==
    \/ m \in infile \cup Queued
    \/ Early /\ m \in Range(content)
    \/ Early /\ \E t \in Thread : pc[t] = "submit" /\ m \in Range(chunk[t].msgs)
    \/ pc[Recycler] = "rsubmit" /\ m \in Range(chunk[Recycler].msgs)

SavedInv == "closed" \in faults \/ \A m \in Due : Safe(m)

FileInv == file \in {"open", "closed"}

IInv == TypeInv /\ OrderInv /\ MutexInv /\ FileInv /\ FreeInv /\ SavedInv
-----------------------------------------------------------------------------
(* What the steps of FileFlush do to the vector.                           *)

\* The vector and the popped chunk are as they were.
Still ==
    /\ UNCHANGED <<async_buffer, popped>>
    /\ fpc' = "flush" <=> fpc = "flush"

\* AsyncFlush queues the chunk, unless StopFlush has begun (which deletes it).
LEMMA AsyncFlushEffect ==
  ASSUME NEW c, FF!AsyncFlush(c)
  PROVE  /\ UNCHANGED <<popped, spc>>
         /\ spc # "joined"
         /\ fpc # "flush" /\ fpc' # "flush"
         /\ fpc' = "done" <=> fpc = "done"
         /\ async_buffer' = IF spc = "running" THEN Append(async_buffer, c)
                                               ELSE async_buffer
BY Zenon DEF FF!AsyncFlush, FF!MtxHeld, FF!exit, FF!Notified

\* StopFlush never touches the vector; it returns when the flusher has ended.
LEMMA StopFlushEffect ==
  ASSUME FF!StopFlush
  PROVE  /\ Still
         /\ fpc' = "done" <=> fpc = "done"
         /\ spc # "joined" /\ spc' # "running"
         /\ spc' = "joined" => fpc = "done"
BY Zenon DEF FF!StopFlush, FF!StopFlushExit, FF!StopFlushNotify, FF!StopFlushJoin,
       FF!Notified, FF!flusherVars, Still

\* The flusher pops the newest chunk ...
LEMMA PopEffect ==
  ASSUME TypeInv, FF!FlusherPop
  PROVE  /\ UNCHANGED spc /\ fpc = "drain" /\ fpc' = "flush"
         /\ async_buffer # <<>>
         /\ popped = <<>> /\ popped' = <<async_buffer[Len(async_buffer)]>>
         /\ async_buffer' = SubSeq(async_buffer, 1, Len(async_buffer) - 1)
BY DEF FF!FlusherPop, TypeInv

\* ... or returns, when the vector is empty and StopFlush has begun, or looks
\* again, sleeps or wakes.
LEMMA IdleEffect ==
  ASSUME FF!FlusherLock \/ FF!FlusherTestExit \/ FF!FlusherWait
  PROVE  /\ Still /\ UNCHANGED spc /\ fpc # "done"
         /\ fpc' = "done" => async_buffer = <<>> /\ spc # "running"
BY Zenon DEF FF!FlusherLock, FF!FlusherTestExit, FF!FlusherWait, FF!exit, Still

\* A flushed chunk leaves the flusher.
LEMMA FlushEffect ==
  ASSUME TypeInv, FlushToFile
  PROVE  /\ UNCHANGED <<async_buffer, spc>>
         /\ fpc = "flush" /\ fpc' = "drain"
         /\ popped = <<popped[1]>> /\ popped[1] \in RChunk /\ popped' = <<>>
         /\ Head(popped) = popped[1]
<1>1. /\ UNCHANGED <<async_buffer, spc>> /\ popped' = <<>>
      /\ fpc = "flush" /\ fpc' = "drain"
  BY Zenon DEF FlushToFile, FF!Flush
<1>2. popped \in Seq(RChunk) /\ Len(popped) = 1
  BY Zenon, <1>1 DEF TypeInv
<1> HIDE DEF RChunk
<1>3. popped = <<popped[1]>> /\ popped[1] \in RChunk /\ Head(popped) = popped[1]
  BY <1>2
<1> QED BY Zenon, <1>1, <1>3

\* The steps of Next.
LEMMA NextSteps ==
  ASSUME Next
  PROVE  \/ \E t \in Writer, m \in Msg \ logged : WriteNative(t, m)
         \/ \E t \in Writer : AppendLog(t) \/ UseAfterFree(t)
         \/ \E t \in Thread : Take(t) \/ Submit(t) \/ Unlock(t)
         \/ Recycle \/ ReleaseNative \/ ReleaseSubmit \/ ReleaseUnlock
         \/ DeleteFileFlush \/ ResetFileFlush
         \/ FlushToFile
         \/ /\ FF!FlusherLock \/ FF!FlusherPop \/ FF!FlusherTestExit \/ FF!FlusherWait
            /\ UNCHANGED <<bufferVars, threadVars, faultVars, historyVars>>
BY Zenon DEF Next, WriterStep, RecyclerStep, FlusherStep, Thread
-----------------------------------------------------------------------------
(* Types.                                                                  *)

\* The part of TypeInv about the messages and chunks that threads hold.
HandInv ==
    /\ pc \in [Thread -> WriterPC \cup EarlyPC \cup LatePC \cup {"null", "done"}]
    /\ arg \in [Thread -> Msg \cup {NoMsg}]
    /\ chunk \in [Thread -> RChunk \cup {NoChunk}]
    /\ \A t \in Writer : pc[t] \in WriterPC /\ (pc[t] # "idle" => arg[t] \in Msg)
    /\ \A t \in Thread : pc[t] = "submit" =>
          chunk[t] \in RChunk /\ chunk[t].owns = "nothing"
    /\ pc[Recycler] = "rsubmit" =>
          chunk[Recycler] \in RChunk /\ chunk[Recycler].owns = "buffer"

\* The part about the buffer and the vector.
StoreInv ==
    /\ content \in Seq(Msg)
    /\ async_buffer \in Seq(RChunk)
    /\ popped \in Seq(RChunk) /\ Len(popped) = IF fpc = "flush" THEN 1 ELSE 0

LEMMA TypeParts == TypeInv <=> HandInv /\ StoreInv
BY Zenon DEF TypeInv, HandInv, StoreInv

\* A copy of the buffer is a chunk.
LEMMA Copied ==
  ASSUME StoreInv
  PROVE  /\ [msgs |-> content, owns |-> "nothing"] \in RChunk
         /\ [msgs |-> content, owns |-> "buffer"] \in RChunk
BY Zenon DEF StoreInv, RChunk

LEMMA NextHands == TypeInv /\ Next => HandInv'
<1> SUFFICES ASSUME TypeInv, Next PROVE HandInv'
  BY Zenon
<1>0. HandInv /\ StoreInv  BY Zenon, TypeParts
<1>00. Recycler \in Thread /\ Recycler \notin Writer /\ Writer \subseteq Thread
  BY Zenon, RecycleAssumption DEF Thread
<1> HIDE DEF RChunk, Thread
<1> USE <1>0, <1>00 DEF HandInv, Goto, WriterPC, EarlyPC, LatePC, threadVars
<1>1. ASSUME NEW t \in Writer, NEW m \in Msg, WriteNative(t, m) PROVE HandInv'
  BY <1>1 DEF WriteNative
<1>2. ASSUME NEW t \in Writer, AppendLog(t) \/ UseAfterFree(t) PROVE HandInv'
  BY <1>2 DEF AppendLog, UseAfterFree
<1>3. ASSUME NEW t \in Thread, Take(t) PROVE HandInv'
  BY <1>3, Copied DEF Take, AfterFlush
<1>4. ASSUME NEW t \in Thread, Submit(t) PROVE HandInv'
  BY Zenon, <1>4 DEF Submit
<1>5. ASSUME NEW t \in Thread, Unlock(t) PROVE HandInv'
  BY Zenon, <1>5 DEF Unlock, AfterFlush
<1>6. CASE Recycle  BY Zenon, <1>6 DEF Recycle
<1>7. CASE ReleaseNative  BY <1>7, Copied DEF ReleaseNative
<1>8. CASE ReleaseSubmit  BY Zenon, <1>8 DEF ReleaseSubmit
<1>9. CASE ReleaseUnlock  BY Zenon, <1>9 DEF ReleaseUnlock
<1>10. CASE DeleteFileFlush  BY Zenon, <1>10 DEF DeleteFileFlush
<1>11. CASE ResetFileFlush  BY Zenon, <1>11 DEF ResetFileFlush
<1>12. ASSUME UNCHANGED threadVars PROVE HandInv'  BY Zenon, <1>12
<1>13. CASE FlushToFile  BY Zenon, <1>12, <1>13 DEF FlushToFile
<1> QED
  BY Zenon, <1>1, <1>2, <1>3, <1>4, <1>5, <1>6, <1>7, <1>8, <1>9, <1>10, <1>11, <1>12,
     <1>13, NextSteps

LEMMA NextStore == TypeInv /\ Next => StoreInv'
<1> SUFFICES ASSUME TypeInv, Next PROVE StoreInv'
  OBVIOUS
<1>0. HandInv /\ StoreInv  BY TypeParts
<1> HIDE DEF RChunk
<1>1. ASSUME UNCHANGED content, Still PROVE StoreInv'
  BY Zenon, <1>0, <1>1 DEF StoreInv, Still
<1>2. ASSUME UNCHANGED <<content, flushVars>> PROVE StoreInv'
  BY Zenon, <1>0, <1>2 DEF StoreInv, flushVars
<1>3. ASSUME NEW t \in Writer, NEW m \in Msg, WriteNative(t, m) PROVE StoreInv'
  BY Zenon, <1>2, <1>3 DEF WriteNative, bufferVars
<1>4. ASSUME NEW t \in Writer, AppendLog(t) PROVE StoreInv'
  <2>1. arg[t] \in Msg
    BY Zenon, <1>0, <1>4 DEF AppendLog, HandInv
  <2>2. content' \in {content, Append(content, arg[t])} /\ UNCHANGED flushVars
    BY Zenon, <1>4 DEF AppendLog
  <2>3. content' \in Seq(Msg)
    <3>1. Append(content, arg[t]) \in Seq(Msg) /\ content \in Seq(Msg)
      BY <1>0, <2>1 DEF StoreInv
    <3> QED BY Zenon, <2>2, <3>1
  <2> QED BY Zenon, <1>0, <2>2, <2>3 DEF StoreInv, flushVars
<1>5. ASSUME NEW t \in Writer, UseAfterFree(t) PROVE StoreInv'
  BY Zenon, <1>2, <1>5 DEF UseAfterFree, bufferVars
<1>6. ASSUME NEW t \in Thread, Take(t) PROVE StoreInv'
  <2>1. content' \in {content, <<>>} /\ UNCHANGED flushVars
    BY Zenon, <1>6 DEF Take
  <2>2. content' \in Seq(Msg)
    <3>1. <<>> \in Seq(Msg)  OBVIOUS
    <3> QED BY Zenon, <1>0, <2>1, <3>1 DEF StoreInv
  <2> QED BY Zenon, <1>0, <2>1, <2>2 DEF StoreInv, flushVars
<1>7. ASSUME NEW c \in RChunk, FF!AsyncFlush(c), UNCHANGED content PROVE StoreInv'
  <2>1. async_buffer \in Seq(RChunk) /\ Append(async_buffer, c) \in Seq(RChunk)
    BY <1>0, <1>7 DEF StoreInv
  <2>2. async_buffer' \in {async_buffer, Append(async_buffer, c)}
    BY Zenon, <1>7, AsyncFlushEffect
  <2>3. UNCHANGED popped /\ fpc # "flush" /\ fpc' # "flush"
    BY Zenon, <1>7, AsyncFlushEffect
  <2> QED BY Zenon, <1>0, <1>7, <2>1, <2>2, <2>3 DEF StoreInv
<1>8. ASSUME NEW t \in Thread, Submit(t) PROVE StoreInv'
  <2>1. chunk[t] \in RChunk /\ UNCHANGED content
    BY Zenon, <1>0, <1>8 DEF Submit, HandInv, bufferVars
  <2> QED BY Zenon, <1>2, <1>7, <1>8, <2>1 DEF Submit, HandOver
<1>9. ASSUME NEW t \in Thread, Unlock(t) PROVE StoreInv'
  BY Zenon, <1>2, <1>9 DEF Unlock
<1>10. CASE Recycle  BY Zenon, <1>2, <1>10 DEF Recycle, bufferVars
<1>11. CASE ReleaseNative
  <2>1. content' \in {content, <<>>} /\ UNCHANGED flushVars
    BY Zenon, <1>11 DEF ReleaseNative, DeleteBuffer
  <2>2. content' \in Seq(Msg)
    <3>1. <<>> \in Seq(Msg)  OBVIOUS
    <3> QED BY Zenon, <1>0, <2>1, <3>1 DEF StoreInv
  <2> QED BY Zenon, <1>0, <2>1, <2>2 DEF StoreInv, flushVars
<1>12. CASE ReleaseSubmit
  <2>1. chunk[Recycler] \in RChunk /\ UNCHANGED content
    BY Zenon, <1>0, <1>12 DEF ReleaseSubmit, HandInv, bufferVars
  <2> QED BY Zenon, <1>7, <1>12, <2>1 DEF ReleaseSubmit
<1>13. CASE ReleaseUnlock  BY Zenon, <1>2, <1>13 DEF ReleaseUnlock
<1>14. CASE DeleteFileFlush
  BY Zenon, <1>1, <1>14, StopFlushEffect DEF DeleteFileFlush, bufferVars
<1>15. CASE ResetFileFlush  BY Zenon, <1>2, <1>15 DEF ResetFileFlush
<1>16. CASE FlushToFile
  <2>1. UNCHANGED content  BY Zenon, <1>16 DEF FlushToFile
  <2> QED BY <1>0, <1>16, <2>1, FlushEffect DEF StoreInv
<1>17. CASE FF!FlusherPop /\ UNCHANGED content
  <2>1. async_buffer \in Seq(RChunk) /\ async_buffer # <<>>
    BY Zenon, <1>0, <1>17, PopEffect DEF StoreInv
  <2>2. SubSeq(async_buffer, 1, Len(async_buffer) - 1) \in Seq(RChunk)
        /\ async_buffer[Len(async_buffer)] \in RChunk
    BY Zenon, <2>1, RangeFrontLast
  <2>3. /\ popped' = <<async_buffer[Len(async_buffer)]>> /\ fpc' = "flush"
        /\ async_buffer' = SubSeq(async_buffer, 1, Len(async_buffer) - 1)
    BY Zenon, <1>17, PopEffect
  <2>4. popped' \in Seq(RChunk) /\ Len(popped') = 1
    BY <2>2, <2>3
  <2> QED BY Zenon, <1>0, <1>17, <2>2, <2>3, <2>4 DEF StoreInv

<1>18. CASE (FF!FlusherLock \/ FF!FlusherTestExit \/ FF!FlusherWait) /\ UNCHANGED content
  BY Zenon, <1>1, <1>18, IdleEffect
<1> QED
  BY Zenon, <1>3, <1>4, <1>5, <1>6, <1>8, <1>9, <1>10, <1>11, <1>12, <1>13, <1>14, <1>15,
     <1>16, <1>17, <1>18, NextSteps DEF bufferVars
-----------------------------------------------------------------------------
(* The order of the steps.                                                 *)

LEMMA NextOrder == TypeInv /\ OrderInv /\ Next => OrderInv'
<1> SUFFICES ASSUME TypeInv, OrderInv, Next PROVE OrderInv'
  BY Zenon
<1>0. /\ Recycler \in Thread /\ Recycler \notin Writer
      /\ pc \in [Thread -> WriterPC \cup EarlyPC \cup LatePC \cup {"null", "done"}]
  BY Zenon, RecycleAssumption DEF Thread, TypeInv
<1> HIDE DEF RChunk, Thread
\* Steps that leave recycle where it is.
<1>1. ASSUME UNCHANGED <<recycles, pFileFlush, spc>>, pc'[Recycler] = pc[Recycler],
             fpc' = "done" <=> fpc = "done",
             fpc = "done" => UNCHANGED async_buffer
      PROVE  OrderInv'
  BY Zenon, <1>1 DEF OrderInv, Over
\* Steps of recycle that neither start, release nor stop anything.
<1>2. ASSUME UNCHANGED <<recycles, pFileFlush, spc>>, recycles <= 1, recycles # 0,
             pc[Recycler] \in {"take", "submit", "unlock", "release", "rsubmit", "runlock"},
             pc'[Recycler] \in {"take", "submit", "unlock", "release", "rsubmit", "runlock",
                                "stop"},
             fpc' = "done" <=> fpc = "done",
             fpc = "done" => UNCHANGED async_buffer
      PROVE  OrderInv'
  BY <1>2 DEF OrderInv, Over
<1>3. pc[Recycler] \in {"take", "submit", "unlock", "rsubmit", "runlock"}
      => recycles <= 1 /\ recycles # 0 /\ spc = "running"
  BY DEF OrderInv, Over
<1>4. ASSUME NEW t \in Writer, NEW m \in Msg, WriteNative(t, m) PROVE OrderInv'
  <2>1. pc'[Recycler] = pc[Recycler]  BY Zenon, <1>0, <1>4 DEF WriteNative, Goto
  <2> QED BY Zenon, <1>1, <1>4, <2>1 DEF WriteNative, bufferVars, flushVars
<1>5. ASSUME NEW t \in Writer, AppendLog(t) \/ UseAfterFree(t) PROVE OrderInv'
  <2>1. pc'[Recycler] = pc[Recycler]  BY Zenon, <1>0, <1>5 DEF AppendLog, UseAfterFree, Goto
  <2> QED BY Zenon, <1>1, <1>5, <2>1 DEF AppendLog, UseAfterFree, bufferVars, flushVars
<1>6. ASSUME NEW t \in Thread, Take(t) PROVE OrderInv'
  <2>1. UNCHANGED <<recycles, pFileFlush, spc, fpc, async_buffer>>
    BY Zenon, <1>6 DEF Take, flushVars
  <2>2. CASE t # Recycler
    <3>1. pc'[Recycler] = pc[Recycler]  BY Zenon, <1>0, <1>6, <2>2 DEF Take, Goto
    <3> QED BY Zenon, <1>1, <2>1, <3>1
  <2>3. CASE t = Recycler
    <3>1. pc[Recycler] = "take" /\ pc'[Recycler] \in {"submit", "release"}
      BY Zenon, <1>0, <1>6, <2>3 DEF Take, Goto, AfterFlush
    <3> QED BY Zenon, <1>2, <1>3, <2>1, <3>1
  <2> QED BY Zenon, <2>2, <2>3
<1>7. ASSUME NEW c, FF!AsyncFlush(c)
      PROVE  /\ UNCHANGED spc /\ (fpc' = "done" <=> fpc = "done")
             /\ fpc = "done" => UNCHANGED async_buffer
  BY Zenon, <1>7, AsyncFlushEffect DEF OrderInv
<1>8. ASSUME NEW t \in Thread, Submit(t) PROVE OrderInv'
  <2>1. UNCHANGED <<recycles, pFileFlush>>
    BY Zenon, <1>8 DEF Submit, bufferVars
  <2>2. /\ UNCHANGED spc /\ (fpc' = "done" <=> fpc = "done")
        /\ fpc = "done" => UNCHANGED async_buffer
    BY Zenon, <1>7, <1>8 DEF Submit, HandOver, flushVars
  <2>3. CASE t # Recycler
    <3>1. pc'[Recycler] = pc[Recycler]  BY Zenon, <1>0, <1>8, <2>3 DEF Submit, Goto
    <3> QED BY Zenon, <1>1, <2>1, <2>2, <3>1
  <2>4. CASE t = Recycler
    <3>1. pc[Recycler] = "submit" /\ pc'[Recycler] = "unlock"
      BY Zenon, <1>0, <1>8, <2>4 DEF Submit, Goto
    <3> QED BY Zenon, <1>2, <1>3, <2>1, <2>2, <3>1
  <2> QED BY <2>3, <2>4
<1>9. ASSUME NEW t \in Thread, Unlock(t) PROVE OrderInv'
  <2>1. UNCHANGED <<recycles, pFileFlush, spc, fpc, async_buffer>>
    BY Zenon, <1>9 DEF Unlock, flushVars
  <2>2. CASE t # Recycler
    <3>1. pc'[Recycler] = pc[Recycler]  BY Zenon, <1>0, <1>9, <2>2 DEF Unlock, Goto
    <3> QED BY <1>1, <2>1, <3>1
  <2>3. CASE t = Recycler
    <3>1. pc[Recycler] = "unlock" /\ pc'[Recycler] = "release"
      BY Zenon, <1>0, <1>9, <2>3 DEF Unlock, Goto, AfterFlush
    <3> QED BY Zenon, <1>2, <1>3, <2>1, <3>1
  <2> QED BY <2>2, <2>3
<1>10. CASE Recycle
  <2>1. /\ pc[Recycler] \in {"idle", "done"} /\ recycles' = recycles + 1
        /\ pc'[Recycler] = IF pFileFlush = "set" THEN "take" ELSE "release"
        /\ UNCHANGED <<pFileFlush, spc, fpc, async_buffer>>
    BY Zenon, <1>0, <1>10 DEF Recycle, Goto, bufferVars, flushVars
  <2> QED BY <2>1 DEF OrderInv, Over
<1>11. CASE ReleaseNative
  <2>1. /\ UNCHANGED <<recycles, pFileFlush, spc, fpc, async_buffer>>
        /\ pc[Recycler] = "release"
        /\ \/ pFileFlush = "null" /\ pc'[Recycler] = "done"
           \/ pFileFlush = "set" /\ pc'[Recycler] \in {"runlock", "rsubmit"}
    BY Zenon, <1>0, <1>11 DEF ReleaseNative, DeleteBuffer, Goto, flushVars
  <2> QED BY Zenon, <2>1 DEF OrderInv, Over
<1>12. CASE ReleaseSubmit
  <2>1. /\ UNCHANGED <<recycles, pFileFlush>>
        /\ pc[Recycler] = "rsubmit" /\ pc'[Recycler] = "runlock"
    BY Zenon, <1>0, <1>12 DEF ReleaseSubmit, Goto, bufferVars
  <2> QED BY Zenon, <1>2, <1>3, <1>7, <1>12, <2>1 DEF ReleaseSubmit
<1>13. CASE ReleaseUnlock
  <2>1. /\ UNCHANGED <<recycles, pFileFlush, spc, fpc, async_buffer>>
        /\ pc[Recycler] = "runlock" /\ pc'[Recycler] = "stop"
    BY Zenon, <1>0, <1>13 DEF ReleaseUnlock, Goto, flushVars
  <2> QED BY Zenon, <1>2, <1>3, <2>1
<1>14. CASE DeleteFileFlush
  <2>1. /\ UNCHANGED <<recycles, pFileFlush>> /\ FF!StopFlush
        /\ pc[Recycler] = "stop"
        /\ pc'[Recycler] = IF spc' = "joined" THEN "null" ELSE "stop"
    BY Zenon, <1>0, <1>14 DEF DeleteFileFlush, Goto, bufferVars
  <2> QED BY Zenon, <2>1, StopFlushEffect DEF OrderInv, Over, Still
<1>15. CASE ResetFileFlush
  <2>1. /\ UNCHANGED <<recycles, spc, fpc, async_buffer>>
        /\ pc[Recycler] = "null" /\ pc'[Recycler] = "done" /\ pFileFlush' = "null"
    BY Zenon, <1>0, <1>15 DEF ResetFileFlush, Goto, flushVars
  <2> QED BY Zenon, <2>1 DEF OrderInv, Over
<1>16. CASE FlushToFile
  <2>1. UNCHANGED <<recycles, pFileFlush, pc>>
    BY Zenon, <1>16 DEF FlushToFile, threadVars
  <2> QED BY Zenon, <1>1, <1>16, <2>1, FlushEffect
<1>17. CASE /\ FF!FlusherLock \/ FF!FlusherPop \/ FF!FlusherTestExit \/ FF!FlusherWait
            /\ UNCHANGED <<bufferVars, threadVars, faultVars, historyVars>>
  <2>1. UNCHANGED <<recycles, pFileFlush, pc>>
    BY Zenon, <1>17 DEF bufferVars, threadVars
  <2>2. CASE FF!FlusherPop  BY Zenon, <1>1, <2>1, <2>2, PopEffect
  <2>3. CASE FF!FlusherLock \/ FF!FlusherTestExit \/ FF!FlusherWait
    BY Zenon, <2>1, <2>3, IdleEffect DEF OrderInv, Over, Still
  <2> QED BY Zenon, <1>17, <2>2, <2>3
<1> QED
  BY Zenon, <1>4, <1>5, <1>6, <1>8, <1>9, <1>10, <1>11, <1>12, <1>13, <1>14, <1>15,
     <1>16, <1>17, NextSteps
-----------------------------------------------------------------------------
(* log_mtx.                                                                *)

LEMMA Moves ==
  ASSUME TypeInv, NEW t \in Thread, NEW l, Goto(t, l)
  PROVE  pc'[t] = l /\ \A u \in Thread \ {t} : pc'[u] = pc[u]
BY Zenon DEF TypeInv, Goto

\* Thread and NoOwner, as the mutex uses them.
LEMMA Threads ==
    /\ Recycler \in Thread /\ Recycler \notin Writer /\ Writer \subseteq Thread
    /\ NoOwner \notin Thread
BY Zenon, RecycleAssumption DEF Thread

\* A buffer that is gone does not come back.
LEMMA GoneStays == Next /\ buffer = "gone" => buffer' = "gone"
<1> SUFFICES ASSUME Next, buffer = "gone" PROVE buffer' = "gone"
  BY Zenon
<1> USE DEF bufferVars
<1>1. ASSUME NEW t \in Writer, NEW m \in Msg, WriteNative(t, m) PROVE buffer' = "gone"
  BY Zenon, <1>1 DEF WriteNative
<1>2. ASSUME NEW t \in Writer, AppendLog(t) \/ UseAfterFree(t) PROVE buffer' = "gone"
  BY Zenon, <1>2 DEF AppendLog, UseAfterFree
<1>3. ASSUME NEW t \in Thread, Take(t) \/ Submit(t) \/ Unlock(t) PROVE buffer' = "gone"
  BY Zenon, <1>3 DEF Take, Submit, Unlock
<1>4. CASE Recycle \/ ReleaseNative \/ ReleaseSubmit \/ ReleaseUnlock
  BY Zenon, <1>4 DEF Recycle, ReleaseNative, DeleteBuffer, ReleaseSubmit, ReleaseUnlock
<1>5. CASE DeleteFileFlush \/ ResetFileFlush
  BY Zenon, <1>5 DEF DeleteFileFlush, ResetFileFlush
<1>6. CASE FlushToFile  BY Zenon, <1>6 DEF FlushToFile
<1> QED BY Zenon, <1>1, <1>2, <1>3, <1>4, <1>5, <1>6, NextSteps

\* The FILE is open until ~Buffer closes it.
LEMMA NextFile == FileInv /\ Next => FileInv'
<1> SUFFICES ASSUME FileInv, Next PROVE FileInv'
  BY Zenon
<1> USE DEF FileInv, bufferVars
<1>1. ASSUME NEW t \in Writer, NEW m \in Msg, WriteNative(t, m) PROVE FileInv'
  BY Zenon, <1>1 DEF WriteNative
<1>2. ASSUME NEW t \in Writer, AppendLog(t) \/ UseAfterFree(t) PROVE FileInv'
  BY Zenon, <1>2 DEF AppendLog, UseAfterFree
<1>3. ASSUME NEW t \in Thread, Take(t) \/ Submit(t) \/ Unlock(t) PROVE FileInv'
  BY Zenon, <1>3 DEF Take, Submit, Unlock
<1>4. CASE Recycle \/ ReleaseNative \/ ReleaseSubmit \/ ReleaseUnlock
  BY Zenon, <1>4 DEF Recycle, ReleaseNative, DeleteBuffer, ReleaseSubmit, ReleaseUnlock
<1>5. CASE DeleteFileFlush \/ ResetFileFlush \/ FlushToFile
  BY Zenon, <1>5 DEF DeleteFileFlush, ResetFileFlush, FlushToFile
<1> QED BY Zenon, <1>1, <1>2, <1>3, <1>4, <1>5, NextSteps

LEMMA NextMutex == TypeInv /\ MutexInv /\ Next => MutexInv'
<1> SUFFICES ASSUME TypeInv, MutexInv, Next PROVE MutexInv'
  OBVIOUS
<1> USE Threads
<1> HIDE DEF Thread
\* A step of t that touches neither the mutex nor what t does under it.
<1>1. ASSUME NEW t \in Thread, NEW l, Goto(t, l), UNCHANGED owner,
             l \notin {"submit", "unlock", "rsubmit", "runlock"}
      PROVE  MutexInv'
  BY Zenon, <1>1, Moves, GoneStays DEF MutexInv
<1>2. ASSUME UNCHANGED <<pc, owner>> PROVE MutexInv'
  BY Zenon, <1>2, GoneStays DEF MutexInv
<1>3. ASSUME NEW t \in Writer, NEW m \in Msg, WriteNative(t, m) PROVE MutexInv'
  <2>1. UNCHANGED owner  BY Zenon, <1>3 DEF WriteNative, bufferVars
  <2>2. UNCHANGED pc \/ Goto(t, "take") \/ Goto(t, "append")
    BY Zenon, <1>3 DEF WriteNative, Goto
  <2> QED BY Zenon, <1>1, <1>2, <2>1, <2>2
<1>4. ASSUME NEW t \in Writer, AppendLog(t) \/ UseAfterFree(t) PROVE MutexInv'
  BY Zenon, <1>1, <1>4 DEF AppendLog, UseAfterFree, bufferVars
<1>5. ASSUME NEW t \in Thread, Take(t) PROVE MutexInv'
  <2>1. CASE UNCHANGED owner /\ Goto(t, AfterFlush(t))
    BY Zenon, <1>1, <2>1 DEF AfterFlush
  <2>2. CASE owner' = t /\ Goto(t, "submit")
    <3>1. owner = NoOwner /\ buffer = "live"  BY Zenon, <1>5 DEF Take
    <3> QED BY Zenon, <2>2, <3>1, Moves DEF MutexInv
  <2> QED BY Zenon, <1>5, <2>1, <2>2 DEF Take
<1>6. ASSUME NEW t \in Thread, Submit(t) PROVE MutexInv'
  <2>1. UNCHANGED owner /\ pc[t] = "submit" /\ Goto(t, "unlock")
    BY Zenon, <1>6 DEF Submit, bufferVars
  <2> QED BY Zenon, <2>1, Moves, GoneStays DEF MutexInv
<1>7. ASSUME NEW t \in Thread, Unlock(t) PROVE MutexInv'
  <2>1. owner = t /\ owner' = NoOwner /\ Goto(t, AfterFlush(t))
    BY Zenon, <1>7 DEF Unlock, MutexInv
  <2>2. AfterFlush(t) \notin {"submit", "unlock", "rsubmit", "runlock"}
    BY Zenon DEF AfterFlush
  <2> QED BY Zenon, <2>1, <2>2, Moves, GoneStays DEF MutexInv
<1>8. CASE Recycle
  <2>1. UNCHANGED owner  BY Zenon, <1>8 DEF Recycle, bufferVars
  <2> QED BY Zenon, <1>1, <1>8, <2>1 DEF Recycle
<1>9. CASE ReleaseNative
  <2>1. CASE pFileFlush = "null"
    BY Zenon, <1>1, <1>9, <2>1 DEF ReleaseNative, DeleteBuffer
  <2>2. CASE owner = NoOwner /\ owner' = NoOwner /\ buffer' = "gone" /\ Goto(Recycler, "runlock")
    BY Zenon, <2>2, Moves DEF MutexInv
  <2>3. CASE owner = NoOwner /\ owner' = Recycler /\ Goto(Recycler, "rsubmit")
    BY Zenon, <2>3, Moves DEF MutexInv
  <2> QED BY Zenon, <1>9, <2>1, <2>2, <2>3 DEF ReleaseNative, DeleteBuffer
<1>10. CASE ReleaseSubmit
  <2>1. UNCHANGED owner /\ pc[Recycler] = "rsubmit" /\ Goto(Recycler, "runlock")
    BY Zenon, <1>10 DEF ReleaseSubmit, bufferVars
  <2> QED BY Zenon, <2>1, Moves DEF MutexInv
<1>11. CASE ReleaseUnlock
  <2>1. owner' = NoOwner /\ pc[Recycler] = "runlock" /\ Goto(Recycler, "stop")
    BY Zenon, <1>11 DEF ReleaseUnlock
  <2> QED BY <2>1, Moves DEF MutexInv
<1>12. CASE DeleteFileFlush
  BY Zenon, <1>1, <1>2, <1>12 DEF DeleteFileFlush, bufferVars
<1>13. CASE ResetFileFlush  BY Zenon, <1>1, <1>13 DEF ResetFileFlush
<1>14. CASE FlushToFile  BY Zenon, <1>2, <1>14 DEF FlushToFile, threadVars
<1>15. CASE UNCHANGED <<bufferVars, threadVars, faultVars, historyVars>>
  BY Zenon, <1>2, <1>15 DEF bufferVars, threadVars
<1> QED
  BY Zenon, <1>3, <1>4, <1>5, <1>6, <1>7, <1>8, <1>9, <1>10, <1>11, <1>12, <1>13, <1>14,
     <1>15, NextSteps
-----------------------------------------------------------------------------
(* Who frees the buffer.                                                   *)

LEMMA OwnersStill == Still => Owners' = Owners /\ (PoppedOwns' <=> PoppedOwns)
BY Zenon DEF Still, Owners, PoppedOwns

\* AsyncFlush adds an owner when its chunk is one.
LEMMA OwnersPush ==
  ASSUME TypeInv, NEW c \in RChunk, FF!AsyncFlush(c)
  PROVE  /\ ~PoppedOwns /\ ~PoppedOwns'
         /\ spc # "running" \/ c.owns = "nothing" => Owners' = Owners
         /\ spc = "running" /\ c.owns = "buffer" =>
               Owners' = Owners \cup {Len(async_buffer) + 1}
<1>1. ~PoppedOwns /\ ~PoppedOwns'
  BY Zenon, AsyncFlushEffect DEF PoppedOwns
<1>2. CASE spc # "running"
  <2>1. async_buffer' = async_buffer  BY Zenon, <1>2, AsyncFlushEffect
  <2> QED BY Zenon, <1>1, <1>2, <2>1 DEF Owners
<1>3. CASE spc = "running"
  <2> DEFINE q == async_buffer
             r == async_buffer'
  <2>1. q \in Seq(RChunk) /\ r = Append(q, c)
    BY Zenon, <1>3, AsyncFlushEffect DEF TypeInv
  <2> HIDE DEF q, r, RChunk
  <2>2. /\ Len(q) \in Nat /\ DOMAIN q = 1 .. Len(q) /\ DOMAIN r = 1 .. Len(q) + 1
        /\ r[Len(q) + 1] = c /\ \A i \in 1 .. Len(q) : r[i] = q[i]
    BY <2>1
  <2>3. Owners = {i \in DOMAIN q : q[i].owns = "buffer"}
    BY Zenon DEF Owners, q
  <2>4. Owners' = {i \in DOMAIN r : r[i].owns = "buffer"}
    BY Zenon DEF Owners, r
  <2>5. c.owns = "nothing" => Owners' = Owners
    BY <2>2, <2>3, <2>4
  <2>6. c.owns = "buffer" => Owners' = Owners \cup {Len(q) + 1}
    BY <2>2, <2>3, <2>4
  <2> QED BY Zenon, <1>1, <1>3, <2>5, <2>6 DEF q
<1> QED BY Zenon, <1>2, <1>3

\* A popped chunk takes its ownership out of the vector.
LEMMA OwnersPop ==
  ASSUME TypeInv, FF!FlusherPop
  PROVE  /\ ~PoppedOwns
         /\ PoppedOwns' <=> Len(async_buffer) \in Owners
         /\ Owners' = Owners \ {Len(async_buffer)}
<1>1. ~PoppedOwns
  BY Zenon, PopEffect DEF PoppedOwns
<1> DEFINE q == async_buffer
           r == async_buffer'
<1>2. q \in Seq(RChunk) /\ q # <<>> /\ r = SubSeq(q, 1, Len(q) - 1)
  BY Zenon, PopEffect DEF TypeInv
<1>3. popped' = <<q[Len(q)]>> /\ fpc' = "flush"
  BY Zenon, PopEffect
<1> HIDE DEF q, r, RChunk
<1>4. /\ Len(q) \in Nat \ {0} /\ DOMAIN q = 1 .. Len(q)
      /\ DOMAIN r = 1 .. Len(q) - 1
      /\ \A i \in 1 .. Len(q) - 1 : r[i] = q[i]
  BY <1>2
<1>5. Owners = {i \in DOMAIN q : q[i].owns = "buffer"}
  BY Zenon DEF Owners, q
<1>6. Owners' = {i \in DOMAIN r : r[i].owns = "buffer"}
  BY Zenon DEF Owners, r
<1>7. Owners' = Owners \ {Len(q)}
  BY <1>4, <1>5, <1>6
<1>8. PoppedOwns' <=> q[Len(q)].owns = "buffer"
  <2>1. popped'[1] = q[Len(q)]  BY Zenon, <1>3
  <2> QED BY Zenon, <1>3, <2>1 DEF PoppedOwns
<1>9. Len(q) \in Owners <=> q[Len(q)].owns = "buffer"
  BY <1>4, <1>5
<1> QED BY Zenon, <1>1, <1>7, <1>8, <1>9 DEF q

LEMMA NextFree == TypeInv /\ OrderInv /\ FreeInv /\ Next => FreeInv'
<1> SUFFICES ASSUME TypeInv, OrderInv, FreeInv, Next PROVE FreeInv'
  BY Zenon
<1> DEFINE Used == Early \/ pc[Recycler] = "rsubmit"
<1> USE Threads
<1> HIDE DEF Thread, RChunk
<1>0. recycles \in Nat  BY Zenon DEF OrderInv
\* Steps that neither free nor pass on the ownership.
<1>1. ASSUME UNCHANGED buffer, Owners' = Owners, PoppedOwns' <=> PoppedOwns,
             Used' <=> Used, recycles' <= 1 => recycles <= 1,
             "double" \in faults' => "double" \in faults
      PROVE  FreeInv'
  BY Zenon, <1>1 DEF FreeInv
<1>2. ASSUME UNCHANGED recycles, pc'[Recycler] = pc[Recycler] PROVE Used' <=> Used
  BY Zenon, <1>2 DEF Early
<1>3. ASSUME NEW k, k # "double", Fault(k) \/ NoFault
      PROVE  "double" \in faults' => "double" \in faults
  BY Zenon, <1>3 DEF Fault, NoFault, faultVars
<1>4. ASSUME UNCHANGED flushVars PROVE Owners' = Owners /\ (PoppedOwns' <=> PoppedOwns)
  BY Zenon, <1>4 DEF flushVars, Owners, PoppedOwns
<1>5. ASSUME NEW t \in Writer, NEW m \in Msg, WriteNative(t, m) PROVE FreeInv'
  <2>1. Used' <=> Used
    <3>1. pc'[Recycler] = pc[Recycler]  BY Zenon, <1>5, Moves DEF WriteNative
    <3> QED BY Zenon, <1>2, <1>5, <3>1 DEF WriteNative
  <2>2. "double" \in faults' => "double" \in faults
    BY Zenon, <1>3, <1>5 DEF WriteNative
  <2>3. UNCHANGED <<buffer, recycles>>  BY Zenon, <1>5 DEF WriteNative, bufferVars
  <2> QED BY Zenon, <1>1, <1>4, <1>5, <2>1, <2>2, <2>3 DEF WriteNative
<1>6. ASSUME NEW t \in Writer, AppendLog(t) \/ UseAfterFree(t) PROVE FreeInv'
  <2>1. UNCHANGED <<buffer, recycles>> /\ UNCHANGED flushVars
    BY Zenon, <1>6 DEF AppendLog, UseAfterFree, bufferVars
  <2>2. pc'[Recycler] = pc[Recycler]  BY Zenon, <1>6, Moves DEF AppendLog, UseAfterFree
  <2>3. "double" \in faults' => "double" \in faults
    BY Zenon, <1>3, <1>6 DEF AppendLog, UseAfterFree, NoFault
  <2> QED BY Zenon, <1>1, <1>2, <1>4, <2>1, <2>2, <2>3
<1>7. ASSUME NEW t \in Thread, NEW l, Goto(t, l), UNCHANGED recycles,
             t = Recycler => recycles <= 1 /\ pc[t] \in EarlyPC /\ l \in EarlyPC
      PROVE  Used' <=> Used
  <2>1. CASE t = Recycler
    <3>1. Early /\ Early'  BY Zenon, <1>7, <2>1, Moves DEF Early
    <3> QED BY Zenon, <3>1
  <2>2. CASE t # Recycler  BY Zenon, <1>2, <1>7, <2>2, Moves
  <2> QED BY Zenon, <2>1, <2>2
<1>8. pc[Recycler] \in {"take", "submit", "unlock"} => recycles <= 1
  BY <1>0 DEF OrderInv
<1>9. ASSUME NEW t \in Thread, Take(t) PROVE FreeInv'
  <2>1. UNCHANGED <<buffer, recycles, faults>> /\ UNCHANGED flushVars /\ pc[t] = "take"
    BY Zenon, <1>9 DEF Take, faultVars
  <2>2. Goto(t, "submit") \/ Goto(t, AfterFlush(t))  BY Zenon, <1>9 DEF Take
  <2>3. Used' <=> Used  BY Zenon, <1>7, <1>8, <2>1, <2>2 DEF AfterFlush, EarlyPC
  <2> QED BY Zenon, <1>1, <1>4, <2>1, <2>3
<1>10. ASSUME NEW t \in Thread, Submit(t) PROVE FreeInv'
  <2>1. UNCHANGED <<buffer, recycles>> /\ pc[t] = "submit" /\ Goto(t, "unlock")
    BY Zenon, <1>10 DEF Submit, bufferVars
  <2>2. Used' <=> Used  BY Zenon, <1>7, <1>8, <2>1 DEF EarlyPC
  <2>3. chunk[t] \in RChunk /\ chunk[t].owns = "nothing"
    BY Zenon, <2>1 DEF TypeInv
  <2>4. Owners' = Owners /\ (PoppedOwns' <=> PoppedOwns)
    BY Zenon, <1>4, <1>10, <2>3, OwnersPush DEF Submit, HandOver
  <2>5. "double" \in faults' => "double" \in faults
    BY Zenon, <1>3, <1>10 DEF Submit, HandOver
  <2> QED BY Zenon, <1>1, <2>1, <2>2, <2>4, <2>5
<1>11. ASSUME NEW t \in Thread, Unlock(t) PROVE FreeInv'
  <2>1. UNCHANGED <<buffer, recycles>> /\ UNCHANGED flushVars /\ pc[t] = "unlock"
        /\ Goto(t, AfterFlush(t))
    BY Zenon, <1>11 DEF Unlock
  <2>2. Used' <=> Used  BY Zenon, <1>7, <1>8, <2>1 DEF AfterFlush, EarlyPC
  <2>3. "double" \in faults' => "double" \in faults
    BY Zenon, <1>3, <1>11 DEF Unlock, FaultIf
  <2> QED BY Zenon, <1>1, <1>4, <2>1, <2>2, <2>3
<1>12. CASE Recycle
  <2>1. /\ UNCHANGED buffer /\ UNCHANGED flushVars /\ recycles' = recycles + 1
        /\ pc[Recycler] \in {"idle", "done"}
    BY Zenon, <1>12 DEF Recycle, bufferVars
  <2>2. "double" \in faults' => "double" \in faults
    BY Zenon, <1>3, <1>12 DEF Recycle, FaultIf
  <2>3. CASE recycles = 0
    <3>1. pc'[Recycler] \in EarlyPC /\ pc[Recycler] \in EarlyPC
      BY Zenon, <1>12, <2>1, <2>3, Moves DEF Recycle, OrderInv, EarlyPC
    <3>2. Used' <=> Used  BY <2>1, <2>3, <3>1 DEF Early
    <3> QED BY <1>1, <1>4, <2>1, <2>2, <2>3, <3>2
  <2>4. CASE recycles # 0
    <3>1. ~(recycles' <= 1)  BY <1>0, <2>1, <2>4
    <3> QED BY Zenon, <3>1 DEF FreeInv
  <2> QED BY Zenon, <2>3, <2>4
<1>13. CASE ReleaseNative
  <2>1. UNCHANGED recycles /\ UNCHANGED flushVars /\ pc[Recycler] = "release"
    BY Zenon, <1>13 DEF ReleaseNative
  <2>2. SUFFICES ASSUME recycles <= 1 PROVE FreeInv'
    BY Zenon, <2>1 DEF FreeInv
  <2>3. Early /\ buffer = "live" /\ Owners = {} /\ ~PoppedOwns /\ "double" \notin faults
    BY Zenon, <2>1, <2>2 DEF Early, EarlyPC, FreeInv
  <2>4. pFileFlush = "set"
    BY <1>0, <2>1, <2>2 DEF OrderInv
  <2>5. CASE DeleteBuffer /\ Goto(Recycler, "runlock")
    <3>1. buffer' = "gone" /\ faults' = faults
      BY Zenon, <2>3, <2>5 DEF DeleteBuffer, FaultIf, NoFault, faultVars
    <3>2. pc'[Recycler] = "runlock" /\ ~Early'
      BY <2>5, Moves DEF Early, EarlyPC
    <3> QED BY Zenon, <1>4, <2>1, <2>3, <3>1, <3>2 DEF FreeInv
  <2>6. CASE Goto(Recycler, "rsubmit") /\ NoFault /\ UNCHANGED buffer
    <3>1. Used' <=> Used
      BY Zenon, <2>3, <2>6, Moves DEF Early
    <3> QED BY Zenon, <1>1, <1>4, <2>1, <2>6, <3>1 DEF NoFault, faultVars
  <2> QED BY Zenon, <1>13, <2>4, <2>5, <2>6 DEF ReleaseNative
<1>14. CASE ReleaseSubmit
  <2>1. /\ UNCHANGED <<buffer, recycles, faults>>
        /\ pc[Recycler] = "rsubmit" /\ Goto(Recycler, "runlock")
        /\ FF!AsyncFlush(chunk[Recycler])
    BY Zenon, <1>14 DEF ReleaseSubmit, bufferVars, faultVars
  <2>2. SUFFICES ASSUME recycles <= 1 PROVE FreeInv'
    BY Zenon, <2>1 DEF FreeInv
  <2>3. chunk[Recycler] \in RChunk /\ chunk[Recycler].owns = "buffer"
    BY Zenon, <2>1 DEF TypeInv
  <2>4. spc = "running"
    BY Zenon, <1>0, <2>1, <2>2 DEF OrderInv, Over
  <2>5. buffer = "live" /\ Owners = {} /\ "double" \notin faults
    BY Zenon, <2>1, <2>2 DEF FreeInv
  <2>6. Owners' = {Len(async_buffer) + 1} /\ ~PoppedOwns'
    BY Zenon, <2>1, <2>3, <2>4, <2>5, OwnersPush
  <2>7. pc'[Recycler] = "runlock" /\ ~Early'
    BY <2>1, Moves DEF Early, EarlyPC
  <2> QED BY Zenon, <2>1, <2>5, <2>6, <2>7 DEF FreeInv
<1>15. ASSUME pc[Recycler] \in {"runlock", "stop", "null"}, UNCHANGED recycles,
              pc'[Recycler] \in {"stop", "null", "done"}
       PROVE  Used' <=> Used
  BY Zenon, <1>15 DEF Early, EarlyPC
<1>16. CASE ReleaseUnlock
  <2>1. UNCHANGED <<buffer, recycles>> /\ UNCHANGED flushVars /\ pc[Recycler] = "runlock"
        /\ Goto(Recycler, "stop")
    BY Zenon, <1>16 DEF ReleaseUnlock
  <2>2. Used' <=> Used  BY Zenon, <1>15, <2>1, Moves
  <2>3. "double" \in faults' => "double" \in faults
    BY Zenon, <1>3, <1>16 DEF ReleaseUnlock, FaultIf
  <2> QED BY Zenon, <1>1, <1>4, <2>1, <2>2, <2>3
<1>17. CASE DeleteFileFlush
  <2>1. UNCHANGED <<buffer, recycles, faults>> /\ pc[Recycler] = "stop" /\ FF!StopFlush
    BY Zenon, <1>17 DEF DeleteFileFlush, bufferVars, faultVars
  <2>2. pc'[Recycler] \in {"stop", "null"}
    BY Zenon, <1>17, <2>1, Moves DEF DeleteFileFlush
  <2>3. Used' <=> Used  BY Zenon, <1>15, <2>1, <2>2
  <2> QED BY Zenon, <1>1, <2>1, <2>3, StopFlushEffect, OwnersStill
<1>18. CASE ResetFileFlush
  <2>1. UNCHANGED <<buffer, recycles, faults>> /\ UNCHANGED flushVars
        /\ pc[Recycler] = "null" /\ Goto(Recycler, "done")
    BY Zenon, <1>18 DEF ResetFileFlush, faultVars
  <2>2. Used' <=> Used  BY Zenon, <1>15, <2>1, Moves
  <2> QED BY Zenon, <1>1, <1>4, <2>1, <2>2
<1>19. CASE FlushToFile
  <2>1. UNCHANGED <<recycles, pc>>
    BY Zenon, <1>19 DEF FlushToFile, threadVars
  <2>2. SUFFICES ASSUME recycles <= 1 PROVE FreeInv'
    BY Zenon, <2>1 DEF FreeInv
  <2>3. Used' <=> Used  BY Zenon, <1>2, <2>1
  <2>4. Owners' = Owners /\ ~PoppedOwns'
    BY Zenon, <1>19, FlushEffect DEF Owners, PoppedOwns
  <2>5. CASE PoppedOwns
    <3>1. ~Used /\ buffer = "live" /\ Owners = {} /\ "double" \notin faults
      BY Zenon, <2>2, <2>5 DEF FreeInv
    <3>2. buffer' = "gone" /\ "double" \notin faults'
      BY Zenon, <1>19, <2>5, <3>1, FlushEffect DEF FlushToFile, PoppedOwns
    <3> QED BY Zenon, <2>1, <2>2, <2>3, <2>4, <3>1, <3>2 DEF FreeInv
  <2>6. CASE ~PoppedOwns
    <3>1. buffer' = buffer /\ ("double" \in faults' => "double" \in faults)
      BY Zenon, <1>19, <2>6, FlushEffect DEF FlushToFile, PoppedOwns
    <3> QED BY Zenon, <1>1, <2>1, <2>3, <2>4, <2>6, <3>1
  <2> QED BY Zenon, <2>5, <2>6
<1>20. CASE /\ FF!FlusherLock \/ FF!FlusherPop \/ FF!FlusherTestExit \/ FF!FlusherWait
            /\ UNCHANGED <<bufferVars, threadVars, faultVars, historyVars>>
  <2>1. UNCHANGED <<recycles, pc, buffer, faults>>
    BY Zenon, <1>20 DEF bufferVars, threadVars, faultVars
  <2>2. Used' <=> Used  BY Zenon, <1>2, <2>1
  <2>3. CASE FF!FlusherLock \/ FF!FlusherTestExit \/ FF!FlusherWait
    BY Zenon, <1>1, <2>1, <2>2, <2>3, IdleEffect, OwnersStill
  <2>4. CASE FF!FlusherPop
    <3>1. /\ ~PoppedOwns
          /\ PoppedOwns' <=> Len(async_buffer) \in Owners
          /\ Owners' = Owners \ {Len(async_buffer)}
      BY Zenon, <2>4, OwnersPop
    <3> QED BY Zenon, <2>1, <2>2, <3>1 DEF FreeInv
  <2> QED BY Zenon, <1>20, <2>3, <2>4
<1> QED
  BY Zenon, <1>5, <1>6, <1>9, <1>10, <1>11, <1>12, <1>13, <1>14, <1>16, <1>17, <1>18,
     <1>19, <1>20, NextSteps
-----------------------------------------------------------------------------
(* What was appended.                                                      *)

LEMMA QueuedStill == Still => Queued' = Queued
BY Zenon DEF Still, Queued

\* Before StopFlush, AsyncFlush queues the messages of its chunk.
LEMMA QueuedPush ==
  ASSUME TypeInv, NEW c \in RChunk, FF!AsyncFlush(c)
  PROVE  /\ Queued \subseteq Queued'
         /\ spc = "running" => Range(c.msgs) \subseteq Queued'
<1>1. async_buffer \in Seq(RChunk)  BY Zenon DEF TypeInv
<1>2. Range(c.msgs) \subseteq Msg  BY DEF RChunk, Range
<1> HIDE DEF RChunk
<1>3. popped' = popped
  BY Zenon, AsyncFlushEffect
<1>4. CASE spc = "running"
  <2>1. Range(async_buffer') = Range(async_buffer) \cup {c}
    <3>1. async_buffer' = Append(async_buffer, c)  BY Zenon, <1>4, AsyncFlushEffect
    <3>2. Range(Append(async_buffer, c)) = Range(async_buffer) \cup {c}
      BY <1>1, RangeAppend
    <3> QED BY Zenon, <3>1, <3>2
  <2> QED BY Zenon, <1>2, <1>3, <2>1 DEF Queued
<1>5. CASE spc # "running"
  <2>1. async_buffer' = async_buffer  BY Zenon, <1>5, AsyncFlushEffect
  <2> QED BY Zenon, <1>3, <1>5, <2>1 DEF Queued
<1> QED BY Zenon, <1>4, <1>5

\* A popped chunk is still on its way ...
LEMMA QueuedPop ==
  ASSUME TypeInv, FF!FlusherPop
  PROVE  Queued \subseteq Queued'
<1>1. async_buffer \in Seq(RChunk)  BY Zenon DEF TypeInv
<1> HIDE DEF RChunk
<1>2. /\ async_buffer # <<>> /\ popped = <<>>
      /\ popped' = <<async_buffer[Len(async_buffer)]>>
      /\ async_buffer' = SubSeq(async_buffer, 1, Len(async_buffer) - 1)
  BY Zenon, PopEffect
<1>3. Range(async_buffer) = Range(async_buffer') \cup {async_buffer[Len(async_buffer)]}
  BY Zenon, <1>1, <1>2, RangeFrontLast
<1>4. Range(popped') = {async_buffer[Len(async_buffer)]}
  BY Zenon, <1>2, RangeSingle
<1>5. Range(popped) = {}
  BY Zenon, <1>2, RangeEmpty
<1> QED BY Zenon, <1>3, <1>4, <1>5 DEF Queued

\* ... and a flushed one is in the file, if that is open.
LEMMA QueuedFlush ==
  ASSUME TypeInv, FileInv, FlushToFile
  PROVE  "closed" \in faults' \/ infile \cup Queued \subseteq infile' \cup Queued'
<1> DEFINE c == popped[1]
<1>1. /\ async_buffer' = async_buffer /\ popped = <<c>> /\ Head(popped) = c
  BY Zenon, FlushEffect
<1>2. CASE file = "closed"
  BY Zenon, <1>2 DEF FlushToFile
<1>3. CASE file = "open"
  <2>1. infile' = infile \cup Range(c.msgs)
    BY Zenon, <1>1, <1>3 DEF FlushToFile
  <2> HIDE DEF c
  <2>2. Range(popped) = {c}
    BY Zenon, <1>1, RangeSingle
  <2> QED BY Zenon, <1>1, <2>1, <2>2 DEF Queued
<1> QED BY Zenon, <1>2, <1>3 DEF FileInv

\* A fault that was noted stays noted.
LEMMA FaultsStay == Next => faults \subseteq faults'
<1> SUFFICES ASSUME Next PROVE faults \subseteq faults'
  BY Zenon
<1>1. ASSUME NEW k, Fault(k) \/ NoFault PROVE faults \subseteq faults'
  BY Zenon, <1>1 DEF Fault, NoFault, faultVars
<1>2. ASSUME NEW t \in Writer, NEW m \in Msg, WriteNative(t, m) PROVE faults \subseteq faults'
  BY Zenon, <1>1, <1>2 DEF WriteNative
<1>3. ASSUME NEW t \in Writer, AppendLog(t) \/ UseAfterFree(t) PROVE faults \subseteq faults'
  BY Zenon, <1>1, <1>3 DEF AppendLog, UseAfterFree, NoFault
<1>4. ASSUME NEW t \in Thread, Take(t) \/ Submit(t) \/ Unlock(t) PROVE faults \subseteq faults'
  BY Zenon, <1>1, <1>4 DEF Take, Submit, HandOver, Unlock, FaultIf, NoFault
<1>5. CASE Recycle \/ ReleaseNative \/ ReleaseSubmit \/ ReleaseUnlock
  BY Zenon, <1>1, <1>5 DEF Recycle, ReleaseNative, DeleteBuffer, ReleaseSubmit,
     ReleaseUnlock, FaultIf, NoFault
<1>6. CASE DeleteFileFlush \/ ResetFileFlush
  BY Zenon, <1>1, <1>6 DEF DeleteFileFlush, ResetFileFlush, NoFault
<1>7. CASE FlushToFile  BY Zenon, <1>7 DEF FlushToFile
<1>8. CASE UNCHANGED <<bufferVars, threadVars, faultVars, historyVars>>
  BY Zenon, <1>1, <1>8 DEF NoFault
<1> QED BY Zenon, <1>2, <1>3, <1>4, <1>5, <1>6, <1>7, <1>8, NextSteps

LEMMA NextSaved == IInv /\ Next => SavedInv'
<1> SUFFICES ASSUME IInv, Next PROVE SavedInv'
  BY Zenon
<1> USE Threads
<1> HIDE DEF Thread, RChunk
<1>0. TypeInv /\ OrderInv /\ MutexInv /\ FileInv /\ SavedInv  BY Zenon DEF IInv
<1>1. "closed" \in faults => "closed" \in faults'  BY Zenon, FaultsStay
\* Every message that was safe stays safe.
<1>2. ASSUME \A m : Safe(m) => Safe(m)', Due' = Due PROVE SavedInv'
  BY Zenon, <1>0, <1>1, <1>2 DEF SavedInv
<1>3. ASSUME infile \cup Queued \subseteq infile' \cup Queued',
             Early => \A m \in Range(content) : Safe(m)',
             Early => \A u \in Thread : pc[u] = "submit" =>
                         \A m \in Range(chunk[u].msgs) : Safe(m)',

             pc[Recycler] = "rsubmit" => \A m \in Range(chunk[Recycler].msgs) : Safe(m)'
      PROVE  \A m : Safe(m) => Safe(m)'
  BY Zenon, <1>3 DEF Safe
<1>4. ASSUME UNCHANGED <<recycles, stored, before>> PROVE Due' = Due
  BY Zenon, <1>4 DEF Due
<1>5. ASSUME UNCHANGED flushVars PROVE Queued' = Queued
  BY Zenon, <1>5 DEF flushVars, Queued
<1>6. ASSUME infile \cup Queued \subseteq infile' \cup Queued',
             UNCHANGED <<chunk, recycles, stored, before>>, pc'[Recycler] = pc[Recycler],
             Range(content) \subseteq Range(content'),
             \A u \in Thread : pc[u] = "submit" => pc'[u] = "submit"
      PROVE  SavedInv'
  <2>1. Early' <=> Early  BY Zenon, <1>6 DEF Early
  <2>2. \A m : Safe(m) => Safe(m)'  BY Zenon, <1>6, <2>1 DEF Safe
  <2> QED BY Zenon, <1>2, <1>4, <1>6, <2>2
<1>7. ASSUME NEW t \in Writer, NEW m \in Msg, WriteNative(t, m) PROVE SavedInv'
  <2>1. UNCHANGED <<content, infile, chunk, recycles, stored, before>> /\ UNCHANGED flushVars
        /\ pc[t] = "idle"
    BY Zenon, <1>7 DEF WriteNative, bufferVars
  <2>2. \A u \in Thread \ {t} : pc'[u] = pc[u]
    BY Zenon, <1>0, <1>7, Moves DEF WriteNative
  <2> QED BY Zenon, <1>5, <1>6, <2>1, <2>2
<1>8. ASSUME NEW t \in Writer, UseAfterFree(t) PROVE SavedInv'
  <2>1. UNCHANGED <<content, infile, chunk, recycles, stored, before>> /\ UNCHANGED flushVars
        /\ pc[t] # "submit"
    BY Zenon, <1>8 DEF UseAfterFree, bufferVars, historyVars
  <2>2. \A u \in Thread \ {t} : pc'[u] = pc[u]
    BY Zenon, <1>0, <1>8, Moves DEF UseAfterFree
  <2> QED BY Zenon, <1>5, <1>6, <2>1, <2>2
<1>9. ASSUME NEW t \in Writer, AppendLog(t) PROVE SavedInv'
  <2>1. UNCHANGED <<infile, chunk, recycles, before>> /\ UNCHANGED flushVars
        /\ pc[t] = "append"
    BY Zenon, <1>9 DEF AppendLog
  <2>2. \A u \in Thread \ {t} : pc'[u] = pc[u]
    BY Zenon, <1>0, <1>9, Moves DEF AppendLog
  <2>3. CASE content' = content /\ stored' = stored
    BY Zenon, <1>5, <1>6, <2>1, <2>2, <2>3
  <2>4. CASE content' = Append(content, arg[t]) /\ stored' = stored \cup {arg[t]}
    <3>1. content \in Seq(Msg) /\ arg[t] \in Msg
      BY Zenon, <1>0, <2>1 DEF TypeInv
    <3>2. Range(content') = Range(content) \cup {arg[t]}
      <4>1. Range(Append(content, arg[t])) = Range(content) \cup {arg[t]}
        BY <3>1, RangeAppend
      <4> QED BY Zenon, <2>4, <4>1
    <3>3. Early' <=> Early  BY Zenon, <2>1, <2>2 DEF Early
    <3>4. \A u \in Thread : pc[u] = "submit" => pc'[u] = "submit"
      BY Zenon, <2>1, <2>2
    <3>5. \A m : Safe(m) => Safe(m)'
      BY Zenon, <1>5, <2>1, <2>2, <3>2, <3>3, <3>4 DEF Safe
    <3>6. CASE recycles = 0
      <4>1. Early  BY <1>0, <3>6 DEF Early, EarlyPC, OrderInv
      <4>2. PICK a : a = arg[t]  BY Zenon
      <4>3. Safe(a)'  BY Zenon, <3>2, <3>3, <4>1, <4>2 DEF Safe
      <4>4. Due' = Due \cup {a}  BY Zenon, <2>1, <2>4, <3>6, <4>2 DEF Due
      <4> QED BY Zenon, <1>0, <1>1, <3>5, <4>3, <4>4 DEF SavedInv

    <3>7. CASE recycles # 0
      <4>1. Due' = Due  BY Zenon, <2>1, <3>7 DEF Due
      <4> QED BY Zenon, <1>2, <3>5, <4>1
    <3> QED BY Zenon, <3>6, <3>7
  <2> QED BY Zenon, <1>9, <2>3, <2>4 DEF AppendLog
<1>10. pc[Recycler] \in {"take", "submit", "unlock"} => Early
  BY <1>0 DEF Early, EarlyPC, OrderInv
<1>11. ASSUME NEW t \in Thread, Take(t) PROVE SavedInv'
  <2>1. UNCHANGED <<infile, recycles, stored, before>> /\ UNCHANGED flushVars
        /\ pc[t] = "take" /\ owner = NoOwner
    BY Zenon, <1>11 DEF Take, historyVars
  <2>2. \A u \in Thread \ {t} : pc'[u] = pc[u]
    BY Zenon, <1>0, <1>11, Moves DEF Take
  <2>3. pc'[t] \in {"submit", "append", "release"} /\ (pc'[t] = "append" => t # Recycler)
    BY <1>0, <1>11, Moves DEF Take, AfterFlush
  <2>4. Early' <=> Early
    <3>1. CASE t = Recycler
      <4>1. Early  BY Zenon, <1>10, <2>1, <3>1
      <4> QED BY Zenon, <2>1, <2>3, <3>1, <4>1 DEF Early, EarlyPC
    <3>2. CASE t # Recycler  BY Zenon, <2>1, <2>2, <3>2 DEF Early
    <3> QED BY Zenon, <3>1, <3>2
  <2>5. \A u \in Thread : pc[u] # "submit"
    BY Zenon, <1>0, <2>1 DEF MutexInv
  <2>6. pc[Recycler] # "rsubmit"
    BY Zenon, <1>0, <2>1 DEF MutexInv
  <2>7. Early => \A m \in Range(content) : Safe(m)'
    <3>1. CASE /\ chunk' = [chunk EXCEPT ![t] = [msgs |-> content, owns |-> "nothing"]]
               /\ Goto(t, "submit")
      <4>1. pc'[t] = "submit"  BY Zenon, <1>0, <3>1, Moves
      <4>2. chunk'[t].msgs = content
        BY Zenon, <1>0, <3>1 DEF TypeInv
      <4> QED BY Zenon, <2>4, <4>1, <4>2 DEF Safe
    <3>2. CASE UNCHANGED content  BY Zenon, <2>4, <3>2 DEF Safe
    <3> QED BY Zenon, <1>11, <3>1, <3>2 DEF Take
  <2>8. infile \cup Queued \subseteq infile' \cup Queued'
    BY Zenon, <1>5, <2>1
  <2>9. \A m : Safe(m) => Safe(m)'
    BY Zenon, <1>3, <2>5, <2>6, <2>7, <2>8
  <2> QED BY Zenon, <1>2, <1>4, <2>1, <2>9
<1>12. ASSUME NEW t \in Thread, Submit(t) PROVE SavedInv'
  <2>1. UNCHANGED <<content, infile, recycles, stored, before>> /\ pc[t] = "submit"
        /\ Goto(t, "unlock") /\ chunk' = [chunk EXCEPT ![t] = NoChunk] /\ HandOver(t)
    BY Zenon, <1>12 DEF Submit, bufferVars, historyVars
  <2>2. pc'[t] = "unlock" /\ \A u \in Thread \ {t} : pc'[u] = pc[u] /\ chunk'[u] = chunk[u]
    BY Zenon, <1>0, <2>1, Moves DEF TypeInv
  <2>3. chunk[t] \in RChunk  BY Zenon, <1>0, <2>1 DEF TypeInv
  <2>4. Early' <=> Early
    <3>1. CASE t = Recycler
      <4>1. Early  BY Zenon, <1>10, <2>1, <3>1
      <4> QED BY Zenon, <2>1, <2>2, <3>1, <4>1 DEF Early, EarlyPC
    <3>2. CASE t # Recycler  BY Zenon, <2>1, <2>2, <3>2 DEF Early
    <3> QED BY Zenon, <3>1, <3>2
  <2>5. infile \cup Queued \subseteq infile' \cup Queued'
    <3>1. Queued \subseteq Queued'
      BY Zenon, <1>0, <1>5, <2>1, <2>3, QueuedPush DEF HandOver
    <3> QED BY Zenon, <2>1, <3>1
  <2>6. Early => spc = "running"
    BY <1>0 DEF Early, EarlyPC, OrderInv, Over
  <2>7. Early => Range(chunk[t].msgs) \subseteq Queued'
    BY Zenon, <1>0, <2>1, <2>3, <2>6, QueuedPush DEF HandOver
  <2>8. Early => \A u \in Thread : pc[u] = "submit" => \A m \in Range(chunk[u].msgs) : Safe(m)'
    <3>1. ASSUME Early, NEW u \in Thread, pc[u] = "submit", NEW m \in Range(chunk[u].msgs)
          PROVE  Safe(m)'
      <4>1. CASE u = t  BY Zenon, <2>7, <3>1, <4>1 DEF Safe
      <4>2. CASE u # t  BY Zenon, <2>2, <2>4, <3>1, <4>2 DEF Safe
      <4> QED BY Zenon, <4>1, <4>2
    <3> QED BY Zenon, <3>1
  <2>9. Early => \A m \in Range(content) : Safe(m)'
    BY Zenon, <2>1, <2>4 DEF Safe
  <2>10. pc[Recycler] = "rsubmit" => \A m \in Range(chunk[Recycler].msgs) : Safe(m)'
    <3>1. pc[Recycler] = "rsubmit" => Recycler # t  BY Zenon, <2>1
    <3> QED BY Zenon, <2>2, <3>1 DEF Safe
  <2>11. \A m : Safe(m) => Safe(m)'
    BY Zenon, <1>3, <2>5, <2>8, <2>9, <2>10
  <2> QED BY Zenon, <1>2, <1>4, <2>1, <2>11
<1>13. ASSUME NEW t \in Thread, Unlock(t) PROVE SavedInv'
  <2>1. UNCHANGED <<content, infile, chunk, recycles, stored, before>> /\ UNCHANGED flushVars
        /\ pc[t] = "unlock"
    BY Zenon, <1>13 DEF Unlock, historyVars
  <2>2. pc'[t] = AfterFlush(t) /\ \A u \in Thread \ {t} : pc'[u] = pc[u]
    BY Zenon, <1>0, <1>13, Moves DEF Unlock
  <2>3. CASE t # Recycler  BY Zenon, <1>5, <1>6, <2>1, <2>2, <2>3
  <2>4. CASE t = Recycler
    <3>1. Early /\ Early' /\ pc[Recycler] # "rsubmit"
      BY Zenon, <1>10, <2>1, <2>2, <2>4 DEF Early, EarlyPC, AfterFlush
    <3>2. \A u \in Thread : pc[u] = "submit" => pc'[u] = "submit"
      BY Zenon, <2>1, <2>2
    <3>3. \A m : Safe(m) => Safe(m)'
      BY Zenon, <1>5, <2>1, <3>1, <3>2 DEF Safe
    <3> QED BY Zenon, <1>2, <1>4, <2>1, <3>3
  <2> QED BY Zenon, <2>3, <2>4
<1>14. CASE Recycle
  <2>1. /\ UNCHANGED <<content, infile, chunk, stored>> /\ UNCHANGED flushVars
        /\ pc[Recycler] \in {"idle", "done"}
        /\ recycles' = recycles + 1
        /\ before' = IF recycles = 0 THEN stored ELSE before
    BY Zenon, <1>14 DEF Recycle, bufferVars
  <2>2. /\ pc'[Recycler] \in {"take", "release"}
        /\ \A u \in Thread \ {Recycler} : pc'[u] = pc[u]
    BY Zenon, <1>0, <1>14, Moves DEF Recycle
  <2>3. Due' = Due  BY <1>0, <2>1 DEF Due, OrderInv
  <2>4. Early => Early'
    BY <1>0, <2>1, <2>2 DEF Early, EarlyPC, OrderInv
  <2>5. \A u \in Thread : pc[u] = "submit" => pc'[u] = "submit"
    BY Zenon, <2>1, <2>2
  <2>6. pc[Recycler] # "rsubmit"  BY Zenon, <2>1
  <2>7. \A m : Safe(m) => Safe(m)'
    BY Zenon, <1>5, <2>1, <2>4, <2>5, <2>6 DEF Safe
  <2> QED BY Zenon, <1>2, <2>3, <2>7
<1>15. CASE ReleaseNative
  <2>1. /\ UNCHANGED <<infile, recycles, stored, before>> /\ UNCHANGED flushVars
        /\ pc[Recycler] = "release"
    BY Zenon, <1>15 DEF ReleaseNative, historyVars
  <2>2. infile \cup Queued \subseteq infile' \cup Queued'  BY Zenon, <1>5, <2>1
  <2>3. CASE pFileFlush = "null"
    <3>1. ~Early  BY <1>0, <2>1, <2>3 DEF Early, OrderInv
    <3>2. \A m : Safe(m) => Safe(m)'
      BY Zenon, <1>3, <2>1, <2>2, <3>1
    <3> QED BY Zenon, <1>2, <1>4, <2>1, <3>2
  <2>4. CASE owner = NoOwner /\ content = <<>>
    <3>1. \A u \in Thread : pc[u] # "submit"  BY Zenon, <1>0, <2>4 DEF MutexInv
    <3>2. Range(content) = {}  BY Zenon, <2>4, RangeEmpty
    <3>3. \A m : Safe(m) => Safe(m)'
      BY Zenon, <1>3, <2>1, <2>2, <3>1, <3>2
    <3> QED BY Zenon, <1>2, <1>4, <2>1, <3>3
  <2>5. CASE /\ owner = NoOwner
             /\ chunk' = [chunk EXCEPT ![Recycler] = [msgs |-> content, owns |-> "buffer"]]
             /\ Goto(Recycler, "rsubmit")
    <3>1. \A u \in Thread : pc[u] # "submit"  BY Zenon, <1>0, <2>5 DEF MutexInv
    <3>2. pc'[Recycler] = "rsubmit" /\ chunk'[Recycler].msgs = content
      BY Zenon, <1>0, <2>5, Moves DEF TypeInv
    <3>3. \A m \in Range(content) : Safe(m)'  BY Zenon, <3>2 DEF Safe
    <3>4. \A m : Safe(m) => Safe(m)'
      BY Zenon, <1>3, <2>1, <2>2, <3>1, <3>3
    <3> QED BY Zenon, <1>2, <1>4, <2>1, <3>4
  <2> QED BY Zenon, <1>15, <2>3, <2>4, <2>5 DEF ReleaseNative
<1>16. CASE ReleaseSubmit
  <2>1. /\ UNCHANGED <<content, infile, recycles, stored, before>>
        /\ pc[Recycler] = "rsubmit" /\ FF!AsyncFlush(chunk[Recycler])
    BY Zenon, <1>16 DEF ReleaseSubmit, bufferVars, historyVars
  <2>2. ~Early /\ spc = "running"
    BY Zenon, <1>0, <2>1 DEF Early, EarlyPC, OrderInv, Over
  <2>3. chunk[Recycler] \in RChunk  BY Zenon, <1>0, <2>1 DEF TypeInv
  <2>4. Queued \cup Range(chunk[Recycler].msgs) \subseteq Queued'
    BY Zenon, <1>0, <2>1, <2>2, <2>3, QueuedPush
  <2>5. \A m : Safe(m) => Safe(m)'  BY Zenon, <2>1, <2>2, <2>4 DEF Safe
  <2> QED BY Zenon, <1>2, <1>4, <2>1, <2>5
<1>17. CASE ReleaseUnlock \/ ResetFileFlush
  <2>1. /\ UNCHANGED <<infile, recycles, stored, before>> /\ UNCHANGED flushVars
        /\ pc[Recycler] \in {"runlock", "null"}
    BY Zenon, <1>17 DEF ReleaseUnlock, ResetFileFlush, historyVars
  <2>2. ~Early /\ pc[Recycler] # "rsubmit"  BY Zenon, <2>1 DEF Early, EarlyPC
  <2>3. \A m : Safe(m) => Safe(m)'  BY Zenon, <1>5, <2>1, <2>2 DEF Safe
  <2> QED BY Zenon, <1>2, <1>4, <2>1, <2>3
<1>18. CASE DeleteFileFlush
  <2>1. /\ UNCHANGED <<infile, recycles, stored, before>> /\ FF!StopFlush
        /\ pc[Recycler] = "stop"
    BY Zenon, <1>18 DEF DeleteFileFlush, historyVars
  <2>2. ~Early /\ pc[Recycler] # "rsubmit"  BY Zenon, <2>1 DEF Early, EarlyPC
  <2>3. Queued' = Queued  BY Zenon, <2>1, StopFlushEffect, QueuedStill
  <2>4. \A m : Safe(m) => Safe(m)'  BY Zenon, <2>1, <2>2, <2>3 DEF Safe
  <2> QED BY Zenon, <1>2, <1>4, <2>1, <2>4
<1>19. CASE FlushToFile
  <2>1. UNCHANGED <<content, pc, chunk, recycles, stored, before>>
    BY Zenon, <1>19 DEF FlushToFile, threadVars
  <2>2. CASE "closed" \in faults'  BY Zenon, <2>2 DEF SavedInv
  <2>3. CASE infile \cup Queued \subseteq infile' \cup Queued'
    BY Zenon, <1>6, <2>1, <2>3
  <2> QED BY Zenon, <1>0, <1>19, <2>2, <2>3, QueuedFlush
<1>20. CASE /\ FF!FlusherLock \/ FF!FlusherPop \/ FF!FlusherTestExit \/ FF!FlusherWait
            /\ UNCHANGED <<bufferVars, threadVars, faultVars, historyVars>>
  <2>1. UNCHANGED <<content, infile, pc, chunk, recycles, stored, before>>
    BY Zenon, <1>20 DEF bufferVars, threadVars, historyVars
  <2>2. Queued \subseteq Queued'
    BY Zenon, <1>0, <1>20, QueuedPop, QueuedStill, IdleEffect
  <2> QED BY Zenon, <1>6, <2>1, <2>2
<1> QED
  BY Zenon, <1>7, <1>8, <1>9, <1>11, <1>12, <1>13, <1>14, <1>15, <1>16, <1>17, <1>18,
     <1>19, <1>20, NextSteps
-----------------------------------------------------------------------------
LEMMA InitIInv == Init => IInv
<1> SUFFICES ASSUME Init PROVE IInv
  BY Zenon
<1> USE Threads DEF Init, FF!Init
<1> HIDE DEF Thread, RChunk
<1>1. TypeInv
  BY DEF TypeInv, WriterPC, EarlyPC
<1>2. OrderInv  BY DEF OrderInv, Over
<1>3. MutexInv /\ FileInv  BY Zenon DEF MutexInv, FileInv
<1>4. FreeInv
  <2>1. Owners = {} /\ ~PoppedOwns  BY DEF Owners, PoppedOwns
  <2> QED BY Zenon, <2>1 DEF FreeInv, Early, EarlyPC
<1>5. SavedInv  BY Zenon DEF SavedInv, Due
<1> QED BY Zenon, <1>1, <1>2, <1>3, <1>4, <1>5 DEF IInv

LEMMA Inductive == IInv /\ [Next]_vars => IInv'
<1> SUFFICES ASSUME IInv, [Next]_vars PROVE IInv'
  BY Zenon
<1>1. CASE Next
  <2>1. TypeInv'
    <3>1. HandInv' /\ StoreInv'  BY Zenon, <1>1, NextHands, NextStore DEF IInv
    <3> QED BY Zenon, <3>1 DEF TypeInv, HandInv, StoreInv
  <2> QED BY Zenon, <1>1, <2>1, NextOrder, NextMutex, NextFile, NextFree, NextSaved DEF IInv
<1>2. CASE UNCHANGED vars
  <2> USE <1>2 DEF vars, bufferVars, threadVars, faultVars, historyVars, flushVars
  <2>1. TypeInv'  BY Zenon DEF IInv, TypeInv
  <2>2. OrderInv'  BY Zenon DEF IInv, OrderInv, Over
  <2>3. MutexInv' /\ FileInv'  BY Zenon DEF IInv, MutexInv, FileInv
  <2>4. FreeInv'  BY Zenon DEF IInv, FreeInv, Owners, PoppedOwns, Early
  <2>5. SavedInv'  BY Zenon DEF IInv, SavedInv, Safe, Due, Queued, Early
  <2> QED BY Zenon, <2>1, <2>2, <2>3, <2>4, <2>5 DEF IInv
<1> QED BY Zenon, <1>1, <1>2

\* When recycle has returned the FileFlush has nothing left to write or free.
LEMMA Drained ==
  ASSUME IInv, pc[Recycler] = "done"
  PROVE  Owners = {} /\ ~PoppedOwns /\ Queued = {}
<1>1. spc = "joined" /\ fpc = "done" /\ async_buffer = <<>>
  BY Zenon DEF IInv, OrderInv, Over
<1>2. popped = <<>>
  BY <1>1 DEF IInv, TypeInv
<1>3. Owners = {} /\ ~PoppedOwns
  BY <1>1 DEF Owners, PoppedOwns
<1>4. Queued = {}
  BY Zenon, <1>1, <1>2, RangeEmpty DEF Queued
<1> QED BY Zenon, <1>3, <1>4

\* The first recycle frees the buffer exactly once, whoever logs meanwhile: at
\* once when it is empty, else by the last chunk, which the flusher has flushed
\* when StopFlush returns (zap.cpp:121, zap_buffer.cpp:110-131).
THEOREM FreedExactlyOnceHolds == SafetySpec => []FreedExactlyOnce
<1>1. IInv => FreedExactlyOnce
  <2> SUFFICES ASSUME IInv, recycles = 1
               PROVE  /\ "double" \notin faults
                      /\ pc[Recycler] = "done" => buffer = "gone"
    BY Zenon DEF FreedExactlyOnce
  <2>1. "double" \notin faults  BY DEF IInv, FreeInv
  <2>2. ASSUME pc[Recycler] = "done" PROVE buffer = "gone"
    BY <2>2, Drained DEF IInv, FreeInv, Early, EarlyPC
  <2> QED BY Zenon, <2>1, <2>2
<1> QED BY <1>1, InitIInv, Inductive, PTL DEF SafetySpec

\* What was appended before the first recycle is in the file when a recycle
\* has returned, unless a chunk reached the flusher after its FILE was closed:
\* recycle takes the buffer under log_mtx, and StopFlush drains the vector
\* (ZapPrint.java:214, zap_buffer.cpp:106-131, zap_file_flush.cpp:50).
THEOREM RecycledIsWrittenHolds == SafetySpec => []RecycledIsWritten
<1>1. IInv => RecycledIsWritten
  <2> SUFFICES ASSUME IInv, pc[Recycler] = "done", "closed" \notin faults
               PROVE  before \subseteq infile
    BY Zenon DEF RecycledIsWritten
  <2>1. recycles # 0 /\ ~Early
    BY Zenon DEF IInv, OrderInv, Early, EarlyPC
  <2>2. \A m \in before : Safe(m)
    BY Zenon, <2>1 DEF IInv, SavedInv, Due
  <2>3. Queued = {}  BY Zenon, Drained
  <2>4. pc[Recycler] # "rsubmit"  BY Zenon
  <2> QED BY Zenon, <2>1, <2>2, <2>3, <2>4 DEF Safe
<1> QED BY <1>1, InitIInv, Inductive, PTL DEF SafetySpec
=============================================================================
