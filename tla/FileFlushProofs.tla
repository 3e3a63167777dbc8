-------------------------- MODULE FileFlushProofs --------------------------
(***************************************************************************)
(* The safety of FileFlush for any set of chunks: its invariants, that a   *)
(* drain is never joined by later chunks, and that it implements the       *)
(* safety part of FlushQueue.  (Its liveness is checked by TLC.)           *)
(***************************************************************************)
EXTENDS FileFlush, TLAPS

(* The vector of chunks: what pushing to and popping from it does to the   *)
(* set of its elements.                                                    *)

\* push_back adds its argument to the elements and nothing else.
LEMMA RangeAppend ==
  ASSUME NEW S, NEW s \in Seq(S), NEW c \in S
  PROVE  /\ Append(s, c) \in Seq(S)
         /\ Range(Append(s, c)) = Range(s) \cup {c}
<1>1. /\ Append(s, c) \in Seq(S)
      /\ DOMAIN Append(s, c) = 1 .. Len(s) + 1
      /\ Append(s, c)[Len(s) + 1] = c
      /\ \A i \in 1 .. Len(s) : Append(s, c)[i] = s[i]
      /\ Len(s) \in Nat
      /\ DOMAIN s = 1 .. Len(s)
  OBVIOUS
<1>2. ASSUME NEW x \in Range(Append(s, c)) PROVE x \in Range(s) \cup {c}
  BY <1>1, <1>2 DEF Range
<1>3. ASSUME NEW x \in Range(s) \cup {c} PROVE x \in Range(Append(s, c))
  <2>1. CASE x = c
    BY <1>1, <2>1 DEF Range
  <2>2. CASE x \in Range(s)
    BY <1>1, <2>2 DEF Range
  <2> QED BY <1>3, <2>1, <2>2
<1> QED BY <1>1, <1>2, <1>3

\* A sequence without repetitions stays one when a new element is pushed.
LEMMA InjectiveAppend ==
  ASSUME NEW S, NEW s \in Seq(S), NEW c \in S,
         IsInjective(s), c \notin Range(s)
  PROVE  IsInjective(Append(s, c))
BY DEF IsInjective, Range

\* back() and pop_back() split the elements into the last and the others.
LEMMA RangeFrontLast ==
  ASSUME NEW S, NEW s \in Seq(S), s # <<>>
  PROVE  /\ SubSeq(s, 1, Len(s) - 1) \in Seq(S)
         /\ s[Len(s)] \in S
         /\ Range(s) = Range(SubSeq(s, 1, Len(s) - 1)) \cup {s[Len(s)]}
<1>1. /\ Len(s) \in Nat \ {0}
      /\ DOMAIN s = 1 .. Len(s)
      /\ SubSeq(s, 1, Len(s) - 1) \in Seq(S)
      /\ DOMAIN SubSeq(s, 1, Len(s) - 1) = 1 .. Len(s) - 1
      /\ \A i \in 1 .. Len(s) - 1 : SubSeq(s, 1, Len(s) - 1)[i] = s[i]
      /\ s[Len(s)] \in S
  OBVIOUS
<1>2. ASSUME NEW x \in Range(s)
      PROVE  x \in Range(SubSeq(s, 1, Len(s) - 1)) \cup {s[Len(s)]}
  <2>1. PICK i \in 1 .. Len(s) : x = s[i]
    BY <1>1, <1>2 DEF Range
  <2>2. CASE i = Len(s)
    BY <1>1, <2>1, <2>2
  <2>3. CASE i # Len(s)
    <3>1. Len(s) \in Nat
      OBVIOUS
    <3>2. i \in 1 .. Len(s) - 1
      BY <2>3, <3>1
    <3> QED BY Zenon, <1>1, <2>1, <3>2 DEF Range
  <2> QED BY <2>2, <2>3
<1>3. ASSUME NEW x \in Range(SubSeq(s, 1, Len(s) - 1)) \cup {s[Len(s)]}
      PROVE  x \in Range(s)
  BY <1>1, <1>3 DEF Range
<1> QED BY <1>1, <1>2, <1>3

\* What is popped from a vector without repetitions is no longer in it.
LEMMA InjectiveFrontLast ==
  ASSUME NEW S, NEW s \in Seq(S), s # <<>>, IsInjective(s)
  PROVE  /\ IsInjective(SubSeq(s, 1, Len(s) - 1))
         /\ s[Len(s)] \notin Range(SubSeq(s, 1, Len(s) - 1))
<1>1. /\ Len(s) \in Nat \ {0}
      /\ DOMAIN s = 1 .. Len(s)
      /\ DOMAIN SubSeq(s, 1, Len(s) - 1) = 1 .. Len(s) - 1
      /\ \A i \in 1 .. Len(s) - 1 : SubSeq(s, 1, Len(s) - 1)[i] = s[i]
  OBVIOUS
<1> QED BY <1>1 DEF IsInjective, Range

\* The empty vector.
LEMMA RangeEmpty == Range(<<>>) = {} /\ IsInjective(<<>>)
BY DEF Range, IsInjective

\* A vector of one chunk, and what writing it appends.
LEMMA RangeSingle ==
  ASSUME NEW S, NEW c \in S
  PROVE  /\ <<c>> \in Seq(S)
         /\ Range(<<c>>) = {c}
         /\ Head(<<c>>) = c
         /\ \A s \in Seq(S) : s \o <<c>> = Append(s, c)
BY DEF Range
-----------------------------------------------------------------------------

\* The flusher's control state determines what it holds and what is left:
\* it has popped a chunk exactly while in Flush, and from its last look at
\* the vector until someone wakes it the vector is empty.
Control ==
    /\ fpc = "flush" => \E c \in Chunk : data = <<c>>
    /\ fpc # "flush" => data = <<>>
    /\ fpc \in {"sleep", "waiting", "done"} => async_buffer = <<>>
    /\ fpc = "done" => exit
    /\ spc = "joined" => fpc = "done"

\* A chunk is in at most one place, and only accepted chunks are anywhere.
Placement ==
    /\ IsInjective(async_buffer)
    /\ IsInjective(written)
    /\ Range(async_buffer) \cap Range(data) = {}
    /\ Pending \cap Range(written) = {}
    /\ Pending \cup Range(written) \subseteq accepted

\* An accepted chunk with a file is pending or written.
NothingLost == accepted \ NullFile \subseteq Pending \cup Range(written)

\* While the flusher holds async_mtx nothing joins the batch it drains.
BatchClosed == MtxHeld => Pending \subseteq batch

IInv == TypeOK /\ Control /\ Placement /\ NothingLost /\ BatchClosed
-----------------------------------------------------------------------------
\* A new FileFlush satisfies the inductive invariant.
LEMMA InitIInv == Init => IInv
BY RangeEmpty, NullFileAssumption
   DEF Init, IInv, TypeOK, FlusherPC, StopPC, Control, Placement, NothingLost,
       BatchClosed, MtxHeld, Pending, exit

\* AsyncFlush with a chunk never handed over before.
LEMMA AsyncFlushStep ==
  ASSUME IInv, NEW c \in Chunk \ (accepted \cup refused), AsyncFlush(c)
  PROVE  IInv'
<1> USE DEF IInv
<1>1. CASE exit
  <2>1. /\ refused' = refused \cup {c}
        /\ UNCHANGED <<async_buffer, fpc, accepted, data, spc, written, batch>>
    BY <1>1 DEF AsyncFlush
  <2> QED
    BY <2>1 DEF TypeOK, Control, Placement, NothingLost, BatchClosed, MtxHeld,
                Pending, exit
<1>2. CASE ~exit
  <2>1. /\ async_buffer' = Append(async_buffer, c)
        /\ accepted' = accepted \cup {c}
        /\ fpc' = Notified
        /\ ~MtxHeld
        /\ spc # "joined"
        /\ UNCHANGED <<refused, data, spc, written, batch>>
    BY <1>2 DEF AsyncFlush
  <2>2. /\ async_buffer' \in Seq(Chunk)
        /\ Range(async_buffer') = Range(async_buffer) \cup {c}
    BY <2>1, RangeAppend DEF TypeOK
  <2>3. fpc' \in {"lock"} /\ fpc' # "flush" /\ data = <<>>
    BY <1>2, <2>1 DEF TypeOK, Control, MtxHeld, Notified, FlusherPC
  <2>4. TypeOK'
    BY <2>1, <2>2, <2>3 DEF TypeOK, FlusherPC
  <2>5. Control'
    BY <2>1, <2>3 DEF Control, exit
  <2>6. Pending' = Pending \cup {c}
    BY <2>1, <2>2 DEF Pending
  <2>7. c \notin Pending \cup Range(written)
    BY DEF Placement
  <2>8. IsInjective(async_buffer')
    BY <2>1, <2>7, InjectiveAppend DEF Placement, TypeOK, Pending
  <2>9. Placement'
    BY <2>1, <2>2, <2>3, <2>6, <2>7, <2>8, RangeEmpty DEF Placement
  <2>10. NothingLost'
    BY <2>1, <2>6 DEF NothingLost
  <2>11. BatchClosed'
    BY <2>3 DEF BatchClosed, MtxHeld
  <2> QED BY <2>4, <2>5, <2>9, <2>10, <2>11
<1> QED BY <1>1, <1>2

\* The three statements of StopFlush, none of them under async_mtx.
LEMMA StopFlushStep ==
  ASSUME IInv, StopFlush
  PROVE  IInv'
<1> USE DEF IInv
<1>1. CASE StopFlushExit
  BY <1>1 DEF StopFlushExit, flusherVars, TypeOK, StopPC, Control, Placement,
              NothingLost, BatchClosed, MtxHeld, Pending, exit
<1>2. CASE StopFlushNotify
  BY <1>2 DEF StopFlushNotify, Notified, TypeOK, FlusherPC, StopPC, Control,
              Placement, NothingLost, BatchClosed, MtxHeld, Pending, exit
<1>3. CASE StopFlushJoin
  BY <1>3 DEF StopFlushJoin, flusherVars, TypeOK, StopPC, Control, Placement,
              NothingLost, BatchClosed, MtxHeld, Pending, exit
<1> QED BY <1>1, <1>2, <1>3 DEF StopFlush

\* back() and pop_back() in AsyncLogThread.
LEMMA FlusherPopStep ==
  ASSUME IInv, FlusherPop
  PROVE  IInv'
<1> USE DEF IInv
<1> DEFINE c == async_buffer[Len(async_buffer)]
<1>1. /\ fpc = "drain"
      /\ fpc' = "flush"
      /\ async_buffer # <<>>
      /\ async_buffer' = SubSeq(async_buffer, 1, Len(async_buffer) - 1)
      /\ data = <<>>
      /\ data' = <<c>>
      /\ UNCHANGED <<spc, written, accepted, refused, batch>>
  BY DEF FlusherPop, Control
<1>2. /\ async_buffer' \in Seq(Chunk)
      /\ c \in Chunk
      /\ Range(async_buffer) = Range(async_buffer') \cup {c}
  BY <1>1, RangeFrontLast DEF TypeOK
<1>3. IsInjective(async_buffer') /\ c \notin Range(async_buffer')
  BY <1>1, InjectiveFrontLast DEF TypeOK, Placement
<1>4. data' \in Seq(Chunk) /\ Range(data') = {c}
  BY <1>1, <1>2, RangeSingle
<1>5. Pending' = Pending
  BY <1>1, <1>2, <1>4, RangeEmpty DEF Pending
<1>6. TypeOK'
  BY <1>1, <1>2, <1>4 DEF TypeOK, FlusherPC
<1>7. Control'
  BY <1>1, <1>2 DEF Control, exit
<1>8. Placement'
  BY <1>1, <1>3, <1>4, <1>5 DEF Placement
<1>9. NothingLost' /\ BatchClosed'
  BY <1>1, <1>5 DEF NothingLost, BatchClosed, MtxHeld
<1> QED BY <1>6, <1>7, <1>8, <1>9

\* Flush takes the popped chunk c out of the pending ones; c is written
\* unless it has no file.
LEMMA FlushEffect ==
  ASSUME IInv, Flush
  PROVE  \E c \in Chunk :
           /\ data = <<c>>
           /\ c \in Pending
           /\ Pending' = Pending \ {c}
           /\ written' = IF c \in NullFile THEN written ELSE Append(written, c)
<1> USE DEF IInv
<1>1. PICK c \in Chunk : data = <<c>>
  BY DEF Flush, Control
<1>2. Range(data) = {c} /\ Head(data) = c /\ written \o data = Append(written, c)
  BY <1>1, RangeSingle DEF TypeOK
<1>3. Pending = Range(async_buffer) \cup {c} /\ c \notin Range(async_buffer)
  BY <1>2 DEF Pending, Placement
<1>4. Pending' = Range(async_buffer)
  BY RangeEmpty DEF Flush, Pending
<1>5. written' = IF c \in NullFile THEN written ELSE Append(written, c)
  BY <1>2 DEF Flush
<1> QED BY <1>1, <1>3, <1>4, <1>5

\* Flush: the popped chunk goes to its file, or is dropped for want of one.
LEMMA FlushStep ==
  ASSUME IInv, Flush
  PROVE  IInv'
<1> USE DEF IInv
<1>1. PICK c \in Chunk :
        /\ data = <<c>>
        /\ c \in Pending
        /\ Pending' = Pending \ {c}
        /\ written' = IF c \in NullFile THEN written ELSE Append(written, c)
  BY FlushEffect
<1>2. /\ fpc = "flush"
      /\ fpc' = "drain"
      /\ data' = <<>>
      /\ UNCHANGED <<async_buffer, spc, accepted, refused, batch>>
  BY DEF Flush
<1>3. c \notin Range(written)
  BY <1>1 DEF Placement
<1>4. /\ written' \in Seq(Chunk)
      /\ IsInjective(written')
      /\ Range(written') = IF c \in NullFile THEN Range(written)
                                              ELSE Range(written) \cup {c}
  <2>1. written \in Seq(Chunk) /\ IsInjective(written)
    BY DEF TypeOK, Placement
  <2>2. /\ Append(written, c) \in Seq(Chunk)
        /\ IsInjective(Append(written, c))
        /\ Range(Append(written, c)) = Range(written) \cup {c}
    BY <1>3, <2>1, RangeAppend, InjectiveAppend
  <2>3. CASE c \in NullFile
    BY <1>1, <2>1, <2>3
  <2>4. CASE c \notin NullFile
    BY <1>1, <2>2, <2>4
  <2> QED BY <2>3, <2>4
<1>5. TypeOK'
  BY <1>2, <1>4 DEF TypeOK, FlusherPC
<1>6. Control'
  BY <1>2 DEF Control
<1>7. Placement'
  BY <1>1, <1>2, <1>4, RangeEmpty DEF Placement
<1>8. NothingLost'
  BY <1>1, <1>2, <1>4 DEF NothingLost
<1>9. BatchClosed'
  BY <1>1, <1>2 DEF BatchClosed, MtxHeld
<1> QED BY <1>5, <1>6, <1>7, <1>8, <1>9

\* The lock, the test of exit and the wait of AsyncLogThread.
LEMMA FlusherOtherStep ==
  ASSUME IInv, FlusherLock \/ FlusherTestExit \/ FlusherWait \/ SpuriousWakeup
  PROVE  IInv'
<1> USE DEF IInv
<1>1. CASE FlusherLock
  BY <1>1, RangeEmpty
     DEF FlusherLock, TypeOK, FlusherPC, Control, Placement, NothingLost,
         BatchClosed, MtxHeld, Pending, exit
<1>2. CASE FlusherTestExit
  BY <1>2 DEF FlusherTestExit, TypeOK, FlusherPC, Control, Placement,
              NothingLost, BatchClosed, MtxHeld, Pending, exit
<1>3. CASE FlusherWait \/ SpuriousWakeup
  BY <1>3 DEF FlusherWait, SpuriousWakeup, TypeOK, FlusherPC, Control, Placement,
              NothingLost, BatchClosed, MtxHeld, Pending, exit
<1> QED BY <1>1, <1>2, <1>3

\* Every step of FileFlush preserves the inductive invariant.
LEMMA NextIInv == IInv /\ [Next]_vars => IInv'
<1> SUFFICES ASSUME IInv, [Next]_vars PROVE IInv'
  OBVIOUS
<1>1. CASE UNCHANGED vars
  BY <1>1 DEF vars, IInv, TypeOK, Control, Placement, NothingLost, BatchClosed,
              MtxHeld, Pending, exit
<1> QED
  BY <1>1, AsyncFlushStep, StopFlushStep, FlusherPopStep, FlushStep,
     FlusherOtherStep DEF Next, AsyncLogThread

\* The inductive invariant of FileFlush holds for any set of chunks: an
\* accepted chunk is in the vector, in the hands of AsyncLogThread, written,
\* or was without a file, and StopFlush closes the vector before it drains.
THEOREM Inductive == SafetySpec => []IInv
BY InitIInv, NextIInv, PTL DEF SafetySpec

\* AsyncFlush and AsyncLogThread never leave a chunk behind a sleeping
\* flusher, for any number of chunks.
THEOREM NoSleepOnWorkHolds == SafetySpec => []NoSleepOnWork
<1>1. IInv => NoSleepOnWork
  BY DEF IInv, Control, NoSleepOnWork
<1> QED BY <1>1, Inductive, PTL

\* After ~FileFlush has joined the thread every accepted chunk that has a
\* file is written.
THEOREM StopDrainsHolds == SafetySpec => []StopDrains
<1>1. IInv => StopDrains
  <2> SUFFICES ASSUME IInv, spc = "joined"
               PROVE  accepted \ NullFile \subseteq Range(written)
    BY DEF StopDrains
  <2>1. async_buffer = <<>> /\ data = <<>>
    BY DEF IInv, Control
  <2>2. Pending = {}
    BY <2>1, RangeEmpty DEF Pending
  <2> QED BY <2>2 DEF IInv, NothingLost
<1> QED BY <1>1, Inductive, PTL

\* AsyncLogThread writes no chunk twice and none that AsyncFlush refused.
THEOREM WrittenOnceHolds == SafetySpec => []WrittenOnce
<1>1. IInv => WrittenOnce
  BY DEF IInv, Placement, WrittenOnce
<1> QED BY <1>1, Inductive, PTL

\* Because Flush runs under async_mtx, a chunk is overtaken only by chunks
\* that were queued before the drain that writes it began.
THEOREM OvertakeOnlyInBatchHolds == SafetySpec => OvertakeOnlyInBatch
<1>1. ASSUME IInv, [Next]_vars, NEW c \in Chunk, written' = Append(written, c)
      PROVE  c \in batch
  <2>1. written' # written
    BY <1>1 DEF IInv, TypeOK
  <2>2. Flush
    BY <1>1, <2>1
       DEF Next, AsyncFlush, StopFlush, StopFlushExit, StopFlushNotify,
           StopFlushJoin, AsyncLogThread, FlusherLock, FlusherPop,
           FlusherTestExit, FlusherWait, SpuriousWakeup, vars, flusherVars
  <2>3. PICK d \in Chunk :
          /\ d \in Pending
          /\ written' = IF d \in NullFile THEN written ELSE Append(written, d)
    BY <1>1, <2>2, FlushEffect
  <2>4. Append(written, c) = Append(written, d)
    BY <1>1, <2>1, <2>3
  <2>5. c = d
    BY <1>1, <2>4 DEF IInv, TypeOK
  <2>6. MtxHeld
    BY <2>2 DEF Flush, MtxHeld
  <2> QED BY <1>1, <2>3, <2>5, <2>6 DEF IInv, BatchClosed
<1>2. IInv /\ [Next]_vars =>
        [\A c \in Chunk : written' = Append(written, c) => c \in batch]_vars
  BY <1>1
<1> QED BY <1>2, Inductive, PTL DEF SafetySpec, OvertakeOnlyInBatch
-----------------------------------------------------------------------------
\* Every step of FileFlush is a step of FlushQueue or leaves it unchanged.
LEMMA StepRefines == IInv /\ [Next]_vars => [FQ!Next]_FQ!vars
<1> SUFFICES ASSUME IInv, [Next]_vars PROVE [FQ!Next]_FQ!vars
  OBVIOUS
<1> USE DEF IInv
<1>1. ASSUME NEW c \in Chunk \ (accepted \cup refused), AsyncFlush(c)
      PROVE  FQ!Accept(c) \/ UNCHANGED FQ!vars
  <2>1. CASE exit
    BY <1>1, <2>1 DEF AsyncFlush, FQ!vars, Pending
  <2>2. CASE ~exit
    <3>1. fpc # "done" /\ fpc' # "done"
      BY <1>1, <2>2 DEF AsyncFlush, Notified, Control
    <3>2. c \notin Pending \cup Range(written)
      BY DEF Placement
    <3>3. Pending' = Pending \cup {c} /\ written' = written
      <4>1. /\ async_buffer' = Append(async_buffer, c)
            /\ UNCHANGED <<data, written>>
        BY <1>1, <2>2 DEF AsyncFlush
      <4>2. Range(async_buffer') = Range(async_buffer) \cup {c}
        BY <4>1, RangeAppend DEF TypeOK
      <4> QED BY <4>1, <4>2 DEF Pending
    <3>4. c \notin FQ!Range(written)
      BY <3>2 DEF Range, FQ!Range
    <3>5. UNCHANGED <<written, fpc = "done">>
      BY <3>1, <3>3
    <3> QED BY <3>1, <3>2, <3>3, <3>4, <3>5 DEF FQ!Accept
  <2> QED BY <2>1, <2>2
<1>2. CASE StopFlush
  BY <1>2 DEF StopFlush, StopFlushExit, StopFlushNotify, StopFlushJoin, Notified,
              flusherVars, FQ!vars, Pending
<1>3. CASE FlusherPop
  <2>1. Pending' = Pending
    <3>1. /\ data' = <<async_buffer[Len(async_buffer)]>>
          /\ async_buffer' = SubSeq(async_buffer, 1, Len(async_buffer) - 1)
          /\ async_buffer # <<>>
          /\ data = <<>>
      BY <1>3 DEF FlusherPop, Control
    <3>2. /\ async_buffer[Len(async_buffer)] \in Chunk
          /\ Range(async_buffer) = Range(async_buffer') \cup {async_buffer[Len(async_buffer)]}
      BY <3>1, RangeFrontLast DEF TypeOK
    <3>3. Range(data') = {async_buffer[Len(async_buffer)]}
      BY <3>1, <3>2, RangeSingle
    <3> QED BY <3>1, <3>2, <3>3, RangeEmpty DEF Pending
  <2> QED BY <1>3, <2>1 DEF FlusherPop, FQ!vars
<1>4. CASE Flush
  <2>1. PICK c \in Chunk :
          /\ c \in Pending
          /\ Pending' = Pending \ {c}
          /\ written' = IF c \in NullFile THEN written ELSE Append(written, c)
    BY <1>4, FlushEffect
  <2>2. (fpc = "done")' = (fpc = "done")
    BY <1>4 DEF Flush
  <2>3. FQ!Write(c) \/ FQ!Discard(c)
    BY <2>1, <2>2 DEF FQ!Write, FQ!Discard
  <2> QED BY <2>1, <2>3 DEF FQ!Next, FQ!Settle
<1>5. CASE FlusherTestExit
  <2>1. Pending' = Pending /\ Pending = {} /\ written' = written /\ fpc # "done"
    BY <1>5, RangeEmpty DEF FlusherTestExit, Pending, Control
  <2>2. CASE exit
    BY <1>5, <2>1, <2>2 DEF FlusherTestExit, FQ!Next, FQ!Close
  <2>3. CASE ~exit
    BY <1>5, <2>1, <2>3 DEF FlusherTestExit, FQ!vars
  <2> QED BY <2>2, <2>3
<1>6. CASE FlusherLock \/ FlusherWait \/ SpuriousWakeup
  BY <1>6 DEF FlusherLock, FlusherWait, SpuriousWakeup, FQ!vars, Pending
<1>7. CASE UNCHANGED vars
  BY <1>7 DEF vars, FQ!vars, Pending
<1> QED
  BY <1>1, <1>2, <1>3, <1>4, <1>5, <1>6, <1>7 DEF Next, AsyncLogThread, FQ!Next

\* FileFlush implements the safety of FlushQueue: exactly-once writing of
\* what AsyncFlush accepted, and no close with work pending.
THEOREM Refinement == SafetySpec => FQ!SafetySpec
<1>1. Init => FQ!Init
  BY RangeEmpty DEF Init, FQ!Init, Pending
<1> QED BY <1>1, StepRefines, Inductive, PTL DEF SafetySpec, FQ!SafetySpec
=============================================================================
