-------------------------- MODULE ZapBufferProofs --------------------------
(***************************************************************************)
(* The safety of the log buffer for any threads, messages and sizes: it    *)
(* never overflows, the length in its header is the end of a message, and  *)
(* only a full buffer cuts a deflate stream.                               *)
(***************************************************************************)
EXTENDS ZapBuffer, TLAPS

(* Sequences of messages and of chunks: what pushing to and popping from   *)
(* one does to the set of its elements.                                    *)

\* push_back adds its argument to the elements and nothing else.
LEMMA RangeAppend ==
  ASSUME NEW S, NEW s \in Seq(S), NEW c \in S
  PROVE  /\ Append(s, c) \in Seq(S)
         /\ Range(Append(s, c)) = Range(s) \cup {c}
<1>1. /\ Append(s, c) \in Seq(S)
      /\ DOMAIN Append(s, c) = 1 .. Len(s) + 1
      /\ Append(s, c)[Len(s) + 1] = c
      /\ \A i \in 1 .. Len(s) : Append(s, c)[i] = s[i]
      /\ Len(s) \in Nat
      /\ DOMAIN s = 1 .. Len(s)
  OBVIOUS
<1>2. ASSUME NEW x \in Range(Append(s, c)) PROVE x \in Range(s) \cup {c}
  BY <1>1, <1>2 DEF Range
<1>3. ASSUME NEW x \in Range(s) \cup {c} PROVE x \in Range(Append(s, c))
  <2>1. CASE x = c
    BY <1>1, <2>1 DEF Range
  <2>2. CASE x \in Range(s)
    BY <1>1, <2>2 DEF Range
  <2> QED BY <1>3, <2>1, <2>2
<1> QED BY Zenon, <1>1, <1>2, <1>3

\* push_back puts the element behind the others, which stay where they are.
LEMMA AppendAt ==
  ASSUME NEW S, NEW s \in Seq(S), NEW c \in S
  PROVE  /\ DOMAIN Append(s, c) = DOMAIN s \cup {Len(s) + 1}
         /\ \A i \in DOMAIN s : Append(s, c)[i] = s[i]
         /\ Append(s, c)[Len(s) + 1] = c
OBVIOUS

\* A vector of one.
LEMMA HeadSingle ==
  ASSUME NEW c
  PROVE  Head(<<c>>) = c /\ DOMAIN <<c>> = {1} /\ <<c>>[1] = c
OBVIOUS

\* An empty vector or text is well typed and has no place.
LEMMA EmptyDomain ==
  /\ DOMAIN << >> = {} /\ (\A S : << >> \in Seq(S))
  /\ 0 \in Nat /\ Len(<< >>) <= 1
OBVIOUS

\* No message is twice in an empty text.
LEMMA EmptyInjective ==
  ASSUME NEW s, s = <<>>
  PROVE  IsInjective([i \in DOMAIN s |-> s[i].msg])
<1>1. DOMAIN s = {}
  BY EmptyDomain
<1> QED BY <1>1 DEF IsInjective

\* back() and pop_back() split the elements into the last and the others.
LEMMA RangeFrontLast ==
  ASSUME NEW S, NEW s \in Seq(S), s # <<>>
  PROVE  /\ SubSeq(s, 1, Len(s) - 1) \in Seq(S)
         /\ s[Len(s)] \in S
         /\ Range(s) = Range(SubSeq(s, 1, Len(s) - 1)) \cup {s[Len(s)]}
<1>1. /\ Len(s) \in Nat \ {0}
      /\ DOMAIN s = 1 .. Len(s)
      /\ SubSeq(s, 1, Len(s) - 1) \in Seq(S)
      /\ DOMAIN SubSeq(s, 1, Len(s) - 1) = 1 .. Len(s) - 1
      /\ \A i \in 1 .. Len(s) - 1 : SubSeq(s, 1, Len(s) - 1)[i] = s[i]
      /\ s[Len(s)] \in S
  OBVIOUS
<1>2. ASSUME NEW x \in Range(s)
      PROVE  x \in Range(SubSeq(s, 1, Len(s) - 1)) \cup {s[Len(s)]}
  <2>1. PICK i \in 1 .. Len(s) : x = s[i]
    BY <1>1, <1>2 DEF Range
  <2>2. CASE i = Len(s)
    BY <1>1, <2>1, <2>2
  <2>3. CASE i # Len(s)
    <3>1. Len(s) \in Nat
      OBVIOUS
    <3>2. i \in 1 .. Len(s) - 1
      BY <2>3, <3>1
    <3> QED BY Zenon, <1>1, <2>1, <3>2 DEF Range
  <2> QED BY <2>2, <2>3
<1>3. ASSUME NEW x \in Range(SubSeq(s, 1, Len(s) - 1)) \cup {s[Len(s)]}
      PROVE  x \in Range(s)
  BY <1>1, <1>3 DEF Range
<1> QED BY <1>1, <1>2, <1>3

\* The empty vector.
LEMMA RangeEmpty == Range(<<>>) = {} /\ IsInjective(<<>>)
BY DEF Range, IsInjective

\* A vector of one chunk, and what writing it appends.
LEMMA RangeSingle ==
  ASSUME NEW S, NEW c \in S
  PROVE  /\ <<c>> \in Seq(S)
         /\ Range(<<c>>) = {c}
         /\ Head(<<c>>) = c
         /\ \A s \in Seq(S) : s \o <<c>> = Append(s, c)
BY DEF Range
-----------------------------------------------------------------------------
\* log_mtx has one owner.
Mutual ==
    \A t, u \in Thread : pc[t] \in Holding /\ pc[u] \in Holding => t = u

\* The write pointer is the end of the last piece, and the length in the
\* header agrees with it except between the two halves of Append and Clear.
Lengths ==
    /\ write_ptr = Bytes(content)
    /\ (\A t \in Thread : pc[t] \notin {"appendlen", "clearlen"})
          => log_len = write_ptr

\* What a thread inside Append or CallFileFlush works on.
Hands ==
    \A t \in Thread :
      /\ pc[t] \in {"append", "appendlen"} => arg[t] \in Msg
      /\ pc[t] \in {"clear", "clearlen", "submit"} => chunk[t] \in ZChunk
      /\ pc[t] = "clear" => chunk[t].text = content
      /\ pc[t] = "clearlen" => content = <<>>
      /\ t = Main /\ pc[t] = "exp" => nfile < MaxFile

\* A process that is down has no memory; one that is up has zeroed the
\* buffer file it has mapped; nobody stops the flusher.
Quiet ==
    /\ proc = "down" =>
         /\ content = <<>> /\ log_len = 0 /\ write_ptr = 0
         /\ \A t \in Thread : pc[t] = "idle"
         /\ async_buffer = <<>> /\ popped = <<>> /\ fpc = "lock"
    /\ proc = "up" /\ mapped = "mmap" => disk.text = <<>>
    /\ spc = "running"
    /\ fpc = "flush" => \E c \in ZChunk : popped = <<c>>
    /\ fpc # "flush" => popped = <<>>

Shape == TypeOK /\ Mutual /\ Lengths /\ HeaderAtBoundary /\ Hands /\ Quiet

\* The sizes are numbers.
LEMMA Numbers ==
  ASSUME TypeOK
  PROVE  /\ write_ptr \in Nat /\ write_ptr <= Capacity /\ zpend \in Nat
         /\ Capacity \in Nat \ {0} /\ Capacity \in Nat
         /\ \A m \in Msg : MsgLen[m] \in Nat \ {0} /\ MsgLen[m] \in Nat
<1>1. write_ptr \in 0 .. Capacity /\ zpend \in Nat
  BY Zenon DEF TypeOK
<1>2. Capacity \in Nat \ {0} /\ MsgLen \in [Msg -> Nat \ {0}]
  BY Zenon, ConstantsAssumption
<1>3. \A m \in Msg : MsgLen[m] \in Nat \ {0}
  BY Zenon, <1>2
<1> QED BY <1>1, <1>2, <1>3

\* What deflate or memcpy produces is not empty.
LEMMA EncodedSize ==
  ASSUME NEW m \in Msg, NEW c \in Encoded(m)
  PROVE  c \in Nat \ {0} /\ (Mode = "plain" => c = MsgLen[m])
<1>1. MsgLen[m] \in Nat \ {0} /\ Overhead \in Nat
  BY ConstantsAssumption
<1> QED BY <1>1 DEF Encoded
-----------------------------------------------------------------------------
\* The messages of a text are messages.
LEMMA MsgsType ==
  ASSUME NEW s \in Seq(Piece)
  PROVE  Msgs(s) \subseteq Msg
<1>1. \A p \in Range(s) : p \in Piece
  BY DEF Range
<1> QED BY Zenon, <1>1 DEF Msgs, Piece

\* Append adds the message of its piece.
LEMMA MsgsAppend ==
  ASSUME NEW s \in Seq(Piece), NEW p \in Piece
  PROVE  Msgs(Append(s, p)) = Msgs(s) \cup {p.msg}
BY RangeAppend DEF Msgs

\* The messages of a queue of chunks are messages.
LEMMA MsgsOfType ==
  ASSUME NEW q \in Seq(ZChunk)
  PROVE  MsgsOf(q) \subseteq Msg
<1>1. \A c \in Range(q) : c \in ZChunk
  BY DEF Range
<1>2. \A c \in ZChunk : c.text \in Seq(Piece)
  BY Zenon DEF ZChunk
<1> QED BY Zenon, <1>1, <1>2, MsgsType DEF MsgsOf

\* A queue with one chunk more holds the messages of that chunk too.
LEMMA MsgsOfUnion ==
  ASSUME NEW q, NEW r, NEW c, Range(q) = Range(r) \cup {c}
  PROVE  MsgsOf(q) = MsgsOf(r) \cup Msgs(c.text)
BY Zenon DEF MsgsOf

\* A queue of one chunk holds the messages of that chunk.
LEMMA MsgsOfSingle ==
  ASSUME NEW c \in ZChunk
  PROVE  MsgsOf(<<c>>) = Msgs(c.text)
<1>1. Range(<<c>>) = {c}
  BY Zenon, RangeSingle
<1> QED BY Zenon, <1>1 DEF MsgsOf

\* An empty buffer and an empty queue hold no message.
LEMMA MsgsEmpty == Msgs(<<>>) = {} /\ MsgsOf(<<>>) = {}
BY Zenon, RangeEmpty DEF Msgs, MsgsOf
-----------------------------------------------------------------------------
\* Before the first start of the process the invariant holds.
LEMMA InitShape == Init => Shape
<1> SUFFICES ASSUME Init PROVE Shape
  BY Zenon
<1>1. FF!TypeOK
  BY DEF Init, FF!Init, FF!TypeOK, FF!FlusherPC, FF!StopPC
<1>2. TypeOK
  BY <1>1, ConstantsAssumption DEF Init, TypeOK, PC, File, EmptyDisk
<1>3. Mutual /\ Lengths /\ HeaderAtBoundary /\ Hands
  BY Zenon DEF Init, Mutual, Holding, Lengths, Bytes, HeaderAtBoundary, Hands
<1>4. Quiet
  BY Zenon DEF Init, FF!Init, Quiet
<1> QED BY Zenon, <1>2, <1>3, <1>4 DEF Shape

\* WriteNative up to its first lock.
LEMMA WriteNativeShape ==
  ASSUME Shape, NEW t \in Writer, NEW m \in Msg, WriteNative(t, m)
  PROVE  Shape'
<1> USE DEF Shape
<1>1. /\ t \in Thread /\ pc[t] = "idle" /\ proc = "up"
      /\ pc' \in [Thread -> PC] /\ pc'[t] \in {"flush", "append"}
      /\ \A u \in Thread \ {t} : pc'[u] = pc[u] /\ arg'[u] = arg[u]
      /\ arg' \in [Thread -> Msg \cup {NoMsg}] /\ arg'[t] = m
      /\ logged' \subseteq Msg
      /\ UNCHANGED <<bufferVars, chunk, processVars, returned, lost, overtaken,
                     short, flushVars>>
  BY Zenon DEF WriteNative, TypeOK, Thread, PC
<1>2. TypeOK'
  BY Zenon, <1>1 DEF TypeOK, FF!TypeOK, bufferVars, processVars, flushVars
<1>3. Mutual'
  BY Zenon, <1>1 DEF Mutual, Holding
<1>4. Lengths' /\ HeaderAtBoundary'
  BY Zenon, <1>1 DEF Lengths, HeaderAtBoundary, bufferVars
<1>5. Hands' /\ Quiet'
  BY Zenon, <1>1 DEF Hands, Quiet, bufferVars, processVars, flushVars
<1> QED BY Zenon, <1>2, <1>3, <1>4, <1>5

\* deflate or memcpy: a piece that ends inside the buffer is added to it,
\* or there was no room and the message is thrown away.
LEMMA AppendEffect ==
  ASSUME Shape, NEW t \in Thread, AppendBytes(t)
  PROVE  /\ arg[t] \in Msg
         /\ write_ptr' \in 0 .. Capacity
         /\ zpend' \in Nat
         /\ \/ \E p \in Piece : /\ content' = Append(content, p)
                                /\ p.msg = arg[t] /\ p.end = write_ptr'
                                /\ lost' = lost
            \/ /\ content' = content /\ write_ptr' = write_ptr
               /\ lost' = lost \cup {arg[t]}
<1>1. PICK c \in Encoded(arg[t]) :
        LET out == c + IF write_ptr = 0 THEN 0 ELSE zpend
            n   == WriteSize(out)
            p   == [msg |-> arg[t], end |-> write_ptr + n]
        IN /\ content' = IF n > 0 THEN Append(content, p) ELSE content
           /\ lost' = IF n > 0 THEN lost ELSE lost \cup {arg[t]}
           /\ write_ptr' = write_ptr + n
           /\ zpend' = IF Mode = "deflate" /\ n > 0 THEN out - n ELSE zpend
  BY Zenon DEF AppendBytes
<1> DEFINE out == c + IF write_ptr = 0 THEN 0 ELSE zpend
           n   == WriteSize(out)
           p   == [msg |-> arg[t], end |-> write_ptr + n]
<1>2. arg[t] \in Msg
  BY Zenon DEF AppendBytes, Shape, Hands
<1>3. c \in Nat
  BY <1>1, <1>2, ConstantsAssumption DEF Encoded
<1>4. /\ out \in Nat /\ zpend \in Nat /\ write_ptr \in 0 .. Capacity
      /\ Capacity \in Nat
  BY <1>3, ConstantsAssumption DEF Shape, TypeOK
<1>5. n \in Nat /\ n <= out /\ write_ptr + n \in 0 .. Capacity
  BY <1>4 DEF WriteSize, EmptySize
<1> HIDE DEF out, n
<1>6. n > 0 => p \in Piece
  BY <1>2, <1>4, <1>5 DEF Piece
<1>7. p.msg = arg[t] /\ p.end = write_ptr + n
  BY Zenon
<1> HIDE DEF p
<1>8. /\ content' = IF n > 0 THEN Append(content, p) ELSE content
      /\ lost' = IF n > 0 THEN lost ELSE lost \cup {arg[t]}
      /\ write_ptr' = write_ptr + n
      /\ zpend' = IF Mode = "deflate" /\ n > 0 THEN out - n ELSE zpend
  BY Zenon, <1>1 DEF out, n, p
<1>9. zpend' \in Nat
  BY <1>4, <1>5, <1>8
<1>10. CASE n > 0
  BY Zenon, <1>2, <1>5, <1>6, <1>7, <1>8, <1>9, <1>10
<1>11. CASE ~(n > 0)
  <2>1. write_ptr' = write_ptr
    BY <1>4, <1>5, <1>8, <1>11
  <2> QED BY Zenon, <1>2, <1>4, <1>8, <1>9, <1>11, <2>1
<1> QED BY Zenon, <1>10, <1>11

\* Append overtakes the threads that have already looked at the room, unless
\* it adds nothing, and remembers whom it had no room for.
LEMMA AppendOvertakes ==
  ASSUME Shape, NEW t \in Thread, AppendBytes(t)
  PROVE  /\ overtaken' \subseteq Thread
         /\ short' \subseteq [msg : Msg, late : BOOLEAN]
         /\ \/ overtaken' = (overtaken \ {t}) \cup Waiting(t)
            \/ overtaken' = overtaken \ {t} /\ write_ptr' = write_ptr
<1>1. PICK c \in Encoded(arg[t]) :
        LET out == c + IF write_ptr = 0 THEN 0 ELSE zpend
            n   == WriteSize(out)
        IN /\ overtaken' = (overtaken \ {t}) \cup IF n > 0 THEN Waiting(t) ELSE {}
           /\ short' = IF n = 0 \/ (Mode = "plain" /\ n < c)
                         THEN short \cup {[msg |-> arg[t], late |-> t \in overtaken]}
                         ELSE short
           /\ write_ptr' = write_ptr + n
  BY Zenon DEF AppendBytes
<1> DEFINE out == c + IF write_ptr = 0 THEN 0 ELSE zpend
           n   == WriteSize(out)
           x   == [msg |-> arg[t], late |-> t \in overtaken]
<1>2. arg[t] \in Msg
  BY Zenon DEF AppendBytes, Shape, Hands
<1>3. c \in Nat
  BY <1>1, <1>2, ConstantsAssumption DEF Encoded
<1>4. out \in Nat /\ write_ptr \in 0 .. Capacity /\ Capacity \in Nat
  BY <1>3, ConstantsAssumption DEF Shape, TypeOK
<1>5. n \in Nat
  BY <1>4 DEF WriteSize, EmptySize
<1>6. x \in [msg : Msg, late : BOOLEAN]
  <2> HIDE DEF n
  <2> QED BY <1>2
<1> HIDE DEF n, x
<1>7. /\ overtaken' = (overtaken \ {t}) \cup IF n > 0 THEN Waiting(t) ELSE {}
      /\ short' \subseteq short \cup {x}
      /\ write_ptr' = write_ptr + n
  BY Zenon, <1>1 DEF n, x
<1>8. overtaken \subseteq Thread /\ short \subseteq [msg : Msg, late : BOOLEAN]
  BY Zenon DEF Shape, TypeOK
<1>9. CASE n > 0
  BY Zenon, <1>6, <1>7, <1>8, <1>9 DEF Waiting
<1>10. CASE ~(n > 0)
  <2>1. write_ptr' = write_ptr
    BY <1>4, <1>5, <1>7, <1>10
  <2> QED BY Zenon, <1>6, <1>7, <1>8, <1>10, <2>1
<1> QED BY Zenon, <1>9, <1>10

\* The first half of Append, up to SetLength.
LEMMA AppendBytesShape ==
  ASSUME Shape, NEW t \in Thread, AppendBytes(t)
  PROVE  Shape'
<1> USE DEF Shape
<1>1. /\ pc[t] = "append" /\ ~MtxHeld
      /\ pc' = [pc EXCEPT ![t] = "appendlen"]
      /\ UNCHANGED <<log_len, log_file, mapped, arg, chunk, processVars,
                     logged, returned, flushVars>>
  BY Zenon DEF AppendBytes
<1>2. content \in Seq(Piece) /\ content' \in Seq(Piece) /\ lost' \subseteq Msg
  <2>1. content \in Seq(Piece) /\ lost \subseteq Msg
    BY Zenon DEF TypeOK
  <2> QED BY SMTT(30), <2>1, AppendEffect
<1>3. TypeOK'
  <2>1. pc' \in [Thread -> PC]
    BY Zenon, <1>1 DEF TypeOK, PC
  <2>2. write_ptr' \in 0 .. Capacity /\ zpend' \in Nat
    BY Zenon, AppendEffect
  <2> QED
    BY Zenon, <1>1, <1>2, <2>1, <2>2, AppendOvertakes
       DEF TypeOK, FF!TypeOK, processVars, flushVars
<1>4. \A u \in Thread : pc[u] \notin Holding
  BY Zenon, <1>1 DEF MtxHeld
<1>5. \A u \in Thread : pc'[u] = IF u = t THEN "appendlen" ELSE pc[u]
  BY Zenon, <1>1 DEF TypeOK
<1>6. Mutual'
  BY Zenon, <1>4, <1>5 DEF Mutual
<1>7. log_len = write_ptr
  BY Zenon, <1>4 DEF Lengths, Holding
<1>8. ASSUME \E p \in Piece : content' = Append(content, p) /\ p.end = write_ptr'
      PROVE  Lengths' /\ HeaderAtBoundary'
  <2>1. PICK p \in Piece : content' = Append(content, p) /\ p.end = write_ptr'
    BY Zenon, <1>8
  <2>2. /\ content' # <<>> /\ content'[Len(content')] = p
        /\ \A i \in DOMAIN content : i \in DOMAIN content' /\ content'[i] = content[i]
    BY <1>2, <2>1
  <2>3. Lengths'
    BY Zenon, <1>5, <2>1, <2>2 DEF Lengths, Bytes
  <2>4. HeaderAtBoundary'
    BY Zenon, <1>1, <1>4, <2>2 DEF HeaderAtBoundary, Holding
  <2> QED BY Zenon, <2>3, <2>4
<1>9. ASSUME content' = content, write_ptr' = write_ptr
      PROVE  Lengths' /\ HeaderAtBoundary'
  <2>1. Lengths'
    BY Zenon, <1>5, <1>9 DEF Lengths, Bytes
  <2>2. HeaderAtBoundary'
    BY Zenon, <1>1, <1>4, <1>9 DEF HeaderAtBoundary, Holding
  <2> QED BY Zenon, <2>1, <2>2
<1>10. Lengths' /\ HeaderAtBoundary'
  BY Zenon, <1>8, <1>9, AppendEffect
<1>11. Hands'
  BY <1>1, <1>4, <1>5, AppendEffect DEF Hands, Holding, processVars
<1>12. Quiet'
  BY Zenon, <1>1, <1>5 DEF Quiet, processVars, flushVars
<1> QED BY Zenon, <1>3, <1>6, <1>10, <1>11, <1>12

\* SetLength at the end of Append.
LEMMA AppendSetLengthShape ==
  ASSUME Shape, NEW t \in Thread, AppendSetLength(t)
  PROVE  Shape'
<1> USE DEF Shape
<1>1. /\ pc[t] = "appendlen" /\ log_len' = write_ptr
      /\ returned' = returned \cup {arg[t]}
      /\ arg' = [arg EXCEPT ![t] = NoMsg] /\ pc' = [pc EXCEPT ![t] = "idle"]
      /\ UNCHANGED <<content, write_ptr, zpend, log_file, mapped, chunk,
                     processVars, logged, lost, overtaken, short, flushVars>>
  BY Zenon DEF AppendSetLength
<1>2. arg[t] \in Msg
  BY SMTT(30), <1>1 DEF Hands
<1>3. TypeOK'
  BY Zenon, <1>1, <1>2 DEF TypeOK, FF!TypeOK, PC, processVars, flushVars
<1>4. \A u \in Thread : pc'[u] = IF u = t THEN "idle" ELSE pc[u]
  BY Zenon, <1>1 DEF TypeOK
<1>5. \A u \in Thread : pc'[u] \notin Holding
  BY <1>1, <1>4 DEF Mutual, Holding
<1>6. Mutual'
  BY Zenon, <1>5 DEF Mutual
<1>7. Lengths'
  BY Zenon, <1>1 DEF Lengths, Bytes
<1>8. HeaderAtBoundary'
  <2>1. CASE content = <<>>
    BY Zenon, <1>1, <2>1 DEF HeaderAtBoundary, Lengths, Bytes
  <2>2. CASE content # <<>>
    <3>1. content \in Seq(Piece)
      BY Zenon DEF TypeOK
    <3>2. /\ Len(content) \in DOMAIN content
          /\ content[Len(content)].end = write_ptr
      BY SMTT(30), <2>2, <3>1 DEF Lengths, Bytes
    <3> QED BY Zenon, <1>1, <3>2 DEF HeaderAtBoundary
  <2> QED BY Zenon, <2>1, <2>2
<1>9. Hands'
  BY Zenon, <1>1, <1>4, TypeOK DEF Hands, TypeOK, processVars
<1>10. Quiet'
  BY Zenon, <1>1, <1>4 DEF Quiet, processVars, flushVars
<1> QED BY Zenon, <1>3, <1>6, <1>7, <1>8, <1>9, <1>10

\* CallFileFlush up to the copy.
LEMMA CallFileFlushShape ==
  ASSUME Shape, NEW t \in Thread, CallFileFlush(t)
  PROVE  Shape'
<1> USE DEF Shape
<1>1. /\ pc[t] = "flush" /\ ~MtxHeld
      /\ UNCHANGED <<bufferVars, arg, processVars, historyVars, flushVars>>
  BY Zenon DEF CallFileFlush
<1> DEFINE c == [file |-> log_file, text |-> content, pend |-> zpend]
           x == IF write_ptr > 0 THEN "clear" ELSE AfterFlush(t)
<1>2. /\ pc' = [pc EXCEPT ![t] = x]
      /\ chunk' = IF write_ptr > 0 THEN [chunk EXCEPT ![t] = c] ELSE chunk
  BY Zenon DEF CallFileFlush
<1>3. c \in ZChunk
  BY Zenon DEF TypeOK, ZChunk
<1>4. /\ x \in {"clear", "idle", "append"}
      /\ x = "append" => arg[t] \in Msg
      /\ x = "clear" => write_ptr > 0
  BY Zenon DEF AfterFlush, TypeOK
<1>5. c.text = content
  BY Zenon
<1> HIDE DEF c, x
<1>6. /\ \A u \in Thread : pc'[u] = IF u = t THEN x ELSE pc[u]
      /\ \A u \in Thread : chunk'[u] = IF u = t /\ write_ptr > 0 THEN c ELSE chunk[u]
  BY Zenon, <1>2 DEF TypeOK
<1>7. \A u \in Thread : pc[u] \notin Holding
  BY SMTT(30), <1>1 DEF MtxHeld
<1>8. TypeOK'
  BY Zenon, <1>1, <1>2, <1>3, <1>4
     DEF TypeOK, FF!TypeOK, PC, bufferVars, processVars, historyVars, flushVars
<1>9. Mutual'
  BY SMTT(30), <1>6, <1>7 DEF Mutual
<1>10. Lengths' /\ HeaderAtBoundary'
  <2>1. \A u \in Thread : pc[u] \notin {"appendlen", "clearlen"}
    BY Zenon, <1>7 DEF Holding
  <2>2. log_len = write_ptr
    BY Zenon, <2>1 DEF Lengths
  <2>3. UNCHANGED <<content, write_ptr, log_len>>
    BY Zenon, <1>1 DEF bufferVars
  <2>4. Lengths'
    BY Zenon, <2>2, <2>3 DEF Lengths, Bytes
  <2>5. HeaderAtBoundary'
    BY ZenonT(30), <2>1, <2>3 DEF HeaderAtBoundary
  <2> QED BY <2>4, <2>5
<1>11. Hands'
  BY ZenonT(30), <1>1, <1>3, <1>4, <1>5, <1>6, <1>7 DEF Hands, Holding, bufferVars, processVars
<1>12. Quiet'
  BY ZenonT(30), <1>1, <1>6 DEF Quiet, bufferVars, processVars, flushVars
<1> QED BY <1>8, <1>9, <1>10, <1>11, <1>12
-----------------------------------------------------------------------------

\* Clear: the bytes.
LEMMA ClearBytesShape ==
  ASSUME Shape, NEW t \in Thread, ClearBytes(t)
  PROVE  Shape'
<1> USE DEF Shape
<1>1. /\ pc[t] = "clear" /\ write_ptr' = 0 /\ content' = <<>>
      /\ pc' = [pc EXCEPT ![t] = "clearlen"]
      /\ UNCHANGED <<log_len, zpend, log_file, mapped, arg, chunk, processVars,
                     historyVars, flushVars>>
  BY Zenon DEF ClearBytes
<1>2. \A u \in Thread : pc'[u] = IF u = t THEN "clearlen" ELSE pc[u]
  BY Zenon, <1>1 DEF TypeOK
<1>3. \A u \in Thread : u # t => pc[u] \notin Holding
  BY Zenon, <1>1 DEF Mutual, Holding
<1>4. 0 \in 0 .. Capacity
  BY SMTT(30), ConstantsAssumption
<1>5. TypeOK'
  BY Zenon, <1>1, <1>4, EmptyDomain
     DEF TypeOK, FF!TypeOK, PC, processVars, historyVars, flushVars
<1>6. Mutual'
  BY Zenon, <1>2, <1>3 DEF Mutual
<1>7. Lengths' /\ HeaderAtBoundary'
  BY Zenon, <1>1, <1>2 DEF Lengths, Bytes, HeaderAtBoundary
<1>8. Hands'
  BY <1>1, <1>2, <1>3 DEF Hands, Holding, processVars
<1>9. Quiet'
  BY Zenon, <1>1, <1>2 DEF Quiet, processVars, flushVars
<1> QED BY <1>5, <1>6, <1>7, <1>8, <1>9

\* Clear: the length.
LEMMA ClearSetLengthShape ==
  ASSUME Shape, NEW t \in Thread, ClearSetLength(t)
  PROVE  Shape'
<1> USE DEF Shape
<1>1. /\ pc[t] = "clearlen" /\ log_len' = 0
      /\ pc' = [pc EXCEPT ![t] = "submit"]
      /\ UNCHANGED <<content, write_ptr, zpend, log_file, mapped, arg, chunk,
                     processVars, historyVars, flushVars>>
  BY Zenon DEF ClearSetLength
<1>2. \A u \in Thread : pc'[u] = IF u = t THEN "submit" ELSE pc[u]
  BY Zenon, <1>1 DEF TypeOK
<1>3. \A u \in Thread : u # t => pc[u] \notin Holding
  BY Zenon, <1>1 DEF Mutual, Holding
<1>4. 0 \in 0 .. Capacity
  BY ConstantsAssumption
<1>5. TypeOK'
  BY Zenon, <1>1, <1>4 DEF TypeOK, FF!TypeOK, PC, processVars, historyVars, flushVars
<1>6. Mutual'
  BY Zenon, <1>2, <1>3 DEF Mutual
<1>7. write_ptr = 0
  BY Zenon, <1>1 DEF Hands, Lengths, Bytes
<1>8. Lengths' /\ HeaderAtBoundary'
  BY Zenon, <1>1, <1>7 DEF Lengths, HeaderAtBoundary
<1>9. Hands'
  BY <1>1, <1>2, <1>3 DEF Hands, Holding, processVars
<1>10. Quiet'
  BY Zenon, <1>1, <1>2 DEF Quiet, processVars, flushVars
<1> QED BY <1>5, <1>6, <1>8, <1>9, <1>10

\* AsyncFlush from CallFileFlush: nobody has stopped the flusher, so the
\* chunk is pushed.
LEMMA SubmitShape ==
  ASSUME Shape, NEW t \in Thread, Submit(t)
  PROVE  Shape'
<1> USE DEF Shape
<1>1. /\ pc[t] = "submit" /\ chunk' = [chunk EXCEPT ![t] = NoChunk]
      /\ pc' = [pc EXCEPT ![t] = AfterFlush(t)]
      /\ UNCHANGED <<bufferVars, arg, processVars, historyVars>>
  BY Zenon DEF Submit
<1>2. chunk[t] \in ZChunk
  BY Zenon, <1>1 DEF Hands
<1>3. /\ async_buffer' = Append(async_buffer, chunk[t])
      /\ accepted' = accepted \cup {chunk[t]}
      /\ fpc' = FF!Notified /\ fpc \notin {"drain", "flush", "sleep"}
      /\ UNCHANGED <<refused, popped, spc, written, batch>>
  BY Zenon DEF Submit, FF!AsyncFlush, FF!exit, FF!MtxHeld, Quiet
<1>4. async_buffer' \in Seq(ZChunk)
  BY Zenon, <1>2, <1>3, RangeAppend DEF TypeOK, FF!TypeOK
<1>5. fpc' \in {"lock", "done"} /\ fpc \in {"lock", "waiting", "done"}
  BY Zenon, <1>3 DEF FF!Notified, TypeOK, FF!TypeOK, FF!FlusherPC
<1>6. FF!TypeOK'
  BY Zenon, <1>2, <1>3, <1>4, <1>5 DEF TypeOK, FF!TypeOK, FF!FlusherPC
<1>7. /\ AfterFlush(t) \in {"idle", "append"}
      /\ AfterFlush(t) = "append" => arg[t] \in Msg
  BY Zenon DEF AfterFlush, TypeOK
<1>8. TypeOK'
  BY Zenon, <1>1, <1>6, <1>7 DEF TypeOK, PC, bufferVars, processVars, historyVars
<1>9. \A u \in Thread : pc'[u] = IF u = t THEN AfterFlush(t) ELSE pc[u]
  BY Zenon, <1>1 DEF TypeOK
<1>10. \A u \in Thread : u # t => chunk'[u] = chunk[u]
  BY Zenon, <1>1 DEF TypeOK
<1>11. Mutual'
  BY Zenon, <1>1, <1>7, <1>9 DEF Mutual, Holding
<1>12. Lengths' /\ HeaderAtBoundary'
  BY Zenon, <1>1, <1>7, <1>9 DEF Lengths, HeaderAtBoundary, bufferVars
<1>13. Hands'
  <2>1. UNCHANGED <<arg, content, nfile>>
    BY Zenon, <1>1 DEF bufferVars, processVars
  <2>2. ASSUME NEW u \in Thread, u # t
        PROVE  pc'[u] = pc[u] /\ chunk'[u] = chunk[u]
    BY Zenon, <1>9, <1>10, <2>2
  <2>3. pc'[t] \in {"idle", "append"} /\ (pc'[t] = "append" => arg[t] \in Msg)
    BY Zenon, <1>7, <1>9
  <2> QED BY Zenon, <2>1, <2>2, <2>3 DEF Hands
<1>14. proc # "down"
  BY Zenon, <1>1 DEF Quiet
<1>15. Quiet'
  BY Zenon, <1>1, <1>3, <1>5, <1>14 DEF Quiet, bufferVars, processVars
<1> QED BY <1>8, <1>11, <1>12, <1>13, <1>15

\* ZapRecord.asyncFlush up to its first native call.
LEMMA RecordAsyncFlushShape ==
  ASSUME Shape, RecordAsyncFlush
  PROVE  Shape'
<1> USE DEF Shape
<1>1. /\ proc = "up" /\ pc[Main] = "idle" /\ Main \in Thread
      /\ pc' = [pc EXCEPT ![Main] = IF IsCurrentLogFileOversize THEN "exp" ELSE "flush"]
      /\ IsCurrentLogFileOversize => nfile < MaxFile
      /\ UNCHANGED <<bufferVars, arg, chunk, processVars, historyVars, flushVars>>
  BY Zenon DEF RecordAsyncFlush, Thread
<1>2. /\ pc' \in [Thread -> PC] /\ pc'[Main] \in {"exp", "flush"}
      /\ pc'[Main] = "exp" => nfile < MaxFile
      /\ \A u \in Thread \ {Main} : pc'[u] = pc[u]
  BY SMTT(30), <1>1 DEF TypeOK, PC
<1>3. TypeOK'
  BY ZenonT(30), <1>1, <1>2
     DEF TypeOK, FF!TypeOK, bufferVars, processVars, historyVars, flushVars
<1>4. Mutual' /\ Lengths' /\ HeaderAtBoundary'
  BY Zenon, <1>1, <1>2 DEF Mutual, Holding, Lengths, HeaderAtBoundary, bufferVars
<1>5. Hands' /\ Quiet'
  BY Zenon, <1>1, <1>2 DEF Hands, Quiet, bufferVars, processVars, flushVars
<1> QED BY Zenon, <1>3, <1>4, <1>5

\* ExpLogPath: the memset of InitData under log_mtx.
LEMMA ExpLogPathShape ==
  ASSUME Shape, ExpLogPath
  PROVE  Shape'
<1> USE DEF Shape
<1>1. /\ pc[Main] = "exp" /\ Main \in Thread /\ ~MtxHeld
      /\ nfile' = nfile + 1 /\ log_file' \in Opened(log_file, nfile + 1)
      /\ content' = <<>> /\ write_ptr' = 0 /\ log_len' = 0 /\ zpend' = 0
      /\ lost' = lost \cup Msgs(content)
      /\ pc' = [pc EXCEPT ![Main] = "flush"]
      /\ UNCHANGED <<mapped, arg, chunk, proc, disk, fsize, crashes,
                     logged, returned, overtaken, short, flushVars>>
  BY Zenon DEF ExpLogPath, Thread
<1>2. nfile' \in File
  <2>1. nfile < MaxFile
    BY Zenon, <1>1 DEF Hands
  <2>2. nfile \in 1 .. MaxFile /\ MaxFile \in Nat
    BY Zenon, ConstantsAssumption DEF TypeOK, File
  <2>3. nfile + 1 \in 1 .. MaxFile
    BY <2>1, <2>2
  <2> QED BY SMTT(30), <1>1, <2>3 DEF File
<1>3. log_file' \in File \cup {NoFile}
  BY Zenon, <1>1, <1>2 DEF Opened, TypeOK
<1>4. Msgs(content) \subseteq Msg
  BY Zenon, MsgsType DEF TypeOK
<1>5. 0 \in 0 .. Capacity
  BY ConstantsAssumption
<1>6. TypeOK'
  <2>1. FF!TypeOK'
    BY Zenon, <1>1 DEF TypeOK, FF!TypeOK, flushVars
  <2>2. pc' \in [Thread -> PC]
    BY Zenon, <1>1 DEF TypeOK, PC
  <2>3. lost' \subseteq Msg
    BY Zenon, <1>1, <1>4 DEF TypeOK
  <2>4. content' \in Seq(Piece) /\ zpend' \in Nat
    BY Zenon, <1>1, EmptyDomain
  <2>5. write_ptr' \in 0 .. Capacity /\ log_len' \in 0 .. Capacity
    BY Zenon, <1>1, <1>5
  <2> QED BY Zenon, <1>1, <1>2, <1>3, <2>1, <2>2, <2>3, <2>4, <2>5 DEF TypeOK
<1>7. \A u \in Thread : pc'[u] = IF u = Main THEN "flush" ELSE pc[u]
  BY Zenon, <1>1 DEF TypeOK
<1>8. \A u \in Thread : pc[u] \notin Holding
  BY Zenon, <1>1 DEF MtxHeld
<1>9. Mutual' /\ Lengths' /\ HeaderAtBoundary'
  <2>1. Mutual'
    BY Zenon, <1>1, <1>7, <1>8 DEF Mutual, Holding
  <2>2. Lengths' /\ HeaderAtBoundary'
    BY Zenon, <1>1 DEF Lengths, Bytes, HeaderAtBoundary
  <2> QED BY Zenon, <2>1, <2>2
<1>10. Hands'
  <2>1. ASSUME NEW u \in Thread
        PROVE  /\ pc'[u] \in {"append", "appendlen"} => arg'[u] \in Msg
               /\ pc'[u] \in {"clear", "clearlen", "submit"} => chunk'[u] \in ZChunk
               /\ pc'[u] = "clear" => chunk'[u].text = content'
               /\ pc'[u] = "clearlen" => content' = <<>>
               /\ u = Main /\ pc'[u] = "exp" => nfile' < MaxFile
    <3>1. CASE u = Main
      <4>1. pc'[u] = "flush"
        BY Zenon, <1>7, <3>1
      <4> QED BY Zenon, <4>1
    <3>2. CASE u # Main
      <4>1. pc'[u] = pc[u] /\ pc[u] # "clear"
        BY Zenon, <1>7, <1>8, <3>2 DEF Holding
      <4> QED BY Zenon, <1>1, <3>2, <4>1 DEF Hands
    <3> QED BY Zenon, <3>1, <3>2
  <2> QED BY Zenon, <2>1 DEF Hands
<1>11. Quiet'
  BY Zenon, <1>1, <1>7 DEF Quiet, flushVars
<1> QED BY Zenon, <1>6, <1>9, <1>10, <1>11
-----------------------------------------------------------------------------
\* Flush: the popped chunk goes to its file, or is dropped for want of one.
LEMMA FlushToFileShape ==
  ASSUME Shape, FlushToFile
  PROVE  Shape'
<1> USE DEF Shape
<1>1. PICK c \in ZChunk : popped = <<c>>
  BY Zenon DEF FlushToFile, FF!Flush, Quiet
<1>2. /\ fpc = "flush" /\ fpc' = "drain" /\ popped' = <<>>
      /\ written' = IF Head(popped) \in {d \in ZChunk : d.file = NoFile}
                      THEN written ELSE written \o popped
      /\ UNCHANGED <<bufferVars, threadVars, proc, disk, nfile, crashes,
                     logged, returned, overtaken, short, async_buffer, spc, accepted,
                     refused, batch>>
  BY Zenon DEF FlushToFile, FF!Flush
<1>3. IF c.file = NoFile
        THEN lost' = lost \cup Msgs(c.text) /\ UNCHANGED fsize
        ELSE fsize' = [fsize EXCEPT ![c.file] = @ + Bytes(c.text)] /\ UNCHANGED lost
  <2>1. Head(popped) = c
    BY Zenon, <1>1, HeadSingle
  <2>2. CASE c.file = NoFile
    BY Zenon, <2>1, <2>2 DEF FlushToFile
  <2>3. CASE c.file # NoFile
    BY Zenon, <2>1, <2>3 DEF FlushToFile
  <2> QED BY Zenon, <2>2, <2>3
<1>4. c.file \in File \cup {NoFile} /\ c.text \in Seq(Piece)
  BY Zenon, <1>1 DEF ZChunk
<1>5. Bytes(c.text) \in Nat
  <2>1. CASE c.text = <<>>
    BY Zenon, <2>1 DEF Bytes
  <2>2. CASE c.text # <<>>
    <3>1. c.text[Len(c.text)] \in Piece
      BY <1>4, <2>2
    <3>2. \A p \in Piece : p.end \in Nat
      BY ConstantsAssumption DEF Piece
    <3> QED BY Zenon, <2>2, <3>1, <3>2 DEF Bytes
  <2> QED BY Zenon, <2>1, <2>2
<1>6. fsize' \in [File -> Nat]
  <2>1. fsize \in [File -> Nat]
    BY Zenon DEF TypeOK
  <2> QED BY <1>3, <1>4, <1>5, <2>1
<1>7. lost' \subseteq Msg
  BY Zenon, <1>3, <1>4, MsgsType DEF TypeOK
<1>8. written' \in Seq(ZChunk)
  <2>1. written \in Seq(ZChunk)
    BY Zenon DEF TypeOK, FF!TypeOK
  <2>2. written \o popped \in Seq(ZChunk)
    BY <1>1, <2>1
  <2> QED BY Zenon, <1>2, <2>1, <2>2
<1>9. FF!TypeOK'
  BY Zenon, <1>2, <1>8, EmptyDomain DEF TypeOK, FF!TypeOK, FF!FlusherPC
<1>10. TypeOK'
  BY Zenon, <1>2, <1>6, <1>7, <1>9 DEF TypeOK, bufferVars, threadVars
<1>11. Mutual' /\ Lengths' /\ HeaderAtBoundary' /\ Hands'
  BY Zenon, <1>2 DEF Mutual, Lengths, HeaderAtBoundary, Hands, bufferVars, threadVars
<1>12. Quiet'
  BY Zenon, <1>2 DEF Quiet, bufferVars, threadVars
<1> QED BY Zenon, <1>10, <1>11, <1>12

\* The other steps of the flusher.
LEMMA FlusherOtherShape ==
  ASSUME Shape, proc = "up",
         FF!FlusherLock \/ FF!FlusherPop \/ FF!FlusherTestExit
           \/ FF!FlusherWait \/ FF!SpuriousWakeup,
         UNCHANGED <<bufferVars, threadVars, processVars, historyVars>>
  PROVE  Shape'
<1> USE DEF Shape
<1>1. /\ fpc # "flush" /\ popped = <<>> /\ spc = "running"
      /\ UNCHANGED <<spc, written, accepted, refused>>
  BY Zenon DEF FF!FlusherLock, FF!FlusherPop, FF!FlusherTestExit, FF!FlusherWait,
         FF!SpuriousWakeup, Quiet
<1>2. /\ async_buffer \in Seq(ZChunk)
      /\ batch \subseteq ZChunk
  BY Zenon DEF TypeOK, FF!TypeOK
<1>3. /\ async_buffer' \in Seq(ZChunk) /\ batch' \subseteq ZChunk
      /\ fpc' \in FF!FlusherPC
      /\ fpc' = "flush" => \E c \in ZChunk : popped' = <<c>>
      /\ fpc' # "flush" => popped' = <<>>
  <2>1. CASE FF!FlusherPop
    <3>1. /\ async_buffer # <<>> /\ fpc' = "flush" /\ batch' = batch
          /\ popped' = <<async_buffer[Len(async_buffer)]>>
          /\ async_buffer' = SubSeq(async_buffer, 1, Len(async_buffer) - 1)
      BY Zenon, <2>1 DEF FF!FlusherPop
    <3>2. /\ async_buffer[Len(async_buffer)] \in ZChunk
          /\ async_buffer' \in Seq(ZChunk)
      BY Zenon, <1>2, <3>1, RangeFrontLast
    <3> QED BY Zenon, <1>2, <3>1, <3>2 DEF FF!FlusherPC
  <2>2. CASE FF!FlusherLock
    <3>1. FF!Range(async_buffer) \subseteq ZChunk
      BY <1>2 DEF FF!Range
    <3> QED BY Zenon, <1>1, <1>2, <2>2, <3>1 DEF FF!FlusherLock, FF!FlusherPC
  <2>3. CASE FF!FlusherTestExit \/ FF!FlusherWait \/ FF!SpuriousWakeup
    BY Zenon, <1>1, <1>2, <2>3 DEF FF!FlusherTestExit, FF!FlusherWait,
       FF!SpuriousWakeup, FF!FlusherPC
  <2> QED BY Zenon, <2>1, <2>2, <2>3
<1>4. popped' \in Seq(ZChunk) /\ Len(popped') <= 1
  <2>1. CASE fpc' = "flush"
    <3>1. PICK c \in ZChunk : popped' = <<c>>
      BY Zenon, <1>3, <2>1
    <3> QED BY <3>1
  <2>2. CASE fpc' # "flush"
    BY <1>3, <2>2
  <2> QED BY Zenon, <2>1, <2>2
<1>5. FF!TypeOK'
  BY Zenon, <1>1, <1>3, <1>4 DEF TypeOK, FF!TypeOK
<1>6. TypeOK'
  BY Zenon, <1>5 DEF TypeOK, bufferVars, threadVars, processVars, historyVars
<1>7. Mutual' /\ Lengths' /\ HeaderAtBoundary' /\ Hands'
  BY Zenon DEF Mutual, Lengths, HeaderAtBoundary, Hands, bufferVars, threadVars,
         processVars
<1>8. Quiet'
  BY ZenonT(30), <1>1, <1>3 DEF Quiet, bufferVars, threadVars, processVars
<1> QED BY Zenon, <1>6, <1>7, <1>8
-----------------------------------------------------------------------------
\* The death of the process.
LEMMA CrashShape ==
  ASSUME Shape, Crash
  PROVE  Shape'
<1> USE DEF Shape
<1>1. /\ crashes < MaxCrash /\ crashes' = crashes + 1 /\ proc' = "down"
      /\ disk' = IF mapped = "mmap" THEN [text |-> content, log_len |-> log_len]
                                    ELSE disk
      /\ lost' = lost \cup InHands \cup MsgsOf(async_buffer) \cup MsgsOf(popped)
                      \cup (IF mapped = "mmap" THEN {} ELSE Msgs(content))
      /\ content' = <<>> /\ log_len' = 0 /\ write_ptr' = 0 /\ zpend' = 0
      /\ log_file' = NoFile
      /\ overtaken' = {}
      /\ UNCHANGED <<mapped, nfile, fsize, logged, returned, short>>
  BY Zenon DEF Crash
<1>2. /\ pc' = [t \in Thread |-> "idle"]
      /\ arg' = [t \in Thread |-> NoMsg]
      /\ chunk' = [t \in Thread |-> NoChunk]
  BY Zenon DEF Crash
<1>3. /\ async_buffer' = <<>> /\ fpc' = "lock" /\ popped' = <<>>
      /\ accepted' = {} /\ refused' = {} /\ batch' = {}
      /\ UNCHANGED <<spc, written>>
  BY Zenon DEF Crash
<1>4. FF!TypeOK'
  BY <1>3 DEF TypeOK, FF!TypeOK, FF!FlusherPC
<1>5. lost' \subseteq Msg
  <2>1. InHands \subseteq Msg
    <3>1. ASSUME NEW t \in Thread PROVE InHand(t) \subseteq Msg
      <4>1. CASE pc[t] \in {"clearlen", "submit"}
        <5>1. chunk[t].text \in Seq(Piece)
          BY Zenon, <4>1 DEF Hands, ZChunk
        <5> QED BY Zenon, <4>1, <5>1, MsgsType DEF InHand
      <4>2. CASE pc[t] \notin {"clearlen", "submit"}
        BY Zenon, <4>2 DEF InHand
      <4> QED BY Zenon, <4>1, <4>2
    <3> QED BY Zenon, <3>1 DEF InHands
  <2>2. MsgsOf(async_buffer) \subseteq Msg /\ MsgsOf(popped) \subseteq Msg
    BY Zenon, MsgsOfType DEF TypeOK, FF!TypeOK
  <2>3. Msgs(content) \subseteq Msg /\ lost \subseteq Msg
    BY SMTT(30), MsgsType DEF TypeOK
  <2> QED BY Zenon, <1>1, <2>1, <2>2, <2>3
<1>6. disk' \in [text : Seq(Piece), log_len : 0 .. Capacity]
  BY Zenon, <1>1 DEF TypeOK
<1>7. crashes' \in 0 .. MaxCrash /\ 0 \in 0 .. Capacity
  <2>1. crashes \in 0 .. MaxCrash /\ MaxCrash \in Nat /\ Capacity \in Nat
    BY Zenon, ConstantsAssumption DEF TypeOK
  <2> QED BY <1>1, <2>1
<1>8. /\ pc' \in [Thread -> PC] /\ arg' \in [Thread -> Msg \cup {NoMsg}]
      /\ chunk' \in [Thread -> ZChunk \cup {NoChunk}]
  BY SMTT(30), <1>2 DEF PC
<1>9. TypeOK'
  <2>1. /\ content' = <<>> /\ log_len' = 0 /\ write_ptr' = 0 /\ zpend' = 0
        /\ log_file' = NoFile /\ proc' = "down"
        /\ overtaken' = {}
        /\ UNCHANGED <<mapped, nfile, fsize, logged, returned, short>>
    BY Zenon, <1>1
  <2>2. content' \in Seq(Piece) /\ zpend' \in Nat
    BY Zenon, <2>1, EmptyDomain
  <2>3. write_ptr' \in 0 .. Capacity /\ log_len' \in 0 .. Capacity
    BY Zenon, <1>7, <2>1
  <2> QED BY Zenon, <1>4, <1>5, <1>6, <1>7, <1>8, <2>1, <2>2, <2>3 DEF TypeOK
<1>10. \A t \in Thread : pc'[t] = "idle"
  BY SMTT(30), <1>2
<1>11. Mutual' /\ Lengths' /\ HeaderAtBoundary'
  BY Zenon, <1>1, <1>10 DEF Mutual, Holding, Lengths, Bytes, HeaderAtBoundary
<1>12. Hands'
  BY SMTT(30), <1>10 DEF Hands
<1>13. Quiet'
  BY Zenon, <1>1, <1>3, <1>10 DEF Quiet
<1> QED BY <1>9, <1>11, <1>12, <1>13

\* The start of the process.
LEMMA InitNativeShape ==
  ASSUME Shape, InitNative
  PROVE  Shape'
<1> USE DEF Shape
<1>1. /\ proc = "down" /\ proc' = "up" /\ mapped' \in {"mmap", "heap"}
      /\ lost' = IF mapped' = "mmap"
                   THEN lost \cup (Msgs(disk.text) \ MsgsOf(async_buffer'))
                   ELSE lost
      /\ disk' = IF mapped' = "mmap" THEN EmptyDisk ELSE disk
      /\ nfile' \in File
      /\ log_file' \in Opened(NoFile, nfile')
      /\ UNCHANGED <<content, log_len, write_ptr, zpend, threadVars, fsize,
                     crashes, logged, returned, overtaken, short, fpc, popped, spc,
                     written, accepted, refused, batch>>
  BY Zenon DEF InitNative
<1>2. async_buffer' = <<>>
  BY DEF InitNative, WriteDirty2File, DirtyLength
<1>3. FF!TypeOK'
  BY Zenon, <1>1, <1>2, EmptyDomain DEF TypeOK, FF!TypeOK
<1>4. disk' \in [text : Seq(Piece), log_len : 0 .. Capacity]
  <2>1. 0 \in 0 .. Capacity
    BY ConstantsAssumption
  <2>2. EmptyDisk \in [text : Seq(Piece), log_len : 0 .. Capacity]
    BY <2>1 DEF EmptyDisk
  <2>3. disk \in [text : Seq(Piece), log_len : 0 .. Capacity]
    BY Zenon DEF TypeOK
  <2> QED BY Zenon, <1>1, <2>2, <2>3
<1>5. lost' \subseteq Msg
  <2>1. disk.text \in Seq(Piece)
    BY Zenon DEF TypeOK
  <2> QED BY Zenon, <1>1, <2>1, MsgsType DEF TypeOK
<1>6. log_file' \in File \cup {NoFile}
  BY SMTT(30), <1>1 DEF Opened
<1>7. TypeOK'
  BY ZenonT(30), <1>1, <1>3, <1>4, <1>5, <1>6 DEF TypeOK, threadVars
<1>8. \A t \in Thread : pc'[t] = "idle"
  BY ZenonT(30), <1>1 DEF Quiet, threadVars
<1>9. Mutual' /\ Lengths' /\ HeaderAtBoundary'
  <2>1. content' = <<>> /\ log_len' = 0 /\ write_ptr' = 0
    BY Zenon, <1>1 DEF Quiet
  <2> QED
    BY SMTT(30), <1>8, <2>1 DEF Mutual, Holding, Lengths, Bytes, HeaderAtBoundary
<1>10. Hands'
  BY Zenon, <1>8 DEF Hands
<1>11. Quiet'
  <2>1. mapped' = "mmap" => disk'.text = <<>>
    BY Zenon, <1>1 DEF EmptyDisk
  <2> QED BY Zenon, <1>1, <1>2, <1>8, <2>1 DEF Quiet
<1> QED BY <1>7, <1>9, <1>10, <1>11

\* Every step of the pipeline preserves the invariant.
LEMMA NextShape == Shape /\ [Next]_vars => Shape'
<1> SUFFICES ASSUME Shape, [Next]_vars PROVE Shape'
  BY Zenon
<1>1. CASE \E t \in Writer, m \in Msg \ logged : WriteNative(t, m)
  BY Zenon, <1>1, WriteNativeShape
<1>2. CASE \E t \in Thread : ThreadStep(t)
  BY Zenon, <1>2, AppendBytesShape, AppendSetLengthShape, CallFileFlushShape,
     ClearBytesShape, ClearSetLengthShape, SubmitShape DEF ThreadStep
<1>3. CASE RecordAsyncFlush \/ ExpLogPath
  BY Zenon, <1>3, RecordAsyncFlushShape, ExpLogPathShape
<1>4. CASE FlusherStep \/ Spurious
  BY Zenon, <1>4, FlushToFileShape, FlusherOtherShape DEF FlusherStep, Spurious
<1>5. CASE Crash \/ InitNative
  BY <1>5, CrashShape, InitNativeShape
<1>6. CASE UNCHANGED vars
  <2>1. FF!TypeOK'
    BY Zenon, <1>6 DEF Shape, TypeOK, FF!TypeOK, vars, flushVars
  <2>2. TypeOK'
    BY ZenonT(30), <1>6, <2>1 DEF Shape, TypeOK, vars, bufferVars, threadVars, processVars,
       historyVars
  <2>0. UNCHANGED <<content, log_len, write_ptr, pc, arg, chunk, nfile>>
    BY Zenon, <1>6 DEF vars, bufferVars, threadVars, processVars
  <2>3. Mutual'
    BY ZenonT(30), <2>0 DEF Shape, Mutual
  <2>5. Lengths'
    BY ZenonT(30), <2>0 DEF Shape, Lengths, Bytes
  <2>6. HeaderAtBoundary'
    BY ZenonT(30), <2>0 DEF Shape, HeaderAtBoundary
  <2>7. Hands'
    BY ZenonT(30), <2>0 DEF Shape, Hands
  <2>4. Quiet'
    BY ZenonT(30), <1>6 DEF Shape, Quiet, vars, bufferVars, threadVars, processVars, flushVars
  <2> QED BY Zenon, <2>2, <2>3, <2>4, <2>5, <2>6, <2>7 DEF Shape
<1> QED BY Zenon, <1>1, <1>2, <1>3, <1>4, <1>5, <1>6 DEF Next

\* The invariant holds in every reachable state: Append, CallFileFlush and
\* Clear exclude each other and keep the pointers inside the buffer.
LEMMA ShapeInductive == SafetySpec => []Shape
BY InitShape, NextShape, PTL DEF SafetySpec

\* The variables keep their types: in particular the write pointer stays
\* inside the buffer, whatever the threads do.
THEOREM TypeCorrect == SafetySpec => []TypeOK
<1>1. Shape => TypeOK
  BY Zenon DEF Shape
<1> QED BY <1>1, ShapeInductive, PTL

\* Whenever the process dies, the length Append and Clear have left in the
\* header ends a message, unless it dies between the halves of Clear.
THEOREM HeaderAtBoundaryHolds == SafetySpec => []HeaderAtBoundary
<1>1. Shape => HeaderAtBoundary
  BY Zenon DEF Shape
<1> QED BY <1>1, ShapeInductive, PTL
-----------------------------------------------------------------------------

\* Bytes of the deflate stream stay inside zlib only behind a full buffer.
FullIfCut(c) == c.pend > 0 => Bytes(c.text) = Capacity

\* zpend counts from the last restart of the stream, so it says something
\* only while the buffer is not empty; a chunk is a copy of such a buffer.
Streams ==
    /\ Mode = "plain" => zpend = 0
    /\ write_ptr > 0 /\ zpend > 0 => write_ptr = Capacity
    /\ \A t \in Thread : pc[t] \in {"clear", "clearlen", "submit"} => FullIfCut(chunk[t])
    /\ \A c \in Range(async_buffer) : FullIfCut(c)

\* Append leaves bytes inside zlib only by filling the buffer.
LEMMA AppendStream ==
  ASSUME Shape, Streams, NEW t \in Thread, AppendBytes(t)
  PROVE  /\ Mode = "plain" => zpend' = 0
         /\ write_ptr' > 0 /\ zpend' > 0 => write_ptr' = Capacity
<1>1. PICK c \in Encoded(arg[t]) :
        LET out == c + IF write_ptr = 0 THEN 0 ELSE zpend
            n   == WriteSize(out)
        IN /\ write_ptr' = write_ptr + n
           /\ zpend' = IF Mode = "deflate" /\ n > 0 THEN out - n ELSE zpend
  BY Zenon DEF AppendBytes
<1> DEFINE out == c + IF write_ptr = 0 THEN 0 ELSE zpend
           n   == WriteSize(out)
<1>2. arg[t] \in Msg
  BY Zenon DEF AppendBytes, Shape, Hands
<1>3. c \in Nat \ {0}
  <2>1. c \in Encoded(arg[t])
    BY Zenon
  <2> QED BY Zenon, <1>2, <2>1, EncodedSize, Numbers DEF Shape
<1>4. /\ out \in Nat \ {0} /\ zpend \in Nat /\ write_ptr \in 0 .. Capacity
      /\ Capacity \in Nat
  BY <1>3, ConstantsAssumption DEF Shape, TypeOK
<1>5. /\ write_ptr' = write_ptr + n
      /\ zpend' = IF Mode = "deflate" /\ n > 0 THEN out - n ELSE zpend
  BY Zenon, <1>1
<1> HIDE DEF out
<1>6. n = IF out <= Capacity - write_ptr THEN out ELSE Capacity - write_ptr
  BY Zenon DEF WriteSize, EmptySize
<1> HIDE DEF n
<1>7. Mode = "plain" => zpend' = 0
  BY Zenon, <1>5 DEF Streams
<1>8. ASSUME write_ptr' > 0, zpend' > 0 PROVE write_ptr' = Capacity
  <2>1. CASE Mode = "deflate" /\ n > 0
    BY <1>4, <1>5, <1>6, <1>8, <2>1
  <2>2. CASE Mode # "deflate"
    BY <1>7, <1>8, <2>2, ConstantsAssumption
  <2>3. CASE ~(n > 0)
    <3>1. n = 0 /\ write_ptr = Capacity
      BY <1>4, <1>6, <2>3
    <3> QED BY <1>4, <1>5, <3>1
  <2> QED BY Zenon, <2>1, <2>2, <2>3
<1> QED BY Zenon, <1>7, <1>8

\* Every step keeps the streams whole or behind a full buffer.
LEMMA NextStreams == Shape /\ Streams /\ [Next]_vars => Streams'
<1> SUFFICES ASSUME Shape, Streams, [Next]_vars PROVE Streams'
  BY Zenon
<1>1. ASSUME UNCHANGED <<write_ptr, zpend, chunk>>,
             \A u \in Thread : pc'[u] \in {"clear", "clearlen", "submit"} =>
                                 pc[u] \in {"clear", "clearlen", "submit"},
             Range(async_buffer') \subseteq Range(async_buffer)
      PROVE  Streams'
  BY Zenon, <1>1 DEF Streams, FullIfCut
<1>2. ASSUME NEW t \in Writer, NEW m \in Msg, WriteNative(t, m)
      PROVE  Streams'
  <2>1. /\ UNCHANGED <<write_ptr, zpend, chunk, async_buffer>>
        /\ t \in Thread /\ pc'[t] \in {"flush", "append"}
        /\ \A u \in Thread \ {t} : pc'[u] = pc[u]
    BY Zenon, <1>2 DEF WriteNative, bufferVars, flushVars, Thread, Shape, TypeOK
  <2> QED BY Zenon, <1>1, <2>1
<1>3. ASSUME NEW t \in Thread, AppendBytes(t)
      PROVE  Streams'
  <2>1. /\ UNCHANGED <<chunk, async_buffer>> /\ pc'[t] = "appendlen"
        /\ \A u \in Thread \ {t} : pc'[u] = pc[u]
    BY Zenon, <1>3 DEF AppendBytes, flushVars, Shape, TypeOK
  <2> QED BY Zenon, <1>3, <2>1, AppendStream DEF Streams, FullIfCut
<1>4. ASSUME NEW t \in Thread, AppendSetLength(t)
      PROVE  Streams'
  <2>1. /\ UNCHANGED <<write_ptr, zpend, chunk, async_buffer>> /\ pc'[t] = "idle"
        /\ \A u \in Thread \ {t} : pc'[u] = pc[u]
    BY Zenon, <1>4 DEF AppendSetLength, flushVars, Shape, TypeOK
  <2> QED BY Zenon, <1>1, <2>1
<1>5. ASSUME NEW t \in Thread, CallFileFlush(t)
      PROVE  Streams'
  <2>1. /\ UNCHANGED <<write_ptr, zpend, async_buffer>>
        /\ \A u \in Thread \ {t} : pc'[u] = pc[u] /\ chunk'[u] = chunk[u]
    BY Zenon, <1>5 DEF CallFileFlush, bufferVars, flushVars, Shape, TypeOK
  <2>2. CASE write_ptr > 0
    <3>1. chunk'[t] = [file |-> log_file, text |-> content, pend |-> zpend]
      BY Zenon, <1>5, <2>2 DEF CallFileFlush, Shape, TypeOK
    <3>2. write_ptr = Bytes(content)
      BY Zenon DEF Shape, Lengths
    <3>3. FullIfCut(chunk'[t])
      BY <2>2, <3>1, <3>2 DEF Streams, FullIfCut
    <3> QED BY Zenon, <2>1, <3>3 DEF Streams, FullIfCut
  <2>3. CASE ~(write_ptr > 0)
    <3>1. chunk' = chunk /\ pc'[t] \in {"idle", "append"}
      BY Zenon, <1>5, <2>3 DEF CallFileFlush, AfterFlush, Shape, TypeOK
    <3> QED BY Zenon, <1>1, <2>1, <3>1
  <2> QED BY Zenon, <2>2, <2>3
<1>6. ASSUME NEW t \in Thread, ClearBytes(t)
      PROVE  Streams'
  <2>1. /\ UNCHANGED <<zpend, chunk, async_buffer>> /\ write_ptr' = 0
        /\ pc[t] = "clear" /\ \A u \in Thread \ {t} : pc'[u] = pc[u]
    BY Zenon, <1>6 DEF ClearBytes, flushVars, Shape, TypeOK
  <2> QED BY <2>1 DEF Streams, FullIfCut
<1>7. ASSUME NEW t \in Thread, ClearSetLength(t)
      PROVE  Streams'
  <2>1. /\ UNCHANGED <<write_ptr, zpend, chunk, async_buffer>>
        /\ pc[t] = "clearlen" /\ \A u \in Thread \ {t} : pc'[u] = pc[u]
    BY Zenon, <1>7 DEF ClearSetLength, flushVars, Shape, TypeOK
  <2> QED BY Zenon, <1>1, <2>1
<1>8. ASSUME NEW t \in Thread, Submit(t)
      PROVE  Streams'
  <2>1. /\ UNCHANGED <<write_ptr, zpend>>
        /\ pc[t] = "submit" /\ pc'[t] \in {"idle", "append"}
        /\ \A u \in Thread \ {t} : pc'[u] = pc[u] /\ chunk'[u] = chunk[u]
    BY Zenon, <1>8 DEF Submit, AfterFlush, bufferVars, Shape, TypeOK
  <2>2. chunk[t] \in ZChunk /\ async_buffer' = Append(async_buffer, chunk[t])
    BY Zenon, <1>8, <2>1 DEF Submit, FF!AsyncFlush, FF!exit, Shape, Quiet, Hands
  <2>3. Range(async_buffer') = Range(async_buffer) \cup {chunk[t]}
    <3>1. async_buffer \in Seq(ZChunk)
      BY Zenon DEF Shape, TypeOK, FF!TypeOK
    <3> QED BY <2>2, <3>1, RangeAppend
  <2> QED BY Zenon, <2>1, <2>3 DEF Streams, FullIfCut
<1>9. CASE RecordAsyncFlush
  <2>1. /\ UNCHANGED <<write_ptr, zpend, chunk, async_buffer>>
        /\ Main \in Thread /\ pc'[Main] \in {"exp", "flush"}
        /\ \A u \in Thread \ {Main} : pc'[u] = pc[u]
    BY Zenon, <1>9 DEF RecordAsyncFlush, bufferVars, flushVars, Thread, Shape, TypeOK
  <2> QED BY Zenon, <1>1, <2>1
<1>10. CASE ExpLogPath
  <2>1. /\ UNCHANGED <<chunk, async_buffer>> /\ zpend' = 0 /\ write_ptr' = 0
        /\ Main \in Thread /\ pc'[Main] = "flush"
        /\ \A u \in Thread \ {Main} : pc'[u] = pc[u]
    BY Zenon, <1>10 DEF ExpLogPath, flushVars, Thread, Shape, TypeOK
  <2> QED BY <2>1 DEF Streams, FullIfCut
<1>11. CASE FlusherStep \/ Spurious
  <2>1. UNCHANGED <<write_ptr, zpend, chunk, pc>>
    BY Zenon, <1>11 DEF FlusherStep, Spurious, FlushToFile, bufferVars, threadVars
  <2>2. Range(async_buffer') \subseteq Range(async_buffer)
    <3>1. CASE FF!FlusherPop
      BY Zenon, <3>1, RangeFrontLast DEF FF!FlusherPop, Shape, TypeOK, FF!TypeOK
    <3>2. CASE ~FF!FlusherPop
      BY Zenon, <1>11, <3>2 DEF FlusherStep, Spurious, FlushToFile, FF!Flush, FF!FlusherLock,
                         FF!FlusherTestExit, FF!FlusherWait, FF!SpuriousWakeup
    <3> QED BY Zenon, <3>1, <3>2
  <2> QED BY Zenon, <1>1, <2>1, <2>2
<1>12. CASE Crash
  <2>1. /\ zpend' = 0 /\ async_buffer' = <<>> /\ \A u \in Thread : pc'[u] = "idle"
    BY Zenon, <1>12 DEF Crash
  <2> QED BY <2>1, RangeEmpty DEF Streams
<1>13. CASE InitNative
  <2>1. /\ UNCHANGED <<write_ptr, zpend, chunk, pc>> /\ async_buffer' = <<>>
    BY <1>13 DEF InitNative, threadVars, WriteDirty2File, DirtyLength
  <2> QED BY Zenon, <1>1, <2>1, RangeEmpty
<1>14. CASE UNCHANGED vars
  <2>1. UNCHANGED <<write_ptr, zpend, chunk, pc, async_buffer>>
    BY Zenon, <1>14 DEF vars, bufferVars, threadVars, flushVars
  <2> QED BY Zenon, <1>1, <2>1
<1> QED
  BY Zenon, <1>2, <1>3, <1>4, <1>5, <1>6, <1>7, <1>8, <1>9, <1>10, <1>11, <1>12, <1>13,
     <1>14 DEF Next, ThreadStep

\* Streams holds in every reachable state.
LEMMA StreamsInductive == SafetySpec => []Streams
<1>1. Init => Streams
  BY RangeEmpty DEF Init, FF!Init, Streams
<1> QED BY <1>1, NextStreams, ShapeInductive, PTL DEF SafetySpec

\* A chunk handed to the flusher ends inside a deflate stream only if the
\* buffer was full: CallFileFlush never cuts a stream that still had room.
THEOREM StreamCutOnlyWhenFullHolds == SafetySpec => []StreamCutOnlyWhenFull
<1>1. Streams => StreamCutOnlyWhenFull
  BY Zenon DEF Streams, FullIfCut, StreamCutOnlyWhenFull, Range
<1> QED BY <1>1, StreamsInductive, PTL
-----------------------------------------------------------------------------
(***************************************************************************)
(* Where the messages of the log pipeline are, for any threads, messages   *)
(* and sizes.  They vanish only where the code throws bytes away, no       *)
(* message is in two places, and one that fits the buffer is cut or dropped *)
(* only by a thread that another one overtook.                             *)
(***************************************************************************)

\* Where a message can be: stored somewhere, or thrown away.
Known == Stored \cup lost

\* A step that leaves alone the hands of the other threads, and only adds
\* to the hands of t, loses nothing from any hand.
LEMMA HandsKept ==
  ASSUME NEW t \in Thread,
         \A u \in Thread \ {t} : pc'[u] = pc[u] /\ chunk'[u] = chunk[u],
         InHand(t) \subseteq InHand(t)'
  PROVE  InHands \subseteq InHands'
<1>1. \A u \in Thread : InHand(u) \subseteq InHand(u)'
  BY Zenon DEF InHand
<1> QED BY Zenon, <1>1 DEF InHands

\* Append puts the message into the buffer, or throws it away.
LEMMA AppendKnown ==
  ASSUME Shape, NEW t \in Thread, AppendBytes(t)
  PROVE  Known \cup {arg[t]} \subseteq Known'
<1>1. UNCHANGED <<disk, async_buffer, popped, written, chunk>>
  BY Zenon DEF AppendBytes, processVars, flushVars
<1>2. InHands \subseteq InHands'
  <2>1. /\ pc[t] = "append"
        /\ \A u \in Thread \ {t} : pc'[u] = pc[u] /\ chunk'[u] = chunk[u]
    BY Zenon, <1>1 DEF AppendBytes, Shape, TypeOK
  <2>2. InHand(t) = {}
    BY Zenon, <2>1 DEF InHand
  <2> QED BY Zenon, <2>1, <2>2, HandsKept
<1>3. Msgs(content) \cup lost \cup {arg[t]} \subseteq Msgs(content') \cup lost'
  <2>1. content \in Seq(Piece)
    BY Zenon DEF Shape, TypeOK
  <2>2. ASSUME NEW p \in Piece, content' = Append(content, p), p.msg = arg[t]
        PROVE  Msgs(content') = Msgs(content) \cup {arg[t]}
    BY Zenon, <2>1, <2>2, MsgsAppend
  <2> QED BY Zenon, <2>2, AppendEffect
<1> QED BY Zenon, <1>1, <1>2, <1>3 DEF Known, Stored

\* The steps of CallFileFlush: the bytes are in the hand of the thread
\* before they are cleared, and in the vector before the hand is empty.
LEMMA CallFileFlushKnown ==
  ASSUME Shape, NEW t \in Thread,
         CallFileFlush(t) \/ ClearBytes(t) \/ ClearSetLength(t) \/ Submit(t)
  PROVE  Known \subseteq Known'
<1>1. /\ UNCHANGED <<disk, popped, written, lost>>
      /\ \A u \in Thread \ {t} : pc'[u] = pc[u] /\ chunk'[u] = chunk[u]
  BY Zenon DEF CallFileFlush, ClearBytes, ClearSetLength, Submit, FF!AsyncFlush,
         processVars, flushVars, historyVars, Shape, TypeOK
<1>2. CASE CallFileFlush(t)
  <2>1. pc[t] = "flush" /\ UNCHANGED <<content, async_buffer>>
    BY Zenon, <1>2 DEF CallFileFlush, bufferVars, flushVars
  <2>2. InHands \subseteq InHands'
    BY Zenon, <1>1, <2>1, HandsKept DEF InHand
  <2> QED BY <1>1, <2>1, <2>2 DEF Known, Stored
<1>3. CASE ClearBytes(t)
  <2>1. /\ pc[t] = "clear" /\ pc'[t] = "clearlen" /\ chunk'[t] = chunk[t]
        /\ UNCHANGED async_buffer
    BY Zenon, <1>3 DEF ClearBytes, Shape, TypeOK, flushVars
  <2>2. InHands \subseteq InHands'
    BY Zenon, <1>1, <2>1, HandsKept DEF InHand
  <2>3. Msgs(content) \subseteq InHands'
    <3>1. chunk[t].text = content
      BY Zenon, <2>1 DEF Shape, Hands
    <3>2. InHand(t)' = Msgs(content)
      BY Zenon, <2>1, <3>1 DEF InHand
    <3> QED BY Zenon, <3>2 DEF InHands
  <2> QED BY <1>1, <2>1, <2>2, <2>3 DEF Known, Stored
<1>4. CASE ClearSetLength(t)
  <2>1. /\ pc[t] = "clearlen" /\ pc'[t] = "submit" /\ chunk'[t] = chunk[t]
        /\ UNCHANGED <<content, async_buffer>>
    BY Zenon, <1>4 DEF ClearSetLength, Shape, TypeOK, flushVars
  <2>2. InHands \subseteq InHands'
    BY Zenon, <1>1, <2>1, HandsKept DEF InHand
  <2> QED BY <1>1, <2>1, <2>2 DEF Known, Stored
<1>5. CASE Submit(t)
  <2>1. pc[t] = "submit" /\ UNCHANGED content
    BY Zenon, <1>5 DEF Submit, bufferVars
  <2>2. chunk[t] \in ZChunk
    BY Zenon, <2>1 DEF Shape, Hands
  <2>3. async_buffer' = Append(async_buffer, chunk[t])
    BY Zenon, <1>5 DEF Submit, FF!AsyncFlush, FF!exit, Shape, Quiet
  <2>4. MsgsOf(async_buffer') = MsgsOf(async_buffer) \cup Msgs(chunk[t].text)
    <3>1. async_buffer \in Seq(ZChunk)
      BY Zenon DEF Shape, TypeOK, FF!TypeOK
    <3>2. Range(async_buffer') = Range(async_buffer) \cup {chunk[t]}
      BY <2>2, <2>3, <3>1, RangeAppend
    <3> QED BY Zenon, <3>2 DEF MsgsOf
  <2>5. InHand(t) = Msgs(chunk[t].text)
    BY Zenon, <2>1 DEF InHand
  <2>6. \A u \in Thread \ {t} : InHand(u)' = InHand(u)
    BY Zenon, <1>1 DEF InHand
  <2>7. InHands \subseteq InHands' \cup Msgs(chunk[t].text)
    BY Zenon, <2>5, <2>6 DEF InHands
  <2> QED BY <1>1, <2>1, <2>4, <2>7 DEF Known, Stored
<1> QED BY Zenon, <1>2, <1>3, <1>4, <1>5

\* The flusher moves chunks from the vector to its hands to the log file,
\* and counts as lost the chunk it can write nowhere.
LEMMA FlusherKnown ==
  ASSUME Shape, FlusherStep \/ Spurious
  PROVE  Known \subseteq Known'
<1>1. UNCHANGED <<content, disk, pc, chunk>>
  BY Zenon DEF FlusherStep, Spurious, FlushToFile, bufferVars, threadVars, processVars
<1>2. InHands' = InHands
  BY Zenon, <1>1 DEF InHands, InHand
<1>3. CASE FlushToFile
  <2>1. PICK c \in ZChunk : popped = <<c>>
    BY Zenon, <1>3 DEF FlushToFile, FF!Flush, Shape, Quiet
  <2>2. MsgsOf(popped) = Msgs(c.text)
    BY Zenon, <2>1, MsgsOfSingle
  <2>3. Head(popped) = c /\ UNCHANGED async_buffer
    BY Zenon, <1>3, <2>1, HeadSingle DEF FlushToFile, FF!Flush
  <2>4. CASE c.file = NoFile
    <3>1. lost' = lost \cup Msgs(c.text) /\ written' = written
      BY Zenon, <1>3, <2>1, <2>3, <2>4 DEF FlushToFile, FF!Flush
    <3> QED BY Zenon, <1>1, <1>2, <2>2, <2>3, <3>1 DEF Known, Stored
  <2>5. CASE c.file # NoFile
    <3>1. written' = written \o <<c>> /\ lost' = lost
      BY Zenon, <1>3, <2>1, <2>3, <2>5 DEF FlushToFile, FF!Flush
    <3>2. Range(written') = Range(written) \cup {c}
      <4>1. written \in Seq(ZChunk)
        BY Zenon DEF Shape, TypeOK, FF!TypeOK
      <4>2. written' = Append(written, c)
        BY Zenon, <3>1, <4>1, RangeSingle
      <4> QED BY <4>1, <4>2, RangeAppend
    <3>3. MsgsOf(written') = MsgsOf(written) \cup Msgs(c.text)
      BY Zenon, <3>2 DEF MsgsOf
    <3> QED BY <1>1, <1>2, <2>2, <2>3, <3>1, <3>3 DEF Known, Stored
  <2> QED BY Zenon, <2>4, <2>5
<1>4. CASE FF!FlusherPop /\ UNCHANGED historyVars
  <2>1. /\ popped' = <<async_buffer[Len(async_buffer)]>>
        /\ async_buffer' = SubSeq(async_buffer, 1, Len(async_buffer) - 1)
        /\ async_buffer # <<>> /\ popped = <<>>
        /\ UNCHANGED <<written, lost>>
    BY Zenon, <1>4 DEF FF!FlusherPop, historyVars, Shape, Quiet
  <2> DEFINE c == async_buffer[Len(async_buffer)]
  <2>2. c \in ZChunk /\ Range(async_buffer) = Range(async_buffer') \cup {c}
    BY Zenon, <2>1, RangeFrontLast DEF Shape, TypeOK, FF!TypeOK
  <2>3. MsgsOf(async_buffer) = MsgsOf(async_buffer') \cup Msgs(c.text)
    BY <2>2, MsgsOfUnion
  <2>4. MsgsOf(popped') = Msgs(c.text)
    BY Zenon, <2>1, <2>2, MsgsOfSingle
  <2> QED BY <1>1, <1>2, <2>1, <2>3, <2>4, MsgsEmpty DEF Known, Stored
<1>5. CASE UNCHANGED <<async_buffer, popped, written, lost>>
  BY Zenon, <1>1, <1>2, <1>5 DEF Known, Stored
<1> QED
  BY Zenon, <1>3, <1>4, <1>5
     DEF FlusherStep, Spurious, FF!FlusherLock, FF!FlusherTestExit,
         FF!FlusherWait, FF!SpuriousWakeup, historyVars

\* No step makes a message vanish that was stored or counted as lost.
LEMMA NextKnown == Shape /\ [Next]_vars => Known \subseteq Known'
<1> SUFFICES ASSUME Shape, [Next]_vars PROVE Known \subseteq Known'
  BY Zenon
<1>1. ASSUME UNCHANGED <<content, disk, async_buffer, popped, written, lost, chunk>>,
             NEW t \in Thread, \A u \in Thread \ {t} : pc'[u] = pc[u],
             pc[t] \notin {"clearlen", "submit"}
      PROVE  Known \subseteq Known'
  <2>1. InHands \subseteq InHands'
    BY Zenon, <1>1, HandsKept DEF InHand
  <2> QED BY <1>1, <2>1 DEF Known, Stored
<1>2. ASSUME NEW t \in Writer, NEW m \in Msg, WriteNative(t, m)
      PROVE  Known \subseteq Known'
  <2>1. /\ UNCHANGED <<content, disk, async_buffer, popped, written, lost, chunk>>
        /\ t \in Thread /\ pc[t] = "idle" /\ \A u \in Thread \ {t} : pc'[u] = pc[u]
    BY Zenon, <1>2 DEF WriteNative, bufferVars, processVars, flushVars, Thread, Shape, TypeOK
  <2> QED BY Zenon, <1>1, <2>1
<1>3. ASSUME NEW t \in Thread, ThreadStep(t)
      PROVE  Known \subseteq Known'
  <2>1. CASE AppendSetLength(t)
    <3>1. /\ UNCHANGED <<content, disk, async_buffer, popped, written, lost, chunk>>
          /\ pc[t] = "appendlen" /\ \A u \in Thread \ {t} : pc'[u] = pc[u]
      BY Zenon, <2>1 DEF AppendSetLength, processVars, flushVars, Shape, TypeOK
    <3> QED BY Zenon, <1>1, <3>1
  <2> QED BY Zenon, <1>3, <2>1, AppendKnown, CallFileFlushKnown DEF ThreadStep
<1>4. CASE RecordAsyncFlush
  <2>1. /\ UNCHANGED <<content, disk, async_buffer, popped, written, lost, chunk>>
        /\ Main \in Thread /\ pc[Main] = "idle"
        /\ \A u \in Thread \ {Main} : pc'[u] = pc[u]
    BY Zenon, <1>4 DEF RecordAsyncFlush, bufferVars, processVars, historyVars, flushVars,
                Thread, Shape, TypeOK
  <2> QED BY Zenon, <1>1, <2>1
<1>5. CASE ExpLogPath
  <2>1. /\ UNCHANGED <<disk, async_buffer, popped, written, chunk>>
        /\ lost' = lost \cup Msgs(content)
        /\ Main \in Thread /\ pc[Main] = "exp"
        /\ \A u \in Thread \ {Main} : pc'[u] = pc[u] /\ chunk'[u] = chunk[u]
    BY Zenon, <1>5 DEF ExpLogPath, flushVars, Thread, Shape, TypeOK
  <2>2. InHands \subseteq InHands'
    BY Zenon, <2>1, HandsKept DEF InHand
  <2> QED BY <2>1, <2>2 DEF Known, Stored
<1>6. CASE Crash
  <2>1. /\ lost' = lost \cup InHands \cup MsgsOf(async_buffer) \cup MsgsOf(popped)
                        \cup (IF mapped = "mmap" THEN {} ELSE Msgs(content))
        /\ disk' = IF mapped = "mmap" THEN [text |-> content, log_len |-> log_len]
                                      ELSE disk
        /\ written' = written
    BY Zenon, <1>6 DEF Crash
  <2>2. Msgs(content) \cup Msgs(disk.text) \subseteq Msgs(disk'.text) \cup lost'
    <3>1. CASE mapped = "mmap"
      <4>1. disk'.text = content /\ disk.text = <<>>
        BY <1>6, <2>1, <3>1 DEF Crash, Shape, Quiet
      <4> QED BY Zenon, <4>1, MsgsEmpty
    <3>2. CASE mapped # "mmap"
      BY Zenon, <2>1, <3>2
    <3> QED BY Zenon, <3>1, <3>2
  <2> QED BY <2>1, <2>2 DEF Known, Stored
<1>7. CASE InitNative
  <2>1. /\ lost' = IF mapped' = "mmap"
                     THEN lost \cup (Msgs(disk.text) \ MsgsOf(async_buffer'))
                     ELSE lost
        /\ disk' = IF mapped' = "mmap" THEN EmptyDisk ELSE disk
        /\ UNCHANGED <<content, pc, chunk, popped, written>>
    BY Zenon, <1>7 DEF InitNative, threadVars
  <2>2. async_buffer = <<>>
    BY Zenon, <1>7 DEF InitNative, Shape, Quiet
  <2>3. InHands' = InHands
    BY Zenon, <2>1 DEF InHands, InHand
  <2>4. Msgs(disk.text) \cup lost
          \subseteq Msgs(disk'.text) \cup lost' \cup MsgsOf(async_buffer')
    BY Zenon, <2>1
  <2> QED BY Zenon, <2>1, <2>2, <2>3, <2>4, MsgsEmpty DEF Known, Stored
<1>8. CASE UNCHANGED vars
  BY <1>8 DEF Known, Stored, InHands, InHand, vars, bufferVars, threadVars,
              processVars, historyVars, flushVars
<1> QED
  BY Zenon, <1>2, <1>3, <1>4, <1>5, <1>6, <1>7, <1>8, FlusherKnown DEF Next

\* What WriteNative has returned for, and what it is about to return for.
Settled ==
    /\ returned \subseteq Known
    /\ \A t \in Thread : pc[t] = "appendlen" => arg[t] \in Known

\* Every step keeps what Append has finished stored or counted as lost.
LEMMA NextSettled == Shape /\ Settled /\ [Next]_vars => Settled'
<1> SUFFICES ASSUME Shape, Settled, [Next]_vars PROVE Settled'
  BY Zenon
<1>1. Known \subseteq Known'
  BY Zenon, NextKnown
<1>2. ASSUME NEW t \in Thread, AppendBytes(t) PROVE Settled'
  <2>1. /\ returned' = returned /\ arg' = arg /\ arg[t] \in Known'
        /\ \A u \in Thread \ {t} : pc'[u] = pc[u]
    BY ZenonT(30), <1>2, AppendKnown DEF AppendBytes, Shape, TypeOK
  <2> QED BY SMTT(30), <1>1, <2>1 DEF Settled
<1>3. ASSUME NEW t \in Thread, AppendSetLength(t) PROVE Settled'
  <2>1. /\ pc[t] = "appendlen" /\ returned' = returned \cup {arg[t]}
        /\ pc'[t] = "idle"
        /\ \A u \in Thread \ {t} : pc'[u] = pc[u] /\ arg'[u] = arg[u]
    BY Zenon, <1>3 DEF AppendSetLength, Shape, TypeOK
  <2> QED BY Zenon, <1>1, <2>1 DEF Settled
<1>4. ASSUME returned' = returned,
             \A u \in Thread : pc'[u] = "appendlen" =>
                                 pc[u] = "appendlen" /\ arg'[u] = arg[u]
      PROVE  Settled'
  BY Zenon, <1>1, <1>4 DEF Settled
<1>5. ASSUME NEW t \in Writer, NEW m \in Msg, WriteNative(t, m) PROVE Settled'
  BY Zenon, <1>4, <1>5 DEF WriteNative, Shape, TypeOK, Thread
<1>6. ASSUME NEW t \in Thread, CallFileFlush(t) \/ ClearBytes(t)
                                 \/ ClearSetLength(t) \/ Submit(t)
      PROVE  Settled'
  BY Zenon, <1>4, <1>6 DEF CallFileFlush, ClearBytes, ClearSetLength, Submit, AfterFlush,
                    historyVars, Shape, TypeOK
<1>7. CASE RecordAsyncFlush \/ ExpLogPath
  <2>1. CASE RecordAsyncFlush
    BY Zenon, <1>4, <2>1 DEF RecordAsyncFlush, historyVars, Shape, TypeOK, Thread
  <2>2. CASE ExpLogPath
    BY Zenon, <1>4, <2>2 DEF ExpLogPath, Shape, TypeOK, Thread
  <2> QED BY Zenon, <1>7, <2>1, <2>2
<1>8. CASE FlusherStep \/ Spurious \/ InitNative \/ UNCHANGED vars
  <2>1. UNCHANGED <<pc, arg, returned>>
    BY Zenon, <1>8 DEF FlusherStep, FlushToFile, Spurious, InitNative, vars,
                    threadVars, historyVars
  <2> QED BY SMTT(30), <1>4, <2>1
<1>9. CASE Crash
  BY Zenon, <1>4, <1>9 DEF Crash
<1> QED
  BY Zenon, <1>2, <1>3, <1>5, <1>6, <1>7, <1>8, <1>9 DEF Next, ThreadStep

\* Messages WriteNative has returned for are in the buffer, on their way or
\* in a log file, or were thrown away at one of the points that count them
\* as lost: no interleaving of writers, lifecycle callbacks, flusher, death
\* and restart loses one anywhere else.
THEOREM OnlyKnownLossesHolds == SafetySpec => []OnlyKnownLosses
<1>1. Init => Settled
  BY Zenon DEF Init, Settled
<1>2. Settled => OnlyKnownLosses
  BY Zenon DEF Settled, Known, OnlyKnownLosses
<1>3. SafetySpec => []Settled
  BY <1>1, NextSettled, ShapeInductive, PTL DEF SafetySpec
<1> QED BY <1>2, <1>3, PTL
-----------------------------------------------------------------------------

\* NoDuplicate for any set T of places and any set L of lost messages.
Clean(T, L) ==
    /\ \A x, y \in T : x # y => Msgs(x[3]) \cap Msgs(y[3]) = {}
    /\ \A x \in T : IsInjective([i \in DOMAIN x[3] |-> x[3][i].msg])
    /\ \A x \in T : Msgs(x[3]) \cap L = {}

\* All the messages at the places of T.
Held(T) == UNION {Msgs(x[3]) : x \in T}

\* A text has a message only if it has a piece.
LEMMA MsgsNonEmpty ==
  ASSUME NEW s, Msgs(s) # {}
  PROVE  s # <<>>
BY Zenon, MsgsEmpty

\* A step that carries the text at one place z to another place w, leaves
\* other texts where they are or drops them, and adds to the lost messages
\* only those of dropped texts, leaves every message in one place.
LEMMA Moved ==
  ASSUME NEW T, NEW L, NEW U, NEW M, Clean(T, L),
         NEW z \in T, NEW w, w[3] = z[3],
         \A x \in U : x # w /\ x[3] # <<>> => x \in T /\ x # z,
         \A m \in M \ L : \E y \in T : /\ m \in Msgs(y[3]) /\ y \notin U
                                       /\ y # z \/ w \notin U
  PROVE  /\ Clean(U, M)
         /\ Held(U) \cup M \subseteq Held(T) \cup L
<1> DEFINE g == [x \in U |-> IF x = w THEN z ELSE x]
<1>1. ASSUME NEW x \in U, x[3] # <<>>
      PROVE  g[x] \in T /\ g[x][3] = x[3]
  BY Zenon, <1>1
<1>2. ASSUME NEW x \in U, NEW y \in U, x[3] # <<>>, y[3] # <<>>, x # y
      PROVE  g[x] # g[y]
  BY Zenon, <1>2
<1>3. ASSUME NEW x \in U, NEW y \in U, x # y
      PROVE  Msgs(x[3]) \cap Msgs(y[3]) = {}
  <2>1. CASE x[3] = <<>> \/ y[3] = <<>>
    BY Zenon, <2>1, MsgsEmpty
  <2>2. CASE x[3] # <<>> /\ y[3] # <<>>
    <3>1. g[x] \in T /\ g[y] \in T /\ g[x] # g[y]
      BY Zenon, <1>1, <1>2, <1>3, <2>2
    <3>2. g[x][3] = x[3] /\ g[y][3] = y[3]
      BY Zenon, <1>1, <2>2
    <3> QED BY Zenon, <3>1, <3>2 DEF Clean
  <2> QED BY Zenon, <2>1, <2>2
<1>4. ASSUME NEW x \in U
      PROVE  IsInjective([i \in DOMAIN x[3] |-> x[3][i].msg])
  <2>1. CASE x[3] = <<>>
    BY Zenon, <2>1, EmptyInjective
  <2>2. CASE x[3] # <<>>
    <3>1. g[x] \in T /\ g[x][3] = x[3]
      BY Zenon, <1>1, <2>2
    <3> HIDE DEF g
    <3> QED BY Zenon, <3>1 DEF Clean
  <2> QED BY Zenon, <2>1, <2>2
<1>5. ASSUME NEW x \in U
      PROVE  Msgs(x[3]) \cap M = {}
  <2> SUFFICES ASSUME NEW m \in Msgs(x[3]), m \in M PROVE FALSE
    BY Zenon
  <2>1. x[3] # <<>>
    BY Zenon, MsgsNonEmpty
  <2>2. g[x] \in T /\ m \in Msgs(g[x][3])
    BY Zenon, <1>1, <2>1
  <2>3. m \notin L
    BY Zenon, <2>2 DEF Clean
  <2>4. PICK y \in T : m \in Msgs(y[3]) /\ y \notin U /\ (y # z \/ w \notin U)
    BY Zenon, <2>3
  <2>5. y = g[x]
    BY Zenon, <2>2, <2>4 DEF Clean
  <2> QED BY Zenon, <2>4, <2>5
<1>6. Held(U) \subseteq Held(T)
  <2> SUFFICES ASSUME NEW x \in U, NEW m \in Msgs(x[3]) PROVE m \in Held(T)
    BY Zenon DEF Held
  <2>1. x[3] # <<>>
    BY Zenon, MsgsNonEmpty
  <2>2. g[x] \in T /\ m \in Msgs(g[x][3])
    BY Zenon, <1>1, <2>1
  <2> HIDE DEF g
  <2> QED BY Zenon, <2>2 DEF Held
<1>7. M \subseteq Held(T) \cup L
  BY Zenon DEF Held
<1> QED BY Zenon, <1>3, <1>4, <1>5, <1>6, <1>7 DEF Clean

\* A piece of a new message is added to the text at one place.
LEMMA Added ==
  ASSUME NEW T, NEW L, Clean(T, L), NEW s \in Seq(Piece), NEW p \in Piece, NEW k, NEW i,
         <<k, i, s>> \in T, p.msg \notin Held(T) \cup L,

         NEW U, \A x \in U : x = <<k, i, Append(s, p)>> \/ x \in T \ {<<k, i, s>>}
  PROVE  /\ Clean(U, L)
         /\ Held(U) \subseteq Held(T) \cup {p.msg}
<1> DEFINE w == <<k, i, Append(s, p)>>
           z == <<k, i, s>>
<1>1. Msgs(w[3]) = Msgs(z[3]) \cup {p.msg}
  BY Zenon, MsgsAppend
<1>2. \A x \in T : p.msg \notin Msgs(x[3])
  BY Zenon DEF Held
<1>3. IsInjective([j \in DOMAIN w[3] |-> w[3][j].msg])
  <2>1. IsInjective([j \in DOMAIN s |-> s[j].msg])
    <3>1. z \in T /\ z[3] = s
      BY Zenon
    <3> HIDE DEF z
    <3> QED BY Zenon, <3>1 DEF Clean
  <2>2. \A j \in DOMAIN s : s[j].msg # p.msg
    <3>1. z \in T /\ z[3] = s
      OBVIOUS
    <3>2. p.msg \notin Msgs(s)
      BY Zenon, <1>2, <3>1
    <3> QED BY Zenon, <3>2 DEF Msgs, Range
  <2>3. /\ DOMAIN Append(s, p) = DOMAIN s \cup {Len(s) + 1}
        /\ \A j \in DOMAIN s : Append(s, p)[j] = s[j]
        /\ Append(s, p)[Len(s) + 1] = p
    OBVIOUS
  <2>4. w[3] = Append(s, p)
    BY Zenon
  <2> HIDE DEF w
  <2> DEFINE a == Append(s, p)
  <2> HIDE DEF a
  <2>5. \A j, l \in DOMAIN a : a[j].msg = a[l].msg => j = l
    BY Zenon, <2>1, <2>2, <2>3 DEF IsInjective, a
  <2>6. IsInjective([j \in DOMAIN a |-> a[j].msg])
    BY Zenon, <2>5 DEF IsInjective
  <2> QED BY Zenon, <2>4, <2>6 DEF a
<1>4. z \in T /\ \A x \in U : x = w \/ (x \in T /\ x # z)
  BY Zenon
<1> HIDE DEF w, z
<1>5. ASSUME NEW x \in U, NEW y \in U, x # y
      PROVE  Msgs(x[3]) \cap Msgs(y[3]) = {}
  <2>1. \A v \in T : v # z => Msgs(v[3]) \cap Msgs(w[3]) = {}
    BY <1>1, <1>2, <1>4 DEF Clean
  <2>2. CASE x = w \/ y = w
    BY Zenon, <1>4, <1>5, <2>1, <2>2
  <2>3. CASE x \in T /\ y \in T
    BY Zenon, <1>5, <2>3 DEF Clean
  <2> QED BY Zenon, <1>4, <2>2, <2>3
<1>6. ASSUME NEW x \in U PROVE IsInjective([j \in DOMAIN x[3] |-> x[3][j].msg])
  <2>1. CASE x = w
    BY Zenon, <1>3, <2>1
  <2>2. CASE x \in T
    BY Zenon, <2>2 DEF Clean
  <2> QED BY Zenon, <1>4, <2>1, <2>2
<1>7. \A x \in U : Msgs(x[3]) \cap L = {}
  BY <1>1, <1>4 DEF Clean
<1>8. Held(U) \subseteq Held(T) \cup {p.msg}
  BY Zenon, <1>1, <1>4 DEF Held
<1> QED BY Zenon, <1>5, <1>6, <1>7, <1>8 DEF Clean
-----------------------------------------------------------------------------
\* What a step does that hands messages on: no message comes to be in two
\* places, none appears that was not known, and no text is made up.
HandsOn ==
    /\ Clean(Texts', lost')
    /\ Held(Texts') \cup lost' \subseteq Held(Texts) \cup lost
    /\ \A x \in Texts' : x[3] # <<>> => \E y \in Texts : y[3] = x[3]

\* Texts at two kinds of place are told apart.
LEMMA OtherPlace ==
  ASSUME NEW a, NEW b, NEW i, NEW j, NEW s, NEW r, a # b \/ i # j
  PROVE  <<a, i, s>> # <<b, j, r>>
OBVIOUS

\* The places that have a text.
LEMMA TextsIn ==
  /\ <<"buffer", 1, content>> \in Texts /\ <<"disk", 1, disk.text>> \in Texts
  /\ \A u \in Thread : pc[u] \in {"clearlen", "submit"} => <<"hand", u, chunk[u].text>> \in Texts
  /\ \A i \in DOMAIN async_buffer : <<"queue", i, async_buffer[i].text>> \in Texts
  /\ \A i \in DOMAIN popped : <<"popped", i, popped[i].text>> \in Texts
  /\ \A i \in DOMAIN written : <<"written", i, written[i].text>> \in Texts
BY Zenon DEF Texts

\* A vector that does not change keeps its texts in their places.
LEMMA TextsStay ==
  /\ async_buffer' = async_buffer =>
       \A i \in DOMAIN async_buffer' : <<"queue", i, async_buffer'[i].text>> \in Texts
  /\ popped' = popped =>
       \A i \in DOMAIN popped' : <<"popped", i, popped'[i].text>> \in Texts
  /\ written' = written =>
       \A i \in DOMAIN written' : <<"written", i, written'[i].text>> \in Texts
<1>1. ASSUME async_buffer' = async_buffer, NEW i \in DOMAIN async_buffer'
      PROVE  <<"queue", i, async_buffer'[i].text>> \in Texts
  BY Zenon, <1>1, TextsIn
<1>2. ASSUME popped' = popped, NEW i \in DOMAIN popped'
      PROVE  <<"popped", i, popped'[i].text>> \in Texts
  BY Zenon, <1>2, TextsIn
<1>3. ASSUME written' = written, NEW i \in DOMAIN written'
      PROVE  <<"written", i, written'[i].text>> \in Texts
  BY Zenon, <1>3, TextsIn
<1> QED BY Zenon, <1>1, <1>2, <1>3

\* Where a text can come from when the vectors keep their chunks or lose them.
LEMMA TextsFrom ==
  ASSUME NEW x \in Texts', written' = written,
         async_buffer' = async_buffer \/ async_buffer' = <<>>,
         popped' = popped \/ popped' = <<>>
  PROVE  \/ x \in Texts /\ x[1] \in {"queue", "popped", "written"}
         \/ x = <<"buffer", 1, content'>> \/ x = <<"disk", 1, disk'.text>>
         \/ \E u \in Thread : /\ pc'[u] \in {"clearlen", "submit"}
                             /\ x = <<"hand", u, chunk'[u].text>>
<1>1. CASE \E i \in DOMAIN async_buffer' : x = <<"queue", i, async_buffer'[i].text>>
  <2>1. PICK i \in DOMAIN async_buffer' : x = <<"queue", i, async_buffer'[i].text>>
    BY Zenon, <1>1
  <2>2. async_buffer' = async_buffer
    BY Zenon, <2>1, EmptyDomain
  <2> QED BY Zenon, <2>1, <2>2, TextsStay
<1>2. CASE \E i \in DOMAIN popped' : x = <<"popped", i, popped'[i].text>>
  <2>1. PICK i \in DOMAIN popped' : x = <<"popped", i, popped'[i].text>>
    BY Zenon, <1>2
  <2>2. popped' = popped
    BY Zenon, <2>1, EmptyDomain
  <2> QED BY Zenon, <2>1, <2>2, TextsStay
<1>3. CASE \E i \in DOMAIN written' : x = <<"written", i, written'[i].text>>
  <2>1. PICK i \in DOMAIN written' : x = <<"written", i, written'[i].text>>
    BY Zenon, <1>3
  <2> QED BY Zenon, <2>1, TextsStay
<1> QED BY Zenon, <1>1, <1>2, <1>3 DEF Texts

\* A hand that is not filled keeps its text.
LEMMA HandStays ==
  ASSUME NEW u \in Thread, pc[u] \in {"clearlen", "submit"}, chunk'[u] = chunk[u],
         NEW x, x = <<"hand", u, chunk'[u].text>>
  PROVE  x \in Texts /\ x[1] = "hand"
BY Zenon, TextsIn

\* A step that carries one text of the pipeline to another place.
LEMMA TextsMoved ==
  ASSUME Clean(Texts, lost), NEW z \in Texts, NEW w, w[3] = z[3],
         \A x \in Texts' : x # w /\ x[3] # <<>> => x \in Texts /\ x # z,
         \A m \in lost' \ lost : \E y \in Texts : /\ m \in Msgs(y[3]) /\ y \notin Texts'
                                                  /\ y # z \/ w \notin Texts'
  PROVE  HandsOn
<1> DEFINE T == Texts
           L == lost
           U == Texts'
           M == lost'
<1>1. /\ Clean(T, L) /\ z \in T
      /\ \A x \in U : x # w /\ x[3] # <<>> => x \in T /\ x # z
      /\ \A m \in M \ L : \E y \in T : /\ m \in Msgs(y[3]) /\ y \notin U
                                       /\ y # z \/ w \notin U
  BY Zenon
<1> HIDE DEF T, L, U, M
<1>2. Clean(U, M) /\ Held(U) \cup M \subseteq Held(T) \cup L
  BY <1>1, Moved
<1>3. \A x \in U : x[3] # <<>> => \E y \in T : y[3] = x[3]
  BY Zenon, <1>1
<1> QED BY Zenon, <1>2, <1>3 DEF HandsOn, T, L, U, M

\* A step that leaves every text where it is or drops it.
LEMMA TextsDropped ==
  ASSUME Clean(Texts, lost),
         \A x \in Texts' : x[3] # <<>> => x \in Texts,
         \A m \in lost' \ lost : \E y \in Texts : m \in Msgs(y[3]) /\ y \notin Texts'
  PROVE  HandsOn
<1> DEFINE T == Texts
           L == lost
           U == Texts'
           M == lost'
<1>1. /\ Clean(T, L)
      /\ \A x \in U : x[3] # <<>> => x \in T
      /\ \A m \in M \ L : \E y \in T : m \in Msgs(y[3]) /\ y \notin U
  BY Zenon
<1> HIDE DEF T, L, U, M
<1>2. ASSUME NEW x \in U
      PROVE  IsInjective([i \in DOMAIN x[3] |-> x[3][i].msg])
  <2>1. CASE x[3] = <<>>
    BY Zenon, <2>1, EmptyInjective
  <2>2. CASE x[3] # <<>>
    BY Zenon, <1>1, <2>2 DEF Clean
  <2> QED BY Zenon, <2>1, <2>2
<1>3. ASSUME NEW x \in U, NEW m \in Msgs(x[3]) PROVE x \in T
  BY Zenon, <1>1, <1>3, MsgsNonEmpty
<1>4. \A x, y \in U : x # y => Msgs(x[3]) \cap Msgs(y[3]) = {}
  BY ZenonT(30), <1>1, <1>3 DEF Clean
<1>5. ASSUME NEW x \in U, NEW m \in Msgs(x[3]), m \in M PROVE FALSE
  <2>1. x \in T /\ m \notin L
    BY Zenon, <1>1, <1>3, <1>5 DEF Clean
  <2>2. PICK y \in T : m \in Msgs(y[3]) /\ y \notin U
    BY Zenon, <1>1, <1>5, <2>1
  <2> QED BY Zenon, <1>1, <1>5, <2>1, <2>2 DEF Clean
<1>6. Clean(U, M)
  BY ZenonT(30), <1>2, <1>4, <1>5 DEF Clean
<1>7. Held(U) \cup M \subseteq Held(T) \cup L
  <2>1. ASSUME NEW m \in Held(U) PROVE m \in Held(T)
    BY Zenon, <1>3, <2>1 DEF Held
  <2>2. ASSUME NEW m \in M \ L PROVE m \in Held(T)
    BY Zenon, <1>1, <2>2 DEF Held
  <2> QED BY Zenon, <2>1, <2>2
<1>8. \A x \in U : x[3] # <<>> => \E y \in T : y[3] = x[3]
  BY Zenon, <1>1
<1> QED BY Zenon, <1>6, <1>7, <1>8 DEF HandsOn, T, L, U, M

\* Steps that touch no text.
LEMMA TextsKept ==
  ASSUME Clean(Texts, lost),
         UNCHANGED <<content, disk, async_buffer, popped, written, lost>>,
         \A u \in Thread : pc'[u] \in {"clearlen", "submit"} =>
            pc[u] \in {"clearlen", "submit"} /\ chunk'[u] = chunk[u]
  PROVE  HandsOn
<1>1. ASSUME NEW x \in Texts' PROVE x \in Texts
  <2>1. CASE \/ x = <<"buffer", 1, content'>> \/ x = <<"disk", 1, disk'.text>>
    BY Zenon, <2>1, TextsIn
  <2>2. CASE \E u \in Thread : /\ pc'[u] \in {"clearlen", "submit"}
                              /\ x = <<"hand", u, chunk'[u].text>>
    BY Zenon, <2>2, HandStays
  <2> QED BY Zenon, <1>1, <2>1, <2>2, TextsFrom
<1>2. lost' = lost
  BY Zenon
<1> QED BY Zenon, <1>1, <1>2, TextsDropped

\* Clear: what was in the buffer is in the hand of the thread.
LEMMA ClearBytesHandsOn ==
  ASSUME Shape, Clean(Texts, lost), NEW t \in Thread, ClearBytes(t)
  PROVE  HandsOn
<1>1. /\ pc[t] = "clear" /\ pc'[t] = "clearlen" /\ content' = <<>>
      /\ \A u \in Thread \ {t} : pc'[u] = pc[u]
      /\ UNCHANGED <<chunk, disk, async_buffer, popped, written, lost>>
  BY Zenon DEF ClearBytes, processVars, historyVars, flushVars, Shape, TypeOK
<1>2. chunk[t].text = content
  BY Zenon, <1>1 DEF Shape, Hands
<1> DEFINE z == <<"buffer", 1, content>>
           w == <<"hand", t, content>>
<1>3. z \in Texts /\ w[3] = z[3]
  BY Zenon DEF Texts
<1>4. ASSUME NEW x \in Texts', x # w, x[3] # <<>> PROVE x \in Texts /\ x # z
  <2>1. z[1] = "buffer" /\ x # <<"buffer", 1, content'>>
    <3>1. content' = <<>> /\ <<"buffer", 1, content'>>[3] = content'
      BY Zenon, <1>1
    <3> QED BY Zenon, <1>4, <3>1
  <2>2. CASE x = <<"disk", 1, disk'.text>>
    <3>1. disk' = disk
      BY Zenon, <1>1
    <3> QED BY Zenon, <2>2, <3>1, TextsIn, OtherPlace
  <2>3. CASE \E u \in Thread : /\ pc'[u] \in {"clearlen", "submit"}
                              /\ x = <<"hand", u, chunk'[u].text>>
    <3>1. PICK u \in Thread : /\ pc'[u] \in {"clearlen", "submit"}
                             /\ x = <<"hand", u, chunk'[u].text>>
      BY Zenon, <2>3
    <3>2. chunk'[u] = chunk[u]
      BY Zenon, <1>1
    <3>3. u # t
      BY Zenon, <1>2, <1>4, <3>1, <3>2
    <3>4. pc[u] \in {"clearlen", "submit"}
      BY Zenon, <1>1, <3>1, <3>3
    <3>5. x \in Texts /\ x[1] = "hand"
      BY Zenon, <3>1, <3>2, <3>4, HandStays
    <3> QED BY Zenon, <2>1, <3>5
  <2>4. CASE x \in Texts /\ x[1] \in {"queue", "popped", "written"}
    BY Zenon, <2>1, <2>4
  <2> QED BY Zenon, <1>1, <1>4, <2>1, <2>2, <2>3, <2>4, TextsFrom
<1> HIDE DEF z, w
<1> QED BY Zenon, <1>1, <1>3, <1>4, TextsMoved

\* AsyncFlush: what was in the hand of the thread is in the vector.
LEMMA SubmitHandsOn ==
  ASSUME Shape, Clean(Texts, lost), NEW t \in Thread, Submit(t)
  PROVE  HandsOn
<1>1. /\ pc[t] = "submit" /\ pc'[t] \in {"idle", "append"}
      /\ \A u \in Thread \ {t} : pc'[u] = pc[u] /\ chunk'[u] = chunk[u]
      /\ UNCHANGED <<content, disk, lost>>
  BY Zenon DEF Submit, AfterFlush, bufferVars, processVars, historyVars, Shape, TypeOK
<1>2. /\ chunk[t] \in ZChunk /\ async_buffer' = Append(async_buffer, chunk[t])
      /\ UNCHANGED <<popped, written>>
  BY Zenon, <1>1 DEF Submit, FF!AsyncFlush, FF!exit, Shape, Quiet, Hands
<1>3. /\ async_buffer \in Seq(ZChunk)
      /\ DOMAIN async_buffer' = DOMAIN async_buffer \cup {Len(async_buffer) + 1}
      /\ \A i \in DOMAIN async_buffer : async_buffer'[i] = async_buffer[i]
      /\ async_buffer'[Len(async_buffer) + 1] = chunk[t]
  <2>1. async_buffer \in Seq(ZChunk)
    BY Zenon DEF Shape, TypeOK, FF!TypeOK
  <2> QED BY <1>2, <2>1, AppendAt
<1> DEFINE z == <<"hand", t, chunk[t].text>>
           w == <<"queue", Len(async_buffer) + 1, chunk[t].text>>
<1>4. z \in Texts /\ w[3] = z[3]
  BY Zenon, <1>1 DEF Texts
<1>5. ASSUME NEW x \in Texts', x # w PROVE x \in Texts /\ x # z
  <2>1. CASE \/ x = <<"buffer", 1, content'>> \/ x = <<"disk", 1, disk'.text>>
    <3>1. content' = content /\ disk' = disk
      BY Zenon, <1>1
    <3>2. x \in Texts
      BY Zenon, <2>1, <3>1, TextsIn
    <3> QED BY Zenon, <2>1, <3>2, OtherPlace
  <2>2. CASE \E u \in Thread : /\ pc'[u] \in {"clearlen", "submit"}
                              /\ x = <<"hand", u, chunk'[u].text>>
    <3>1. PICK u \in Thread : /\ pc'[u] \in {"clearlen", "submit"}
                             /\ x = <<"hand", u, chunk'[u].text>>
      BY Zenon, <2>2
    <3>2. u # t /\ pc[u] \in {"clearlen", "submit"} /\ x = <<"hand", u, chunk[u].text>>
      BY Zenon, <1>1, <3>1
    <3>3. x \in Texts
      BY Zenon, <3>2, TextsIn
    <3> QED BY Zenon, <3>2, <3>3, OtherPlace
  <2>3. CASE \E i \in DOMAIN async_buffer' : x = <<"queue", i, async_buffer'[i].text>>
    <3>1. PICK i \in DOMAIN async_buffer' : x = <<"queue", i, async_buffer'[i].text>>
      BY Zenon, <2>3
    <3>2. i \in DOMAIN async_buffer /\ async_buffer'[i] = async_buffer[i]
      BY Zenon, <1>3, <1>5, <3>1
    <3> QED BY Zenon, <3>1, <3>2, TextsIn, OtherPlace
  <2>4. CASE \E i \in DOMAIN popped' : x = <<"popped", i, popped'[i].text>>
    <3>1. PICK i \in DOMAIN popped' : x = <<"popped", i, popped'[i].text>>
      BY Zenon, <2>4
    <3>2. x \in Texts
      BY Zenon, <1>2, <3>1, TextsStay
    <3> QED BY Zenon, <3>1, <3>2, OtherPlace
  <2>5. CASE \E i \in DOMAIN written' : x = <<"written", i, written'[i].text>>
    <3>1. PICK i \in DOMAIN written' : x = <<"written", i, written'[i].text>>
      BY Zenon, <2>5
    <3>2. x \in Texts
      BY Zenon, <1>2, <3>1, TextsStay
    <3> QED BY Zenon, <3>1, <3>2, OtherPlace
  <2> QED BY Zenon, <1>5, <2>1, <2>2, <2>3, <2>4, <2>5 DEF Texts
<1> HIDE DEF z, w
<1> QED BY ZenonT(30), <1>1, <1>4, <1>5, TextsMoved

\* The memset of ExpLogPath: what was in the buffer is lost.
LEMMA ExpLogPathHandsOn ==
  ASSUME Shape, Clean(Texts, lost), ExpLogPath
  PROVE  HandsOn
<1>1. /\ content' = <<>> /\ lost' = lost \cup Msgs(content)
      /\ Main \in Thread /\ pc'[Main] = "flush"
      /\ \A u \in Thread \ {Main} : pc'[u] = pc[u]
      /\ UNCHANGED <<chunk, disk, async_buffer, popped, written>>
  BY Zenon DEF ExpLogPath, flushVars, Thread, Shape, TypeOK
<1>2. ASSUME NEW x \in Texts', x[3] # <<>> PROVE x \in Texts
  <2>1. x # <<"buffer", 1, content'>>
    <3>1. content' = <<>> /\ <<"buffer", 1, content'>>[3] = content'
      BY Zenon, <1>1
    <3> QED BY Zenon, <1>2, <3>1
  <2>2. CASE x = <<"disk", 1, disk'.text>>
    <3>1. disk' = disk
      BY Zenon, <1>1
    <3> QED BY Zenon, <2>2, <3>1, TextsIn
  <2>3. CASE \E u \in Thread : /\ pc'[u] \in {"clearlen", "submit"}
                              /\ x = <<"hand", u, chunk'[u].text>>
    <3>1. PICK u \in Thread : /\ pc'[u] \in {"clearlen", "submit"}
                             /\ x = <<"hand", u, chunk'[u].text>>
      BY Zenon, <2>3
    <3>2. chunk'[u] = chunk[u] /\ pc[u] \in {"clearlen", "submit"}
      BY Zenon, <1>1, <3>1
    <3> QED BY Zenon, <3>1, <3>2, HandStays
  <2> QED BY Zenon, <1>1, <1>2, <2>1, <2>2, <2>3, TextsFrom
<1>3. ASSUME NEW m \in lost' \ lost
      PROVE  \E y \in Texts : m \in Msgs(y[3]) /\ y \notin Texts'
  <2> DEFINE y == <<"buffer", 1, content>>
  <2>1. m \in Msgs(content) /\ content # <<>>
    BY Zenon, <1>1, <1>3, MsgsEmpty
  <2>2. y \in Texts /\ y[3] = content
    BY Zenon DEF Texts
  <2>3. y \notin Texts'
    BY Zenon, <1>1, <2>1 DEF Texts
  <2> HIDE DEF y
  <2> QED BY Zenon, <2>1, <2>2, <2>3
<1>4. \A m \in lost' \ lost : \E y \in Texts : m \in Msgs(y[3]) /\ y \notin Texts'
  BY Zenon, <1>3
<1> QED BY Zenon, <1>2, <1>4, TextsDropped

\* back() and pop_back(): the chunk is in the hands of the flusher.
LEMMA FlusherPopHandsOn ==
  ASSUME Shape, Clean(Texts, lost), FF!FlusherPop,
         UNCHANGED <<bufferVars, threadVars, processVars, historyVars>>
  PROVE  HandsOn
<1> DEFINE n == Len(async_buffer)
<1>1. UNCHANGED <<content, pc, chunk, disk, lost>>
  BY Zenon DEF bufferVars, threadVars, processVars, historyVars
<1>2. /\ async_buffer # <<>> /\ popped' = <<async_buffer[n]>> /\ popped = <<>>
      /\ async_buffer' = SubSeq(async_buffer, 1, n - 1)
      /\ UNCHANGED written
  BY Zenon DEF FF!FlusherPop, Shape, Quiet
<1>3. async_buffer \in Seq(ZChunk)
  BY Zenon DEF Shape, TypeOK, FF!TypeOK
<1>4. /\ n \in DOMAIN async_buffer
      /\ DOMAIN async_buffer' = DOMAIN async_buffer \ {n}
      /\ \A i \in DOMAIN async_buffer' : async_buffer'[i] = async_buffer[i]
      /\ DOMAIN popped' = {1} /\ popped'[1] = async_buffer[n]
  BY <1>2, <1>3
<1> HIDE DEF n
<1> DEFINE z == <<"queue", n, async_buffer[n].text>>
           w == <<"popped", 1, async_buffer[n].text>>
<1>5. z \in Texts /\ w[3] = z[3]
  BY Zenon, <1>4 DEF Texts
<1>6. ASSUME NEW x \in Texts', x # w PROVE x \in Texts /\ x # z
  <2>1. CASE \E i \in DOMAIN async_buffer' : x = <<"queue", i, async_buffer'[i].text>>
    <3>1. PICK i \in DOMAIN async_buffer' : x = <<"queue", i, async_buffer'[i].text>>
      BY Zenon, <2>1
    <3>2. i \in DOMAIN async_buffer /\ i # n /\ async_buffer'[i] = async_buffer[i]
      BY Zenon, <1>4, <3>1
    <3>3. x \in Texts
      BY Zenon, <3>1, <3>2, TextsIn
    <3> QED BY Zenon, <3>1, <3>2, <3>3, OtherPlace
  <2>2. CASE \E i \in DOMAIN popped' : x = <<"popped", i, popped'[i].text>>
    BY Zenon, <1>4, <1>6, <2>2
  <2>3. CASE \/ x = <<"buffer", 1, content'>> \/ x = <<"disk", 1, disk'.text>>
    BY Zenon, <1>1, <2>3, TextsIn, OtherPlace
  <2>4. CASE \E u \in Thread : /\ pc'[u] \in {"clearlen", "submit"}
                              /\ x = <<"hand", u, chunk'[u].text>>
    BY Zenon, <1>1, <2>4, TextsIn, OtherPlace
  <2>5. CASE \E i \in DOMAIN written' : x = <<"written", i, written'[i].text>>
    <3>1. PICK i \in DOMAIN written' : x = <<"written", i, written'[i].text>>
      BY Zenon, <2>5
    <3>2. written' = written
      BY Zenon, <1>2
    <3>3. x \in Texts
      BY Zenon, <3>1, <3>2, TextsStay
    <3> QED BY Zenon, <3>1, <3>3, OtherPlace
  <2> QED BY Zenon, <1>6, <2>1, <2>2, <2>3, <2>4, <2>5 DEF Texts
<1> HIDE DEF z, w
<1> QED BY Zenon, <1>1, <1>5, <1>6, TextsMoved

\* Flush: the chunk is in the log file, or lost if it has none.
LEMMA FlushToFileHandsOn ==
  ASSUME Shape, Clean(Texts, lost), FlushToFile
  PROVE  HandsOn
<1>1. PICK c \in ZChunk : popped = <<c>>
  BY Zenon DEF FlushToFile, FF!Flush, Shape, Quiet
<1>2. /\ popped' = <<>>
      /\ UNCHANGED <<content, disk, pc, chunk, async_buffer>>
  BY Zenon DEF FlushToFile, FF!Flush, bufferVars, threadVars
<1>3. written \in Seq(ZChunk)
  BY Zenon DEF Shape, TypeOK, FF!TypeOK
<1> DEFINE z == <<"popped", 1, c.text>>
           w == <<"written", Len(written) + 1, c.text>>
<1>4. z \in Texts /\ z[3] = c.text /\ w[3] = z[3]
  BY Zenon, <1>1, HeadSingle, TextsIn
<1>5. CASE c.file = NoFile
  <2>1. lost' = lost \cup Msgs(c.text) /\ written' = written
    <3>1. Head(popped) = c
      BY Zenon, <1>1, HeadSingle
    <3> QED BY Zenon, <1>5, <3>1 DEF FlushToFile, FF!Flush
  <2>2. Texts' \subseteq Texts /\ z \notin Texts'
    <3>1. DOMAIN popped' = {}
      BY Zenon, <1>2, EmptyDomain
    <3>2. Texts' \subseteq Texts
      BY Zenon, <1>2, <2>1, <3>1 DEF Texts
    <3>3. ASSUME z \in Texts' PROVE FALSE
      BY Zenon, <3>1, <3>3, OtherPlace DEF Texts
    <3> QED BY Zenon, <3>2, <3>3
  <2> HIDE DEF z, w
  <2>3. \A m \in lost' \ lost : \E y \in Texts : m \in Msgs(y[3]) /\ y \notin Texts'
    BY Zenon, <1>4, <2>1, <2>2
  <2> QED BY Zenon, <2>2, <2>3, TextsDropped
<1>6. CASE c.file # NoFile
  <2>1. lost' = lost /\ written' = Append(written, c)
    BY Zenon, <1>1, <1>3, <1>6, RangeSingle DEF FlushToFile, FF!Flush
  <2>2. /\ DOMAIN written' = DOMAIN written \cup {Len(written) + 1}
        /\ \A i \in DOMAIN written : written'[i] = written[i]
        /\ written'[Len(written) + 1] = c
    <3> HIDE DEF z, w
    <3> QED BY <1>3, <2>1, AppendAt
  <2>3. ASSUME NEW x \in Texts', x # w PROVE x \in Texts /\ x # z
    <3>1. CASE \/ x = <<"buffer", 1, content'>> \/ x = <<"disk", 1, disk'.text>>
               \/ \E u \in Thread : /\ pc'[u] \in {"clearlen", "submit"}
                                   /\ x = <<"hand", u, chunk'[u].text>>
      BY ZenonT(40), <1>2, <3>1, TextsIn, OtherPlace
    <3>2. CASE \E i \in DOMAIN async_buffer' : x = <<"queue", i, async_buffer'[i].text>>
      <4>1. PICK i \in DOMAIN async_buffer' : x = <<"queue", i, async_buffer'[i].text>>
        BY Zenon, <3>2
      <4>2. async_buffer' = async_buffer
        BY Zenon, <1>2
      <4>3. x \in Texts
        BY Zenon, <4>1, <4>2, TextsStay
      <4> QED BY Zenon, <4>1, <4>3, OtherPlace
    <3>3. CASE \E i \in DOMAIN written' : x = <<"written", i, written'[i].text>>
      <4>1. PICK i \in DOMAIN written' : x = <<"written", i, written'[i].text>>
        BY Zenon, <3>3
      <4>2. i \in DOMAIN written /\ written'[i] = written[i]
        BY Zenon, <2>2, <2>3, <4>1
      <4> QED BY Zenon, <4>1, <4>2, TextsIn, OtherPlace
    <3>4. ~ \E i \in DOMAIN popped' : x = <<"popped", i, popped'[i].text>>
      BY Zenon, <1>2, EmptyDomain
    <3> QED BY Zenon, <2>3, <3>1, <3>2, <3>3, <3>4 DEF Texts
  <2> HIDE DEF z, w
  <2> QED BY Zenon, <1>4, <2>1, <2>3, TextsMoved
<1> QED BY Zenon, <1>5, <1>6

\* The death of the process: what was mapped stays in the buffer file, what
\* was elsewhere in memory is lost.
LEMMA CrashHandsOn ==
  ASSUME Shape, Clean(Texts, lost), Crash
  PROVE  HandsOn
<1>1. /\ content' = <<>> /\ async_buffer' = <<>> /\ popped' = <<>>
      /\ UNCHANGED written /\ \A u \in Thread : pc'[u] = "idle"
      /\ disk' = IF mapped = "mmap" THEN [text |-> content, log_len |-> log_len]
                                    ELSE disk
      /\ lost' = lost \cup InHands \cup MsgsOf(async_buffer) \cup MsgsOf(popped)
                      \cup (IF mapped = "mmap" THEN {} ELSE Msgs(content))
  BY Zenon DEF Crash
<1>2. \A x \in Texts' : \/ x = <<"disk", 1, disk'.text>> \/ x[3] = <<>>
                        \/ \E i \in DOMAIN written : x = <<"written", i, written[i].text>>
  <2>1. /\ DOMAIN async_buffer' = {} /\ DOMAIN popped' = {}
        /\ \A u \in Thread : pc'[u] \notin {"clearlen", "submit"}
    BY Zenon, <1>1, EmptyDomain
  <2>2. ASSUME NEW x \in Texts'
        PROVE  \/ x = <<"disk", 1, disk'.text>> \/ x = <<"buffer", 1, content'>>
               \/ \E i \in DOMAIN written' : x = <<"written", i, written'[i].text>>
    BY Zenon, <2>1, <2>2 DEF Texts
  <2>3. <<"buffer", 1, content'>>[3] = <<>>
    BY Zenon, <1>1
  <2> QED BY Zenon, <1>1, <2>2, <2>3
<1>3. ASSUME NEW m \in InHands \cup MsgsOf(async_buffer) \cup MsgsOf(popped)
      PROVE  \E y \in Texts : /\ m \in Msgs(y[3]) /\ y \notin Texts'
                              /\ y # <<"buffer", 1, content>>
  <2>1. CASE m \in InHands
    <3>1. PICK t \in Thread : pc[t] \in {"clearlen", "submit"} /\ m \in Msgs(chunk[t].text)
      BY Zenon, <2>1 DEF InHands, InHand
    <3> DEFINE y == <<"hand", t, chunk[t].text>>
    <3>2. y \in Texts /\ y[3] = chunk[t].text /\ y # <<"buffer", 1, content>>
      BY Zenon, <3>1 DEF Texts
    <3>3. y \notin Texts'
      BY Zenon, <1>1 DEF Texts
    <3> HIDE DEF y
    <3> QED BY Zenon, <3>1, <3>2, <3>3
  <2>2. CASE m \in MsgsOf(async_buffer)
    <3>1. PICK i \in DOMAIN async_buffer : m \in Msgs(async_buffer[i].text)
      BY Zenon, <2>2 DEF MsgsOf, Range
    <3> DEFINE y == <<"queue", i, async_buffer[i].text>>
    <3>2. y \in Texts /\ y[3] = async_buffer[i].text /\ y # <<"buffer", 1, content>>
      BY Zenon DEF Texts
    <3>3. y \notin Texts'
      <4>1. DOMAIN async_buffer' = {}
        BY Zenon, <1>1, EmptyDomain
      <4> QED BY Zenon, <4>1, OtherPlace DEF Texts
    <3> HIDE DEF y
    <3> QED BY Zenon, <3>1, <3>2, <3>3
  <2>3. CASE m \in MsgsOf(popped)
    <3>1. PICK i \in DOMAIN popped : m \in Msgs(popped[i].text)
      BY Zenon, <2>3 DEF MsgsOf, Range
    <3> DEFINE y == <<"popped", i, popped[i].text>>
    <3>2. y \in Texts /\ y[3] = popped[i].text /\ y # <<"buffer", 1, content>>
      BY Zenon DEF Texts
    <3>3. y \notin Texts'
      <4>1. DOMAIN popped' = {}
        BY Zenon, <1>1, EmptyDomain
      <4> QED BY Zenon, <4>1, OtherPlace DEF Texts
    <3> HIDE DEF y
    <3> QED BY Zenon, <3>1, <3>2, <3>3
  <2> QED BY Zenon, <1>3, <2>1, <2>2, <2>3
<1> DEFINE z == <<"buffer", 1, content>>
           w == <<"disk", 1, content>>
<1>4. z \in Texts /\ z[3] = content /\ w[3] = content /\ z # w
  BY Zenon DEF Texts
<1>5. \A i \in DOMAIN written : <<"written", i, written[i].text>> \in Texts
  BY Zenon DEF Texts
<1>6. CASE mapped = "mmap"
  <2>1. disk'.text = content
    BY Zenon, <1>1, <1>6
  <2>2. ASSUME NEW x \in Texts', x # w, x[3] # <<>> PROVE x \in Texts /\ x # z
    BY Zenon, <1>2, <1>5, <2>1, <2>2
  <2>3. \A m \in lost' \ lost : \E y \in Texts : m \in Msgs(y[3]) /\ y \notin Texts' /\ y # z
    BY Zenon, <1>1, <1>3, <1>6
  <2> HIDE DEF z, w
  <2> QED BY Zenon, <1>4, <2>2, <2>3, TextsMoved
<1>7. CASE mapped # "mmap"
  <2>1. disk' = disk
    BY Zenon, <1>1, <1>7
  <2>2. \A x \in Texts' : x[3] # <<>> => x \in Texts /\ x # z
    BY Zenon, <1>2, <1>5, <2>1 DEF Texts
  <2>3. ASSUME NEW m \in lost' \ lost
        PROVE  \E y \in Texts : m \in Msgs(y[3]) /\ y \notin Texts'
    <3>1. CASE m \in Msgs(content)
      <4>1. content # <<>>
        BY Zenon, <3>1, MsgsEmpty
      <4> HIDE DEF z
      <4> QED BY Zenon, <1>4, <2>2, <3>1, <4>1
    <3>2. CASE m \notin Msgs(content)
      BY Zenon, <1>1, <1>3, <1>7, <2>3, <3>2
    <3> QED BY Zenon, <3>1, <3>2
  <2> HIDE DEF z, w
  <2>4. \A m \in lost' \ lost : \E y \in Texts : m \in Msgs(y[3]) /\ y \notin Texts'
    BY <2>3
  <2> QED BY Zenon, <2>2, <2>4, TextsDropped
<1> QED BY Zenon, <1>6, <1>7

\* The length WriteDirty2File finds is 0: it hands nothing on.
LEMMA NothingDirty == \A d : WriteDirty2File(d) = <<>>
BY DEF WriteDirty2File, DirtyLength

\* The start of the process: what the buffer file held is lost when it is
\* mapped again, and stays there when it is not.
LEMMA InitNativeHandsOn ==
  ASSUME Shape, Clean(Texts, lost), InitNative
  PROVE  HandsOn
<1>1. /\ lost' = IF mapped' = "mmap"
                   THEN lost \cup (Msgs(disk.text) \ MsgsOf(async_buffer'))
                   ELSE lost
      /\ disk' = IF mapped' = "mmap" THEN EmptyDisk ELSE disk
      /\ UNCHANGED <<content, pc, chunk, popped, written>>
      /\ async_buffer' = <<>>
  BY Zenon, NothingDirty DEF InitNative, threadVars
<1>2. ASSUME NEW x \in Texts', x[3] # <<>> PROVE x \in Texts
  <2>1. CASE x = <<"disk", 1, disk'.text>>
    <3>1. disk' = disk \/ disk'.text = <<>>
      BY Zenon, <1>1 DEF EmptyDisk
    <3>2. disk'.text # <<>>
      BY Zenon, <1>2, <2>1
    <3> QED BY Zenon, <2>1, <3>1, <3>2, TextsIn
  <2>2. CASE x = <<"buffer", 1, content'>>
    BY Zenon, <1>1, <2>2, TextsIn
  <2>3. CASE \E u \in Thread : /\ pc'[u] \in {"clearlen", "submit"}
                              /\ x = <<"hand", u, chunk'[u].text>>
    BY Zenon, <1>1, <2>3, HandStays
  <2> QED BY Zenon, <1>1, <1>2, <2>1, <2>2, <2>3, TextsFrom
<1> DEFINE y == <<"disk", 1, disk.text>>
<1>3. y \in Texts /\ y[3] = disk.text
  BY Zenon DEF Texts
<1>4. ASSUME NEW m \in lost' \ lost
      PROVE  m \in Msgs(y[3]) /\ y \notin Texts'
  <2>1. mapped' = "mmap" /\ m \in Msgs(disk.text) /\ disk'.text = <<>>
    BY Zenon, <1>1, <1>4 DEF EmptyDisk
  <2>2. disk.text # <<>>
    BY Zenon, <2>1, MsgsEmpty
  <2> QED BY Zenon, <1>1, <2>1, <2>2 DEF Texts
<1> HIDE DEF y
<1> QED BY Zenon, <1>2, <1>3, <1>4, TextsDropped

\* Append: a message that was nowhere is in the buffer, or is lost.
LEMMA AppendOnce ==
  ASSUME Shape, Clean(Texts, lost), NEW t \in Thread, AppendBytes(t),
         arg[t] \notin Held(Texts) \cup lost
  PROVE  /\ Clean(Texts', lost')
         /\ Held(Texts') \cup lost' \subseteq Held(Texts) \cup lost \cup {arg[t]}
<1>1. /\ pc'[t] = "appendlen" /\ pc[t] = "append"
      /\ \A u \in Thread \ {t} : pc'[u] = pc[u]
      /\ UNCHANGED <<chunk, disk, async_buffer, popped, written>>
  BY Zenon DEF AppendBytes, processVars, flushVars, Shape, TypeOK
<1>2. ASSUME NEW p \in Piece, content' = Append(content, p), p.msg = arg[t], lost' = lost
      PROVE  /\ Clean(Texts', lost')
             /\ Held(Texts') \cup lost' \subseteq Held(Texts) \cup lost \cup {arg[t]}
  <2>1. content \in Seq(Piece) /\ <<"buffer", 1, content>> \in Texts
    BY Zenon DEF Shape, TypeOK, Texts
  <2>2. ASSUME NEW x \in Texts'
        PROVE  \/ x = <<"buffer", 1, Append(content, p)>>
               \/ x \in Texts \ {<<"buffer", 1, content>>}
    <3>1. CASE x = <<"buffer", 1, content'>>
      BY Zenon, <1>2, <3>1
    <3>2. CASE x = <<"disk", 1, disk'.text>>
      BY Zenon, <1>1, <3>2, TextsIn, OtherPlace
    <3>3. CASE \E u \in Thread : /\ pc'[u] \in {"clearlen", "submit"}
                                /\ x = <<"hand", u, chunk'[u].text>>
      <4>1. PICK u \in Thread : /\ pc'[u] \in {"clearlen", "submit"}
                               /\ x = <<"hand", u, chunk'[u].text>>
        BY Zenon, <3>3
      <4>2. pc[u] \in {"clearlen", "submit"} /\ chunk'[u] = chunk[u]
        BY Zenon, <1>1, <4>1
      <4> QED BY Zenon, <4>1, <4>2, TextsIn, OtherPlace
    <3>4. CASE x \in Texts /\ x[1] \in {"queue", "popped", "written"}
      <4>1. <<"buffer", 1, content>>[1] = "buffer"
        OBVIOUS
      <4> QED BY Zenon, <3>4, <4>1
    <3> QED BY Zenon, <1>1, <2>2, <3>1, <3>2, <3>3, <3>4, TextsFrom
  <2> DEFINE T == Texts
             L == lost
             U == Texts'
             s == content
  <2>3. /\ Clean(T, L) /\ s \in Seq(Piece) /\ <<"buffer", 1, s>> \in T
        /\ p.msg \notin Held(T) \cup L
        /\ \A x \in U : x = <<"buffer", 1, Append(s, p)>> \/ x \in T \ {<<"buffer", 1, s>>}
    BY Zenon, <1>2, <2>1, <2>2
  <2> HIDE DEF T, L, U, s
  <2>4. Clean(U, L) /\ Held(U) \subseteq Held(T) \cup {p.msg}
    BY Zenon, <2>3, Added
  <2> QED BY Zenon, <1>2, <2>4 DEF T, L, U
<1>3. ASSUME content' = content, lost' = lost \cup {arg[t]}
      PROVE  /\ Clean(Texts', lost')
             /\ Held(Texts') \cup lost' \subseteq Held(Texts) \cup lost \cup {arg[t]}
  <2>1. Texts' = Texts
    <3>1. \A u \in Thread : pc'[u] \in {"clearlen", "submit"}
                          <=> pc[u] \in {"clearlen", "submit"}
      BY Zenon, <1>1
    <3>2. content' = content /\ UNCHANGED <<chunk, disk, async_buffer, popped, written>>
      BY Zenon, <1>1, <1>3
    <3>3. ASSUME NEW x \in Texts' PROVE x \in Texts
      BY Zenon, <3>1, <3>2, <3>3 DEF Texts
    <3>4. ASSUME NEW x \in Texts PROVE x \in Texts'
      BY Zenon, <3>1, <3>2, <3>4 DEF Texts
    <3> QED BY Zenon, <3>3, <3>4
  <2>2. \A x \in Texts : arg[t] \notin Msgs(x[3])
    BY Zenon DEF Held
  <2>3. Clean(Texts, lost')
    BY Zenon, <1>3, <2>2 DEF Clean
  <2> QED BY Zenon, <1>3, <2>1, <2>3
<1> QED BY Zenon, <1>2, <1>3, AppendEffect

\* A message in the pipeline was given to WriteNative; the one a thread is
\* about to append is nowhere yet, and no other thread has it.
Fresh ==
    /\ Held(Texts) \cup lost \subseteq logged
    /\ \A t \in Thread : arg[t] # NoMsg =>
         /\ arg[t] \in logged
         /\ pc[t] # "appendlen" => arg[t] \notin Held(Texts) \cup lost
    /\ \A t, u \in Thread : arg[t] # NoMsg /\ arg[t] = arg[u] => t = u

Once == Clean(Texts, lost) /\ Fresh

\* A step that hands messages on, and gives no thread a new message, keeps
\* the messages of the threads fresh.
LEMMA HandsOnOnce ==
  ASSUME Once, HandsOn, logged' = logged,
         \A u \in Thread : arg'[u] # NoMsg =>
           arg'[u] = arg[u] /\ (pc[u] = "appendlen" => pc'[u] = "appendlen")
  PROVE  Once'
<1>1. Clean(Texts, lost)'
  BY Zenon DEF HandsOn
<1>2. Held(Texts') \cup lost' \subseteq Held(Texts) \cup lost
  BY Zenon DEF HandsOn
<1>3. Fresh'
  BY Zenon, <1>2 DEF Once, Fresh
<1> QED BY Zenon, <1>1, <1>3 DEF Once

\* Every step but Append only hands messages on.
LEMMA NextHandsOn ==
  ASSUME Shape, Clean(Texts, lost), [Next]_vars,
         \A t \in Thread : ~AppendBytes(t)
  PROVE  HandsOn
<1>1. ASSUME NEW t \in Writer, NEW m \in Msg, WriteNative(t, m) PROVE HandsOn
  <2>1. /\ UNCHANGED <<content, chunk, disk, async_buffer, popped, written, lost>>
        /\ t \in Thread /\ pc'[t] \in {"flush", "append"}
        /\ \A u \in Thread \ {t} : pc'[u] = pc[u]
    BY Zenon, <1>1 DEF WriteNative, bufferVars, processVars, flushVars, Thread, Shape, TypeOK
  <2> QED BY Zenon, <2>1, TextsKept
<1>2. ASSUME NEW t \in Thread, AppendSetLength(t) PROVE HandsOn
  <2>1. /\ UNCHANGED <<content, chunk, disk, async_buffer, popped, written, lost>>
        /\ pc'[t] = "idle"
        /\ \A u \in Thread \ {t} : pc'[u] = pc[u]
    BY Zenon, <1>2 DEF AppendSetLength, processVars, flushVars, Shape, TypeOK
  <2> QED BY Zenon, <2>1, TextsKept
<1>3. ASSUME NEW t \in Thread, CallFileFlush(t) \/ ClearSetLength(t) PROVE HandsOn
  <2>1. /\ UNCHANGED <<content, disk, async_buffer, popped, written, lost>>
        /\ \A u \in Thread \ {t} : pc'[u] = pc[u] /\ chunk'[u] = chunk[u]
        /\ pc'[t] \in {"clearlen", "submit"} =>
             pc[t] \in {"clearlen", "submit"} /\ chunk'[t] = chunk[t]
    BY Zenon, <1>3 DEF CallFileFlush, ClearSetLength, AfterFlush, bufferVars, processVars,
                historyVars, flushVars, Shape, TypeOK
  <2> QED BY Zenon, <2>1, TextsKept
<1>4. CASE RecordAsyncFlush
  <2>1. /\ UNCHANGED <<content, chunk, disk, async_buffer, popped, written, lost>>
        /\ Main \in Thread /\ pc'[Main] \in {"exp", "flush"}
        /\ \A u \in Thread \ {Main} : pc'[u] = pc[u]
    BY Zenon, <1>4 DEF RecordAsyncFlush, bufferVars, processVars, historyVars, flushVars,
                Thread, Shape, TypeOK
  <2> QED BY Zenon, <2>1, TextsKept
<1>5. CASE FlusherStep \/ Spurious
  <2>1. CASE FF!FlusherPop /\ UNCHANGED <<bufferVars, threadVars, processVars, historyVars>>
    BY Zenon, <2>1, FlusherPopHandsOn
  <2>2. CASE /\ FF!FlusherLock \/ FF!FlusherTestExit \/ FF!FlusherWait \/ FF!SpuriousWakeup
             /\ UNCHANGED <<bufferVars, threadVars, processVars, historyVars>>
    <3>1. UNCHANGED <<content, chunk, disk, async_buffer, popped, written, lost, pc>>
      BY Zenon, <2>2 DEF FF!FlusherLock, FF!FlusherTestExit, FF!FlusherWait, FF!SpuriousWakeup,
                  bufferVars, threadVars, processVars, historyVars
    <3> QED BY Zenon, <3>1, TextsKept
  <2> QED BY Zenon, <1>5, <2>1, <2>2, FlushToFileHandsOn DEF FlusherStep, Spurious
<1>6. CASE UNCHANGED vars
  <2>1. UNCHANGED <<content, chunk, disk, async_buffer, popped, written, lost, pc>>
    BY Zenon, <1>6 DEF vars, bufferVars, threadVars, processVars, historyVars, flushVars
  <2> QED BY Zenon, <2>1, TextsKept
<1> QED
  BY Zenon, <1>1, <1>2, <1>3, <1>4, <1>5, <1>6, ClearBytesHandsOn, SubmitHandsOn,
     ExpLogPathHandsOn, CrashHandsOn, InitNativeHandsOn DEF Next, ThreadStep

\* Only WriteNative gives a thread a message, and only Append makes a thread
\* leave the state in which its message is nowhere.
LEMMA NextArg ==
  ASSUME Shape, [Next]_vars,
         \A t \in Writer, m \in Msg \ logged : ~WriteNative(t, m),
         \A t \in Thread : ~AppendBytes(t)
  PROVE  /\ logged' = logged
         /\ \A u \in Thread : arg'[u] # NoMsg =>
              arg'[u] = arg[u] /\ (pc[u] = "appendlen" => pc'[u] = "appendlen")
<1>1. ASSUME NEW t \in Thread, AppendSetLength(t)
      PROVE  /\ logged' = logged /\ pc'[t] = "idle" /\ arg'[t] = NoMsg
             /\ \A u \in Thread \ {t} : pc'[u] = pc[u] /\ arg'[u] = arg[u]
  BY Zenon, <1>1 DEF AppendSetLength, Shape, TypeOK
<1>2. ASSUME NEW t \in Thread, CallFileFlush(t) \/ ClearSetLength(t)
                                 \/ ClearBytes(t) \/ Submit(t)
      PROVE  /\ UNCHANGED <<logged, arg>> /\ pc[t] # "appendlen"
             /\ \A u \in Thread \ {t} : pc'[u] = pc[u]
  BY Zenon, <1>2 DEF CallFileFlush, ClearSetLength, ClearBytes, Submit, historyVars, Shape, TypeOK
<1>3. CASE RecordAsyncFlush \/ ExpLogPath
  <2>1. /\ UNCHANGED <<logged, arg>> /\ Main \in Thread /\ pc[Main] # "appendlen"
        /\ \A u \in Thread \ {Main} : pc'[u] = pc[u]
    BY Zenon, <1>3 DEF RecordAsyncFlush, ExpLogPath, historyVars, Thread, Shape, TypeOK
  <2> QED BY Zenon, <2>1
<1>4. CASE Crash
  BY Zenon, <1>4 DEF Crash
<1>5. CASE FlusherStep \/ Spurious \/ InitNative \/ UNCHANGED vars
  <2>1. UNCHANGED <<logged, arg, pc>>
    BY Zenon, <1>5 DEF FlusherStep, Spurious, FlushToFile, InitNative, vars, threadVars,
                historyVars
  <2> QED BY Zenon, <2>1
<1> QED BY Zenon, <1>1, <1>2, <1>3, <1>4, <1>5 DEF Next, ThreadStep

\* Every step leaves every message in at most one place.
LEMMA NextOnce == Shape /\ Once /\ [Next]_vars => Once'
<1> SUFFICES ASSUME Shape, Once, [Next]_vars PROVE Once'
  OBVIOUS
<1>0. Clean(Texts, lost)
  BY Zenon DEF Once
<1>1. ASSUME NEW t \in Writer, NEW m \in Msg \ logged, WriteNative(t, m) PROVE Once'
  <2>1. /\ UNCHANGED <<content, chunk, disk, async_buffer, popped, written, lost>>
        /\ t \in Thread /\ pc[t] = "idle" /\ pc'[t] \in {"flush", "append"}
        /\ \A u \in Thread \ {t} : pc'[u] = pc[u] /\ arg'[u] = arg[u]
        /\ arg'[t] = m /\ logged' = logged \cup {m} /\ m \notin logged
    BY Zenon, <1>1 DEF WriteNative, bufferVars, processVars, flushVars, Thread, Shape, TypeOK
  <2>2. HandsOn
    BY Zenon, <1>0, <2>1, TextsKept
  <2>3. Held(Texts') \cup lost' \subseteq Held(Texts) \cup lost
    BY Zenon, <2>2 DEF HandsOn
  <2>4. Fresh'
    <3>1. Fresh /\ Held(Texts) \cup lost \subseteq logged
      BY Zenon DEF Once, Fresh
    <3>2. Held(Texts') \cup lost' \subseteq logged' /\ m \notin Held(Texts') \cup lost'
      BY Zenon, <2>1, <2>3, <3>1
    <3>3. ASSUME NEW u \in Thread, arg'[u] # NoMsg
          PROVE  /\ arg'[u] \in logged'
                 /\ pc'[u] # "appendlen" => arg'[u] \notin Held(Texts') \cup lost'
      <4>1. CASE u = t
        BY Zenon, <2>1, <3>2, <4>1
      <4>2. CASE u # t
        BY Zenon, <2>1, <2>3, <3>1, <3>3, <4>2 DEF Fresh
      <4> QED BY Zenon, <4>1, <4>2
    <3>4. ASSUME NEW u \in Thread, NEW v \in Thread, arg'[u] # NoMsg, arg'[u] = arg'[v]
          PROVE  u = v
      <4>1. CASE u # t /\ v # t
        BY Zenon, <2>1, <3>1, <3>4, <4>1 DEF Fresh
      <4>2. \A w \in Thread \ {t} : arg'[w] # NoMsg => arg'[w] # m
        BY Zenon, <2>1, <3>1 DEF Fresh
      <4>3. CASE u = t \/ v = t
        BY Zenon, <2>1, <3>4, <4>2, <4>3
      <4> QED BY Zenon, <4>1, <4>3
    <3> QED BY Zenon, <3>2, <3>3, <3>4 DEF Fresh
  <2> QED BY Zenon, <2>2, <2>4 DEF Once, HandsOn
<1>2. ASSUME NEW t \in Thread, AppendBytes(t) PROVE Once'
  <2>1. /\ pc[t] = "append" /\ pc'[t] = "appendlen" /\ UNCHANGED <<arg, logged>>
        /\ \A u \in Thread \ {t} : pc'[u] = pc[u]
    BY Zenon, <1>2 DEF AppendBytes, Shape, TypeOK
  <2>2. arg[t] \in Msg /\ arg[t] # NoMsg
    BY Zenon, <2>1, ConstantsAssumption DEF Shape, Hands
  <2>3. arg[t] \notin Held(Texts) \cup lost
    BY Zenon, <2>1, <2>2 DEF Once, Fresh
  <2>4. /\ Clean(Texts', lost')
        /\ Held(Texts') \cup lost' \subseteq Held(Texts) \cup lost \cup {arg[t]}
    BY Zenon, <1>0, <1>2, <2>3, AppendOnce
  <2>5. Fresh'
    BY Zenon, <2>1, <2>2, <2>4 DEF Once, Fresh
  <2> QED BY Zenon, <2>4, <2>5 DEF Once
<1>3. CASE /\ \A t \in Writer, m \in Msg \ logged : ~WriteNative(t, m)
           /\ \A t \in Thread : ~AppendBytes(t)
  BY Zenon, <1>0, <1>3, NextHandsOn, NextArg, HandsOnOnce
<1> QED BY Zenon, <1>1, <1>2, <1>3

\* The messages stored are those at the places of Texts.
LEMMA StoredIsHeld == Stored = Held(Texts)
<1>1. Msgs(content) \cup Msgs(disk.text) \subseteq Held(Texts)
  <2> DEFINE b == <<"buffer", 1, content>>
             d == <<"disk", 1, disk.text>>
  <2>1. b \in Texts /\ d \in Texts /\ b[3] = content /\ d[3] = disk.text
    BY Zenon DEF Texts
  <2> HIDE DEF b, d
  <2> QED BY Zenon, <2>1 DEF Held
<1>2. ASSUME NEW t \in Thread PROVE InHand(t) \subseteq Held(Texts)
  <2>1. CASE pc[t] \in {"clearlen", "submit"}
    <3> DEFINE x == <<"hand", t, chunk[t].text>>
    <3>1. x \in Texts /\ x[3] = chunk[t].text
      BY Zenon, <2>1 DEF Texts
    <3> HIDE DEF x
    <3> QED BY Zenon, <2>1, <3>1 DEF Held, InHand
  <2>2. CASE pc[t] \notin {"clearlen", "submit"}
    BY Zenon, <2>2 DEF InHand
  <2> QED BY Zenon, <2>1, <2>2
<1>3. ASSUME NEW k, NEW q, \A i \in DOMAIN q : <<k, i, q[i].text>> \in Texts
      PROVE  MsgsOf(q) \subseteq Held(Texts)
  <2> SUFFICES ASSUME NEW i \in DOMAIN q, NEW m \in Msgs(q[i].text) PROVE m \in Held(Texts)
    BY Zenon DEF MsgsOf, Range
  <2> DEFINE x == <<k, i, q[i].text>>
  <2>1. x \in Texts /\ x[3] = q[i].text
    BY Zenon, <1>3
  <2> HIDE DEF x
  <2> QED BY Zenon, <2>1 DEF Held
<1>4. /\ MsgsOf(async_buffer) \subseteq Held(Texts)
      /\ MsgsOf(popped) \subseteq Held(Texts)
      /\ MsgsOf(written) \subseteq Held(Texts)
  <2>1. /\ \A i \in DOMAIN async_buffer : <<"queue", i, async_buffer[i].text>> \in Texts
        /\ \A i \in DOMAIN popped : <<"popped", i, popped[i].text>> \in Texts
        /\ \A i \in DOMAIN written : <<"written", i, written[i].text>> \in Texts
    BY Zenon DEF Texts
  <2> QED BY Zenon, <1>3, <2>1
<1>5. ASSUME NEW x \in Texts PROVE Msgs(x[3]) \subseteq Stored
  <2>1. CASE x = <<"buffer", 1, content>> \/ x = <<"disk", 1, disk.text>>
    <3>1. x[3] = content \/ x[3] = disk.text
      BY <2>1
    <3> QED BY Zenon, <3>1 DEF Stored
  <2>2. CASE \E t \in Thread : pc[t] \in {"clearlen", "submit"} /\ x[3] = chunk[t].text
    BY Zenon, <2>2 DEF Stored, InHands, InHand
  <2>3. CASE \/ \E i \in DOMAIN async_buffer : x[3] = async_buffer[i].text
             \/ \E i \in DOMAIN popped : x[3] = popped[i].text
             \/ \E i \in DOMAIN written : x[3] = written[i].text
    BY Zenon, <2>3 DEF Stored, MsgsOf, Range
  <2>4. CASE \E t \in Thread : /\ pc[t] \in {"clearlen", "submit"}
                             /\ x = <<"hand", t, chunk[t].text>>
    <3>1. PICK t \in Thread : /\ pc[t] \in {"clearlen", "submit"}
                             /\ x = <<"hand", t, chunk[t].text>>
      BY Zenon, <2>4
    <3>2. x[3] = chunk[t].text
      BY <3>1
    <3> QED BY Zenon, <2>2, <3>1, <3>2
  <2>5. CASE \/ \E i \in DOMAIN async_buffer : x = <<"queue", i, async_buffer[i].text>>
             \/ \E i \in DOMAIN popped : x = <<"popped", i, popped[i].text>>
             \/ \E i \in DOMAIN written : x = <<"written", i, written[i].text>>
    <3>1. \A k, i, q : x = <<k, i, q>> => x[3] = q
      OBVIOUS
    <3> QED BY Zenon, <2>3, <2>5, <3>1
  <2> QED BY Zenon, <2>1, <2>4, <2>5 DEF Texts
<1> QED BY <1>1, <1>2, <1>4, <1>5 DEF Stored, InHands, Held

\* Before the first start the texts are empty.
LEMMA InitTexts ==
  ASSUME Init
  PROVE  \A x \in Texts : x[3] = <<>>
<1>1. /\ content = <<>> /\ disk = EmptyDisk /\ \A t \in Thread : pc[t] = "idle"
      /\ async_buffer = <<>> /\ popped = <<>> /\ written = <<>>
  BY Zenon DEF Init, FF!Init
<1>2. /\ DOMAIN async_buffer = {} /\ DOMAIN popped = {} /\ DOMAIN written = {}
      /\ disk.text = <<>>
  BY Zenon, <1>1, EmptyDomain DEF EmptyDisk
<1>3. ASSUME NEW x \in Texts
      PROVE  x = <<"buffer", 1, content>> \/ x = <<"disk", 1, disk.text>>
  BY Zenon, <1>1, <1>2, <1>3 DEF Texts
<1>4. <<"buffer", 1, content>>[3] = <<>> /\ <<"disk", 1, disk.text>>[3] = <<>>
  BY Zenon, <1>1, <1>2
<1>5. ASSUME NEW x \in Texts PROVE x[3] = <<>>
  BY Zenon, <1>3, <1>4, <1>5
<1> QED BY Zenon, <1>5

\* Before the first start there are no messages.
LEMMA InitOnce == Init => Once
<1> SUFFICES ASSUME Init PROVE Once
  BY Zenon
<1>1. \A x \in Texts : x[3] = <<>>
  BY Zenon, InitTexts
<1>2. Held(Texts) = {}
  BY Zenon, <1>1, MsgsEmpty DEF Held
<1>3. ASSUME NEW x \in Texts PROVE IsInjective([i \in DOMAIN x[3] |-> x[3][i].msg])
  BY Zenon, <1>1, EmptyInjective
<1>4. Clean(Texts, lost)
  BY Zenon, <1>1, <1>3, MsgsEmpty DEF Clean
<1>5. Fresh
  BY Zenon, <1>2 DEF Init, Fresh
<1> QED BY Zenon, <1>4, <1>5 DEF Once

\* Once holds in every reachable state.
LEMMA OnceInductive == SafetySpec => []Once
BY InitOnce, NextOnce, ShapeInductive, PTL DEF SafetySpec

\* Every message is in at most one place and in it once, and what was thrown
\* away is in none: whatever the interleaving of writers, main thread and
\* flusher, and wherever the process dies, nothing is written twice.
THEOREM NoDuplicateHolds == SafetySpec => []NoDuplicate
<1>1. Once => NoDuplicate
  BY Zenon, StoredIsHeld DEF Once, Clean, NoDuplicate, Held
<1> QED BY <1>1, OnceInductive, PTL
-----------------------------------------------------------------------------

\* What WriteNative found out about the room in the buffer is still true when
\* Append takes log_mtx, unless another thread has appended in between: apart
\* from that, the buffer can only have been emptied.
Room ==
    /\ \A t \in Thread : pc[t] \in {"clearlen", "submit"} => write_ptr = 0
    /\ \A t \in Thread : pc[t] = "append" /\ t \notin overtaken =>
                         write_ptr = 0 \/ MsgLen[arg[t]] < EmptySize

\* Every step keeps the room for the messages of the threads not overtaken.
LEMMA NextRoom == Shape /\ Room /\ [Next]_vars => Room'
<1> SUFFICES ASSUME Shape, Room, [Next]_vars PROVE Room'
  BY Zenon
<1> USE DEF EmptySize
<1>0. Main \in Thread /\ Main \notin Writer /\ Thread = Writer \cup {Main}
  BY Zenon, ConstantsAssumption DEF Thread
<1>1. ASSUME NEW t \in Writer, NEW m \in Msg, WriteNative(t, m) PROVE Room'
  <2>1. /\ UNCHANGED <<write_ptr, overtaken>>
        /\ t \in Thread /\ t # Main /\ pc'[t] \in {"flush", "append"} /\ arg'[t] = m
        /\ pc'[t] = "append" => ~(MsgLen[m] >= Capacity - write_ptr)
        /\ \A u \in Thread \ {t} : pc'[u] = pc[u] /\ arg'[u] = arg[u]
    BY Zenon, <1>0, <1>1 DEF WriteNative, bufferVars, Shape, TypeOK
  <2>2. MsgLen[m] \in Nat /\ Capacity \in Nat /\ write_ptr \in Nat
    BY Zenon, Numbers DEF Shape
  <2>3. pc'[t] = "append" => MsgLen[m] < Capacity - write_ptr
    BY <2>1, <2>2
  <2> QED BY Zenon, <1>0, <2>1, <2>3 DEF Room
<1>2. ASSUME NEW t \in Thread, AppendBytes(t) PROVE Room'
  <2>1. /\ pc[t] = "append" /\ pc'[t] = "appendlen" /\ UNCHANGED arg
        /\ \A u \in Thread : pc[u] \notin Holding
        /\ \A u \in Thread \ {t} : pc'[u] = pc[u]
    BY Zenon, <1>2 DEF AppendBytes, MtxHeld, Shape, TypeOK
  <2>2. \A u \in Thread : pc'[u] \notin {"clearlen", "submit"}
    BY Zenon, <2>1 DEF Holding
  <2>3. CASE overtaken' = (overtaken \ {t}) \cup Waiting(t)
    <3>1. \A u \in Thread : pc'[u] = "append" => u \in overtaken'
      BY Zenon, <2>1, <2>3 DEF Waiting
    <3> QED BY Zenon, <2>2, <3>1 DEF Room
  <2>4. CASE overtaken' = overtaken \ {t} /\ write_ptr' = write_ptr
    <3>1. \A u \in Thread : pc'[u] = "append" /\ u \notin overtaken' =>
                              pc[u] = "append" /\ u \notin overtaken
      BY Zenon, <2>1, <2>4
    <3> QED BY Zenon, <2>1, <2>2, <2>4, <3>1 DEF Room
  <2> QED BY Zenon, <1>2, <2>3, <2>4, AppendOvertakes
<1>3. ASSUME NEW t \in Thread, AppendSetLength(t) PROVE Room'
  <2>1. /\ pc'[t] = "idle" /\ UNCHANGED <<write_ptr, overtaken>>
        /\ \A u \in Thread \ {t} : pc'[u] = pc[u] /\ arg'[u] = arg[u]
    BY Zenon, <1>3 DEF AppendSetLength, Shape, TypeOK
  <2> QED BY Zenon, <1>0, <2>1 DEF Room
<1>4. ASSUME NEW t \in Thread, CallFileFlush(t) PROVE Room'
  <2>1. /\ UNCHANGED <<write_ptr, arg, overtaken>>
        /\ pc'[t] \in {"clear", "idle", "append"}
        /\ pc'[t] = "append" => ~(write_ptr > 0)
        /\ \A u \in Thread \ {t} : pc'[u] = pc[u]
    BY Zenon, <1>4 DEF CallFileFlush, AfterFlush, bufferVars, historyVars, Shape, TypeOK
  <2>2. write_ptr \in Nat
    BY Zenon, Numbers DEF Shape
  <2>3. pc'[t] = "append" => write_ptr = 0
    BY <2>1, <2>2
  <2> QED BY Zenon, <2>1, <2>3 DEF Room
<1>5. ASSUME NEW t \in Thread, ClearBytes(t) PROVE Room'
  <2>1. UNCHANGED arg /\ write_ptr' = 0
    BY Zenon, <1>5 DEF ClearBytes
  <2> QED BY Zenon, <2>1 DEF Room
<1>6. ASSUME NEW t \in Thread, ClearSetLength(t) \/ Submit(t) PROVE Room'
  <2>1. UNCHANGED <<write_ptr, arg, overtaken>> /\ write_ptr = 0
    BY Zenon, <1>6 DEF ClearSetLength, Submit, bufferVars, historyVars, Room
  <2> QED BY Zenon, <2>1 DEF Room
<1>7. CASE RecordAsyncFlush
  <2>1. /\ UNCHANGED <<write_ptr, arg, overtaken>> /\ pc'[Main] \in {"exp", "flush"}
        /\ \A u \in Thread \ {Main} : pc'[u] = pc[u]
    BY Zenon, <1>0, <1>7 DEF RecordAsyncFlush, bufferVars, historyVars, Shape, TypeOK
  <2> QED BY Zenon, <2>1 DEF Room
<1>8. CASE ExpLogPath
  <2>1. UNCHANGED arg /\ write_ptr' = 0
    BY Zenon, <1>8 DEF ExpLogPath
  <2> QED BY Zenon, <2>1 DEF Room
<1>9. CASE Crash
  <2>1. write_ptr' = 0
    BY Zenon, <1>9 DEF Crash
  <2> QED BY Zenon, <2>1 DEF Room
<1>10. CASE FlusherStep \/ Spurious \/ InitNative \/ UNCHANGED vars
  <2>1. UNCHANGED <<write_ptr, arg, overtaken, pc>>
    BY Zenon, <1>10 DEF FlusherStep, Spurious, FlushToFile, InitNative, vars, bufferVars,
                 threadVars, historyVars
  <2> QED BY Zenon, <2>1 DEF Room
<1> QED
  BY Zenon, <1>1, <1>2, <1>3, <1>4, <1>5, <1>6, <1>7, <1>8, <1>9, <1>10 DEF Next, ThreadStep

\* The process starts with an empty buffer.
LEMMA InitRoom == Init => Room

BY Zenon DEF Init, Room, Thread

\* Append has no room for the whole of a message, or for any of it, only if
\* another thread overtook this one or the message is longer than the buffer.
LEMMA AppendFits ==
  ASSUME Shape, Room, Mode = "plain" => zpend = 0, NEW t \in Thread, AppendBytes(t)
  PROVE  \A x \in short' : x \in short \/ x.late \/ MsgLen[x.msg] > Capacity
<1>1. PICK c \in Encoded(arg[t]) :
        LET out == c + IF write_ptr = 0 THEN 0 ELSE zpend
            n   == WriteSize(out)
        IN short' = IF n = 0 \/ (Mode = "plain" /\ n < c)
                      THEN short \cup {[msg |-> arg[t], late |-> t \in overtaken]}
                      ELSE short
  BY Zenon DEF AppendBytes
<1> DEFINE out == c + IF write_ptr = 0 THEN 0 ELSE zpend
           n   == WriteSize(out)
           x   == [msg |-> arg[t], late |-> t \in overtaken]
<1>2. arg[t] \in Msg /\ pc[t] = "append"
  BY Zenon DEF AppendBytes, Shape, Hands
<1>3. /\ c \in Nat \ {0} /\ MsgLen[arg[t]] \in Nat \ {0}
      /\ Mode = "plain" => c = MsgLen[arg[t]]
  <2>1. c \in Encoded(arg[t])
    BY Zenon
  <2> QED BY Zenon, <1>2, <2>1, EncodedSize, Numbers DEF Shape
<1>4. /\ out \in Nat \ {0} /\ write_ptr \in 0 .. Capacity /\ Capacity \in Nat \ {0}
      /\ zpend = 0 => out = c
  <2>1. zpend \in Nat /\ write_ptr \in 0 .. Capacity /\ Capacity \in Nat \ {0}
    BY Zenon, ConstantsAssumption DEF Shape, TypeOK
  <2> QED BY <1>3, <2>1
<1>5. x.msg = arg[t] /\ (t \in overtaken => x.late)
  BY Zenon
<1> HIDE DEF out
<1>6. n = IF out <= Capacity - write_ptr THEN out ELSE Capacity - write_ptr
  BY Zenon DEF WriteSize, EmptySize
<1> HIDE DEF n, x
<1>7. short' = IF n = 0 \/ (Mode = "plain" /\ n < c) THEN short \cup {x} ELSE short
  BY Zenon, <1>1 DEF out, n, x
<1>8. CASE t \in overtaken
  BY Zenon, <1>5, <1>7, <1>8
<1>9. CASE t \notin overtaken
  <2>1. write_ptr = 0 \/ MsgLen[arg[t]] < Capacity - write_ptr
    BY Zenon, <1>2, <1>9 DEF Room, EmptySize
  <2>2. n # 0
    <3>1. CASE out <= Capacity - write_ptr
      BY <1>4, <1>6, <3>1
    <3>2. CASE ~(out <= Capacity - write_ptr)
      <4>1. n = Capacity - write_ptr
        BY Zenon, <1>6, <3>2
      <4> QED BY <1>3, <1>4, <2>1, <4>1
    <3> QED BY Zenon, <3>1, <3>2
  <2>3. Mode = "plain" /\ n < c => MsgLen[arg[t]] > Capacity
    <3>1. CASE out <= Capacity - write_ptr
      BY <1>3, <1>4, <1>6, <3>1
    <3>2. CASE ~(out <= Capacity - write_ptr)
      <4>1. n = Capacity - write_ptr
        BY Zenon, <1>6, <3>2
      <4> QED BY <1>3, <1>4, <2>1, <4>1, <3>2
    <3> QED BY Zenon, <3>1, <3>2
  <2> QED BY Zenon, <1>5, <1>7, <2>2, <2>3
<1> QED BY Zenon, <1>8, <1>9

\* Only Append can be short of room.
LEMMA NextFits ==
  ASSUME Shape, Room, Mode = "plain" => zpend = 0, NoTruncation, [Next]_vars
  PROVE  NoTruncation'
<1>1. ASSUME NEW t \in Thread, AppendBytes(t) PROVE NoTruncation'
  BY Zenon, <1>1, AppendFits DEF NoTruncation
<1>2. CASE \A t \in Thread : ~AppendBytes(t)
  <2>1. UNCHANGED short
    <3>1. ASSUME NEW t \in Thread, ThreadStep(t) PROVE UNCHANGED short
      BY Zenon, <1>2, <3>1
         DEF ThreadStep, AppendSetLength, CallFileFlush, ClearBytes,
             ClearSetLength, Submit, historyVars
    <3>2. CASE RecordAsyncFlush \/ ExpLogPath \/ Crash \/ InitNative \/ UNCHANGED vars
      BY Zenon, <3>2 DEF RecordAsyncFlush, ExpLogPath, Crash, InitNative, vars, historyVars
    <3>3. ASSUME NEW t \in Writer, NEW m \in Msg, WriteNative(t, m)
          PROVE  UNCHANGED short
      BY Zenon, <3>3 DEF WriteNative
    <3>4. CASE FlusherStep \/ Spurious
      BY Zenon, <3>4 DEF FlusherStep, FlushToFile, Spurious, historyVars
    <3> QED BY Zenon, <3>1, <3>2, <3>3, <3>4 DEF Next
  <2> QED BY Zenon, <2>1 DEF NoTruncation
<1> QED BY Zenon, <1>1, <1>2

\* For any number of writers and messages of any length, Append throws away a
\* byte of a message that fits the buffer only when another thread has
\* appended since WriteNative looked at the room without log_mtx; a deflate
\* stream takes every message that was not overtaken.
THEOREM NoTruncationHolds == SafetySpec => []NoTruncation
<1>1. Init => Room /\ NoTruncation
  BY Zenon, InitRoom DEF Init, NoTruncation
<1>2. Shape /\ Room /\ [Next]_vars => Room'
  BY Zenon, NextRoom
<1>3. Streams => (Mode = "plain" => zpend = 0)
  BY Zenon DEF Streams
<1>4. /\ Shape /\ Room /\ (Mode = "plain" => zpend = 0) /\ NoTruncation
      /\ [Next]_vars
      => NoTruncation'
  BY Zenon, NextFits
<1> QED
  BY <1>1, <1>2, <1>3, <1>4, ShapeInductive, StreamsInductive, PTL DEF SafetySpec
=============================================================================
