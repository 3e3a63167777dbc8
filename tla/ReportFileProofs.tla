--------------------------- MODULE ReportFileProofs ---------------------------
(***************************************************************************)
(* FileIsWholeReport of ReportFile, for every capacity of the mapped file, *)
(* every sequence of lines that is recorded and any number of starts.      *)
(***************************************************************************)
EXTENDS ReportFile, WellFoundedInduction, TLAPS

\* The mapped file holds the string s, and nulls behind it.
BufferIs(b, s) ==
    /\ b \in [Index -> Char]
    /\ s \in Seq(Char) /\ Len(s) <= Capacity
    /\ \A i \in 1..Len(s) : s[i] # Nul /\ b[i - 1] = s[i]
    /\ \A i \in Index : i >= Len(s) => b[i] = Nul

\* The inductive invariant: nothing is said of the file that a process which
\* was killed, or which wrote beyond the mapping, leaves behind.
ReportInv ==
    LET contents == Contents(dev)
    IN /\ dev \in Device
       /\ pc \in {"down", "ready", "record", "flushed", "undefined"}
       /\ pc \in {"ready", "record"} => file = <<>>
       /\ pc = "ready" => BufferIs(buffer, <<>>)
       /\ pc = "record" =>
            done \in 0..Len(contents) /\ BufferIs(buffer, Text(contents)[done])
       /\ pc = "flushed" => file = Text(contents)[Len(contents)]
-----------------------------------------------------------------------------
(* The text, which is defined by recursion.                                *)

\* Induction over the natural numbers, for a set of them.
LEMMA NatSetInduction ==
  ASSUME NEW T, T \subseteq Nat, 0 \in T, \A n \in T : n + 1 \in T
  PROVE  T = Nat
<1> DEFINE R == Nat \ T
<1>1. SUFFICES ASSUME R # {} PROVE FALSE
  BY Zenon
<1>2. PICK x \in R : \A y \in R : ~(<<y, x>> \in OpToRel(<, Nat))
  BY Zenon, <1>1, WFMin, NatLessThanWellFounded
<1>3. x # 0 /\ x - 1 \in Nat /\ x - 1 < x
  OBVIOUS
<1>4. <<x - 1, x>> \in OpToRel(<, Nat)
  BY <1>3 DEF OpToRel
<1>5. x - 1 \in T
  BY Zenon, <1>2, <1>3, <1>4
<1>6. x - 1 + 1 = x
  BY <1>3
<1> QED BY <1>5, <1>6

\* The function that the recursion describes.
IsText(f, c, n) ==
    f = [k \in 0..n |-> IF k = 0 THEN <<>> ELSE f[k - 1] \o Shown(c[k])]

\* There is one, for any number of contents.
LEMMA TextExists == \A c : \A n \in Nat : \E f : IsText(f, c, n)
<1> SUFFICES ASSUME NEW c PROVE \A n \in Nat : \E f : IsText(f, c, n)
  OBVIOUS
<1> DEFINE T == {n \in Nat : \E f : IsText(f, c, n)}
<1>1. 0 \in T
  <2> DEFINE f == [k \in 0..0 |-> <<>>]
  <2>1. IsText(f, c, 0)
    BY DEF IsText
  <2> QED BY <2>1
<1>2. ASSUME NEW n \in T PROVE n + 1 \in T
  <2>1. PICK f : IsText(f, c, n)
    OBVIOUS
  <2> DEFINE g == [k \in 0..(n + 1) |-> IF k = n + 1 THEN f[n] \o Shown(c[n + 1]) ELSE f[k]]
  <2>2. \A k \in 0..n : g[k] = f[k]
    OBVIOUS
  <2>3. \A k \in 0..n : f[k] = IF k = 0 THEN <<>> ELSE f[k - 1] \o Shown(c[k])
    BY Zenon, <2>1 DEF IsText
  <2>4. ASSUME NEW k \in 0..(n + 1)
        PROVE  g[k] = IF k = 0 THEN <<>> ELSE g[k - 1] \o Shown(c[k])
    <3>1. CASE k = n + 1
      <4>1. n \in 0..n /\ k # 0 /\ k - 1 = n
        BY <3>1
      <4>2. g[k] = f[n] \o Shown(c[k]) /\ g[k - 1] = f[n]
        BY <2>2, <3>1, <4>1
      <4> QED BY <4>1, <4>2
    <3>2. CASE k # n + 1
      <4>1. k \in 0..n /\ (k # 0 => k - 1 \in 0..n)
        BY <3>2
      <4> QED BY <2>2, <2>3, <4>1
    <3> QED BY <3>1, <3>2
  <2>5. IsText(g, c, n + 1)
    <3>1. g = [k \in 0..(n + 1) |-> g[k]]
      OBVIOUS
    <3> HIDE DEF g
    <3> QED BY Zenon, <2>4, <3>1 DEF IsText
  <2> QED BY <2>5
<1>3. T = Nat
  <2> HIDE DEF T
  <2>1. T \subseteq Nat
    BY DEF T
  <2> QED BY Zenon, <1>1, <1>2, <2>1, NatSetInduction
<1> QED BY <1>3

\* So Text is what its recursion says.
LEMMA TextUnfolds ==
  ASSUME NEW c \in Seq(Seq(Char))
  PROVE  /\ Text(c)[0] = <<>>
         /\ \A k \in 1..Len(c) : Text(c)[k] = Text(c)[k - 1] \o Shown(c[k])
<1>1. Len(c) \in Nat
  OBVIOUS
<1>2. \E f : IsText(f, c, Len(c))
  BY Zenon, <1>1, TextExists
<1>3. IsText(Text(c), c, Len(c))
  BY Zenon, <1>2 DEF Text, IsText
<1> HIDE DEF IsText
<1>4. \A k \in 0..Len(c) :
        Text(c)[k] = IF k = 0 THEN <<>> ELSE Text(c)[k - 1] \o Shown(c[k])
  BY Zenon, <1>3 DEF IsText
<1>5. Text(c)[0] = <<>>
  BY <1>1, <1>4
<1>6. ASSUME NEW k \in 1..Len(c) PROVE Text(c)[k] = Text(c)[k - 1] \o Shown(c[k])
  <2>1. k \in 0..Len(c) /\ k # 0
    BY <1>1
  <2> QED BY Zenon, <1>4, <2>1
<1> QED BY Zenon, <1>5, <1>6
-----------------------------------------------------------------------------
(* The mapped file.                                                        *)

\* strlen and the string of a file that holds s.
LEMMA StringOf ==
  ASSUME Capacity \in Nat, NEW b, NEW s, BufferIs(b, s)
  PROVE  strlen(b) = Len(s) /\ CString(b) = s
<1> DEFINE Z == {i \in Index : b[i] = Nul} \cup {Capacity}
<1>1. Len(s) \in Nat /\ Len(s) <= Capacity
  BY DEF BufferIs
<1>2. Len(s) \in Z
  BY <1>1 DEF BufferIs, Index
<1>3. \A i \in Z : Len(s) <= i
  <2>1. SUFFICES ASSUME NEW i \in Index, b[i] = Nul, i < Len(s) PROVE FALSE
    BY <1>1 DEF Index
  <2>2. i + 1 \in 1..Len(s) /\ (i + 1) - 1 = i
    BY <1>1, <2>1 DEF Index
  <2> QED BY <2>1, <2>2 DEF BufferIs
<1>4. Z \subseteq Nat
  BY DEF Index
<1>5. Min(Z) = Len(s)
  <2> HIDE DEF Z
  <2>1. \A x \in Z : (\A y \in Z : x <= y) => x = Len(s)
    BY <1>1, <1>2, <1>3, <1>4
  <2> QED BY <1>2, <1>3, <2>1 DEF Min
<1>6. strlen(b) = Len(s)
  BY <1>5 DEF strlen
<1>7. CString(b) = s
  BY <1>1, <1>6 DEF CString, BufferIs
<1> QED BY <1>6, <1>7

\* A new guard has an empty string.
LEMMA NewIsEmpty ==
  ASSUME Capacity \in Nat, Nul \in Char, NEW b
  PROVE  BufferIs(NewBuffer(b), <<>>)
BY DEF BufferIs, NewBuffer, Index

\* A content without its last character.
LEMMA PrefixOf ==
  ASSUME NEW c \in Seq(Char), NEW m \in Nat, m <= Len(c)
  PROVE  /\ SubSeq(c, 1, m) \in Seq(Char) /\ Len(SubSeq(c, 1, m)) = m
         /\ \A i \in 1..m : SubSeq(c, 1, m)[i] = c[i]
OBVIOUS

\* A content without its null, and what Write makes of it.
LEMMA WriteAppends ==
  ASSUME Capacity \in Nat, Nul \in Char, NEW b, NEW s, BufferIs(b, s),
         NEW c \in Seq(Char), \A j \in 1..(Len(c) - 1) : c[j] # Nul,
         Fits(b, c)
  PROVE  BufferIs(Write(b, c), s \o Shown(c))
<1> DEFINE h == Shown(c)
           w == Write(b, c)
           n == Len(s)
<1>1. n \in Nat /\ Len(c) \in Nat /\ s \in Seq(Char) /\ strlen(b) = n /\ n + Len(c) <= Capacity
  <2>1. strlen(b) = n
    BY StringOf
  <2>2. s \in Seq(Char) /\ n \in Nat /\ Len(c) \in Nat
    BY DEF BufferIs
  <2> QED BY <2>1, <2>2 DEF Fits
<1>2. /\ h \in Seq(Char) /\ Len(h) \in Nat /\ Len(h) <= Len(c)
      /\ \A i \in 1..Len(h) : h[i] = c[i] /\ h[i] # Nul
      /\ \A i \in 1..Len(c) : i > Len(h) => c[i] = Nul
  <2>1. CASE c # <<>> /\ c[Len(c)] = Nul
    <3>1. Len(c) - 1 \in Nat /\ h = SubSeq(c, 1, Len(c) - 1)
      BY <2>1 DEF Shown
    <3>2. h \in Seq(Char) /\ Len(h) = Len(c) - 1 /\ \A i \in 1..Len(h) : h[i] = c[i]
      <4>1. Len(c) - 1 <= Len(c)
        BY <1>1
      <4> DEFINE q == SubSeq(c, 1, Len(c) - 1)
      <4>2. /\ q \in Seq(Char) /\ Len(q) = Len(c) - 1
            /\ \A i \in 1..(Len(c) - 1) : q[i] = c[i]
        BY Zenon, <3>1, <4>1, PrefixOf
      <4>3. h = q
        BY <3>1
      <4> HIDE DEF q, h
      <4> QED BY <4>2, <4>3
    <3> QED BY <1>1, <2>1, <3>1, <3>2
  <2>2. CASE ~(c # <<>> /\ c[Len(c)] = Nul)
    <3>1. h = c
      BY <2>2 DEF Shown
    <3>2. ASSUME NEW i \in 1..Len(c) PROVE c[i] # Nul
      BY <1>1, <2>2
    <3> QED BY <1>1, <3>1, <3>2
  <2> QED BY <2>1, <2>2
<1> HIDE DEF h
<1>3. /\ s \o h \in Seq(Char) /\ Len(s \o h) = n + Len(h)
      /\ \A i \in 1..n : (s \o h)[i] = s[i]
      /\ \A i \in 1..Len(h) : (s \o h)[n + i] = h[i]
  BY <1>1, <1>2
<1>4. \A i \in Index : w[i] = IF i - n \in 0..(Len(c) - 1) THEN c[i - n + 1] ELSE b[i]
  BY <1>1 DEF Write
<1>5. w \in [Index -> Char]
  <2>1. w = [i \in Index |-> w[i]]
    BY <1>1 DEF Write
  <2>2. ASSUME NEW i \in Index PROVE w[i] \in Char
    <3>1. CASE i - n \in 0..(Len(c) - 1)
      <4>1. i - n + 1 \in 1..Len(c)
        BY <1>1, <3>1 DEF Index
      <4> QED BY <1>4, <3>1, <4>1
    <3>2. CASE i - n \notin 0..(Len(c) - 1)
      <4>1. b[i] \in Char
        BY DEF BufferIs
      <4> QED BY <1>4, <3>2, <4>1
    <3> QED BY <3>1, <3>2
  <2> HIDE DEF w
  <2> QED BY <2>1, <2>2
<1> HIDE DEF w
<1>6. ASSUME NEW i \in 1..(n + Len(h)) PROVE (s \o h)[i] # Nul /\ w[i - 1] = (s \o h)[i]
  <2>0. i - 1 \in Index
    BY <1>1, <1>2 DEF Index
  <2>1. CASE i \in 1..n
    <3>1. w[i - 1] = b[i - 1]
      BY <1>1, <1>4, <2>0, <2>1
    <3> QED BY <1>3, <2>1, <3>1 DEF BufferIs
  <2>2. CASE i \notin 1..n
    <3>1. PICK j \in 1..Len(h) : i = n + j
      <4>1. i - n \in 1..Len(h) /\ i = n + (i - n)
        BY <1>1, <1>2, <2>2
      <4> QED BY Zenon, <4>1
    <3>2. (i - 1) - n \in 0..(Len(c) - 1) /\ (i - 1) - n + 1 = j
      BY <1>1, <1>2, <3>1
    <3>3. w[i - 1] = c[j]
      BY SMTT(30), <1>4, <2>0, <3>2
    <3> QED BY <1>2, <1>3, <3>1, <3>3
  <2> QED BY <2>1, <2>2
<1>7. ASSUME NEW i \in Index, i >= n + Len(h) PROVE w[i] = Nul
  <2>1. CASE i - n \in 0..(Len(c) - 1)
    <3>1. i - n + 1 \in 1..Len(c) /\ i - n + 1 > Len(h)
      BY <1>1, <1>2, <1>7, <2>1 DEF Index
    <3> QED BY <1>2, <1>4, <2>1, <3>1
  <2>2. CASE i - n \notin 0..(Len(c) - 1)
    <3>1. w[i] = b[i] /\ i >= n
      BY <1>1, <1>2, <1>4, <1>7, <2>2 DEF Index
    <3> QED BY <3>1 DEF BufferIs
  <2> QED BY <2>1, <2>2
<1>8. n + Len(h) <= Capacity
  BY <1>1, <1>2
<1>9. BufferIs(w, s \o h)
  BY <1>3, <1>5, <1>6, <1>7, <1>8 DEF BufferIs
<1> QED BY <1>9 DEF h, w
-----------------------------------------------------------------------------
(* The steps.                                                              *)

\* What the assumption says of the contents for one device.
LEMMA ContentsOf ==
  ASSUME NEW d \in Device
  PROVE  /\ Contents(d) \in Seq(Seq(Char)) /\ Len(Contents(d)) \in Nat
         /\ \A i \in 1..Len(Contents(d)) :
              /\ Contents(d)[i] \in Seq(Char)
              /\ \A j \in 1..(Len(Contents(d)[i]) - 1) : Contents(d)[i][j] # Nul
<1>1. Contents(d) \in Seq(Seq(Char))
  BY Zenon, ReportAssumption
<1>2. \A i \in 1..Len(Contents(d)) :
        \A j \in 1..(Len(Contents(d)[i]) - 1) : Contents(d)[i][j] # Nul
  BY Zenon, ReportAssumption
<1>3. Len(Contents(d)) \in Nat /\ \A i \in 1..Len(Contents(d)) : Contents(d)[i] \in Seq(Char)
  BY <1>1
<1> QED BY <1>1, <1>2, <1>3

\* One content is written: the string is the text with one more content.
LEMMA RecordStep ==
  ASSUME ReportInv, Record
  PROVE  ReportInv'
<1> DEFINE contents == Contents(dev)
           content == contents[done + 1]
<1>1. /\ dev \in Device /\ pc = "record" /\ file = <<>>
      /\ done \in 0..Len(contents) /\ BufferIs(buffer, Text(contents)[done])
      /\ done < Len(contents)
      /\ dev' = dev /\ file' = file
  BY DEF ReportInv, Record
<1>2. CASE Fits(buffer, content)
  <2>1. buffer' = Write(buffer, content) /\ done' = done + 1 /\ pc' = pc
    BY <1>2 DEF Record
  <2>2. /\ contents \in Seq(Seq(Char)) /\ Len(contents) \in Nat
        /\ done + 1 \in 1..Len(contents)
        /\ content \in Seq(Char) /\ \A j \in 1..(Len(content) - 1) : content[j] # Nul
    <3>1. contents \in Seq(Seq(Char)) /\ Len(contents) \in Nat
      BY <1>1, ContentsOf
    <3>2. done + 1 \in 1..Len(contents)
      BY <1>1, <3>1
    <3> QED BY Zenon, <1>1, <3>1, <3>2, ContentsOf
  <2>3. Text(contents)[done + 1] = Text(contents)[done] \o Shown(content)
    <3>1. (done + 1) - 1 = done
      BY <1>1
    <3> QED BY Zenon, <2>2, <3>1, TextUnfolds
  <2>4. BufferIs(Write(buffer, content), Text(contents)[done] \o Shown(content))
    <3> HIDE DEF content
    <3> QED BY <1>1, <1>2, <2>2, ReportAssumption, WriteAppends
  <2>5. BufferIs(buffer', Text(contents)[done'])
    BY <2>1, <2>3, <2>4
  <2>6. done' \in 0..Len(contents)
    BY <1>1, <2>1, <2>2
  <2> QED BY <1>1, <2>1, <2>5, <2>6 DEF ReportInv, BufferIs
<1>3. CASE ~Fits(buffer, content)
  <2>1. pc' = "undefined"
    BY <1>3 DEF Record
  <2> QED BY <1>1, <2>1 DEF ReportInv
<1> QED BY <1>2, <1>3

\* The whole string goes to an empty file.
LEMMA FlushStep ==
  ASSUME ReportInv, FlushReport
  PROVE  ReportInv'
<1> DEFINE contents == Contents(dev)
<1>1. /\ dev \in Device /\ pc = "record" /\ file = <<>>
      /\ BufferIs(buffer, Text(contents)[done]) /\ done = Len(contents)
      /\ dev' = dev
  BY DEF ReportInv, FlushReport
<1>2. CASE Terminated(buffer)
  <2>1. file' = file \o CString(buffer) /\ pc' = "flushed"
    BY <1>2 DEF FlushReport, Flush
  <2>2. CString(buffer) = Text(contents)[done]
    BY <1>1, StringOf, ReportAssumption
  <2>3. Text(contents)[done] \in Seq(Char)
    BY <1>1 DEF BufferIs
  <2>4. file' = Text(contents)[done]
    <3> DEFINE t == Text(contents)[done]
    <3> HIDE DEF t
    <3>1. t \in Seq(Char) /\ file' = <<>> \o t
      BY <1>1, <2>1, <2>2, <2>3 DEF t
    <3>2. file' = t
      BY <3>1
    <3> QED BY <3>2 DEF t
  <2> QED BY <1>1, <2>1, <2>4 DEF ReportInv
<1>3. CASE ~Terminated(buffer)
  <2>1. pc' = "undefined"
    BY <1>3 DEF FlushReport
  <2> QED BY <1>1, <2>1 DEF ReportInv
<1> QED BY <1>2, <1>3

\* Every step keeps the invariant.
LEMMA ReportNext == ReportInv /\ [Next]_vars => ReportInv'
<1> SUFFICES ASSUME ReportInv, [Next]_vars PROVE ReportInv'
  OBVIOUS
<1>1. CASE StartDaemon
  <2>1. /\ dev' = dev /\ dev \in Device /\ pc' = "ready" /\ file' = <<>>
        /\ buffer' = NewBuffer(buffer)
    BY <1>1 DEF StartDaemon, ReportInv
  <2>2. BufferIs(NewBuffer(buffer), <<>>)
    BY ReportAssumption, NewIsEmpty
  <2>3. BufferIs(buffer', <<>>)
    BY <2>1, <2>2
  <2> QED BY <2>1, <2>3 DEF ReportInv, BufferIs
<1>2. CASE Begin
  <2>1. /\ dev' = dev /\ dev \in Device /\ pc' = "record" /\ file' = file /\ file = <<>>
        /\ done' = 0 /\ buffer' = buffer /\ BufferIs(buffer, <<>>)
    BY <1>2 DEF Begin, ReportInv
  <2>2. Contents(dev) \in Seq(Seq(Char)) /\ Len(Contents(dev)) \in Nat
    BY <2>1, ContentsOf
  <2>3. Text(Contents(dev))[0] = <<>> /\ 0 \in 0..Len(Contents(dev))
    <3>1. 0 \in 0..Len(Contents(dev))
      BY <2>2
    <3> QED BY Zenon, <2>2, <3>1, TextUnfolds
  <2>4. BufferIs(buffer', Text(Contents(dev))[done'])
    BY <2>1, <2>3
  <2> QED BY <2>1, <2>3, <2>4 DEF ReportInv, BufferIs
<1>3. CASE Record
  BY <1>3, RecordStep
<1>4. CASE FlushReport
  BY <1>4, FlushStep
<1>5. CASE Kill
  BY <1>5 DEF Kill, ReportInv
<1>6. CASE UNCHANGED vars
  BY <1>6 DEF vars, ReportInv, BufferIs
<1> QED BY <1>1, <1>2, <1>3, <1>4, <1>5, <1>6 DEF Next

\* The invariant always holds.
THEOREM ReportInvariant == Spec => []ReportInv
<1>1. Init => ReportInv
  BY DEF Init, ReportInv
<1> QED BY <1>1, ReportNext, PTL DEF Spec

\* The string in the mapped file is the text recorded so far and a report file
\* holds one whole report, whatever the lines of the report are, however large
\* the mapping is, and however often the monitor process was killed before
\* (RecordLine, hawkeye_private.cpp:176; MmapGuard, mmap_guard.cpp:28, :65).
THEOREM ReportIsWhole == Spec => []FileIsWholeReport
<1>1. ReportInv => FileIsWholeReport
  <2> SUFFICES ASSUME ReportInv PROVE FileIsWholeReport
    OBVIOUS
  <2>1. ASSUME pc = "record" PROVE CString(buffer) = Text(Contents(dev))[done]
    <3>1. BufferIs(buffer, Text(Contents(dev))[done])
      BY <2>1 DEF ReportInv
    <3> QED BY <3>1, StringOf, ReportAssumption
  <2>2. ASSUME pc = "flushed" PROVE file = Text(Contents(dev))[Len(Contents(dev))]
    BY <2>2 DEF ReportInv
  <2> QED BY <2>1, <2>2 DEF FileIsWholeReport
<1> QED BY <1>1, ReportInvariant, PTL
=============================================================================
