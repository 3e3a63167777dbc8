--------------------------- MODULE BufferHeaderProofs ---------------------------
(***************************************************************************)
(* AccessesInBounds and MemoryReadsBack of BufferHeader, for every width   *)
(* of size_t, byte order, path, text and capacity, and for a cache file    *)
(* with any content.                                                       *)
(***************************************************************************)
EXTENDS BufferHeader, TLAPS

\* A memory of n chars.
Memory(n) == [0..(n - 1) -> Char]

\* The size_t at m + at is k.
WordAt(m, at, k) == \A i \in 1..W : m[at + i - 1] = SizeBytes[k][i]

\* The chars of s stand at m + at.
TextAt(m, at, s) == \A i \in 1..Len(s) : m[at + i - 1] = s[i]

\* A header for the path p and the limit l, with the log length k; the compress
\* byte where it is read is 0.
HeaderIs(m, p, l, k) ==
    /\ m[0] = Magic
    /\ WordAt(m, 1, k)
    /\ WordAt(m, 1 + W, Len(p))
    /\ TextAt(m, 1 + W + W, p)
    /\ WordAt(m, 1 + W + W + Len(p), l)
    /\ m[1 + W + W + Len(p) + W] = 0

\* The memory that InitData was given has room for every path.
Room(n) ==
    /\ n \in Size
    /\ \A p \in Path : CalculateHeaderLen(Len(p)) + W <= n

\* The inductive invariant.
OpenInv ==
    /\ mem \in Memory(size)
    /\ path \in Path /\ limit \in Limit /\ log \in Seq(Char)
    /\ Room(size)
    /\ data_ptr = CalculateHeaderLen(Len(path))
    /\ write_ptr = data_ptr + Len(log)
    /\ write_ptr <= size
    /\ HeaderIs(mem, path, limit, Len(log))
    /\ TextAt(mem, data_ptr, log)

DirtyInv == mem \in Memory(size) /\ size \in Size /\ Opens(size)

Inv ==
    /\ pc \in {"start", "dirty", "clean", "open"}
    /\ pc = "start" => mem \in Memory(size) /\ size \in Size
    /\ pc = "dirty" => DirtyInv
    /\ pc = "open" => OpenInv
    /\ compress \in BOOLEAN
    /\ ~stray
-----------------------------------------------------------------------------
(* A size_t in memory.                                                     *)

\* A size_t that fits does not change when it is counted modulo Word.
LEMMA SmallMod == ASSUME NEW a \in Size PROVE a % Word = a
BY WordAssumption DEF Size

\* memcpy of W chars out of the memory gives a size_t, whatever they are.
LEMMA ReadsSomeWord ==
  ASSUME NEW n \in Nat, NEW m \in Memory(n), NEW at \in Nat, at + W <= n
  PROVE  ReadWord(m, at) \in Size
<1>1. [i \in 1..W |-> m[at + i - 1]] \in [1..W -> Char]
  BY WordAssumption DEF Memory
<1>2. \E k \in Size : SizeBytes[k] = [i \in 1..W |-> m[at + i - 1]]
  BY Zenon, <1>1, WordAssumption DEF Bijection, Surjection
<1> QED BY Zenon, <1>2 DEF ReadWord

\* A size_t is read back as it was stored.
LEMMA ReadsWordBack ==
  ASSUME NEW m, NEW at, NEW k \in Size, WordAt(m, at, k)
  PROVE  ReadWord(m, at) = k
<1>1. SizeBytes[k] \in [1..W -> Char]
  BY WordAssumption DEF Bijection, Injection
<1>2. SizeBytes[k] = [i \in 1..W |-> m[at + i - 1]]
  BY Zenon, <1>1 DEF WordAt
<1>3. \A j \in Size : SizeBytes[j] = SizeBytes[k] => j = k
  BY WordAssumption DEF Bijection, Injection, IsInjective
<1> QED BY <1>2, <1>3 DEF ReadWord

\* The bytes of a size_t are W chars.
LEMMA WordBytesType ==
  ASSUME NEW k \in Size
  PROVE  /\ WordBytes(k) \in Seq(Char)
         /\ Len(WordBytes(k)) = W
         /\ \A i \in 1..W : WordBytes(k)[i] = SizeBytes[k][i] /\ SizeBytes[k][i] \in Char
<1>1. SizeBytes[k] \in [1..W -> Char]
  BY WordAssumption DEF Bijection, Injection
<1> QED BY <1>1, WordAssumption DEF WordBytes
-----------------------------------------------------------------------------
(* The header.                                                             *)

\* What the data say of the constants, one member at a time.
LEMMA Constants ==
  /\ \A p \in Path : p \in Seq(Char) /\ Len(p) \in Nat
  /\ \A p \in Path : CalculateHeaderLen(Len(p)) \in Nat
  /\ \A l \in Limit : l \in Size
  /\ W \in Nat \ {0} /\ Word \in Nat /\ Magic \in Char /\ {0, 1} \subseteq Char
  /\ Size \subseteq Nat
BY WordAssumption, DataAssumption DEF CalculateHeaderLen, Char, Size

\* The getters on a header that is in order.  A log that fills the memory has
\* length 0 for GetLogLen.
LEMMA Getters ==
  ASSUME NEW n \in Size, NEW m, NEW p \in Path, NEW l \in Limit, NEW k \in Nat,
         HeaderIs(m, p, l, k),
         CalculateHeaderLen(Len(p)) + W <= n,
         CalculateHeaderLen(Len(p)) + k <= n
  PROVE  /\ GetLogPathLen(m, n) = Len(p)
         /\ GetHeaderLen(m, n) = CalculateHeaderLen(Len(p))
         /\ GetLogLen(m, n) = IF k < n - CalculateHeaderLen(Len(p)) THEN k ELSE 0
         /\ GetLogPath(m, n) = p
         /\ GetLimitSize(m, n) = l
         /\ CompressAt(m, n) < n
         /\ ~IsCompress(m, n)
         /\ GetWritePtr(m, n) <= n
<1> DEFINE h == CalculateHeaderLen(Len(p))
<1>1. /\ Len(p) \in Nat /\ p \in Seq(Char) /\ l \in Size /\ W \in Nat \ {0} /\ Word \in Nat
      /\ n \in Nat /\ n < Word
  BY Constants DEF Size
<1>2. IsAvailable(m)
  BY DEF IsAvailable, HeaderIs
<1>3. ReadWord(m, 1 + W) = Len(p)
  <2>1. Len(p) \in Size
    BY <1>1 DEF Size, CalculateHeaderLen
  <2> QED BY <2>1, ReadsWordBack DEF HeaderIs
<1>4. GetLogPathLen(m, n) = Len(p)
  <2>1. n - CalculateHeaderLen(0) \in Size /\ Len(p) < n - CalculateHeaderLen(0)
    BY <1>1 DEF CalculateHeaderLen, Size
  <2>2. (n - CalculateHeaderLen(0)) % Word = n - CalculateHeaderLen(0)
    BY <2>1, SmallMod
  <2> QED BY <1>1, <1>2, <1>3, <2>1, <2>2 DEF GetLogPathLen
<1>5. GetHeaderLen(m, n) = h
  BY <1>2, <1>4 DEF GetHeaderLen
<1>6. GetLogLen(m, n) = IF k < n - h THEN k ELSE 0
  <2>1. n - h \in Size /\ k \in Size
    BY <1>1 DEF CalculateHeaderLen, Size
  <2>2. (n - h) % Word = n - h
    BY Zenon, <2>1, SmallMod
  <2>3. ReadWord(m, 1) = k
    BY <2>1, ReadsWordBack DEF HeaderIs
  <2> HIDE DEF h
  <2> QED BY <1>2, <1>5, <2>2, <2>3 DEF GetLogLen
<1>7. GetLogPath(m, n) = p
  BY <1>1, <1>4 DEF GetLogPath, HeaderIs, TextAt
<1>8. GetLimitSize(m, n) = l
  BY <1>1, <1>2, <1>4, ReadsWordBack DEF GetLimitSize, LimitAt, HeaderIs
<1>9. CompressAt(m, n) < n /\ ~IsCompress(m, n)
  BY <1>1, <1>4 DEF CompressAt, LimitAt, IsCompress, HeaderIs, CalculateHeaderLen
<1>10. GetWritePtr(m, n) <= n
  BY <1>1, <1>5, <1>6 DEF GetWritePtr, CalculateHeaderLen
<1> QED BY <1>4, <1>5, <1>6, <1>7, <1>8, <1>9, <1>10

\* GetHeader on a header that is in order: it finds every field but compress,
\* also the length of a log that fills the memory.
LEMMA GetsHeader ==
  ASSUME NEW m, NEW p \in Path, NEW l \in Limit, NEW k \in Size, Len(p) \in Size,
         HeaderIs(m, p, l, k)
  PROVE  GetHeader(m) = [log_len |-> k, log_path_len |-> Len(p), log_path |-> p,
                         limit_size |-> l, compress |-> FALSE]
<1>1. /\ Len(p) \in Nat /\ p \in Seq(Char) /\ l \in Size /\ W \in Nat \ {0}
  BY Constants
<1>2. ReadWord(m, 1 + W) = Len(p) /\ ReadWord(m, 1) = k
  BY ReadsWordBack DEF HeaderIs
<1>3. ReadWord(m, 1 + W + W + Len(p)) = l
  BY <1>1, ReadsWordBack DEF HeaderIs
<1>4. [i \in 1..Len(p) |-> m[W + W + i]] = p
  BY <1>1 DEF HeaderIs, TextAt
<1>5. m[1 + W + W + Len(p) + W] # 1
  BY DEF HeaderIs
<1> QED BY Zenon, <1>2, <1>3, <1>4, <1>5 DEF GetHeader

(* Writing to the memory.  Keeps: s is m but for the bytes from a to b.    *)

Keeps(s, m, n, a, b) == \A i \in 0..(n - 1) : (i < a \/ i >= b) => s[i] = m[i]

\* memcpy of a sequence of chars stores it and keeps the rest.
LEMMA PutText ==
  ASSUME NEW n \in Nat, NEW m \in Memory(n), NEW at \in Nat, NEW s \in Seq(Char),
         at + Len(s) <= n
  PROVE  /\ Put(m, at, s) \in Memory(n)
         /\ TextAt(Put(m, at, s), at, s)
         /\ Keeps(Put(m, at, s), m, n, at, at + Len(s))
<1>1. Len(s) \in Nat /\ DOMAIN m = 0..(n - 1) /\ \A i \in 1..Len(s) : s[i] \in Char
  BY DEF Memory
<1>2. ASSUME NEW i \in 0..(n - 1), i - at \in 0..(Len(s) - 1)
      PROVE  i - at + 1 \in 1..Len(s) /\ Put(m, at, s)[i] = s[i - at + 1]
  BY <1>1, <1>2 DEF Put
<1>3. ASSUME NEW i \in 0..(n - 1), i - at \notin 0..(Len(s) - 1)
      PROVE  Put(m, at, s)[i] = m[i]
  BY <1>1, <1>3 DEF Put
<1>4. Put(m, at, s) \in Memory(n)
  <2>1. Put(m, at, s) = [i \in 0..(n - 1) |-> Put(m, at, s)[i]]
    BY <1>1 DEF Put
  <2>2. ASSUME NEW i \in 0..(n - 1) PROVE Put(m, at, s)[i] \in Char
    <3>1. CASE i - at \in 0..(Len(s) - 1)
      BY <1>1, <1>2, <3>1
    <3>2. CASE i - at \notin 0..(Len(s) - 1)
      <4>1. m[i] \in Char
        BY DEF Memory
      <4> QED BY <1>3, <3>2, <4>1
    <3> QED BY <3>1, <3>2
  <2> QED BY <2>1, <2>2 DEF Memory
<1>5. TextAt(Put(m, at, s), at, s)
  <2>1. SUFFICES ASSUME NEW i \in 1..Len(s) PROVE Put(m, at, s)[at + i - 1] = s[i]
    BY DEF TextAt
  <2>2. at + i - 1 \in 0..(n - 1) /\ (at + i - 1) - at \in 0..(Len(s) - 1)
    BY <1>1
  <2>3. Put(m, at, s)[at + i - 1] = s[(at + i - 1) - at + 1]
    BY <1>2, <2>2
  <2>4. (at + i - 1) - at + 1 = i
    OBVIOUS
  <2> QED BY <2>3, <2>4
<1>6. Keeps(Put(m, at, s), m, n, at, at + Len(s))
  BY <1>1, <1>3 DEF Keeps
<1> QED BY <1>4, <1>5, <1>6

\* The same for a size_t.
LEMMA PutWord ==
  ASSUME NEW n \in Nat, NEW m \in Memory(n), NEW at \in Nat, NEW k \in Size,
         at + W <= n
  PROVE  /\ Put(m, at, WordBytes(k)) \in Memory(n)
         /\ WordAt(Put(m, at, WordBytes(k)), at, k)
         /\ Keeps(Put(m, at, WordBytes(k)), m, n, at, at + W)
<1>1. /\ Put(m, at, WordBytes(k)) \in Memory(n)
      /\ TextAt(Put(m, at, WordBytes(k)), at, WordBytes(k))
      /\ Keeps(Put(m, at, WordBytes(k)), m, n, at, at + W)
  BY Zenon, PutText, WordBytesType
<1>2. WordAt(Put(m, at, WordBytes(k)), at, k)
  BY <1>1, WordBytesType DEF WordAt, TextAt
<1> QED BY <1>1, <1>2

\* A size_t outside the bytes that were written is still there.
LEMMA WordKept ==
  ASSUME NEW n \in Nat, NEW m, NEW s, NEW a \in Nat, NEW b \in Nat, Keeps(s, m, n, a, b),
         NEW at \in Nat, NEW k, WordAt(m, at, k), at + W <= n,
         at + W <= a \/ b <= at
  PROVE  WordAt(s, at, k)
<1>1. ASSUME NEW i \in 1..W PROVE s[at + i - 1] = m[at + i - 1]
  <2>1. W \in Nat /\ at + i - 1 \in 0..(n - 1)
    BY WordAssumption
  <2>2. at + i - 1 < a \/ at + i - 1 >= b
    BY WordAssumption
  <2> QED BY <2>1, <2>2 DEF Keeps
<1> QED BY <1>1 DEF WordAt

\* So is a char.
LEMMA CharKept ==
  ASSUME NEW n \in Nat, NEW m, NEW s, NEW a, NEW b, Keeps(s, m, n, a, b),
         NEW i \in Nat, i < n, i < a \/ i >= b
  PROVE  s[i] = m[i]
<1>1. i \in 0..(n - 1)
  OBVIOUS
<1> QED BY <1>1 DEF Keeps

\* A text outside the bytes that were written is still there.
LEMMA TextKept ==
  ASSUME NEW n \in Nat, NEW m, NEW s, NEW a \in Nat, NEW b \in Nat, Keeps(s, m, n, a, b),
         NEW at \in Nat, NEW t \in Seq(Char), TextAt(m, at, t), at + Len(t) <= n,
         at + Len(t) <= a \/ b <= at
  PROVE  TextAt(s, at, t)
<1>1. ASSUME NEW i \in 1..Len(t) PROVE s[at + i - 1] = m[at + i - 1]
  <2>1. Len(t) \in Nat /\ at + i - 1 \in 0..(n - 1)
    OBVIOUS
  <2>2. at + i - 1 < a \/ at + i - 1 >= b
    BY <2>1
  <2> QED BY <2>1, <2>2 DEF Keeps
<1> QED BY <1>1 DEF TextAt

\* A write behind the header keeps the header.
LEMMA HeaderKept ==
  ASSUME NEW n \in Nat, NEW m, NEW s, NEW p \in Path, NEW l, NEW k, NEW a \in Nat, NEW b \in Nat,
         HeaderIs(m, p, l, k), Keeps(s, m, n, a, b),
         CalculateHeaderLen(Len(p)) <= a, CalculateHeaderLen(Len(p)) <= n
  PROVE  HeaderIs(s, p, l, k)
<1>1. Len(p) \in Nat /\ p \in Seq(Char) /\ W \in Nat \ {0}
  BY Constants
<1>2. 1 + W + W + Len(p) + W < a /\ 1 + W + W + Len(p) + W < n
  BY <1>1 DEF CalculateHeaderLen
<1>3. s[0] = Magic
  BY <1>1, <1>2 DEF HeaderIs, Keeps
<1>4. WordAt(s, 1, k) /\ WordAt(s, 1 + W, Len(p)) /\ WordAt(s, 1 + W + W + Len(p), l)
  BY <1>1, <1>2, WordKept DEF HeaderIs
<1>5. TextAt(s, 1 + W + W, p)
  BY <1>1, <1>2, TextKept DEF HeaderIs
<1>6. s[1 + W + W + Len(p) + W] = 0
  BY <1>1, <1>2 DEF HeaderIs, Keeps
<1> QED BY <1>3, <1>4, <1>5, <1>6 DEF HeaderIs

\* memset and InitHeader in a memory with room for the path and a size_t more:
\* the misplaced compress byte lands behind the header and not on it.
LEMMA InitsHeader ==
  ASSUME NEW n \in Size, NEW p \in Path, NEW l \in Limit, NEW c \in BOOLEAN,
         CalculateHeaderLen(Len(p)) + W <= n,
         NEW m, m = InitHeader([i \in 0..(n - 1) |-> 0], n, p, l, c)
  PROVE  /\ m \in Memory(n)
         /\ HeaderIs(m, p, l, 0)
<1> DEFINE z == [i \in 0..(n - 1) |-> 0]
           m1 == Put(z, 0, <<Magic>>)
           m2 == Put(m1, 1, WordBytes(0))
           m3 == Put(m2, 1 + W, WordBytes(Len(p)))
           m4 == Put(m3, 1 + W + W, p)
           m5 == Put(m4, 1 + W + W + Len(p), WordBytes(l))
           t == <<IF c THEN 1 ELSE 0>>
           end == 1 + W + W + Len(p) + W
<1>1. /\ Len(p) \in Nat /\ p \in Seq(Char) /\ l \in Size /\ W \in Nat \ {0} /\ n \in Nat
      /\ {0, 1} \subseteq Char /\ Magic \in Char /\ Word \in Nat /\ n < Word
  BY Constants DEF Size
<1>2. Len(p) \in Size /\ 0 \in Size /\ end + W < n
  BY <1>1 DEF Size, CalculateHeaderLen
<1>3. m = Put(m5, InitCompressAt(p), t)
  BY <1>1 DEF InitHeader, CalculateHeaderLen
<1>4. /\ <<Magic>> \in Seq(Char) /\ Len(<<Magic>>) = 1
      /\ t \in Seq(Char) /\ Len(t) = 1
  BY <1>1
<1>5. z \in Memory(n) /\ z[end] = 0
  BY <1>1, <1>2 DEF Memory
<1> HIDE DEF z, t
<1>6. /\ m1 \in Memory(n) /\ m1[end] = 0 /\ m1[0] = Magic
  <2>1. /\ m1 \in Memory(n) /\ TextAt(m1, 0, <<Magic>>) /\ Keeps(m1, z, n, 0, 1)
    <3>1. 0 \in Nat /\ 0 + Len(<<Magic>>) <= n /\ 0 + Len(<<Magic>>) = 1
      BY <1>1, <1>2, <1>4
    <3>2. /\ Put(z, 0, <<Magic>>) \in Memory(n)
          /\ TextAt(Put(z, 0, <<Magic>>), 0, <<Magic>>)
          /\ Keeps(Put(z, 0, <<Magic>>), z, n, 0, 0 + Len(<<Magic>>))
      BY Zenon, <1>1, <1>4, <1>5, <3>1, PutText
    <3> QED BY <3>1, <3>2
  <2>2. m1[end] = z[end]
    <3>1. end \in 0..(n - 1) /\ end >= 1
      BY <1>1, <1>2
    <3> QED BY <2>1, <3>1 DEF Keeps
  <2>3. m1[0 + 1 - 1] = <<Magic>>[1]
    BY <1>4, <2>1 DEF TextAt
  <2> QED BY <1>5, <2>1, <2>2, <2>3
<1> HIDE DEF m1
<1>7. /\ m2 \in Memory(n) /\ m2[end] = 0 /\ m2[0] = Magic
      /\ WordAt(m2, 1, 0)
  <2>1. /\ m2 \in Memory(n) /\ WordAt(m2, 1, 0) /\ Keeps(m2, m1, n, 1, 1 + W)
    BY <1>1, <1>2, <1>6, PutWord
  <2> QED BY <1>1, <1>2, <1>6, <2>1 DEF Keeps
<1> HIDE DEF m2
<1>8. /\ m3 \in Memory(n) /\ m3[end] = 0 /\ m3[0] = Magic
      /\ WordAt(m3, 1, 0) /\ WordAt(m3, 1 + W, Len(p))
  <2>1. /\ m3 \in Memory(n) /\ WordAt(m3, 1 + W, Len(p))
        /\ Keeps(m3, m2, n, 1 + W, 1 + W + W)
    BY <1>1, <1>2, <1>7, PutWord
  <2>2. WordAt(m3, 1, 0)
    BY <1>1, <1>2, <1>7, <2>1, WordKept
  <2> QED BY <1>1, <1>2, <1>7, <2>1, <2>2 DEF Keeps
<1> HIDE DEF m3
<1>9. /\ m4 \in Memory(n) /\ m4[end] = 0 /\ m4[0] = Magic
      /\ WordAt(m4, 1, 0) /\ WordAt(m4, 1 + W, Len(p))
      /\ TextAt(m4, 1 + W + W, p)
  <2>1. /\ m4 \in Memory(n) /\ TextAt(m4, 1 + W + W, p)
        /\ Keeps(m4, m3, n, 1 + W + W, 1 + W + W + Len(p))
    BY <1>1, <1>2, <1>8, PutText
  <2>2. WordAt(m4, 1, 0) /\ WordAt(m4, 1 + W, Len(p))
    BY <1>1, <1>2, <1>8, <2>1, WordKept
  <2>3. /\ 0 \in Nat /\ 0 < n /\ 0 < 1 + W + W
        /\ end \in Nat /\ end < n /\ end >= 1 + W + W + Len(p)
    BY <1>1, <1>2
  <2>4. m4[0] = m3[0]
    BY <1>1, <2>1, <2>3, CharKept
  <2>5. m4[end] = m3[end]
    BY <1>1, <2>1, <2>3, CharKept
  <2> QED BY <1>8, <2>1, <2>2, <2>4, <2>5
<1> HIDE DEF m4
<1>10. m5 \in Memory(n) /\ HeaderIs(m5, p, l, 0)
  <2>1. /\ m5 \in Memory(n) /\ WordAt(m5, 1 + W + W + Len(p), l)
        /\ Keeps(m5, m4, n, 1 + W + W + Len(p), end)
    <3>1. 1 + W + W + Len(p) \in Nat /\ 1 + W + W + Len(p) + W <= n
      BY <1>1, <1>2
    <3> QED BY <1>1, <1>9, <3>1, PutWord
  <2>2. WordAt(m5, 1, 0) /\ WordAt(m5, 1 + W, Len(p))
    BY <1>1, <1>2, <1>9, <2>1, WordKept
  <2>3. TextAt(m5, 1 + W + W, p)
    BY <1>1, <1>2, <1>9, <2>1, TextKept
  <2>4. /\ 0 \in Nat /\ 0 < n /\ 0 < 1 + W + W + Len(p)
        /\ end \in Nat /\ end < n /\ end >= end
    BY <1>1, <1>2
  <2>5. m5[0] = m4[0]
    BY <1>1, <2>1, <2>4, CharKept
  <2>6. m5[end] = m4[end]
    BY <1>1, <2>1, <2>4, CharKept
  <2> QED BY <1>9, <2>1, <2>2, <2>3, <2>5, <2>6 DEF HeaderIs
<1> HIDE DEF m5
<1>11. /\ m \in Memory(n)
       /\ Keeps(m, m5, n, InitCompressAt(p), InitCompressAt(p) + 1)
  <2>1. InitCompressAt(p) \in Nat /\ InitCompressAt(p) + 1 <= n
    BY <1>1, <1>2 DEF InitCompressAt
  <2> QED BY Zenon, <1>1, <1>3, <1>4, <1>10, <2>1, PutText
<1>12. CalculateHeaderLen(Len(p)) <= InitCompressAt(p) /\ InitCompressAt(p) \in Nat
  BY <1>1 DEF CalculateHeaderLen, InitCompressAt
<1>13. CalculateHeaderLen(Len(p)) <= n
  BY <1>1 DEF CalculateHeaderLen
<1>14. HeaderIs(m, p, l, 0)
  BY <1>1, <1>10, <1>11, <1>12, <1>13, HeaderKept
<1> QED BY <1>11, <1>14

\* SetLogLen on a header in order stores the length and touches nothing else.
LEMMA SetsLogLen ==
  ASSUME NEW n \in Size, NEW m \in Memory(n), NEW p \in Path, NEW l \in Limit,
         NEW j, NEW k \in Size, HeaderIs(m, p, l, j),
         CalculateHeaderLen(Len(p)) + W <= n
  PROVE  /\ SetLogLen(m, k) \in Memory(n)
         /\ HeaderIs(SetLogLen(m, k), p, l, k)
         /\ Keeps(SetLogLen(m, k), m, n, 1, 1 + W)
<1> DEFINE s == SetLogLen(m, k)
<1>1. /\ Len(p) \in Nat /\ p \in Seq(Char) /\ W \in Nat \ {0} /\ n \in Nat
  BY Constants DEF Size
<1>2. 1 + W + W + Len(p) + W < n
  BY <1>1 DEF CalculateHeaderLen
<1>3. s = Put(m, 1, WordBytes(k))
  BY DEF SetLogLen, IsAvailable, HeaderIs
<1>4. s \in Memory(n) /\ WordAt(s, 1, k) /\ Keeps(s, m, n, 1, 1 + W)
  BY <1>1, <1>2, <1>3, PutWord
<1> HIDE DEF s
<1>5. WordAt(s, 1 + W, Len(p)) /\ WordAt(s, 1 + W + W + Len(p), l)
  BY <1>1, <1>2, <1>4, WordKept DEF HeaderIs
<1>6. TextAt(s, 1 + W + W, p)
  BY <1>1, <1>2, <1>4, TextKept DEF HeaderIs
<1>7. s[0] = Magic /\ s[1 + W + W + Len(p) + W] = 0
  BY <1>1, <1>2, <1>4 DEF HeaderIs, Keeps
<1>8. HeaderIs(s, p, l, k)
  BY <1>4, <1>5, <1>6, <1>7 DEF HeaderIs
<1> QED BY <1>4, <1>8 DEF s
-----------------------------------------------------------------------------
(* The steps.                                                              *)

\* WriteDirty2File: whatever the cache file holds, the getters stay inside it.
\* Without Opens the subtraction of size_t would wrap.
LEMMA DirtyInBounds ==
  ASSUME NEW n \in Size, NEW m \in Memory(n), Opens(n)
  PROVE  n > W + W /\ CompressAt(m, n) < n /\ GetWritePtr(m, n) <= n
<1>1. W \in Nat \ {0} /\ Word \in Nat /\ n \in Nat /\ n < Word
  BY Constants DEF Size
<1>2. /\ n > 2 + 3 * W
      /\ CalculateHeaderLen(0) = 2 + 3 * W
  BY <1>1 DEF Opens, CalculateHeaderLen
<1>3. ReadWord(m, 1 + W) \in Nat /\ ReadWord(m, 1) \in Nat
  <2>1. 1 + W \in Nat /\ 1 + W + W <= n /\ 1 + W <= n /\ 1 \in Nat
    BY <1>1, <1>2
  <2>2. ReadWord(m, 1 + W) \in Size /\ ReadWord(m, 1) \in Size
    BY <1>1, <2>1, ReadsSomeWord
  <2> QED BY Zenon, <2>2, Constants
<1>4. GetLogPathLen(m, n) \in Nat /\ GetLogPathLen(m, n) < n - (2 + 3 * W)
  <2>1. n - CalculateHeaderLen(0) \in Size
    BY <1>1, <1>2 DEF Size
  <2>2. (n - CalculateHeaderLen(0)) % Word = n - (2 + 3 * W)
    BY <1>2, <2>1, SmallMod
  <2> QED BY <1>1, <1>2, <1>3, <2>2 DEF GetLogPathLen
<1>5. CompressAt(m, n) < n
  BY <1>1, <1>4 DEF CompressAt, LimitAt
<1>6. GetWritePtr(m, n) <= n
  <2>1. GetHeaderLen(m, n) \in Nat /\ GetHeaderLen(m, n) < n
    BY <1>1, <1>2, <1>4 DEF GetHeaderLen, CalculateHeaderLen
  <2>2. n - GetHeaderLen(m, n) \in Size
    BY <1>1, <2>1 DEF Size
  <2>3. (n - GetHeaderLen(m, n)) % Word = n - GetHeaderLen(m, n)
    BY <2>2, SmallMod
  <2>4. GetLogLen(m, n) = 0 \/ GetLogLen(m, n) < n - GetHeaderLen(m, n)
    BY <2>3 DEF GetLogLen
  <2>5. GetLogLen(m, n) \in Nat
    BY <1>3 DEF GetLogLen
  <2> QED BY <1>1, <2>1, <2>4, <2>5 DEF GetWritePtr
<1> QED BY <1>1, <1>2, <1>5, <1>6

\* A memory of InitNative has room for every path, not only for its first one.
LEMMA NativeRoom ==
  ASSUME NEW p \in Path, NEW cap \in Capacity
  PROVE  Room(cap + CalculateHeaderLen(Len(p)))
<1>1. /\ W \in Nat /\ cap \in Nat /\ \A q \in Path : Len(q) \in Nat
  BY Constants, DataAssumption
<1> QED BY <1>1, RoomAssumption DEF Room, CalculateHeaderLen

\* InitData, from InitNative or ExpLogPath, leaves a memory in order.
LEMMA InitDataStep ==
  ASSUME NEW n, Room(n), NEW p \in Path, NEW l \in Limit, NEW c \in BOOLEAN,
         InitData(n, p, l, c), ~stray
  PROVE  OpenInv' /\ ~stray' /\ compress' \in BOOLEAN
<1> DEFINE m == InitHeader([i \in 0..(n - 1) |-> 0], n, p, l, c)
           h == CalculateHeaderLen(Len(p))
<1>1. n \in Size /\ h + W <= n /\ n \in Nat /\ W \in Nat \ {0} /\ h \in Nat /\ Len(p) \in Nat
  BY Constants DEF Room
<1>2. m \in Memory(n) /\ HeaderIs(m, p, l, 0)
  BY <1>1, InitsHeader
<1>3. /\ size' = n /\ mem' = m /\ path' = p /\ limit' = l /\ log' = <<>>
      /\ data_ptr' = GetDataPtr(m, n) /\ write_ptr' = GetWritePtr(m, n)
      /\ stray' = (stray \/ InitCompressAt(p) >= n) /\ compress' = c
  BY DEF InitData
<1> HIDE DEF m
<1>4. GetHeaderLen(m, n) = h /\ GetLogLen(m, n) = 0
  <2>1. h + 0 <= n
    BY <1>1
  <2> QED BY Zenon, <1>1, <1>2, <2>1, Getters
<1>5. data_ptr' = h /\ write_ptr' = h
  BY <1>1, <1>3, <1>4 DEF GetDataPtr, GetWritePtr
<1>6. ~stray'
  <2>1. ~(InitCompressAt(p) >= n)
    BY <1>1 DEF InitCompressAt, CalculateHeaderLen
  <2> QED BY Zenon, <1>3, <2>1
<1>7. Len(log') = 0 /\ log' \in Seq(Char)
  BY <1>3
<1>8. TextAt(mem', data_ptr', log')
  BY <1>7 DEF TextAt
<1>9. HeaderIs(mem', path', limit', Len(log'))
  BY <1>2, <1>3, <1>7
<1>10. write_ptr' = data_ptr' + Len(log') /\ write_ptr' <= size'
  BY <1>1, <1>3, <1>5, <1>7
<1>11. Room(size') /\ mem' \in Memory(size')
  BY <1>2, <1>3
<1>12. OpenInv'
  BY <1>3, <1>5, <1>7, <1>8, <1>9, <1>10, <1>11 DEF OpenInv, Room, HeaderIs, TextAt, WordAt, Memory
<1> QED BY <1>3, <1>6, <1>12

\* The log that has been appended to, char by char.
LEMMA ConcatText ==
  ASSUME NEW a \in Seq(Char), NEW b \in Seq(Char)
  PROVE  /\ a \o b \in Seq(Char)
         /\ Len(a \o b) = Len(a) + Len(b)
         /\ \A i \in 1..Len(a) : (a \o b)[i] = a[i]
         /\ \A i \in 1..Len(b) : (a \o b)[Len(a) + i] = b[i]
OBVIOUS

\* The smaller of two numbers.
LEMMA MinOfTwo ==
  ASSUME NEW a \in Nat, NEW b \in Nat
  PROVE  Min({a, b}) \in {a, b} /\ Min({a, b}) <= a /\ Min({a, b}) <= b
<1>1. \E x \in {a, b} : \A y \in {a, b} : x <= y
  <2>1. CASE a <= b
    BY <2>1
  <2>2. CASE ~(a <= b)
    BY <2>2
  <2> QED BY <2>1, <2>2
<1>2. Min({a, b}) \in {a, b} /\ \A y \in {a, b} : Min({a, b}) <= y
  BY <1>1, Zenon DEF Min
<1> QED BY <1>2, Zenon

\* Append: the chars go behind the log, as many as there is room for, and the
\* length that SetLogLen stores is that of the log.
LEMMA AppendTextStep ==
  ASSUME OpenInv, NEW text \in Log, AppendText(text)
  PROVE  OpenInv'
<1> DEFINE n == Min({Len(text), EmptySize})
           s == SubSeq(text, 1, n)
           m == Put(mem, write_ptr, s)
           h == CalculateHeaderLen(Len(path))
<1>1. /\ text \in Seq(Char) /\ Len(text) \in Nat
      /\ size \in Size /\ size \in Nat /\ W \in Nat \ {0} /\ Len(path) \in Nat
      /\ h \in Nat /\ h + W <= size
      /\ log \in Seq(Char) /\ Len(log) \in Nat
      /\ data_ptr = h /\ write_ptr = h + Len(log) /\ write_ptr \in Nat /\ write_ptr <= size
      /\ path \in Path /\ limit \in Limit
  BY Constants, DataAssumption DEF OpenInv, Room
<1>2. n \in Nat /\ n <= Len(text) /\ write_ptr + n <= size
  <2>1. EmptySize \in Nat
    BY <1>1 DEF EmptySize
  <2>2. n \in {Len(text), EmptySize} /\ n <= Len(text) /\ n <= EmptySize
    BY Zenon, <1>1, <2>1, MinOfTwo
  <2> HIDE DEF n
  <2>3. n \in Nat
    BY <1>1, <2>1, <2>2
  <2>4. n <= size - write_ptr /\ size \in Nat /\ write_ptr \in Nat
    BY <1>1, <2>2 DEF EmptySize
  <2> QED BY <2>2, <2>3, <2>4
<1>3. /\ write_ptr' = write_ptr + n
      /\ mem' = SetLogLen(m, write_ptr + n - data_ptr)
      /\ log' = log \o s
      /\ size' = size /\ data_ptr' = data_ptr /\ path' = path /\ limit' = limit
  BY DEF AppendText
<1> HIDE DEF n
<1>4. s \in Seq(Char) /\ Len(s) = n
  BY SMTT(40), <1>1, <1>2
<1> HIDE DEF s
<1>5. /\ m \in Memory(size)
      /\ TextAt(m, write_ptr, s)
      /\ Keeps(m, mem, size, write_ptr, write_ptr + n)
  BY Zenon, <1>1, <1>2, <1>4, PutText DEF OpenInv
<1> HIDE DEF m
<1>6. HeaderIs(m, path, limit, Len(log))
  <2> HIDE DEF h
  <2>1. h <= write_ptr /\ h <= size /\ write_ptr + n \in Nat
    BY <1>1, <1>2
  <2> USE DEF h
  <2> QED BY <1>1, <1>5, <2>1, HeaderKept DEF OpenInv
<1>7. TextAt(m, h, log)
  <2> HIDE DEF h
  <2>1. h + Len(log) <= write_ptr /\ h + Len(log) <= size /\ write_ptr + n \in Nat
    BY <1>1, <1>2
  <2> QED BY SMTT(40), <1>1, <1>5, <2>1, TextKept DEF OpenInv
<1> DEFINE k == Len(log) + n
<1>8. write_ptr + n - data_ptr = k /\ k \in Size /\ h + k <= size
  <2> HIDE DEF h
  <2>1. /\ write_ptr = h + Len(log) /\ data_ptr = h /\ h \in Nat /\ Len(log) \in Nat
        /\ n \in Nat /\ write_ptr + n <= size /\ size \in Nat
    BY <1>1, <1>2
  <2>2. write_ptr + n - data_ptr = k /\ h + k <= size /\ k \in Nat /\ k <= size
    BY <2>1
  <2>3. size < Word /\ Word \in Nat
    BY <1>1, WordAssumption DEF Size
  <2>4. k \in Size
    BY <2>1, <2>2, <2>3 DEF Size
  <2> QED BY <2>2, <2>4
<1> HIDE DEF k
<1>9. /\ mem' \in Memory(size) /\ HeaderIs(mem', path, limit, k)
      /\ Keeps(mem', m, size, 1, 1 + W)
  BY <1>1, <1>3, <1>5, <1>6, <1>8, SetsLogLen, Zenon
<1>10. TextAt(mem', h, log) /\ TextAt(mem', write_ptr, s)
  <2>1. 1 + W <= h /\ 1 + W <= write_ptr /\ h + Len(log) <= size /\ write_ptr + Len(s) <= size
        /\ 1 + W \in Nat
    BY <1>1, <1>2, <1>4 DEF CalculateHeaderLen
  <2>2. TextAt(mem', h, log)
    BY <1>1, <1>7, <1>9, <2>1, TextKept, Zenon
  <2>3. TextAt(mem', write_ptr, s)
    <3>1. /\ size \in Nat /\ 1 \in Nat /\ write_ptr \in Nat /\ s \in Seq(Char)
          /\ TextAt(m, write_ptr, s) /\ Keeps(mem', m, size, 1, 1 + W)
      BY <1>1, <1>4, <1>5, <1>9
    <3> HIDE DEF h
    <3> QED BY <2>1, <3>1, TextKept, Zenon
  <2> QED BY <2>2, <2>3
<1>11. /\ log' \in Seq(Char) /\ Len(log') = k
       /\ \A i \in 1..Len(log) : log'[i] = log[i]
       /\ \A i \in 1..n : log'[Len(log) + i] = s[i]
  <2>1. /\ log \o s \in Seq(Char) /\ Len(log \o s) = Len(log) + Len(s)
        /\ \A i \in 1..Len(log) : (log \o s)[i] = log[i]
        /\ \A i \in 1..Len(s) : (log \o s)[Len(log) + i] = s[i]
    BY <1>1, <1>4, ConcatText, Zenon
  <2> QED BY <1>3, <1>4, <2>1, Zenon DEF k
<1>12. TextAt(mem', h, log')
  <2>1. SUFFICES ASSUME NEW i \in 1..k PROVE mem'[h + i - 1] = log'[i]
    BY <1>11 DEF TextAt
  <2>2. CASE i \in 1..Len(log)
    BY <1>10, <1>11, <2>2 DEF TextAt
  <2>3. CASE i \notin 1..Len(log)
    <3>1. PICK j \in 1..n : i = Len(log) + j
      <4>1. i - Len(log) \in 1..n /\ i = Len(log) + (i - Len(log))
        BY <1>1, <1>2, <2>1, <2>3 DEF k
      <4> QED BY <4>1
    <3>2. mem'[write_ptr + j - 1] = s[j]
      BY <1>4, <1>10 DEF TextAt
    <3>3. write_ptr + j - 1 = h + i - 1
      <4>1. h \in Nat /\ Len(log) \in Nat /\ j \in Nat /\ write_ptr = h + Len(log)
        BY <1>1, <1>2
      <4> HIDE DEF h
      <4> QED BY <3>1, <4>1
    <3> QED BY <1>11, <3>1, <3>2, <3>3
  <2> QED BY <2>2, <2>3
<1>13. write_ptr' = data_ptr' + Len(log') /\ write_ptr' <= size'
  <2>1. write_ptr + n = h + k /\ write_ptr + n <= size
    <3> HIDE DEF h
    <3> QED BY <1>1, <1>2 DEF k
  <2> QED BY <1>1, <1>3, <1>11, <2>1
<1>14. HeaderIs(mem', path', limit', Len(log'))
  BY <1>3, <1>9, <1>11
<1>15. Room(size') /\ mem' \in Memory(size') /\ path' \in Path /\ limit' \in Limit
       /\ data_ptr' = CalculateHeaderLen(Len(path'))
  BY <1>1, <1>3, <1>9 DEF OpenInv
<1>16. TextAt(mem', data_ptr', log')
  BY <1>1, <1>3, <1>12
<1> QED BY <1>11, <1>13, <1>14, <1>15, <1>16
        DEF OpenInv, Room, HeaderIs, TextAt, WordAt, Memory

\* Clear: the data are zeroed and the length with them.
LEMMA ClearStep ==
  ASSUME OpenInv, Clear
  PROVE  OpenInv'
<1> DEFINE m == [i \in DOMAIN mem |-> IF i >= data_ptr THEN 0 ELSE mem[i]]
           h == CalculateHeaderLen(Len(path))
<1>1. /\ size \in Size /\ size \in Nat /\ W \in Nat \ {0} /\ Len(path) \in Nat
      /\ h \in Nat /\ h + W <= size /\ data_ptr = h
      /\ path \in Path /\ limit \in Limit /\ 0 \in Char /\ 0 \in Size
      /\ mem \in Memory(size)
  <2>1. /\ size \in Size /\ size \in Nat /\ W \in Nat \ {0} /\ Len(path) \in Nat
        /\ h \in Nat /\ h + W <= size /\ data_ptr = h
        /\ path \in Path /\ limit \in Limit /\ 0 \in Char /\ mem \in Memory(size)
    BY Constants DEF OpenInv, Room
  <2> QED BY <2>1, WordAssumption DEF Size
<1>2. /\ write_ptr' = data_ptr /\ mem' = SetLogLen(m, 0) /\ log' = <<>>
      /\ size' = size /\ data_ptr' = data_ptr /\ path' = path /\ limit' = limit
  BY DEF Clear
<1>3. m \in Memory(size) /\ Keeps(m, mem, size, h, size)
  BY <1>1 DEF Memory, Keeps
<1> HIDE DEF m
<1>4. HeaderIs(m, path, limit, Len(log))
  <2>1. h <= h /\ h <= size
    BY <1>1
  <2> QED BY <1>1, <1>3, <2>1, HeaderKept DEF OpenInv
<1>5. mem' \in Memory(size) /\ HeaderIs(mem', path, limit, 0)
  BY <1>1, <1>2, <1>3, <1>4, SetsLogLen
<1>6. log' \in Seq(Char) /\ Len(log') = 0
  BY <1>2
<1>7. TextAt(mem', data_ptr', log')
  BY <1>6 DEF TextAt
<1>8. write_ptr' = data_ptr' + Len(log') /\ write_ptr' <= size'
  BY <1>1, <1>2, <1>6
<1>9. HeaderIs(mem', path', limit', Len(log'))
  BY <1>2, <1>5, <1>6
<1>10. Room(size') /\ mem' \in Memory(size') /\ path' \in Path /\ limit' \in Limit
       /\ data_ptr' = CalculateHeaderLen(Len(path'))
  BY <1>1, <1>2, <1>5 DEF OpenInv
<1> QED BY <1>6, <1>7, <1>8, <1>9, <1>10
        DEF OpenInv, Room, HeaderIs, TextAt, WordAt, Memory
-----------------------------------------------------------------------------
\* The invariant holds when the process starts.
LEMMA InitInv == Init => Inv
<1> SUFFICES ASSUME Init PROVE Inv
  OBVIOUS
<1>1. size \in Size /\ mem \in Memory(size)
  BY DataAssumption DEF Init, Memory
<1> QED BY Zenon, <1>1 DEF Init, Inv

\* Every step keeps it.
LEMMA NextInv == Inv /\ [Next]_vars => Inv'
<1> SUFFICES ASSUME Inv, [Next]_vars PROVE Inv'
  OBVIOUS
<1>1. CASE WriteDirty2File
  <2>1. /\ pc' = "dirty" => Opens(size)
        /\ pc' \in {"dirty", "clean"}
        /\ mem \in Memory(size) /\ size \in Size /\ ~stray
        /\ mem' = mem /\ size' = size /\ stray' = stray /\ compress' = compress
        /\ compress \in BOOLEAN
    BY <1>1 DEF WriteDirty2File, Inv
  <2> QED BY <2>1 DEF Inv, DirtyInv, Opens, Memory
<1>2. CASE InitNative
  <2>1. PICK p \in Path, cap \in Capacity, l \in Limit, c \in BOOLEAN :
          InitData(cap + CalculateHeaderLen(Len(p)), p, l, c)
    BY Zenon, <1>2 DEF InitNative
  <2>2. pc' = "open" /\ ~stray
    BY <1>2 DEF InitNative, Inv
  <2>3. OpenInv' /\ ~stray' /\ compress' \in BOOLEAN
    BY Zenon, <2>1, <2>2, NativeRoom, InitDataStep
  <2> QED BY <2>2, <2>3 DEF Inv
<1>3. CASE Clear
  <2>1. OpenInv /\ pc' = "open" /\ ~stray' /\ compress' \in BOOLEAN
    BY <1>3 DEF Clear, Inv
  <2>2. OpenInv'
    BY <1>3, <2>1, ClearStep
  <2> QED BY <2>1, <2>2 DEF Inv
<1>4. CASE ExpLogPath
  <2>1. OpenInv /\ pc' = "open" /\ ~stray /\ compress \in BOOLEAN
    BY <1>4 DEF ExpLogPath, Inv
  <2>2. PICK p \in Path, l \in Limit : InitData(size, p, l, compress)
    BY Zenon, <1>4 DEF ExpLogPath
  <2>3. Room(size)
    BY <2>1 DEF OpenInv
  <2>4. OpenInv' /\ ~stray' /\ compress' \in BOOLEAN
    BY Zenon, <2>1, <2>2, <2>3, InitDataStep
  <2> QED BY <2>1, <2>4 DEF Inv
<1>5. ASSUME NEW text \in Log, AppendText(text) PROVE Inv'
  <2>1. OpenInv /\ pc' = "open" /\ ~stray' /\ compress' \in BOOLEAN
    BY <1>5 DEF AppendText, Inv
  <2>2. OpenInv'
    BY <1>5, <2>1, AppendTextStep
  <2> QED BY <2>1, <2>2 DEF Inv
<1>6. CASE UNCHANGED vars
  BY <1>6 DEF vars, Inv, OpenInv, DirtyInv, Room, HeaderIs, TextAt, WordAt, Memory, Opens
<1> QED BY <1>1, <1>2, <1>3, <1>4, <1>5, <1>6 DEF Next

\* What the invariant says of the accesses.
LEMMA InvInBounds == Inv => AccessesInBounds
<1> SUFFICES ASSUME Inv PROVE AccessesInBounds
  OBVIOUS
<1>1. ASSUME pc = "dirty"
      PROVE  size > W + W /\ CompressAt(mem, size) < size /\ GetWritePtr(mem, size) <= size
  BY <1>1, DirtyInBounds DEF Inv, DirtyInv
<1>2. ASSUME pc = "open"
      PROVE  size > W + W /\ CompressAt(mem, size) < size /\ GetWritePtr(mem, size) <= size
  <2>1. OpenInv
    BY <1>2 DEF Inv
  <2>2. /\ size \in Size /\ size \in Nat /\ W \in Nat \ {0} /\ Len(path) \in Nat
        /\ CalculateHeaderLen(Len(path)) + W <= size
        /\ CalculateHeaderLen(Len(path)) + Len(log) <= size
        /\ Len(log) \in Nat
    BY <2>1, Constants DEF OpenInv, Room
  <2>3. CompressAt(mem, size) < size /\ GetWritePtr(mem, size) <= size
    BY Zenon, <2>1, <2>2, Getters DEF OpenInv
  <2>4. size > W + W
    BY <2>2 DEF CalculateHeaderLen
  <2> QED BY <2>3, <2>4
<1> QED BY <1>1, <1>2 DEF AccessesInBounds, Inv

\* What the invariant says of the fields.
LEMMA InvReadsBack == Inv => MemoryReadsBack
<1> SUFFICES ASSUME Inv, pc = "open" PROVE MemoryReadsBack
  BY Zenon DEF MemoryReadsBack
<1>1. OpenInv
  BY DEF Inv
<1>2. /\ size \in Size /\ size \in Nat /\ size < Word /\ W \in Nat \ {0} /\ Len(path) \in Nat
      /\ CalculateHeaderLen(Len(path)) + W <= size
      /\ CalculateHeaderLen(Len(path)) + Len(log) <= size
      /\ Len(log) \in Nat /\ Word \in Nat
      /\ path \in Path /\ limit \in Limit /\ log \in Seq(Char)
      /\ data_ptr = CalculateHeaderLen(Len(path)) /\ data_ptr \in Nat
      /\ write_ptr = data_ptr + Len(log)
      /\ HeaderIs(mem, path, limit, Len(log))
  BY <1>1, Constants DEF OpenInv, Room, Size
<1>3. Len(path) \in Size /\ Len(log) \in Size
  BY <1>2 DEF Size, CalculateHeaderLen
<1>4. LET h == GetHeader(mem)
      IN h.log_len = Len(log) /\ h.log_path = path /\ h.limit_size = limit
  <2>1. GetHeader(mem) = [log_len |-> Len(log), log_path_len |-> Len(path),
                          log_path |-> path, limit_size |-> limit, compress |-> FALSE]
    BY <1>2, <1>3, GetsHeader, Zenon
  <2> QED BY <2>1
<1>5. /\ GetLogPath(mem, size) = path
      /\ GetLimitSize(mem, size) = limit
      /\ GetHeaderLen(mem, size) = data_ptr
      /\ Len(log) < size - data_ptr => GetLogLen(mem, size) = Len(log)
  <2>1. /\ GetLogPath(mem, size) = path
        /\ GetLimitSize(mem, size) = limit
        /\ GetHeaderLen(mem, size) = data_ptr
        /\ GetLogLen(mem, size) = IF Len(log) < size - data_ptr THEN Len(log) ELSE 0
    BY <1>2, Getters, Zenon
  <2> QED BY <2>1, Zenon
<1>6. write_ptr - data_ptr = Len(log)
  BY <1>2
<1>7. \A i \in 1..Len(log) : mem[data_ptr + i - 1] = log[i]
  BY <1>1 DEF OpenInv, TextAt
<1> QED BY <1>4, <1>5, <1>6, <1>7, Zenon DEF MemoryReadsBack

\* The invariant always holds.
THEOREM BufferInvariant == Spec => []Inv
BY InitInv, NextInv, PTL DEF Spec

\* No getter reads outside the memory and none reports data outside it, whatever
\* the cache file holds that WriteDirty2File finds, and the byte that InitHeader
\* misplaces stays inside (zap.cpp:26, zap_buffer_header.cpp:29, :99, :111).
THEOREM BufferAccessesInBounds == Spec => []AccessesInBounds
BY BufferInvariant, InvInBounds, PTL

\* The path, the limit and every byte of the log are read back as they were
\* stored, after any sequence of Append, Clear and ExpLogPath, and the length of
\* the log is as long as it is below the bound of GetLogLen
\* (zap_buffer_header.cpp:12-29, :53, :99).
THEOREM BufferReadsBack == Spec => []MemoryReadsBack
BY BufferInvariant, InvReadsBack, PTL
=============================================================================
