----------------------------- MODULE BufferHeader -----------------------------
(***************************************************************************)
(* The memory of a Zap buffer, byte by byte: the header of                 *)
(* zap_buffer_header.cpp, the log data behind it, and the operations of    *)
(* Buffer that write there.  ZapBuffer abstracts this memory to a path, a  *)
(* length and a sequence of logs; this module is about that abstraction.   *)
(*                                                                         *)
(*   magic | log_len | log_path_len | log_path | limit_size | compress     *)
(***************************************************************************)
EXTENDS Integers, Sequences, FiniteSetsExt

CONSTANTS
    W,          \* sizeof(size_t)
    Word,       \* SIZE_MAX + 1: size_t counts modulo this
    Base,       \* a char has the values 0..Base-1
    SizeBytes,  \* the bytes of each size_t, in the order of the machine
    Magic,      \* kMagicHeader
    Path,       \* log paths
    Limit,      \* limit_size
    Capacity,   \* the capacity given to InitNative
    Log,        \* the texts that are appended
    FileSize,   \* the sizes of the cache file that is found
    CacheFile(_)    \* what a cache file of a size may hold, whoever wrote it

Char == 0..(Base - 1)
Size == 0..(Word - 1)

\* Every pattern of W bytes is a size_t, and no two are the same one.
ASSUME WordAssumption ==
    /\ W \in Nat \ {0} /\ Word \in Nat \ {0} /\ Base \in Nat \ {0, 1}
    /\ SizeBytes \in Bijection(Size, [1..W -> Char])

ASSUME DataAssumption ==
    /\ Magic \in Char
    /\ Path \subseteq Seq(Char) /\ Log \subseteq Seq(Char)
    /\ Limit \subseteq Size /\ Capacity \subseteq Nat /\ FileSize \subseteq Size
    /\ \A n \in FileSize : CacheFile(n) \subseteq [0..(n - 1) -> Char]

VARIABLES
    pc,                     \* "start", "dirty", "clean", "open"
    size, mem,              \* buffer_size and *buffer_ptr
    data_ptr, write_ptr,    \* as offsets in mem
    compress,
    path, limit, log,       \* history: what was asked to be stored
    stray                   \* history: whether a byte was written outside mem

vars == <<pc, size, mem, data_ptr, write_ptr, compress, path, limit, log, stray>>

\* memcpy of a size_t out of m + at, and the bytes that memcpy of one stores.
ReadWord(m, at) == CHOOSE n \in Size : SizeBytes[n] = [i \in 1..W |-> m[at + i - 1]]
WordBytes(n) == SizeBytes[n]

\* memcpy of bytes to m + at, as far as it stays in m.
Put(m, at, bytes) ==
    [i \in DOMAIN m |-> IF i - at \in 0..(Len(bytes) - 1) THEN bytes[i - at + 1] ELSE m[i]]
-----------------------------------------------------------------------------
(* The header.                                                             *)

\* Mutation: the header has no room for limit_size.
CalculateShort(path_len) == 1 + W + W + path_len + 1

CalculateHeaderLen(path_len) == 1 + W + W + path_len + W + 1

\* The capacity (1024 * 400, ZapPrint.java:78) leaves room for a size_t and for
\* what another path has more than the first one, and adding it does not wrap.
ASSUME RoomAssumption ==
    \A cap \in Capacity, p \in Path :
        /\ cap + CalculateHeaderLen(Len(p)) \in Size
        /\ \A q \in Path : W + Len(q) <= cap + Len(p)

IsAvailable(m) == m[0] = Magic

\* The comparison is one of size_t: a size below that of the header wraps.
GetLogPathLen(m, n) ==
    LET len == ReadWord(m, 1 + W)
    IN IF IsAvailable(m) /\ len > 0 /\ len < (n - CalculateHeaderLen(0)) % Word
         THEN len ELSE 0

GetHeaderLen(m, n) ==
    IF IsAvailable(m) THEN CalculateHeaderLen(GetLogPathLen(m, n)) ELSE 0

GetLogLen(m, n) ==
    LET len == ReadWord(m, 1)
    IN IF IsAvailable(m) /\ len > 0 /\ len < (n - GetHeaderLen(m, n)) % Word
         THEN len ELSE 0

\* The null pointer is <<>>.
GetLogPath(m, n) == [i \in 1..GetLogPathLen(m, n) |-> m[W + W + i]]

LimitAt(m, n) == 1 + W + W + GetLogPathLen(m, n)
GetLimitSize(m, n) == IF IsAvailable(m) THEN ReadWord(m, LimitAt(m, n)) ELSE 0

CompressAt(m, n) == LimitAt(m, n) + W
IsCompress(m, n) == IsAvailable(m) /\ m[CompressAt(m, n)] = 1

GetDataPtr(m, n) == GetHeaderLen(m, n)
GetWritePtr(m, n) == GetHeaderLen(m, n) + GetLogLen(m, n)

SetLogLen(m, len) == IF IsAvailable(m) THEN Put(m, 1, WordBytes(len)) ELSE m

\* GetHeader takes the length of the path as it stands in the memory.
GetHeader(m) ==
    LET len == ReadWord(m, 1 + W)
    IN [log_len |-> ReadWord(m, 1), log_path_len |-> len,
        log_path |-> [i \in 1..len |-> m[W + W + i]],
        limit_size |-> ReadWord(m, 1 + W + W + len),
        compress |-> m[1 + W + W + len + W] = 1]

\* InitHeader puts the compress byte W bytes further than the others read it.
InitCompressAt(p) == 1 + W + W + Len(p) + W + W

InitHeader(m, n, p, l, c) ==
    IF 1 + W + W + Len(p) > n THEN m
    ELSE LET m1 == Put(m, 0, <<Magic>>)
             m2 == Put(m1, 1, WordBytes(0))
             m3 == Put(m2, 1 + W, WordBytes(Len(p)))
             m4 == Put(m3, 1 + W + W, p)
             m5 == Put(m4, 1 + W + W + Len(p), WordBytes(l))
         IN Put(m5, InitCompressAt(p), <<IF c THEN 1 ELSE 0>>)
-----------------------------------------------------------------------------
(* The buffer.                                                             *)

Init ==
    /\ pc = "start"
    /\ size \in FileSize
    /\ mem \in CacheFile(size)
    /\ data_ptr = 0 /\ write_ptr = 0 /\ compress = FALSE
    /\ path = <<>> /\ limit = 0 /\ log = <<>> /\ stray = FALSE

\* Mutation: a file of any size is taken for a buffer.
OpensAny(n) == n > 0

\* "buffer size must be larger than the header, or a subscript overflows".
Opens(n) == n > CalculateHeaderLen(0)

\* WriteDirty2File maps the file as it was found, or leaves it alone.
WriteDirty2File ==
    /\ pc = "start"
    /\ pc' = IF Opens(size) THEN "dirty" ELSE "clean"
    /\ UNCHANGED <<size, mem, data_ptr, write_ptr, compress, path, limit, log, stray>>

\* InitData on a memory of n bytes: cleared, then the header.
InitData(n, p, l, c) ==
    LET m == InitHeader([i \in 0..(n - 1) |-> 0], n, p, l, c)
    IN /\ size' = n /\ mem' = m
       /\ data_ptr' = GetDataPtr(m, n) /\ write_ptr' = GetWritePtr(m, n)
       /\ compress' = c
       /\ path' = p /\ limit' = l /\ log' = <<>>
       /\ stray' = (stray \/ InitCompressAt(p) >= n)

InitNative ==
    /\ pc \in {"dirty", "clean"} /\ pc' = "open"
    /\ \E p \in Path, cap \in Capacity, l \in Limit, c \in BOOLEAN :
          InitData(cap + CalculateHeaderLen(Len(p)), p, l, c)

EmptySize == size - write_ptr

\* Append without compression; SetLength stores the new length.
AppendText(text) ==
    LET n == Min({Len(text), EmptySize})
        m == Put(mem, write_ptr, SubSeq(text, 1, n))
    IN /\ pc = "open"
       /\ write_ptr' = write_ptr + n
       /\ mem' = SetLogLen(m, write_ptr + n - data_ptr)
       /\ log' = log \o SubSeq(text, 1, n)
       /\ UNCHANGED <<pc, size, data_ptr, compress, path, limit, stray>>

\* Clear, at the end of CallFileFlush.
Clear ==
    /\ pc = "open"
    /\ write_ptr' = data_ptr
    /\ mem' = SetLogLen([i \in DOMAIN mem |-> IF i >= data_ptr THEN 0 ELSE mem[i]], 0)
    /\ log' = <<>>
    /\ UNCHANGED <<pc, size, data_ptr, compress, path, limit, stray>>

\* ExpLogPath: the memory keeps its size when the new path is longer.
ExpLogPath ==
    /\ pc = "open" /\ UNCHANGED pc
    /\ \E p \in Path, l \in Limit : InitData(size, p, l, compress)

Next ==
    \/ WriteDirty2File \/ InitNative \/ Clear \/ ExpLogPath
    \/ \E text \in Log : AppendText(text)

Spec == Init /\ [][Next]_vars
-----------------------------------------------------------------------------
\* Whatever a cache file holds, no getter that is called on it reads outside it,
\* and the data it reports lie inside it (GetHeader, which does not check the
\* length of the path, has no caller): this needs the test of WriteDirty2File, because the
\* limits are computed by a subtraction that wraps (zap.cpp:26,
\* zap_buffer_header.cpp:99, :111).  The compress byte, which InitHeader writes
\* W bytes too far, falls into the data and not behind the memory, as long as
\* there are W bytes of data (zap_buffer_header.cpp:29).
AccessesInBounds ==
    /\ ~stray
    /\ pc \in {"dirty", "open"} =>
        /\ size > W + W
        /\ CompressAt(mem, size) < size
        /\ GetWritePtr(mem, size) <= size

\* The path, the limit and the log are read back as they were stored, whatever
\* was appended, cleared or renamed since, and no byte of the header, the
\* misplaced compress byte included, ends up in the log.  Of a log that fills
\* the buffer to its last byte nothing is said of GetLogLen: it takes such a
\* length for an invalid one, and its comment says there is none, but Append
\* fills the buffer whenever a text is too long.  Nothing is said of compress,
\* which InitHeader stores where no getter looks (zap_buffer_header.cpp:12-29,
\* :53, :99, zap_buffer.cpp:67).
MemoryReadsBack ==
    pc = "open" =>
        /\ GetLogPath(mem, size) = path
        /\ GetLimitSize(mem, size) = limit
        /\ GetHeaderLen(mem, size) = data_ptr
        /\ LET h == GetHeader(mem)
           IN h.log_len = Len(log) /\ h.log_path = path /\ h.limit_size = limit
        /\ Len(log) < size - data_ptr => GetLogLen(mem, size) = Len(log)
        /\ write_ptr - data_ptr = Len(log)
        /\ \A i \in 1..Len(log) : mem[data_ptr + i - 1] = log[i]

=============================================================================
