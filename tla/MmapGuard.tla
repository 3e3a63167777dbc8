------------------------------ MODULE MmapGuard ------------------------------
(***************************************************************************)
(* The memory of guard/mmap_guard.cpp and guard/file_guard.cpp: a file of  *)
(* Capacity characters mapped shared, in which Write appends to the C      *)
(* string that starts at its first character.                              *)
(***************************************************************************)
EXTENDS Integers, Sequences, FiniteSetsExt

CONSTANTS
    Capacity,   \* CAPACITY (400 KiB), which is also what every caller asks for
    Nul         \* the null character

\* The content of the file, which outlives the process that mapped it.
Index == 0..(Capacity - 1)

\* Mutation: what an earlier process left is kept.
KeptBuffer(old) == old

\* The constructors: the file is opened and brought to its size, mapped, and
\* cleared, whatever an earlier process left in it.
NewBuffer(old) == [i \in Index |-> Nul]

strlen(b) == Min({i \in Index : b[i] = Nul} \cup {Capacity})

CString(b) == [i \in 1..strlen(b) |-> b[i - 1]]

\* Whether a null is left to stop strlen: without one Write, Flush and the
\* destructor have no defined behaviour.
Terminated(b) == strlen(b) < Capacity

\* Write has no test for the end of the mapping either.
Fits(b, content) == Terminated(b) /\ strlen(b) + Len(content) <= Capacity

\* Write in its append mode, which all callers use: the content_len characters
\* of content go behind the string.  The strcpy into the scratch array, which
\* relies on a null behind content, is taken to stop at its end.
Write(b, content) ==
    LET now_len == strlen(b)
    IN [i \in Index |-> IF i - now_len \in 0..(Len(content) - 1)
                          THEN content[i - now_len + 1] ELSE b[i]]

\* Flush appends the string to the file of that name.
Flush(b, file) == file \o CString(b)

=============================================================================
