----------------------------- MODULE FlushQueue -----------------------------
(***************************************************************************)
(* What FileFlush (zap_file_flush.cpp) promises to the log buffer: a chunk *)
(* handed to it while it is open is written to its log file exactly once,  *)
(* in no promised order, and it closes only when nothing is pending.  A    *)
(* chunk whose FILE* is null cannot be written and is discarded.           *)
(***************************************************************************)
EXTENDS Sequences, Functions

CONSTANTS
    Chunk,      \* the BufferFlush objects
    NullFile    \* the ones whose GetLogFile() is null

VARIABLES
    pending,    \* accepted and not yet written
    written,    \* the chunks fwritten, in the order of the writes
    closed      \* the flusher thread has returned

vars == <<pending, written, closed>>

Init ==
    /\ pending = {}
    /\ written = <<>>
    /\ closed = FALSE

\* A chunk is accepted: AsyncFlush returned true.
Accept(c) ==
    /\ ~closed
    /\ c \notin pending \cup Range(written)
    /\ pending' = pending \cup {c}
    /\ UNCHANGED <<written, closed>>

\* Any pending chunk may be the next one in the file.
Write(c) ==
    /\ c \in pending \ NullFile
    /\ pending' = pending \ {c}
    /\ written' = Append(written, c)
    /\ UNCHANGED closed

Discard(c) ==
    /\ c \in pending \cap NullFile
    /\ pending' = pending \ {c}
    /\ UNCHANGED <<written, closed>>

Close ==
    /\ pending = {}
    /\ ~closed
    /\ closed' = TRUE
    /\ UNCHANGED <<pending, written>>

Settle == \E c \in Chunk : Write(c) \/ Discard(c)

Next == Close \/ Settle \/ \E c \in Chunk : Accept(c)

SafetySpec == Init /\ [][Next]_vars

Spec == SafetySpec /\ WF_vars(Settle)
=============================================================================
