------------------------------ MODULE FileFlush ------------------------------
(***************************************************************************)
(* FileFlush (zap_file_flush.cpp): a vector of chunks, the mutex async_mtx *)
(* and the condition variable async_condition, one flusher thread running  *)
(* AsyncLogThread, threads calling AsyncFlush, and the destructor, which   *)
(* calls StopFlush.                                                        *)
(*                                                                         *)
(* AsyncFlush does all of its work under async_mtx and is one step.  The   *)
(* flusher keeps async_mtx from the lock to the wait (or its return) and   *)
(* is split at every point where StopFlush, which takes no lock, can come  *)
(* in between: the test of exit and the wait are two steps.                *)
(***************************************************************************)
EXTENDS Integers, Sequences, Functions

CONSTANTS
    Chunk,      \* the BufferFlush objects
    NullFile    \* the ones whose GetLogFile() is null: fopen had failed

ASSUME NullFileAssumption == NullFile \subseteq Chunk

VARIABLES
    async_buffer,   \* the vector, oldest first
    fpc,            \* where the flusher thread is
    data,           \* the chunk AsyncLogThread has popped, <<>> or <<c>>
    spc,            \* where the thread running StopFlush is
    written,        \* history: the chunks fwritten, in order
    accepted,       \* history: AsyncFlush returned true
    refused,        \* history: AsyncFlush deleted the chunk
    batch           \* history: what was queued when the flusher last locked

flusherVars == <<fpc, data, written, batch>>
vars == <<async_buffer, fpc, data, spc, written, accepted, refused, batch>>

FlusherPC == {"lock", "drain", "flush", "sleep", "waiting", "done"}
StopPC == {"running", "notify", "join", "joined"}

\* The types of the members of FileFlush; AsyncLogThread has at most one
\* chunk out of the vector.
TypeOK ==
    /\ async_buffer \in Seq(Chunk)
    /\ fpc \in FlusherPC
    /\ data \in Seq(Chunk) /\ Len(data) <= 1
    /\ spc \in StopPC
    /\ written \in Seq(Chunk)
    /\ accepted \subseteq Chunk
    /\ refused \subseteq Chunk
    /\ batch \subseteq Chunk

Init ==
    /\ async_buffer = <<>>
    /\ fpc = "lock"
    /\ data = <<>>
    /\ spc = "running"
    /\ written = <<>>
    /\ accepted = {}
    /\ refused = {}
    /\ batch = {}

\* The flag exit: set by the first statement of StopFlush, never reset.
exit == spc # "running"

\* Mutations: the mutex is dropped around Flush; before the wait; or kept
\* while waiting.
MtxDroppedInFlush == fpc \in {"drain", "sleep"}
MtxDroppedBeforeWait == fpc \in {"drain", "flush"}
MtxKeptInWait == fpc \in {"drain", "flush", "sleep", "waiting"}

\* The flusher owns async_mtx from its lock to its wait or return.
MtxHeld == fpc \in {"drain", "flush", "sleep"}

\* async_condition.notify_all(): a flusher that waits goes on to relock.
Notified == IF fpc = "waiting" THEN "lock" ELSE fpc
-----------------------------------------------------------------------------
\* Mutations: AsyncFlush does not notify; or does not test exit.
AsyncFlushNoNotify(c) ==
    /\ ~MtxHeld
    /\ spc # "joined"
    /\ IF exit
         THEN /\ refused' = refused \cup {c}
              /\ UNCHANGED <<async_buffer, accepted>>
         ELSE /\ async_buffer' = Append(async_buffer, c)
              /\ accepted' = accepted \cup {c}
              /\ UNCHANGED refused
    /\ UNCHANGED <<fpc, data, spc, written, batch>>

AsyncFlushNoExitTest(c) ==
    /\ ~MtxHeld
    /\ spc # "joined"
    /\ async_buffer' = Append(async_buffer, c)
    /\ accepted' = accepted \cup {c}
    /\ fpc' = Notified
    /\ UNCHANGED <<data, spc, written, refused, batch>>

\* The callers.  A stopped FileFlush deletes the chunk.
AsyncFlush(c) ==
    /\ ~MtxHeld
    /\ spc # "joined"
    /\ IF exit
         THEN /\ refused' = refused \cup {c}
              /\ UNCHANGED <<async_buffer, fpc, accepted>>
         ELSE /\ async_buffer' = Append(async_buffer, c)
              /\ accepted' = accepted \cup {c}
              /\ fpc' = Notified
              /\ UNCHANGED refused
    /\ UNCHANGED <<data, spc, written, batch>>

\* StopFlush: exit and the notification are outside async_mtx.  Leaving
\* "running" is the assignment exit = true.
StopFlushExit ==
    /\ spc = "running"
    /\ spc' = "notify"
    /\ UNCHANGED <<async_buffer, flusherVars, accepted, refused>>

\* Mutation: StopFlush joins without notifying.
StopFlushNoNotify ==
    /\ spc = "notify"
    /\ spc' = "join"
    /\ UNCHANGED <<async_buffer, flusherVars, accepted, refused>>

StopFlushNotify ==
    /\ spc = "notify"
    /\ fpc' = Notified
    /\ spc' = "join"
    /\ UNCHANGED <<async_buffer, data, written, accepted, refused, batch>>

StopFlushJoin ==
    /\ spc = "join"
    /\ fpc = "done"
    /\ spc' = "joined"
    /\ UNCHANGED <<async_buffer, flusherVars, accepted, refused>>
-----------------------------------------------------------------------------
\* AsyncLogThread.
FlusherLock ==
    /\ fpc = "lock"
    /\ fpc' = "drain"
    /\ batch' = Range(async_buffer)
    /\ UNCHANGED <<async_buffer, data, spc, written, accepted, refused>>

\* Mutation: back() without pop_back().
FlusherBackOnly ==
    /\ fpc = "drain"
    /\ async_buffer # <<>>
    /\ data' = <<async_buffer[Len(async_buffer)]>>
    /\ fpc' = "flush"
    /\ UNCHANGED <<async_buffer, spc, written, accepted, refused, batch>>

\* back() and pop_back(): the newest chunk first.
FlusherPop ==
    /\ fpc = "drain"
    /\ async_buffer # <<>>
    /\ data' = <<async_buffer[Len(async_buffer)]>>
    /\ async_buffer' = SubSeq(async_buffer, 1, Len(async_buffer) - 1)
    /\ fpc' = "flush"
    /\ UNCHANGED <<spc, written, accepted, refused, batch>>

\* Flush: a chunk with a null FILE* is neither written nor deleted.
Flush ==
    /\ fpc = "flush"
    /\ written' = IF Head(data) \in NullFile THEN written ELSE written \o data
    /\ data' = <<>>
    /\ fpc' = "drain"
    /\ UNCHANGED <<async_buffer, spc, accepted, refused, batch>>

\* Mutation: exit is tested before the vector is empty.
FlusherTestExitEarly ==
    /\ fpc = "drain"
    /\ async_buffer = <<>> \/ exit
    /\ fpc' = IF exit THEN "done" ELSE "sleep"
    /\ UNCHANGED <<async_buffer, data, spc, written, accepted, refused, batch>>

\* The vector is empty: return if exit is set, else go on to the wait.
FlusherTestExit ==
    /\ fpc = "drain"
    /\ async_buffer = <<>>
    /\ fpc' = IF exit THEN "done" ELSE "sleep"
    /\ UNCHANGED <<async_buffer, data, spc, written, accepted, refused, batch>>

\* wait() gives up async_mtx and blocks, in one step.
FlusherWait ==
    /\ fpc = "sleep"
    /\ fpc' = "waiting"
    /\ UNCHANGED <<async_buffer, data, spc, written, accepted, refused, batch>>

\* A wait without a predicate may return by itself.
SpuriousWakeup ==
    /\ fpc = "waiting"
    /\ fpc' = "lock"
    /\ UNCHANGED <<async_buffer, data, spc, written, accepted, refused, batch>>

AsyncLogThread ==
    FlusherLock \/ FlusherPop \/ Flush \/ FlusherTestExit \/ FlusherWait

StopFlush == StopFlushExit \/ StopFlushNotify \/ StopFlushJoin
-----------------------------------------------------------------------------
\* Every BufferFlush is handed over once: it is a fresh heap object.
Next ==
    \/ \E c \in Chunk \ (accepted \cup refused) : AsyncFlush(c)
    \/ StopFlush
    \/ AsyncLogThread
    \/ SpuriousWakeup

\* The scheduler runs the flusher and the stopping thread when they can
\* run; nothing obliges anyone to log, to stop or to wake up spuriously.
Fairness ==
    /\ WF_vars(AsyncLogThread)
    /\ WF_vars(StopFlushNotify \/ StopFlushJoin)

SafetySpec == Init /\ [][Next]_vars

Spec == SafetySpec /\ Fairness
-----------------------------------------------------------------------------
\* The chunks accepted and not yet through Flush.
Pending == Range(async_buffer) \cup Range(data)

\* The flusher never sleeps on work: while it is blocked in wait() the
\* vector is empty, because AsyncFlush pushes and notifies under the mutex
\* the flusher holds from its last look at the vector until it is waiting.
NoSleepOnWork == fpc = "waiting" => async_buffer = <<>>

\* Once StopFlush has joined the flusher, everything AsyncFlush accepted
\* and that had a file is in the file: no chunk slips in between the
\* flusher's last look at the vector and its return.
StopDrains ==
    spc = "joined" => accepted \ NullFile \subseteq Range(written)

\* A chunk is written at most once, and only if it was accepted.
WrittenOnce ==
    /\ IsInjective(written)
    /\ Range(written) \subseteq accepted

\* The vector is a stack, so a newer chunk can overtake an older one, but
\* only inside one drain: what is written was queued before the flusher
\* took the mutex, so a chunk is never overtaken by one accepted later than
\* the drain that writes it began.
OvertakeOnlyInBatch ==
    [][\A c \in Chunk : written' = Append(written, c) => c \in batch]_vars

\* Every accepted chunk is eventually through Flush, whatever StopFlush and
\* later AsyncFlush calls do.
AcceptedIsFlushed ==
    \A c \in Chunk : c \in accepted ~> c \in accepted \ Pending

\* StopFlush returns, except when the flusher had tested exit and was not
\* yet waiting when exit was set: only that window loses the notification.
StopReturnsUnlessMissed ==
    (spc = "notify" /\ fpc # "sleep") ~> spc = "joined"

\* FileFlush keeps the promise of FlushQueue.
FQ == INSTANCE FlushQueue WITH pending <- Pending, closed <- fpc = "done"
ImplementsFlushQueue == FQ!Spec
=============================================================================
