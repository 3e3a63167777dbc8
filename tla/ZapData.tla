------------------------------ MODULE ZapData ------------------------------
(***************************************************************************)
(* The pool of ZapData objects (entity/ZapData.java): a list linked by     *)
(* the field next, its head sPool, its counter sPoolSize and a limit, used *)
(* by every thread that runs ZapPrint.print: obtain, fill, print, recycle. *)
(*                                                                         *)
(* The synchronized blocks are one step each; the fields of an object are  *)
(* read and written outside of them.  The sequence pool is history: the    *)
(* objects in the list, from its head.                                     *)
(***************************************************************************)
EXTENDS Integers, Sequences, Functions

CONSTANTS
    Thread,         \* the threads that log
    Obj,            \* the ZapData objects the heap may hold
    MAX_POOL_SIZE,
    Null            \* Java's null, and an object whose fields are reset

ASSUME PoolAssumption ==
    /\ MAX_POOL_SIZE \in Nat
    /\ Null \notin Obj /\ Null \notin Thread

VARIABLES
    sPool, sPoolSize, next,
    fields,     \* level, tag and msg of an object, by the thread that set them
    pc, data,   \* the threads in print, and the local variable data
    pool        \* history

vars == <<sPool, sPoolSize, next, fields, pc, data, pool>>

Init ==
    /\ sPool = Null /\ sPoolSize = 0
    /\ next = [o \in Obj |-> Null]
    /\ fields = [o \in Obj |-> Null]
    /\ pc = [t \in Thread |-> "idle"]
    /\ data = [t \in Thread |-> Null]
    /\ pool = <<>>
-----------------------------------------------------------------------------
\* Mutations: the counter is not decremented; the list is not shortened.
ObtainNoCount(t) ==
    /\ pc[t] = "idle" /\ sPool # Null
    /\ data' = [data EXCEPT ![t] = sPool]
    /\ sPool' = next[sPool]
    /\ next' = [next EXCEPT ![sPool] = Null]
    /\ pool' = Tail(pool)
    /\ pc' = [pc EXCEPT ![t] = "fill"]
    /\ UNCHANGED <<fields, sPoolSize>>

ObtainPeek(t) ==
    /\ pc[t] = "idle" /\ sPool # Null
    /\ data' = [data EXCEPT ![t] = sPool]
    /\ pc' = [pc EXCEPT ![t] = "fill"]
    /\ UNCHANGED <<sPool, next, sPoolSize, fields, pool>>

\* obtain(): the head of the list ...
ObtainPooled(t) ==
    /\ pc[t] = "idle"
    /\ sPool # Null
    /\ data' = [data EXCEPT ![t] = sPool]
    /\ sPool' = next[sPool]
    /\ next' = [next EXCEPT ![sPool] = Null]
    /\ sPoolSize' = sPoolSize - 1
    /\ pool' = Tail(pool)
    /\ pc' = [pc EXCEPT ![t] = "fill"]
    /\ UNCHANGED fields

\* ... or a new object, one that nobody refers to.
ObtainNew(t) ==
    /\ pc[t] = "idle"
    /\ sPool = Null
    /\ \E o \in Obj \ Range(data) :
         /\ data' = [data EXCEPT ![t] = o]
         /\ next' = [next EXCEPT ![o] = Null]
         /\ fields' = [fields EXCEPT ![o] = Null]
    /\ pc' = [pc EXCEPT ![t] = "fill"]
    /\ UNCHANGED <<sPool, sPoolSize, pool>>

\* obtain(level, tag, msg): the assignments.
Fill(t) ==
    /\ pc[t] = "fill"
    /\ fields' = [fields EXCEPT ![data[t]] = t]
    /\ pc' = [pc EXCEPT ![t] = "print"]
    /\ UNCHANGED <<sPool, sPoolSize, next, data, pool>>

\* printInner and doRecord read the fields.
PrintData(t) ==
    /\ pc[t] = "print"
    /\ pc' = [pc EXCEPT ![t] = "reset"]
    /\ UNCHANGED <<sPool, sPoolSize, next, fields, data, pool>>

\* recycle(): the fields, before the lock ...
Reset(t) ==
    /\ pc[t] = "reset"
    /\ fields' = [fields EXCEPT ![data[t]] = Null]
    /\ pc' = [pc EXCEPT ![t] = "recycle"]
    /\ UNCHANGED <<sPool, sPoolSize, next, data, pool>>

\* ... then, if there is room, the object becomes the head; the thread
\* returns from print and forgets it.
Recycle(t) ==
    /\ pc[t] = "recycle"
    /\ IF sPoolSize < MAX_POOL_SIZE
         THEN /\ next' = [next EXCEPT ![data[t]] = sPool]
              /\ sPool' = data[t]
              /\ sPoolSize' = sPoolSize + 1
              /\ pool' = <<data[t]>> \o pool
         ELSE UNCHANGED <<next, sPool, sPoolSize, pool>>
    /\ data' = [data EXCEPT ![t] = Null]
    /\ pc' = [pc EXCEPT ![t] = "idle"]
    /\ UNCHANGED fields

Next ==
    \E t \in Thread :
      \/ ObtainPooled(t) \/ ObtainNew(t) \/ Fill(t) \/ PrintData(t)
      \/ Reset(t) \/ Recycle(t)

Spec == Init /\ [][Next]_vars
-----------------------------------------------------------------------------
\* The types of the static fields, of the objects and of the threads.
TypeOK ==
    /\ sPool \in Obj \cup {Null} /\ sPoolSize \in 0 .. MAX_POOL_SIZE
    /\ next \in [Obj -> Obj \cup {Null}]
    /\ fields \in [Obj -> Thread \cup {Null}]
    /\ pc \in [Thread -> {"idle", "fill", "print", "reset", "recycle"}]
    /\ data \in [Thread -> Obj \cup {Null}]
    /\ pool \in Seq(Obj)

\* Following next from sPool visits exactly the objects in the pool, each
\* once, and sPoolSize counts them: no object is lost or listed twice.
PoolIsList ==
    /\ sPoolSize = Len(pool)
    /\ IsInjective(pool)
    /\ sPool = (IF pool = <<>> THEN Null ELSE Head(pool))
    /\ \A i \in 1 .. Len(pool) :
         next[pool[i]] = IF i < Len(pool) THEN pool[i + 1] ELSE Null

\* obtain gives an object to one thread at a time, and none that is still
\* in the pool.
OneHolder ==
    \A t \in Thread :
      data[t] # Null =>
        /\ data[t] \notin Range(pool)
        /\ \A u \in Thread : data[u] = data[t] => u = t

\* What printInner and doRecord read is what this thread's obtain wrote.
PrintsOwnFields ==
    \A t \in Thread : pc[t] \in {"print", "reset"} => fields[data[t]] = t

\* An object in the pool keeps no message alive.
PoolIsClean == \A o \in Range(pool) : fields[o] = Null
=============================================================================
