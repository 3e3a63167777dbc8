---------------------------- MODULE CrashService ----------------------------
(***************************************************************************)
(* What the crash daemon promises to the process that crashes: connections *)
(* are taken up in the order in which they were made, each is reported at  *)
(* most once, and nobody is answered while their report is being made.     *)
(* The service may refuse a crash, drop one, or go away with all of them.  *)
(***************************************************************************)
EXTENDS Sequences

CONSTANT Conn   \* the connections crashing threads make

VARIABLES
    pending,    \* connected and not yet dealt with, oldest first
    phase       \* what has become of each connection

vars == <<pending, phase>>

Phase == {"new", "pending", "reported", "refused", "answered"}

Init ==
    /\ pending = <<>>
    /\ phase = [c \in Conn |-> "new"]

\* A crashing thread connects.
Arrive(c) ==
    /\ phase[c] = "new"
    /\ pending' = Append(pending, c)
    /\ phase' = [phase EXCEPT ![c] = "pending"]

\* The oldest connection is reported or refused, or closed on an error.
Finish(outcome) ==
    /\ pending # <<>>
    /\ pending' = Tail(pending)
    /\ phase' = [phase EXCEPT ![Head(pending)] = outcome]

Answer(c) ==
    /\ phase[c] \in {"reported", "refused"}
    /\ phase' = [phase EXCEPT ![c] = "answered"]
    /\ UNCHANGED pending

\* The service ends; every connection it had is closed.
Shutdown ==
    /\ pending' = <<>>
    /\ phase' = [c \in Conn |-> IF phase[c] = "new" THEN "new" ELSE "answered"]

\* A process has ended: its threads will not connect any more.
Leave(C) ==
    /\ \A c \in C : phase[c] = "new"
    /\ phase' = [c \in Conn |-> IF c \in C THEN "answered" ELSE phase[c]]
    /\ UNCHANGED pending

Next ==
    \/ \E c \in Conn : Arrive(c) \/ Answer(c)
    \/ \E o \in {"reported", "refused", "answered"} : Finish(o)
    \/ Shutdown
    \/ \E C \in SUBSET Conn : Leave(C)

Spec == Init /\ [][Next]_vars
=============================================================================
