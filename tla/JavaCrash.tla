------------------------------ MODULE JavaCrash ------------------------------
(***************************************************************************)
(* The Java half of Hawkeye in the application's process: JavaCrashHandler *)
(* on the threads that throw, ActivityMonitor on the main thread, and the  *)
(* MmapGuard that BoostCrashHandler shares between them.                   *)
(*                                                                         *)
(* The process starts after Hawkeye.initialize.  The reports in the guard  *)
(* are named by their threads; intercept is a final FALSE.  A use of the   *)
(* guard after its release is undefined, and ends the behaviour.  The file *)
(* and the mmap of the guard are taken to have succeeded: Hawkeye has a    *)
(* guard without them.                                                     *)
(***************************************************************************)
EXTENDS Integers, Sequences, FiniteSets, FiniteSetsExt

CONSTANTS
    Thread, Main,
    Activity,
    MaxActivityNum,     \* MAX_ACTIVITY_NUM (100)
    Garbled             \* what two concurrent writes may leave

ASSUME JavaAssumption ==
    /\ Main \in Thread
    /\ IsFiniteSet(Activity)
    /\ MaxActivityNum \in Nat \ {0, 1}

VARIABLES
    alive, undefined,
    handler,        \* the default handler: "ours" or "old"
    pc, crashed,    \* where a thread is, and whether in uncaughtException
    seen,           \* the guard's content as Write found it
    touched,        \* whether the list changed under the thread's iteration
    guard, buffer,  \* *javaCrashPtr: "ok" or "freed", and its content
    file,           \* the report file of each thread
    activities,     \* the length of the list, or NoList for null
    act,            \* the state of each activity
    refs, changing, foreground

crashVars == <<handler, crashed, seen, buffer, file>>
listVars == <<activities, touched>>
fgVars == <<refs, changing, foreground>>
vars == <<alive, undefined, pc, guard, act, crashVars, listVars, fgVars>>

NoList == -1

Init ==
    /\ alive = TRUE /\ undefined = FALSE /\ handler = "ours"
    /\ pc = [t \in Thread |-> "run"] /\ crashed = {} /\ touched = {}
    /\ seen = [t \in Thread |-> <<>>] /\ file = [t \in Thread |-> <<>>]
    /\ guard = "ok" /\ buffer = <<>>
    /\ activities = 0 /\ act = [a \in Activity |-> "new"]
    /\ refs = 0 /\ changing = FALSE /\ foreground = FALSE

Goto(t, to) == pc' = [pc EXCEPT ![t] = to]

\* t throws and nobody catches: the default handler of this moment runs.  The
\* old one ends the process.
Uncaught(t) ==
    IF handler = "ours"
      THEN Goto(t, "caught") /\ crashed' = crashed \cup {t} /\ UNCHANGED alive
      ELSE alive' = FALSE /\ UNCHANGED <<pc, crashed>>
-----------------------------------------------------------------------------
(* JavaCrashHandler.                                                       *)

Throw(t) ==
    /\ alive /\ pc[t] = "run"
    /\ Uncaught(t)
    /\ UNCHANGED <<undefined, guard, act, handler, seen, buffer, file, listVars, fgVars>>

\* A step of a thread inside the handlers.
Step(t, from) == alive /\ pc[t] = from

\* uncaughtException restores the old handler, and the report is put together.
UncaughtException(t) ==
    /\ Step(t, "caught") /\ Goto(t, "record")
    /\ handler' = "old"
    /\ UNCHANGED <<alive, undefined, guard, act, crashed, seen, buffer, file,
                   listVars, fgVars>>

\* The pointer of the guard is not 0 after the release: the call goes through.
Guarded(t, A) ==
    IF guard = "ok" THEN A /\ UNCHANGED <<alive, undefined>>
    ELSE /\ alive' = FALSE /\ undefined' = TRUE
         /\ UNCHANGED <<pc, seen, buffer, file>>

\* record2Buffer: Write takes the length of what is there ...
Record(t) ==
    /\ Step(t, "record")
    /\ Guarded(t, /\ Goto(t, "write")
                  /\ seen' = [seen EXCEPT ![t] = buffer]
                  /\ UNCHANGED <<buffer, file>>)
    /\ UNCHANGED <<guard, act, handler, crashed, listVars, fgVars>>

\* Mutation: the report goes to the buffer for ANRs.
WriteToAnr(t) ==
    /\ Step(t, "write")
    /\ Guarded(t, /\ Goto(t, "flush")
                  /\ seen' = [seen EXCEPT ![t] = <<>>]
                  /\ UNCHANGED <<buffer, file>>)
    /\ UNCHANGED <<guard, act, handler, crashed, listVars, fgVars>>

\* ... and copies old and new content over it.  When another thread has written
\* in between, the longer of the two leaves its tail.
Write(t) ==
    /\ Step(t, "write")
    /\ Guarded(t, /\ Goto(t, "flush")
                  /\ buffer' \in {Append(seen[t], t)}
                       \cup (IF buffer = seen[t] THEN {}
                             ELSE {Append(Append(seen[t], t), Garbled)})
                  /\ seen' = [seen EXCEPT ![t] = <<>>]
                  /\ UNCHANGED file)
    /\ UNCHANGED <<guard, act, handler, crashed, listVars, fgVars>>

\* flushLog2File, to a file of its own.
Flush(t) ==
    /\ Step(t, "flush")
    /\ Guarded(t, /\ Goto(t, "finish")
                  /\ file' = [file EXCEPT ![t] = buffer]
                  /\ UNCHANGED <<seen, buffer>>)
    /\ UNCHANGED <<guard, act, handler, crashed, listVars, fgVars>>

\* killProcess.
KillProcess(t) ==
    /\ Step(t, "kill")
    /\ alive' = FALSE
    /\ UNCHANGED <<undefined, pc, guard, act, crashVars, listVars, fgVars>>
-----------------------------------------------------------------------------
(* ActivityMonitor.finishAllActivities, called by uncaughtException and, on *)
(* the main thread, when the only activity is destroyed.                    *)

FinishAllActivities(t) ==
    /\ Step(t, "finish")
    /\ Goto(t, IF activities # NoList THEN "iterate" ELSE "release")
    /\ touched' = touched \ {t}
    /\ UNCHANGED <<alive, undefined, guard, act, crashVars, activities, fgVars>>

\* Another thread changed the list, or set it to null, during the iteration: an
\* exception.  Out of uncaughtException nobody handles it and the thread ends;
\* out of a callback it is an uncaught exception of the main thread.
Iterate(t) ==
    /\ Step(t, "iterate")
    /\ IF t \in touched
         THEN /\ IF t \in crashed
                   THEN Goto(t, "thrown") /\ UNCHANGED <<alive, crashed>>
                   ELSE Uncaught(t)
              /\ UNCHANGED listVars
         ELSE /\ Goto(t, "release")
              /\ activities' = NoList
              /\ touched' = touched \cup {u \in Thread : u # t /\ pc[u] = "iterate"}
              /\ UNCHANGED <<alive, crashed>>
    /\ UNCHANGED <<undefined, guard, act, handler, seen, buffer, file, fgVars>>

\* Mutation: no kill after the release.
AfterReleaseRun(t) == "run"

AfterRelease(t) == IF t \in crashed THEN "kill" ELSE "run"

\* NativeCrashHandler.release stops the service; BoostCrashHandler.release
\* deletes the guard and keeps the pointer.
Release(t) ==
    /\ Step(t, "release")
    /\ Guarded(t, Goto(t, AfterRelease(t)) /\ UNCHANGED <<seen, buffer, file>>)
    /\ guard' = "freed"
    /\ UNCHANGED <<act, handler, crashed, listVars, fgVars>>

Handle(t) ==
    \/ UncaughtException(t) \/ Record(t) \/ Write(t) \/ Flush(t)
    \/ FinishAllActivities(t) \/ Iterate(t) \/ Release(t) \/ KillProcess(t)
-----------------------------------------------------------------------------
(* The callbacks of the activities' life cycle, on the main thread.        *)

Move(a, from, to) ==
    /\ alive /\ pc[Main] = "run"
    /\ act[a] \in from
    /\ act' = [act EXCEPT ![a] = to]
    /\ UNCHANGED <<undefined, guard, handler, seen, buffer, file>>

\* addFirst, and removeLast when there are too many.
AddFirst == Min({activities + 1, MaxActivityNum})

\* A list that is null makes the callback throw.
OnActivityCreated(a) ==
    /\ Move(a, {"new"}, "created")
    /\ IF activities = NoList
         THEN Uncaught(Main) /\ UNCHANGED listVars
         ELSE /\ activities' = AddFirst
              /\ touched' = touched \cup {u \in Thread : pc[u] = "iterate"}
              /\ UNCHANGED <<alive, pc, crashed>>
    /\ UNCHANGED fgVars

OnActivityResumed(a) ==
    /\ Move(a, {"created", "paused"}, "resumed")
    /\ refs' = refs + 1
    /\ foreground' = (foreground \/ (refs' = 1 /\ ~changing))
    /\ UNCHANGED <<alive, pc, crashed, changing, listVars>>

\* Mutation: the references are compared before they are decremented.
PausedPostDecrement(a, c) ==
    /\ Move(a, {"resumed"}, "paused")
    /\ changing' = c
    /\ refs' = refs - 1
    /\ foreground' = (foreground /\ ~(refs = 0 /\ ~c))
    /\ UNCHANGED <<alive, pc, crashed, listVars>>

\* c: isChangingConfigurations.
OnActivityPaused(a, c) ==
    /\ Move(a, {"resumed"}, "paused")
    /\ changing' = c
    /\ refs' = refs - 1
    /\ foreground' = (foreground /\ ~(refs' = 0 /\ ~c))
    /\ UNCHANGED <<alive, pc, crashed, listVars>>

\* Mutation: every destroyed activity ends the monitoring.
LastOne == activities # NoList

\* The list never loses a destroyed activity: its length is 1 while only one
\* was ever created.
OnlyOne == activities = 1

OnActivityDestroyed(a) ==
    /\ Move(a, {"created", "paused"}, "destroyed")
    /\ IF OnlyOne THEN Goto(Main, "finish") ELSE UNCHANGED pc
    /\ UNCHANGED <<alive, crashed, listVars, fgVars>>

Next ==
    \/ \E t \in Thread : Throw(t) \/ Handle(t)
    \/ \E a \in Activity :
          \/ OnActivityCreated(a) \/ OnActivityResumed(a) \/ OnActivityDestroyed(a)
          \/ \E c \in BOOLEAN : OnActivityPaused(a, c)

SafetySpec == Init /\ [][Next]_vars
\* A thread inside the handlers runs on.
Spec == SafetySpec /\ \A t \in Thread : WF_vars(Handle(t))
-----------------------------------------------------------------------------
\* When only one thread has thrown, its file holds its report and nothing else
\* by the time the activities are finished and the process is killed
\* (handleException, JavaCrashHandler.java:111-112, before :82-83).
ReportBeforeKill ==
    \A t \in Thread :
        /\ crashed = {t}
        /\ pc[t] \in {"finish", "iterate", "release", "kill"}
        => file[t] = <<t>>

\* As long as nothing was thrown and an activity is in use the guard exists:
\* onActivityDestroyed never takes a process with activities for one without,
\* although it looks at a list that keeps destroyed ones
\* (ActivityMonitor.java:87; it needs MAX_ACTIVITY_NUM > 1).
GuardWhileInUse ==
    /\ crashed = {} /\ alive
    /\ \E a \in Activity : act[a] \in {"created", "resumed", "paused"}
    => guard = "ok"

\* What a report says of the foreground is true: an activity is resumed, or the
\* last one was paused for a change of configuration (ActivityMonitor.java:61-73).
ForegroundIsTrue ==
    LET resumed == {a \in Activity : act[a] = "resumed"}
    IN /\ refs = Cardinality(resumed)
       /\ resumed # {} => foreground
       /\ foreground => resumed # {} \/ changing

\* A thread in uncaughtException ends the process, unless the list of activities
\* changes while it goes through it: then finishAllActivities throws and the
\* process goes on without the thread (JavaCrashHandler.java:82-83).
CrashEndsProcess ==
    \A t \in Thread : (pc[t] = "caught") ~> (~alive \/ pc[t] = "thrown")

=============================================================================
