--------------------------- MODULE JavaCrashProofs ---------------------------
(***************************************************************************)
(* The safety of the Java half of Hawkeye for any number of threads and    *)
(* activities: the report of a crash is in its file before the process is  *)
(* killed, the guard is not released under an application in use, and the  *)
(* foreground flag tells the truth.                                        *)
(***************************************************************************)
EXTENDS JavaCrash, FiniteSetTheorems, TLAPS

PC == {"run", "caught", "record", "write", "flush", "finish", "iterate",
       "release", "kill", "thrown"}
Outside == {"run", "finish", "iterate", "release"}
InUse == {"created", "resumed", "paused"}

\* A step of a thread inside the handlers that changes no activity.
LEMMA HandleLeavesActivities ==
  ASSUME NEW t \in Thread, Throw(t) \/ Handle(t)
  PROVE  UNCHANGED <<act, fgVars>>
BY Zenon DEF Throw, Handle, UncaughtException, Record, Write, Flush, KillProcess,
       FinishAllActivities, Iterate, Release, fgVars
-----------------------------------------------------------------------------
(* The foreground.                                                         *)

Resumed == {a \in Activity : act[a] = "resumed"}

\* A change of configuration is noted only while an activity is resumed.
FgInv ==
    /\ act \in [Activity -> {"new", "destroyed"} \cup InUse]
    /\ foreground \in BOOLEAN /\ changing \in BOOLEAN
    /\ ForegroundIsTrue
    /\ changing => foreground

\* The callbacks keep the references equal to the resumed activities.
LEMMA FgStep == FgInv /\ [Next]_vars => FgInv'
<1> SUFFICES ASSUME FgInv, [Next]_vars PROVE FgInv'
  OBVIOUS
<1> USE DEF FgInv
<1>0. /\ IsFiniteSet(Resumed) /\ refs = Cardinality(Resumed) /\ refs \in Nat
      /\ refs = 0 <=> Resumed = {}
      /\ Resumed # {} => foreground
      /\ foreground => Resumed # {} \/ changing
  <2>1. IsFiniteSet(Resumed)
    BY FS_Subset, JavaAssumption DEF Resumed
  <2> QED
    BY <2>1, FS_CardinalityType, FS_EmptySet DEF ForegroundIsTrue, Resumed
<1>1. ASSUME UNCHANGED fgVars, Resumed' = Resumed,
             act' \in [Activity -> {"new", "destroyed"} \cup InUse]
      PROVE  FgInv'
  BY <1>1 DEF ForegroundIsTrue, Resumed, fgVars
<1>2. ASSUME NEW t \in Thread, Throw(t) \/ Handle(t) PROVE FgInv'
  BY <1>1, <1>2, HandleLeavesActivities DEF Resumed
<1>3. ASSUME NEW a \in Activity, OnActivityCreated(a) \/ OnActivityDestroyed(a)
      PROVE  FgInv'
  <2>1. /\ UNCHANGED fgVars
        /\ \E x \in {"created", "destroyed"} : act' = [act EXCEPT ![a] = x]
        /\ act[a] # "resumed"
    BY <1>3 DEF OnActivityCreated, OnActivityDestroyed, Move
  <2>2. Resumed' = Resumed /\ act' \in [Activity -> {"new", "destroyed"} \cup InUse]
    BY <2>1 DEF Resumed, InUse
  <2> QED BY <1>1, <2>1, <2>2
<1>4. ASSUME NEW a \in Activity, OnActivityResumed(a) PROVE FgInv'
  <2>1. /\ act[a] # "resumed" /\ act' = [act EXCEPT ![a] = "resumed"]
        /\ refs' = refs + 1 /\ changing' = changing
        /\ foreground' = (foreground \/ (refs' = 1 /\ ~changing))
    BY <1>4 DEF OnActivityResumed, Move
  <2>2. Resumed' = Resumed \cup {a} /\ a \notin Resumed
    BY <2>1 DEF Resumed
  <2>3. refs' = Cardinality(Resumed')
    BY Zenon, <1>0, <2>1, <2>2, FS_AddElement
  <2>4. foreground'
    <3>1. CASE foreground
      BY Zenon, <2>1, <3>1
    <3>2. CASE ~foreground
      <4>1. Resumed = {} /\ ~changing
        BY <1>0, <3>2
      <4>2. refs' = 1
        BY <1>0, <2>1, <4>1
      <4> QED BY Zenon, <2>1, <4>1, <4>2
    <3> QED BY <3>1, <3>2
  <2>5. act' \in [Activity -> {"new", "destroyed"} \cup InUse]
    BY <2>1 DEF InUse
  <2> QED BY <2>1, <2>2, <2>3, <2>4, <2>5 DEF ForegroundIsTrue, Resumed
<1>5. ASSUME NEW a \in Activity, NEW c \in BOOLEAN, OnActivityPaused(a, c)
      PROVE  FgInv'
  <2>1. /\ act[a] = "resumed" /\ act' = [act EXCEPT ![a] = "paused"]
        /\ refs' = refs - 1 /\ changing' = c
        /\ foreground' = (foreground /\ ~(refs' = 0 /\ ~c))
    BY <1>5 DEF OnActivityPaused, Move
  <2>2. Resumed' = Resumed \ {a} /\ a \in Resumed
    BY <2>1 DEF Resumed
  <2>3. refs' = Cardinality(Resumed') /\ IsFiniteSet(Resumed')
    BY <1>0, <2>1, <2>2, FS_RemoveElement
  <2>4. refs' = 0 <=> Resumed' = {}
    BY <2>3, FS_EmptySet
  <2>5. act' \in [Activity -> {"new", "destroyed"} \cup InUse]
    BY <2>1 DEF InUse
  <2>6. foreground
    BY <1>0, <2>2
  <2> QED BY Zenon, <2>1, <2>3, <2>4, <2>5, <2>6 DEF ForegroundIsTrue, Resumed
<1>6. CASE UNCHANGED vars
  BY <1>1, <1>6 DEF vars, Resumed
<1> QED BY <1>2, <1>3, <1>4, <1>5, <1>6 DEF Next

\* What a report says of the foreground is true, whatever the order of the
\* callbacks of the activities and however many of them there are
\* (ActivityMonitor.onActivityResumed, onActivityPaused).
THEOREM ForegroundIsTrueHolds == SafetySpec => []ForegroundIsTrue
<1>1. Init => FgInv
  <2> SUFFICES ASSUME Init PROVE FgInv
    OBVIOUS
  <2>1. {a \in Activity : act[a] = "resumed"} = {}
    BY DEF Init
  <2> QED BY Zenon, <2>1, FS_EmptySet DEF Init, FgInv, ForegroundIsTrue
<1>2. FgInv => ForegroundIsTrue
  BY DEF FgInv
<1> QED BY <1>1, <1>2, FgStep, PTL DEF SafetySpec
-----------------------------------------------------------------------------
(* The threads.                                                            *)

\* Only threads in uncaughtException are inside the handlers, and only the
\* main thread finishes activities without having thrown.
ThreadInv ==
    /\ pc \in [Thread -> PC] /\ crashed \subseteq Thread
    /\ \A t \in Thread \ crashed : pc[t] \in Outside
    /\ \A t \in Thread \ (crashed \cup {Main}) : pc[t] = "run"
    /\ \A t \in crashed : pc[t] # "run"
    /\ crashed = {} => handler = "ours"

\* Every step moves at most one thread; whoever has thrown stays crashed.
LEMMA ThreadStep == ThreadInv /\ [Next]_vars => ThreadInv' /\ crashed \subseteq crashed'
<1> SUFFICES ASSUME ThreadInv, [Next]_vars PROVE ThreadInv' /\ crashed \subseteq crashed'
  OBVIOUS
<1> USE JavaAssumption DEF ThreadInv
<1>1. ASSUME NEW t \in Thread, NEW x \in PC, pc' = [pc EXCEPT ![t] = x],
             t \in crashed' => x # "run", t \notin crashed' => x \in Outside,
             t \notin crashed' \cup {Main} => x = "run",
             crashed' \in {crashed, crashed \cup {t}},
             handler' = handler \/ crashed # {}
      PROVE  ThreadInv' /\ crashed \subseteq crashed'
  BY <1>1
<1>2. ASSUME UNCHANGED <<pc, crashed, handler>>
      PROVE  ThreadInv' /\ crashed \subseteq crashed'
  BY <1>2
<1>3. ASSUME NEW t \in Thread, Uncaught(t), UNCHANGED handler
      PROVE  ThreadInv' /\ crashed \subseteq crashed'
  <2>1. CASE handler = "ours"
    BY <1>1, <1>3, <2>1 DEF Uncaught, Goto, PC
  <2>2. CASE handler # "ours"
    BY <1>2, <1>3, <2>2 DEF Uncaught
  <2> QED BY <2>1, <2>2
<1>4. ASSUME NEW t \in Thread, Throw(t) PROVE ThreadInv' /\ crashed \subseteq crashed'
  BY <1>3, <1>4 DEF Throw
<1>5. ASSUME NEW t \in Thread, Handle(t) PROVE ThreadInv' /\ crashed \subseteq crashed'
  <2>1. CASE UncaughtException(t)
    BY Zenon, <1>1, <2>1 DEF UncaughtException, Step, Goto, PC, Outside
  <2>2. CASE Record(t)
    BY Zenon, <1>1, <1>2, <2>2 DEF Record, Guarded, Step, Goto, PC, Outside
  <2>3. CASE Write(t)
    BY Zenon, <1>1, <1>2, <2>3 DEF Write, Guarded, Step, Goto, PC, Outside
  <2>4. CASE Flush(t)
    BY Zenon, <1>1, <1>2, <2>4 DEF Flush, Guarded, Step, Goto, PC, Outside
  <2>5. CASE FinishAllActivities(t)
    BY Zenon, <1>1, <2>5 DEF FinishAllActivities, crashVars, Step, Goto, PC, Outside
  <2>6. CASE Iterate(t)
    <3>1. CASE t \in touched /\ t \notin crashed
      BY <1>3, <2>6, <3>1 DEF Iterate
    <3>2. CASE t \in touched /\ t \in crashed
      BY <1>1, <2>6, <3>2 DEF Iterate, Step, Goto, PC
    <3>3. CASE t \notin touched
      BY <1>1, <2>6, <3>3 DEF Iterate, Step, Goto, PC, Outside
    <3> QED BY <3>1, <3>2, <3>3
  <2>7. CASE Release(t)
    BY Zenon, <1>1, <1>2, <2>7 DEF Release, Guarded, AfterRelease, Step, Goto, PC, Outside
  <2>8. CASE KillProcess(t)
    BY <1>2, <2>8 DEF KillProcess, crashVars
  <2> QED
    BY <1>5, <2>1, <2>2, <2>3, <2>4, <2>5, <2>6, <2>7, <2>8 DEF Handle
<1>6. ASSUME NEW a \in Activity, OnActivityCreated(a)
      PROVE  ThreadInv' /\ crashed \subseteq crashed'
  BY Zenon, <1>2, <1>3, <1>6 DEF OnActivityCreated, Move
<1>7. ASSUME NEW a \in Activity, OnActivityDestroyed(a)
      PROVE  ThreadInv' /\ crashed \subseteq crashed'
  BY <1>1, <1>2, <1>7 DEF OnActivityDestroyed, Move, Goto, PC, Outside
<1>8. ASSUME NEW a \in Activity,
             OnActivityResumed(a) \/ \E c \in BOOLEAN : OnActivityPaused(a, c)
      PROVE  ThreadInv' /\ crashed \subseteq crashed'
  BY <1>2, <1>8 DEF OnActivityResumed, OnActivityPaused, Move
<1>9. CASE UNCHANGED vars
  BY <1>2, <1>9 DEF vars, crashVars
<1> QED BY <1>4, <1>5, <1>6, <1>7, <1>8, <1>9 DEF Next

\* The control of the threads is an invariant.
LEMMA ThreadInvariant == SafetySpec => []ThreadInv
<1>1. Init => ThreadInv
  BY DEF Init, ThreadInv, PC, Outside
<1>2. ThreadInv /\ [Next]_vars => ThreadInv'
  BY ThreadStep
<1> QED BY <1>1, <1>2, PTL DEF SafetySpec
-----------------------------------------------------------------------------
(* The report.                                                             *)

Reports == Seq(Thread \cup {Garbled})

\* What the only thread that has thrown has done so far.
Recorded(t) ==
    /\ pc[t] \in {"caught", "record", "write"} => buffer = <<>>
    /\ pc[t] = "write" => seen[t] = <<>>
    /\ pc[t] = "flush" => buffer = <<t>>
    /\ pc[t] \in {"finish", "iterate", "release", "kill"} => file[t] = <<t>>

ReportInv ==
    /\ buffer \in Reports
    /\ seen \in [Thread -> Reports] /\ file \in [Thread -> Reports]
    /\ crashed = {} => buffer = <<>>
    /\ \A t \in Thread : crashed = {t} => Recorded(t)

\* Nobody but a thread that has thrown touches the report; the first one to
\* throw finds it empty.
LEMMA ReportStep == ThreadInv /\ ReportInv /\ [Next]_vars => ReportInv'
<1> SUFFICES ASSUME ThreadInv, ReportInv, [Next]_vars PROVE ReportInv'
  OBVIOUS
<1> USE JavaAssumption DEF ReportInv
<1>0. pc \in [Thread -> PC] /\ crashed \subseteq Thread
  BY DEF ThreadInv
<1>1. ASSUME NEW t \in Thread, UNCHANGED <<buffer, seen, file>>,
             \/ pc' = pc /\ crashed' = crashed
             \/ pc' = [pc EXCEPT ![t] = "caught"] /\ crashed' = crashed \cup {t}
                  /\ pc[t] \in {"run", "iterate"} /\ t \notin crashed
             \/ /\ pc' = [pc EXCEPT ![t] = pc'[t]] /\ crashed' = crashed
                /\ t \in crashed =>
                     \/ pc[t] = "caught" /\ pc'[t] = "record"
                     \/ /\ pc[t] \in {"finish", "iterate", "release"}
                        /\ pc'[t] \in {"iterate", "release", "kill", "thrown"}
      PROVE  ReportInv'
  <2>1. CASE pc' = pc /\ crashed' = crashed
    BY <1>1, <2>1 DEF Recorded
  <2>2. CASE /\ pc' = [pc EXCEPT ![t] = "caught"] /\ crashed' = crashed \cup {t}
             /\ t \notin crashed
    <3>1. ASSUME NEW u \in Thread, crashed' = {u} PROVE u = t /\ crashed = {}
      BY <2>2, <3>1
    <3>2. crashed' # {}
      BY <2>2
    <3>3. ASSUME NEW u \in Thread, crashed' = {u} PROVE Recorded(u)'
      BY <1>0, <1>1, <2>2, <3>1, <3>3 DEF Recorded
    <3> QED BY <1>1, <3>2, <3>3
  <2>3. CASE /\ pc' = [pc EXCEPT ![t] = pc'[t]] /\ crashed' = crashed
             /\ t \in crashed =>
                     \/ pc[t] = "caught" /\ pc'[t] = "record"
                     \/ /\ pc[t] \in {"finish", "iterate", "release"}
                        /\ pc'[t] \in {"iterate", "release", "kill", "thrown"}
    <3>1. ASSUME NEW u \in Thread, crashed = {u} PROVE Recorded(u)'
      <4>1. Recorded(u)
        BY <3>1
      <4>2. CASE u = t
        BY <1>0, <1>1, <2>3, <3>1, <4>1, <4>2 DEF Recorded
      <4>3. CASE u # t
        BY <1>0, <1>1, <2>3, <4>1, <4>3 DEF Recorded
      <4> QED BY <4>2, <4>3
    <3> QED BY <1>1, <2>3, <3>1
  <2> QED BY <1>1, <2>1, <2>2, <2>3
<1>2. ASSUME NEW t \in Thread, Uncaught(t), pc[t] \in {"run", "iterate"},
             t \notin crashed, UNCHANGED <<buffer, seen, file>>
      PROVE  ReportInv'
  BY <1>1, <1>2 DEF Uncaught, Goto
<1>3. ASSUME NEW t \in Thread, Throw(t) PROVE ReportInv'
  BY <1>2, <1>3 DEF Throw, ThreadInv
<1>4. ASSUME NEW t \in Thread, t \in crashed, crashed' = crashed,
             buffer' \in Reports, seen' \in [Thread -> Reports],
             file' \in [Thread -> Reports],
             crashed = {t} => Recorded(t)'
      PROVE  ReportInv'
  BY <1>4
<1>5. ASSUME NEW t \in Thread, Record(t) PROVE ReportInv'
  <2>1. t \in crashed
    BY <1>5 DEF Record, Step, ThreadInv, Outside
  <2>2. CASE guard = "ok"
    BY <1>0, <1>4, <1>5, <2>1, <2>2 DEF Record, Guarded, Goto, Step, Recorded
  <2>3. CASE guard # "ok"
    BY <1>1, <1>5, <2>3 DEF Record, Guarded
  <2> QED BY <2>2, <2>3
<1>6. ASSUME NEW t \in Thread, Write(t) PROVE ReportInv'
  <2>1. t \in crashed
    BY <1>6 DEF Write, Step, ThreadInv, Outside
  <2>2. CASE guard = "ok"
    <3>1. /\ pc[t] = "write" /\ pc' = [pc EXCEPT ![t] = "flush"] /\ crashed' = crashed
          /\ \/ buffer' = Append(seen[t], t)
             \/ buffer # seen[t] /\ buffer' = Append(Append(seen[t], t), Garbled)
          /\ seen' = [seen EXCEPT ![t] = <<>>] /\ file' = file
      BY <1>6, <2>2 DEF Write, Guarded, Goto, Step
    <3>2. seen[t] \in Reports /\ <<>> \in Reports
      BY DEF Reports
    <3>3. buffer' \in Reports /\ seen' \in [Thread -> Reports]
      <4>1. \A r \in Reports, x \in Thread \cup {Garbled} : Append(r, x) \in Reports
        BY DEF Reports
      <4>2. buffer' \in Reports
        BY Zenon, <3>1, <3>2, <4>1
      <4> QED BY <3>1, <3>2, <4>2
    <3>4. ASSUME crashed = {t} PROVE Recorded(t)'
      <4>1. buffer = <<>> /\ seen[t] = <<>>
        BY <3>1, <3>4 DEF Recorded
      <4>2. buffer' = <<t>>
        BY <3>1, <4>1
      <4> QED BY <1>0, <3>1, <4>2 DEF Recorded
    <3> QED BY <1>4, <2>1, <3>1, <3>3, <3>4
  <2>3. CASE guard # "ok"
    BY <1>1, <1>6, <2>3 DEF Write, Guarded
  <2> QED BY <2>2, <2>3
<1>7. ASSUME NEW t \in Thread, Flush(t) PROVE ReportInv'
  <2>1. t \in crashed
    BY <1>7 DEF Flush, Step, ThreadInv, Outside
  <2>2. CASE guard = "ok"
    BY <1>0, <1>4, <1>7, <2>1, <2>2 DEF Flush, Guarded, Goto, Step, Recorded
  <2>3. CASE guard # "ok"
    BY <1>1, <1>7, <2>3 DEF Flush, Guarded
  <2> QED BY <2>2, <2>3
<1>8. ASSUME NEW t \in Thread, UncaughtException(t) \/ FinishAllActivities(t)
      PROVE  ReportInv'
  BY <1>0, <1>1, <1>8 DEF UncaughtException, FinishAllActivities, Step, Goto, crashVars
<1>9. ASSUME NEW t \in Thread, Iterate(t) PROVE ReportInv'
  BY Zenon, <1>0, <1>1, <1>2, <1>9 DEF Iterate, Step, Goto
<1>10. ASSUME NEW t \in Thread, Release(t) \/ KillProcess(t) PROVE ReportInv'
  BY <1>0, <1>1, <1>10 DEF Release, KillProcess, Guarded, AfterRelease, Step, Goto, crashVars
<1>11. ASSUME NEW t \in Thread, Handle(t) PROVE ReportInv'
  BY <1>5, <1>6, <1>7, <1>8, <1>9, <1>10, <1>11 DEF Handle
<1>12. ASSUME NEW a \in Activity, OnActivityCreated(a) PROVE ReportInv'
  <2>1. pc[Main] = "run" /\ Main \notin crashed /\ UNCHANGED <<buffer, seen, file>>
    BY <1>12 DEF OnActivityCreated, Move, ThreadInv
  <2> QED BY <1>1, <1>2, <1>12, <2>1 DEF OnActivityCreated
<1>13. ASSUME NEW a \in Activity, OnActivityDestroyed(a) PROVE ReportInv'
  <2>1. pc[Main] = "run" /\ Main \notin crashed /\ UNCHANGED <<buffer, seen, file>>
    BY <1>13 DEF OnActivityDestroyed, Move, ThreadInv
  <2> QED BY <1>0, <1>1, <1>13, <2>1 DEF OnActivityDestroyed, Goto
<1>14. ASSUME NEW a \in Activity,
             OnActivityResumed(a) \/ \E c \in BOOLEAN : OnActivityPaused(a, c)
      PROVE  ReportInv'
  BY <1>1, <1>14 DEF OnActivityResumed, OnActivityPaused, Move
<1>15. CASE UNCHANGED vars
  BY <1>1, <1>15 DEF vars, crashVars
<1> QED BY <1>3, <1>11, <1>12, <1>13, <1>14, <1>15 DEF Next

\* While only one thread has thrown, its report, and nothing else, is in its
\* file before uncaughtException finishes the activities and kills the process,
\* whatever the callbacks of the activities do meanwhile
\* (JavaCrashHandler.handleException, uncaughtException).
THEOREM ReportBeforeKillHolds == SafetySpec => []ReportBeforeKill
<1>1. Init => ReportInv
  BY DEF Init, ReportInv, Reports, Recorded
<1>2. ReportInv => ReportBeforeKill
  BY DEF ReportInv, Recorded, ReportBeforeKill
<1> QED BY <1>1, <1>2, ReportStep, ThreadInvariant, PTL DEF SafetySpec
-----------------------------------------------------------------------------
(* The guard.                                                              *)

\* addFirst and removeLast, on a list with room for two.
LEMMA AddFirstType ==
  ASSUME activities \in Nat
  PROVE  /\ AddFirst \in Nat /\ AddFirst # 0
         /\ AddFirst = 1 => activities = 0
<1> DEFINE S == {activities + 1, MaxActivityNum}
           x == IF activities + 1 <= MaxActivityNum THEN activities + 1
                                                    ELSE MaxActivityNum
<1>1. MaxActivityNum \in Nat /\ MaxActivityNum > 1
  BY JavaAssumption
<1>2. x \in S /\ \A y \in S : x <= y
  BY <1>1
<1>3. \A z \in S : (\A y \in S : z <= y) => z = x
  BY <1>1
<1>4. AddFirst = CHOOSE z \in S : \A y \in S : z <= y
  BY DEF AddFirst, Min
<1>5. AddFirst = x
  BY Zenon, <1>2, <1>3, <1>4
<1> QED BY <1>1, <1>5

AllGone == \A a \in Activity : act[a] \notin InUse

\* As long as nothing was thrown: the list counts the activities that were
\* created, as far as one and more than one differ, and the main thread is on
\* its way to release the guard only when none is left.
GuardInv ==
    /\ guard \in {"ok", "freed"} /\ act \in [Activity -> {"new", "destroyed"} \cup InUse]
    /\ crashed = {} =>
         /\ activities \in Nat \cup {NoList}
         /\ activities = 0 => \A a \in Activity : act[a] = "new"
         /\ activities = 1 => \A a, b \in Activity : act[a] # "new" /\ act[b] # "new" => a = b
         /\ activities = NoList \/ pc[Main] # "run" => AllGone
         /\ pc[Main] = "release" => activities = NoList
         /\ guard = "freed" => activities = NoList

\* Every step keeps the guard as long as it is needed.
LEMMA GuardStep == ThreadInv /\ GuardInv /\ [Next]_vars => GuardInv'
<1> SUFFICES ASSUME ThreadInv, GuardInv, [Next]_vars PROVE GuardInv'
  OBVIOUS
<1> USE JavaAssumption DEF GuardInv
<1>0. crashed \subseteq crashed' /\ pc \in [Thread -> PC]
  BY ThreadStep DEF ThreadInv
<1>1. CASE crashed' # {}
  <2>1. guard' \in {"ok", "freed"}
    BY Zenon DEF Next, Throw, Handle, UncaughtException, Record, Write, Flush, KillProcess,
       FinishAllActivities, Iterate, Release, OnActivityCreated, OnActivityResumed,
       OnActivityPaused, OnActivityDestroyed, Move, vars
  <2>2. act' \in [Activity -> {"new", "destroyed"} \cup InUse]
    <3>1. ASSUME NEW t \in Thread, Throw(t) \/ Handle(t) PROVE act' = act
      BY <3>1, HandleLeavesActivities
    <3>2. ASSUME NEW a \in Activity, NEW from,
                 NEW to \in {"created", "resumed", "paused", "destroyed"},
                 Move(a, from, to)
          PROVE  act' \in [Activity -> {"new", "destroyed"} \cup InUse]
      BY <3>2 DEF Move, InUse
    <3> QED BY <3>1, <3>2 DEF Next, OnActivityCreated, OnActivityResumed,
              OnActivityPaused, OnActivityDestroyed, vars
  <2> QED BY <1>1, <2>1, <2>2
<1>2. CASE crashed' = {}
  <2>0. crashed = {} /\ handler = "ours" /\ \A t \in Thread \ {Main} : pc[t] = "run"
    BY <1>0, <1>2 DEF ThreadInv
  <2>1. ASSUME NEW t \in Thread, Throw(t) PROVE FALSE
    BY <1>2, <2>0, <2>1 DEF Throw, Uncaught
  <2>2. ASSUME NEW t \in Thread, Handle(t) PROVE GuardInv'
    <3>1. pc[t] # "run" /\ t = Main /\ pc[Main] \in Outside
      BY Zenon, <2>0, <2>2 DEF Handle, UncaughtException, Record, Write, Flush, KillProcess,
         FinishAllActivities, Iterate, Release, Step, ThreadInv
    <3>2. CASE FinishAllActivities(Main)
      BY <1>0, <2>0, <3>1, <3>2 DEF FinishAllActivities, Step, Goto, AllGone
    <3>3. CASE Iterate(Main)
      <4>1. activities' = NoList /\ pc'[Main] = "release" /\ UNCHANGED <<act, guard, alive>>
        BY <1>0, <1>2, <2>0, <3>3 DEF Iterate, Uncaught, Goto
      <4>2. NoList # 0 /\ NoList # 1
        BY DEF NoList
      <4> QED BY <2>0, <3>1, <3>3, <4>1, <4>2 DEF AllGone, Iterate, Step
    <3>4. CASE Release(Main)
      BY <1>0, <2>0, <3>1, <3>4 DEF Release, Step, Guarded, Goto, AfterRelease, AllGone, listVars
    <3> QED BY Zenon, <2>2, <3>1, <3>2, <3>3, <3>4 DEF Handle, UncaughtException, Record, Write,
               Flush, KillProcess, Step, Outside
  <2>3. ASSUME NEW a \in Activity, OnActivityCreated(a) PROVE GuardInv'
    <3>1. /\ act[a] = "new" /\ act' = [act EXCEPT ![a] = "created"]
          /\ guard' = guard /\ pc[Main] = "run"
      BY <2>3 DEF OnActivityCreated, Move
    <3>2. activities # NoList /\ activities' = AddFirst /\ pc' = pc
      BY <1>2, <2>0, <2>3 DEF OnActivityCreated, Uncaught
    <3>3. /\ activities' \in Nat /\ activities' # 0 /\ activities' # NoList
          /\ activities' = 1 => activities = 0
      BY <2>0, <3>2, AddFirstType DEF NoList
    <3> QED BY <2>0, <3>1, <3>2, <3>3 DEF InUse
  <2>4. ASSUME NEW a \in Activity, OnActivityDestroyed(a) PROVE GuardInv'
    <3>1. /\ act[a] \in {"created", "paused"} /\ act' = [act EXCEPT ![a] = "destroyed"]
          /\ guard' = guard /\ pc[Main] = "run" /\ alive
          /\ activities' = activities
          /\ pc' = IF activities = 1 THEN [pc EXCEPT ![Main] = "finish"] ELSE pc
      BY <2>4 DEF OnActivityDestroyed, Move, OnlyOne, Goto, listVars
    <3>2. ~AllGone
      BY <3>1 DEF AllGone, InUse
    <3>3. activities \in Nat /\ activities # 0 /\ guard = "ok"
      BY <2>0, <3>1, <3>2
    <3>4. activities = 1 => AllGone'
      BY <2>0, <3>1 DEF AllGone, InUse
    <3> QED BY <1>0, <2>0, <3>1, <3>2, <3>3, <3>4
  <2>5. ASSUME NEW a \in Activity,
               OnActivityResumed(a) \/ \E c \in BOOLEAN : OnActivityPaused(a, c)
        PROVE  GuardInv'
    <3>1. /\ act[a] \in InUse /\ act'[a] \in InUse /\ act' = [act EXCEPT ![a] = act'[a]]
          /\ alive /\ UNCHANGED <<guard, pc, activities, alive>> /\ pc[Main] = "run"
      BY <2>5 DEF OnActivityResumed, OnActivityPaused, Move, InUse, listVars
    <3>2. ~AllGone
      BY <3>1 DEF AllGone
    <3> QED BY <2>0, <3>1, <3>2 DEF InUse
  <2>6. CASE UNCHANGED vars
    BY <2>0, <2>6 DEF vars, listVars, AllGone
  <2> QED BY Zenon, <2>1, <2>2, <2>3, <2>4, <2>5, <2>6 DEF Next
<1> QED BY <1>1, <1>2

\* onActivityDestroyed releases the guard only when no activity is left,
\* although the list it counts keeps destroyed activities and forgets old
\* ones: for any number of activities, and for any limit above 1
\* (ActivityMonitor.onActivityDestroyed, MAX_ACTIVITY_NUM).
THEOREM GuardWhileInUseHolds == SafetySpec => []GuardWhileInUse
<1>1. Init => GuardInv
  BY JavaAssumption DEF Init, GuardInv, InUse, AllGone, NoList
<1>2. GuardInv => GuardWhileInUse
  BY DEF GuardInv, GuardWhileInUse, AllGone, InUse
<1> QED BY <1>1, <1>2, GuardStep, ThreadInvariant, PTL DEF SafetySpec
=============================================================================
