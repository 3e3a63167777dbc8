---------------------------- MODULE HawkeyeProofs ----------------------------
(***************************************************************************)
(* The safety of the crash daemon for any number of threads, signals,      *)
(* restarts and failing system calls: the context outlives the daemon      *)
(* thread, a failed registration is undone, the threads that were attached *)
(* are released, and while the daemon dumps a living process the threads   *)
(* it dumps stand still; and it implements CrashService.                   *)
(***************************************************************************)
EXTENDS Hawkeye, TLAPS

(* The connections that wait in the backlog of the socket.                 *)

\* connect adds its connection to the waiting ones and nothing else.
LEMMA RangeAppend ==
  ASSUME NEW S, NEW s \in Seq(S), NEW c \in S
  PROVE  /\ Append(s, c) \in Seq(S)
         /\ Range(Append(s, c)) = Range(s) \cup {c}
<1>1. /\ Append(s, c) \in Seq(S)
      /\ DOMAIN Append(s, c) = 1 .. Len(s) + 1
      /\ Append(s, c)[Len(s) + 1] = c
      /\ \A i \in 1 .. Len(s) : Append(s, c)[i] = s[i]
      /\ Len(s) \in Nat
      /\ DOMAIN s = 1 .. Len(s)
  OBVIOUS
<1>2. ASSUME NEW x \in Range(Append(s, c)) PROVE x \in Range(s) \cup {c}
  BY <1>1, <1>2 DEF Range
<1>3. ASSUME NEW x \in Range(s) \cup {c} PROVE x \in Range(Append(s, c))
  <2>1. CASE x = c
    BY <1>1, <2>1 DEF Range
  <2>2. CASE x \in Range(s)
    BY <1>1, <2>2 DEF Range
  <2> QED BY <1>3, <2>1, <2>2
<1> QED BY <1>1, <1>2, <1>3

\* A backlog without repetitions stays one when a new connection is added.
LEMMA InjectiveAppend ==
  ASSUME NEW S, NEW s \in Seq(S), NEW c \in S,
         IsInjective(s), c \notin Range(s)
  PROVE  IsInjective(Append(s, c))
BY DEF IsInjective, Range

\* The empty backlog.
LEMMA RangeEmpty == Range(<<>>) = {} /\ IsInjective(<<>>)
BY DEF Range, IsInjective

\* The groups of steps of Next.
AppStep ==
    \/ Kill \/ Restart \/ InitCore
    \/ \E t \in Thread : ThreadStart(t) \/ ThreadExit(t) \/ Crash(t) \/ Handler(t)
ServiceStep == StartService \/ StopService \/ Join \/ KillMonitor

\* What a step of the application does to the variables of the other side.
LEMMA AppLeavesMonitor ==
    AppStep => UNCHANGED <<ctx, dpc, cur, todo, held, created>>
<1> USE DEF monitorVars, ctxVars, reportVars
<1>1. ASSUME NEW t \in Thread, NEW from, NEW to, HandlerStep(t, from, to)
      PROVE  UNCHANGED <<ctx, dpc, cur, todo, held, created>>
  BY Zenon, <1>1 DEF HandlerStep
<1>2. ASSUME NEW t \in Thread, Handler(t)
      PROVE  UNCHANGED <<ctx, dpc, cur, todo, held, created>>
  <2>1. CASE RestoreHandler(t)  BY Zenon, <2>1, <1>1 DEF RestoreHandler
  <2>2. CASE Connect(t)         BY Zenon, <2>2, <1>1 DEF Connect
  <2>3. CASE Send(t)            BY Zenon, <2>3, <1>1 DEF Send
  <2>4. CASE Recv(t)            BY Zenon, <2>4, <1>1 DEF Recv
  <2>5. CASE HandlerEnds(t)     BY Zenon, <2>5, <1>1 DEF HandlerEnds
  <2>6. CASE Resume(t)          BY Zenon, <2>6, <1>1 DEF Resume
  <2>7. CASE Rethrow(t)         BY Zenon, <2>7 DEF Rethrow
  <2> QED  BY Zenon, <1>2, <2>1, <2>2, <2>3, <2>4, <2>5, <2>6, <2>7 DEF Handler
<1>3. ASSUME NEW t \in Thread, ThreadStart(t) \/ ThreadExit(t) \/ Crash(t)
      PROVE  UNCHANGED <<ctx, dpc, cur, todo, held, created>>
  BY Zenon, <1>3 DEF ThreadStart, ThreadExit, Crash, threadVars
<1>4. Kill \/ Restart \/ InitCore => UNCHANGED <<ctx, dpc, cur, todo, held, created>>
  BY Zenon DEF Kill, Restart, InitCore
<1> QED  BY Zenon, <1>2, <1>3, <1>4 DEF AppStep

LEMMA NextCases == Next => AppStep \/ ServiceStep \/ Daemon
BY Zenon DEF Next, AppStep, ServiceStep
-----------------------------------------------------------------------------
(* The context.                                                            *)

LEMMA ContextStep ==
    ContextOutlivesThread /\ [Next]_vars => ContextOutlivesThread'
<1> SUFFICES ASSUME ContextOutlivesThread, [Next]_vars
             PROVE  ContextOutlivesThread'
  BY Zenon
<1> USE DEF ContextOutlivesThread
<1>1. CASE AppStep  BY Zenon, <1>1, AppLeavesMonitor
<1>2. CASE StartService
  BY Zenon, <1>2 DEF StartService, StartDaemon, ctxVars
<1>3. CASE StopService
  BY Zenon, <1>3 DEF StopService, StopDaemon, FreeContext, ctxVars
<1>4. CASE Join \/ KillMonitor
  BY Zenon, <1>4 DEF Join, KillMonitor, MonitorDies
<1>5. CASE Daemon
  <2>1. CASE Boot  BY Zenon, <2>1 DEF Boot, DaemonStep, ctxVars
  <2>2. CASE Interrupted \/ Accept  BY Zenon, <2>2 DEF Interrupted, Accept, DaemonStep, ctxVars
  <2>3. CASE ReadMessage  BY Zenon, <2>3 DEF ReadMessage, DaemonStep, ctxVars
  <2>4. CASE AttachCrashed  BY Zenon, <2>4 DEF AttachCrashed, DaemonStep, ctxVars
  <2>5. ASSUME NEW t \in Thread, AttachOther(t) PROVE ContextOutlivesThread'
    BY Zenon, <2>5 DEF AttachOther, DaemonStep, ctxVars
  <2>6. CASE ListThreads \/ AttachedAll
    BY Zenon, <2>6 DEF ListThreads, AttachedAll, DaemonStep, ctxVars
  <2>7. CASE Dump  BY Zenon, <2>7 DEF Dump, DaemonStep, MonitorDies
  <2>8. CASE DetachedAll \/ Reply  BY Zenon, <2>8 DEF DetachedAll, Reply, DaemonStep, ctxVars
  <2>9. CASE Callback \/ Close  BY Zenon, <2>9 DEF Callback, Close, DaemonStep, ctxVars
  <2>10. ASSUME NEW t \in Thread, Detach(t) PROVE ContextOutlivesThread'
    BY Zenon, <2>10 DEF Detach, DaemonStep, ctxVars
  <2> QED  BY Zenon, <1>5, <2>1, <2>2, <2>3, <2>4, <2>5, <2>6, <2>7, <2>8, <2>9, <2>10 DEF Daemon
<1>6. CASE UNCHANGED vars  BY Zenon, <1>6 DEF vars, ctxVars
<1> QED  BY Zenon, <1>1, <1>2, <1>3, <1>4, <1>5, <1>6, NextCases DEF ServiceStep

\* The daemon_context exists as long as a daemon thread may use it, however
\* StartDaemon, StopDaemon and the thread interleave (hawkeye_daemon.cpp:318).
THEOREM ContextOutlivesThreadHolds == SafetySpec => []ContextOutlivesThread
<1>1. Init => ContextOutlivesThread  BY Zenon DEF Init, ContextOutlivesThread
<1> QED  BY <1>1, ContextStep, PTL DEF SafetySpec
-----------------------------------------------------------------------------
(* The signal handlers.                                                    *)

\* What InitCore saves of a signal that is not SIG_DFL is never our own handler.
DispInv ==
    /\ disp \in [Sig -> {"old", "ours"}]
    /\ \A s \in Sig \ OldDfl : saved[s] = "old"
    /\ saved \in [Sig -> {"old", "ours"}]
    /\ FailedInitRestores

\* The service and the daemon belong to another process.
LEMMA MonitorLeavesApp == ServiceStep \/ Daemon => UNCHANGED appVars
<1>1. StartService \/ StopService => UNCHANGED appVars  BY Zenon DEF StartService, StopService
<1>2. Join \/ KillMonitor => UNCHANGED appVars  BY Zenon DEF Join, KillMonitor, MonitorDies
<1>3. ASSUME NEW from, NEW to, DaemonStep(from, to) PROVE UNCHANGED appVars
  BY Zenon, <1>3 DEF DaemonStep
<1>4. ASSUME Daemon PROVE UNCHANGED appVars
  <2>1. CASE Boot \/ Interrupted \/ Accept
    BY Zenon, <2>1, <1>3 DEF Boot, Interrupted, Accept
  <2>2. CASE ReadMessage \/ AttachCrashed
    BY Zenon, <2>2, <1>3 DEF ReadMessage, AttachCrashed
  <2>3. ASSUME NEW t \in Thread, AttachOther(t) \/ Detach(t) PROVE UNCHANGED appVars
    BY Zenon, <2>3, <1>3 DEF AttachOther, Detach
  <2>4. CASE ListThreads \/ AttachedAll \/ Dump
    BY Zenon, <2>4, <1>3 DEF ListThreads, AttachedAll, Dump, MonitorDies
  <2>5. CASE DetachedAll \/ Reply \/ Callback \/ Close
    BY Zenon, <2>5, <1>3 DEF DetachedAll, Reply, Callback, Close
  <2> QED  BY Zenon, <1>4, <2>1, <2>2, <2>3, <2>4, <2>5 DEF Daemon
<1> QED  BY Zenon, <1>1, <1>2, <1>4 DEF ServiceStep

LEMMA DispStep == DispInv /\ [Next]_vars => DispInv'
<1> SUFFICES ASSUME DispInv, [Next]_vars PROVE DispInv'
  OBVIOUS
<1> USE DEF DispInv, FailedInitRestores
<1>1. ASSUME UNCHANGED <<core, saved, disp>> PROVE DispInv'
  BY Zenon, <1>1
<1>2. CASE ServiceStep \/ Daemon  BY Zenon, <1>1, <1>2, MonitorLeavesApp DEF appVars
<1>3. CASE Kill  BY Zenon, <1>1, <1>3 DEF Kill, Die
<1>4. CASE Restart  BY Zenon, <1>4 DEF Restart, OldHandlers
<1>5. CASE InitCore
  BY Zenon, <1>5 DEF InitCore, RegisterSignalHandler, UnregisterSignalHandler
<1>6. ASSUME NEW t \in Thread, ThreadStart(t) \/ ThreadExit(t) PROVE DispInv'
  BY Zenon, <1>1, <1>6 DEF ThreadStart, ThreadExit, threadVars
<1>7. ASSUME NEW t \in Thread, Crash(t) PROVE DispInv'
  BY Zenon, <1>1, <1>7 DEF Crash, Deliver, Die
<1>8. ASSUME NEW t \in Thread, Handler(t) PROVE DispInv'
  <2>1. CASE RestoreHandler(t)
    <3>1. /\ disp' = [disp EXCEPT ![sig[t].no] = saved[sig[t].no]]
          /\ UNCHANGED <<core, saved>>
      BY Zenon, <2>1 DEF RestoreHandler, HandlerStep
    <3> QED BY Zenon, <3>1
  <2>2. CASE Connect(t)         BY Zenon, <1>1, <2>2 DEF Connect, HandlerStep
  <2>3. CASE Send(t)            BY Zenon, <1>1, <2>3 DEF Send, HandlerStep
  <2>4. CASE Recv(t)            BY Zenon, <1>1, <2>4 DEF Recv, HandlerStep
  <2>5. CASE HandlerEnds(t)     BY Zenon, <1>1, <2>5 DEF HandlerEnds, HandlerStep
  <2>6. CASE Resume(t)          BY Zenon, <1>1, <2>6 DEF Resume, HandlerStep
  <2>7. CASE Rethrow(t)         BY Zenon, <1>1, <2>7 DEF Rethrow, Deliver, Die
  <2> QED  BY Zenon, <1>8, <2>1, <2>2, <2>3, <2>4, <2>5, <2>6, <2>7 DEF Handler
<1>9. CASE UNCHANGED vars  BY Zenon, <1>1, <1>9 DEF vars, appVars
<1> QED  BY Zenon, <1>2, <1>3, <1>4, <1>5, <1>6, <1>7, <1>8, <1>9, NextCases DEF AppStep

\* After a registration that failed half way no signal that had a handler of
\* its own is left with ours, whose context is gone (hawkeye_core.cpp:50).
THEOREM FailedInitRestoresHolds == SafetySpec => []FailedInitRestores
<1>1. Init => DispInv
  BY Zenon DEF Init, InitApp, OldHandlers, DispInv, FailedInitRestores
<1>2. DispInv => FailedInitRestores  BY Zenon DEF DispInv
<1> QED  BY <1>1, <1>2, DispStep, PTL DEF SafetySpec
-----------------------------------------------------------------------------
(* Attached threads.                                                       *)

Reporting == {"list", "threads", "dump", "detach"}

\* Every stopped thread is one the daemon will detach, or was lost by a waitpid
\* or a detach that failed; there are none of a process that has ended.
TraceInv ==
    /\ leaked \subseteq traced
    /\ ~alive => traced = {}
    /\ dpc \notin Reporting => traced \subseteq leaked
    /\ dpc \in {"list", "threads", "dump"} => traced \subseteq leaked \cup held \cup {cur[2]}
    /\ dpc = "detach" => traced \subseteq leaked \cup todo
    /\ dpc \in Reporting /\ cur[1] # life => traced = {}

LEMMA TraceApp == TraceInv /\ AppStep => TraceInv'
<1> SUFFICES ASSUME TraceInv, AppStep PROVE TraceInv'
  BY Zenon
<1>0. UNCHANGED <<dpc, cur, todo, held>>  BY Zenon, AppLeavesMonitor
<1>1. ASSUME UNCHANGED <<traced, leaked, alive, life>> PROVE TraceInv'
  BY Zenon, <1>0, <1>1 DEF TraceInv
<1>2. ASSUME traced' = {}, leaked' = {} PROVE TraceInv'
  BY Zenon, <1>2 DEF TraceInv
<1>3. CASE Kill  BY Zenon, <1>2, <1>3 DEF Kill, Die
<1>4. CASE Restart
  <2>1. traced' = {} /\ leaked' = {}  BY Zenon, <1>4 DEF TraceInv, Restart, traceVars
  <2> QED  BY Zenon, <1>2, <2>1
<1>5. CASE InitCore  BY Zenon, <1>1, <1>5 DEF InitCore, traceVars
<1>6. ASSUME NEW t \in Thread, ThreadStart(t) \/ ThreadExit(t) PROVE TraceInv'
  BY Zenon, <1>1, <1>6 DEF ThreadStart, ThreadExit, threadVars
<1>7. ASSUME NEW t \in Thread, NEW s, Deliver(t, s) PROVE TraceInv'
  BY Zenon, <1>1, <1>2, <1>7 DEF Deliver, Die, traceVars
<1>8. ASSUME NEW t \in Thread, Crash(t) PROVE TraceInv'
  BY Zenon, <1>7, <1>8 DEF Crash
<1>9. ASSUME NEW t \in Thread, NEW from, NEW to, HandlerStep(t, from, to) PROVE TraceInv'
  BY Zenon, <1>1, <1>9 DEF HandlerStep, traceVars
<1>10. ASSUME NEW t \in Thread, Handler(t) PROVE TraceInv'
  BY Zenon, <1>7, <1>9, <1>10 DEF Handler, RestoreHandler, Connect, Send, Recv, HandlerEnds,
                           Resume, Rethrow
<1> QED  BY Zenon, <1>3, <1>4, <1>5, <1>6, <1>8, <1>10 DEF AppStep

\* A daemon thread is only started when there is none: this needs the context.
LEMMA TraceService == ContextOutlivesThread /\ TraceInv /\ ServiceStep => TraceInv'
<1> SUFFICES ASSUME ContextOutlivesThread, TraceInv, ServiceStep PROVE TraceInv'
  BY Zenon
<1>0. UNCHANGED <<alive, life>>  BY Zenon, MonitorLeavesApp DEF appVars
<1>1. ASSUME UNCHANGED <<traced, leaked>>, dpc \notin Reporting, dpc' \notin Reporting
      PROVE  TraceInv'
  BY Zenon, <1>0, <1>1 DEF TraceInv, Reporting
<1>2. ASSUME UNCHANGED <<traced, leaked, dpc, cur, todo, held>> PROVE TraceInv'
  BY Zenon, <1>0, <1>2 DEF TraceInv
<1>3. ASSUME MonitorDies PROVE TraceInv'
  BY Zenon, <1>3 DEF MonitorDies, TraceInv, Reporting
<1>4. CASE StopService
  BY Zenon, <1>2, <1>4 DEF StopService, traceVars, reportVars
<1>5. CASE StartService
  <2>1. UNCHANGED <<traced, leaked, cur, todo, held>>
    BY Zenon, <1>5 DEF StartService, traceVars, reportVars
  <2>2. UNCHANGED dpc \/ (ctx = "null" /\ dpc' = "boot")
    BY Zenon, <1>5 DEF StartService, StartDaemon
  <2>3. CASE UNCHANGED dpc  BY Zenon, <1>2, <2>1, <2>3
  <2>4. CASE ctx = "null" /\ dpc' = "boot"
    BY Zenon, <1>1, <2>1, <2>4 DEF ContextOutlivesThread, Reporting
  <2> QED  BY Zenon, <2>2, <2>3, <2>4
<1>6. CASE Join
  <2>1. CASE guard = "unmapped"  BY Zenon, <1>3, <1>6, <2>1 DEF Join
  <2>2. CASE guard # "unmapped"
    BY Zenon, <1>1, <1>6, <2>2 DEF Join, traceVars, Reporting
  <2> QED  BY Zenon, <2>1, <2>2
<1>7. CASE KillMonitor  BY Zenon, <1>3, <1>7 DEF KillMonitor
<1> QED  BY Zenon, <1>4, <1>5, <1>6, <1>7 DEF ServiceStep

LEMMA TraceAttach ==
    ASSUME TraceInv, NEW t, NEW ok \in BOOLEAN, PtraceAttach(t, ok),
           UNCHANGED <<alive, life>>
    PROVE  /\ leaked' \subseteq traced'
           /\ ~alive' => traced' = {}
           /\ traced \subseteq traced'
           /\ traced' \ traced \subseteq IF ok THEN {t} ELSE leaked'
           /\ leaked \subseteq leaked'
           /\ ok => leaked' = leaked /\ t \in traced'
           /\ ok \/ traced' # traced => cur[1] = life /\ alive
BY Zenon DEF PtraceAttach, Attachable, TraceInv

LEMMA TraceDaemon == TraceInv /\ Daemon => TraceInv'
<1> SUFFICES ASSUME TraceInv, Daemon PROVE TraceInv'
  OBVIOUS
<1>0. UNCHANGED <<alive, life>>  BY Zenon, MonitorLeavesApp DEF appVars
<1>1. ASSUME UNCHANGED <<traced, leaked>>, dpc \notin Reporting, dpc' \notin Reporting
      PROVE  TraceInv'
  BY Zenon, <1>0, <1>1 DEF TraceInv, Reporting
<1>2. ASSUME UNCHANGED <<traced, leaked, cur, held>>,
             dpc \in {"list", "threads", "dump"}, dpc' \in {"list", "threads", "dump"}
      PROVE  TraceInv'
  BY Zenon, <1>0, <1>2 DEF TraceInv, Reporting
<1>3. ASSUME traced' = {}, leaked' = {} PROVE TraceInv'
  BY <1>3 DEF TraceInv
<1>4. CASE Boot \/ Interrupted \/ Accept
  BY Zenon, <1>1, <1>4 DEF Boot, Interrupted, Accept, DaemonStep, traceVars, Reporting
<1>5. CASE ReadMessage \/ Reply \/ Callback
  BY Zenon, <1>1, <1>5 DEF ReadMessage, Reply, Callback, DaemonStep, traceVars, Reporting
<1>6. CASE AttachCrashed
  <2>1. PICK ok \in BOOLEAN : /\ DaemonStep("attach", IF ok THEN "list" ELSE "reply")
                              /\ PtraceAttach(cur[2], ok)
    BY Zenon, <1>6 DEF AttachCrashed
  <2>2. /\ dpc \notin Reporting /\ cur' = cur /\ dpc' # "detach"
        /\ IF ok THEN dpc' = "list" ELSE dpc' \notin Reporting
    BY Zenon, <1>6, <2>1 DEF AttachCrashed, DaemonStep, Reporting
  <2>3. traced \subseteq leaked  BY Zenon, <2>2 DEF TraceInv
  <2>4. CASE ok
    BY Zenon, <1>0, <2>1, <2>2, <2>3, <2>4, TraceAttach DEF TraceInv, Reporting
  <2>5. CASE ~ok
    <3>1. dpc' \notin {"list", "threads", "dump"}  BY Zenon, <2>2, <2>5 DEF Reporting
    <3>2. /\ leaked' \subseteq traced' /\ (~alive' => traced' = {})
          /\ traced' \ traced \subseteq IF ok THEN {cur[2]} ELSE leaked'
          /\ leaked \subseteq leaked'
      BY Zenon, <1>0, <2>1, TraceAttach
    <3>3. traced' \ traced \subseteq leaked'  BY Zenon, <2>5, <3>2
    <3>4. traced' \subseteq leaked'  BY Zenon, <2>3, <3>2, <3>3
    <3> QED BY Zenon, <2>2, <2>5, <3>1, <3>2, <3>4 DEF TraceInv
  <2> QED  BY Zenon, <2>4, <2>5
<1>7. ASSUME NEW t \in Thread, AttachOther(t) PROVE TraceInv'
  <2>1. dpc \in Reporting /\ dpc = "threads" /\ dpc' = "threads" /\ cur' = cur
    BY Zenon, <1>7 DEF AttachOther, DaemonStep, Reporting
  <2>2. PICK ok \in BOOLEAN : /\ PtraceAttach(t, ok)
                              /\ held' = IF ok THEN held \cup {t} ELSE held
    BY Zenon, <1>7 DEF AttachOther
  <2>3. cur[1] # life => traced' = {}
    BY Zenon, <1>0, <2>1, <2>2, TraceAttach DEF TraceInv
  <2>4. traced' \subseteq leaked' \cup held' \cup {cur'[2]}
    BY <1>0, <2>1, <2>2, TraceAttach DEF TraceInv
  <2> QED  BY Zenon, <1>0, <2>1, <2>2, <2>3, <2>4, TraceAttach DEF TraceInv, Reporting
<1>8. CASE ListThreads \/ AttachedAll
  BY Zenon, <1>2, <1>8 DEF ListThreads, AttachedAll, DaemonStep, reportVars, traceVars
<1>9. CASE Dump
  <2>1. CASE MonitorDies  BY Zenon, <1>3, <2>1 DEF MonitorDies
  <2>2. CASE ~MonitorDies
    <3>1. /\ dpc = "dump" /\ dpc' = "detach" /\ UNCHANGED <<traced, leaked, cur>>
          /\ todo' = held \cup {cur[2]}
      BY Zenon, <1>9, <2>2 DEF Dump, DaemonStep
    <3>2. dpc \in Reporting /\ traced' \subseteq leaked' \cup todo'
      BY Zenon, <3>1 DEF TraceInv, Reporting
    <3> QED  BY Zenon, <1>0, <3>1, <3>2 DEF TraceInv, Reporting
  <2> QED  BY Zenon, <2>1, <2>2
<1>10. ASSUME NEW t \in Thread, Detach(t) PROVE TraceInv'
  <2>1. /\ dpc = "detach" /\ dpc' = "detach" /\ cur' = cur /\ todo' = todo \ {t}
        /\ IF cur[1] = life THEN PtraceDetach(t) ELSE UNCHANGED <<traced, leaked, faults>>
    BY Zenon, <1>10 DEF Detach, DaemonStep
  <2>2. dpc \in Reporting /\ traced \subseteq leaked \cup todo
    BY Zenon, <2>1 DEF TraceInv, Reporting
  <2>3. CASE cur[1] = life
    BY Zenon, <1>0, <2>1, <2>2, <2>3 DEF PtraceDetach, TraceInv, Reporting
  <2>4. CASE cur[1] # life
    BY Zenon, <1>0, <2>1, <2>2, <2>4 DEF TraceInv, Reporting
  <2> QED  BY Zenon, <2>3, <2>4
<1>12. CASE DetachedAll
  <2>1. dpc = "detach" /\ dpc' = "reply" /\ todo = {} /\ UNCHANGED <<traced, leaked>>
    BY Zenon, <1>12 DEF DetachedAll, DaemonStep, traceVars
  <2>2. traced \subseteq leaked  BY Zenon, <2>1 DEF TraceInv
  <2> QED  BY Zenon, <1>0, <2>1, <2>2 DEF TraceInv, Reporting
<1>11. CASE Close  BY Zenon, <1>3, <1>11 DEF Close
<1> QED  BY Zenon, <1>4, <1>5, <1>6, <1>7, <1>8, <1>9, <1>10, <1>11, <1>12 DEF Daemon

\* Between reports every thread runs, except one that waitpid failed for after
\* its attach, or that could not be detached: the other threads a report has
\* stopped are all let go, whatever failed or died in between
\* (hawkeye_daemon.cpp:117-125).
THEOREM ThreadsReleasedHolds == SafetySpec => []ThreadsReleased
<1> DEFINE Inv == ContextOutlivesThread /\ TraceInv
<1>1. Init => Inv
  BY Zenon DEF Init, InitApp, ContextOutlivesThread, TraceInv, Reporting
<1>2. Inv /\ [Next]_vars => Inv'
  <2> SUFFICES ASSUME Inv, [Next]_vars PROVE TraceInv'
    BY Zenon, ContextStep
  <2>1. CASE Next  BY Zenon, <2>1, NextCases, TraceApp, TraceService, TraceDaemon
  <2>2. CASE UNCHANGED vars
    BY Zenon, <2>2 DEF vars, TraceInv, traceVars, reportVars, appVars
  <2> QED  BY Zenon, <2>1, <2>2
<1>3. Inv => ThreadsReleased
  BY Zenon DEF TraceInv, ThreadsReleased, Reporting
<1> QED  BY <1>1, <1>2, <1>3, PTL DEF SafetySpec
-----------------------------------------------------------------------------
(* The dump: the threads of a living process stand still.                 *)

ThreadPC == HandlerPC \cup {"run", "gone"}

\* Where a client is being served.
Client == {"read", "attach", "list", "threads", "dump", "detach", "reply", "call"}

\* Nobody has connected from a life that is still to come.
WaitInv ==
    /\ life \in 1..MaxLife
    /\ st \in [Thread -> ThreadPC]
    /\ conns \in [Thread -> 0..MaxConn]
    /\ queue \in Seq(Conn)
    /\ \A i \in 1..Len(queue) : queue[i][1] <= life
    /\ dpc \in Client => cur \in Conn /\ cur[1] <= life

\* From the attach of the crashed thread to the end of the dump the threads of
\* the report stand still; once the tasks are read every thread is stopped, has
\* ended, is missed, or is still to be attached.
FrozenInv ==
    /\ dpc \in {"list", "threads", "dump"} /\ alive /\ cur[1] = life
       => held \cup {cur[2]} \subseteq traced
    /\ dpc \in {"threads", "dump"} /\ alive /\ cur[1] = life
       => \A t \in Thread \ {Main} :
             t \in traced \/ st[t] = "gone" \/ t \in missed \/ t \in todo
    /\ dpc = "dump" => todo = {}
-----------------------------------------------------------------------------
(* The application.                                                        *)

\* What a step of the application may do to a thread: nothing when it is
\* stopped; and, as long as the process lives on, one that has ended starts
\* again only to be missed.
StandsStill ==
    /\ UNCHANGED <<life, alive, traced>>
    /\ missed \subseteq missed'
    /\ \A u \in Thread : st[u] = "gone" =>
          st'[u] = "gone" \/ (dpc \in {"threads", "dump"} => u \in missed')

LEMMA HandlerStands ==
    ASSUME WaitInv, NEW t \in Thread, NEW from, NEW to \in ThreadPC,
           from # "gone", HandlerStep(t, from, to)
    PROVE  st' \in [Thread -> ThreadPC] /\ StandsStill
BY Zenon DEF WaitInv, HandlerStep, Running, StandsStill, traceVars

LEMMA DeliverStands ==
    ASSUME WaitInv, NEW t \in Thread, NEW s, t \notin traced, st[t] # "gone",
           Deliver(t, s)
    PROVE  /\ st' \in [Thread -> ThreadPC]
           /\ UNCHANGED life
           /\ ~alive' \/ StandsStill
BY Zenon DEF WaitInv, Deliver, Die, StandsStill, ThreadPC, HandlerPC, traceVars

LEMMA AppStands ==
    ASSUME WaitInv, AppStep
    PROVE  /\ st' \in [Thread -> ThreadPC]
           /\ \/ ~alive' /\ UNCHANGED life
              \/ life < MaxLife /\ life' = life + 1
              \/ StandsStill
<1> DEFINE Goal == /\ st' \in [Thread -> ThreadPC]
                   /\ \/ ~alive' /\ UNCHANGED life
                      \/ life < MaxLife /\ life' = life + 1
                      \/ StandsStill
<1>1. CASE Kill  BY Zenon, <1>1 DEF Kill, Die, ThreadPC
<1>2. CASE Restart
  <2>1. FirstThread \in [Thread -> ThreadPC]  BY Zenon DEF FirstThread, ThreadPC
  <2> QED BY Zenon, <1>2, <2>1 DEF Restart
<1>3. CASE InitCore  BY Zenon, <1>3 DEF InitCore, WaitInv, StandsStill, traceVars
<1>4. ASSUME NEW t \in Thread, ThreadExit(t) PROVE Goal
  BY Zenon, <1>4 DEF ThreadExit, WaitInv, Running, StandsStill, ThreadPC, threadVars
<1>7. ASSUME NEW t \in Thread, ThreadStart(t) PROVE Goal
  <2>1. /\ st' = [st EXCEPT ![t] = "run"] /\ UNCHANGED <<life, alive, traced>>
        /\ missed' = IF dpc \in {"threads", "dump"} THEN missed \cup {t} ELSE missed
    BY Zenon, <1>7 DEF ThreadStart, threadVars
  <2>2. st' \in [Thread -> ThreadPC]  BY Zenon, <2>1 DEF WaitInv, ThreadPC
  <2>3. ASSUME NEW u \in Thread, u # t PROVE st'[u] = st[u]
    BY Zenon, <2>1, <2>3 DEF WaitInv
  <2>4. missed \subseteq missed' /\ (dpc \in {"threads", "dump"} => t \in missed')
    BY Zenon, <2>1
  <2> QED BY Zenon, <2>1, <2>2, <2>3, <2>4 DEF StandsStill
<1>5. ASSUME NEW t \in Thread, Crash(t) PROVE Goal
  <2>1. t \notin traced /\ st[t] # "gone"  BY Zenon, <1>5 DEF Crash, Running
  <2> QED  BY Zenon, <1>5, <2>1, DeliverStands DEF Crash, StandsStill
<1>6. ASSUME NEW t \in Thread, Handler(t) PROVE Goal
  <2>0. {"connect", "send", "recv", "out", "return", "rethrow", "run"} \subseteq ThreadPC
    BY Zenon DEF ThreadPC, HandlerPC
  <2>1. CASE RestoreHandler(t)  BY Zenon, <2>0, <2>1, HandlerStands DEF RestoreHandler
  <2>2. CASE Connect(t)         BY Zenon, <2>0, <2>2, HandlerStands DEF Connect
  <2>3. CASE Send(t)            BY Zenon, <2>0, <2>3, HandlerStands DEF Send
  <2>4. CASE Recv(t)            BY Zenon, <2>0, <2>4, HandlerStands DEF Recv
  <2>5. CASE HandlerEnds(t)     BY Zenon, <2>0, <2>5, HandlerStands DEF HandlerEnds
  <2>6. CASE Resume(t)          BY Zenon, <2>0, <2>6, HandlerStands DEF Resume
  <2>7. CASE Rethrow(t)
    <3>1. t \notin traced /\ st[t] # "gone"  BY Zenon, <2>7 DEF Rethrow, Running
    <3> QED  BY Zenon, <2>7, <3>1, DeliverStands DEF Rethrow
  <2> QED  BY Zenon, <1>6, <2>1, <2>2, <2>3, <2>4, <2>5, <2>6, <2>7 DEF Handler
<1> QED  BY Zenon, <1>1, <1>2, <1>3, <1>4, <1>5, <1>6, <1>7 DEF AppStep

\* What the application does to the connections: nothing, or it is started
\* again, or a thread makes its next one.
LEMMA AppConnects ==
    ASSUME WaitInv, AppStep
    PROVE  \/ UNCHANGED <<queue, hung, life, conns>>
           \/ Restart
           \/ \E t \in Thread : /\ UNCHANGED <<hung, life>> /\ conns[t] < MaxConn
                                /\ conns' = [conns EXCEPT ![t] = @ + 1]
                                /\ queue' = Append(queue, <<life, t, conns[t] + 1>>)
<1> USE DEF monitorVars, listenVars, sockVars
<1> DEFINE Nothing == UNCHANGED <<queue, hung, life, conns>>
<1>1. ASSUME Kill \/ InitCore PROVE Nothing
  BY Zenon, <1>1 DEF Kill, Die, InitCore
<1>2. ASSUME NEW t \in Thread, ThreadStart(t) \/ ThreadExit(t) PROVE Nothing
  BY Zenon, <1>2 DEF ThreadStart, ThreadExit, threadVars
<1>3. ASSUME NEW t \in Thread, Crash(t) \/ Rethrow(t) PROVE Nothing
  BY Zenon, <1>3 DEF Crash, Rethrow, Deliver, Die
<1>4. ASSUME NEW t \in Thread,
             RestoreHandler(t) \/ Send(t) \/ Recv(t) \/ HandlerEnds(t) \/ Resume(t)
      PROVE  Nothing
  BY Zenon, <1>4 DEF RestoreHandler, Send, Recv, HandlerEnds, Resume, HandlerStep
<1>5. ASSUME NEW t \in Thread, Connect(t)
      PROVE  \/ Nothing
             \/ /\ UNCHANGED <<hung, life>> /\ conns[t] < MaxConn
                /\ conns' = [conns EXCEPT ![t] = @ + 1]
                /\ queue' = Append(queue, <<life, t, conns[t] + 1>>)
  <2>1. CASE UNCHANGED <<queue, conns>>
    BY Zenon, <1>5, <2>1 DEF Connect, HandlerStep
  <2>2. CASE /\ conns[t] < MaxConn /\ conns' = [conns EXCEPT ![t] = @ + 1]
             /\ queue' = Append(queue, Mine(t)')
    <3>1. conns'[t] = conns[t] + 1  BY Zenon, <2>2 DEF WaitInv
    <3> QED BY Zenon, <1>5, <2>2, <3>1 DEF Connect, HandlerStep, Mine
  <2> QED BY Zenon, <1>5, <2>1, <2>2 DEF Connect
<1> HIDE DEF Nothing
<1>6. Nothing \/ Restart \/ \E t \in Thread : Connect(t)
  BY Zenon, <1>1, <1>2, <1>3, <1>4 DEF AppStep, Handler
<1> QED BY Zenon, <1>5, <1>6 DEF Nothing

LEMMA ConnNumbers ==
    /\ MaxLife \in Nat /\ MaxConn \in Nat
    /\ \A c \in Conn : c[1] \in 1 .. MaxLife /\ c[2] \in Thread /\ c[3] \in 1 .. MaxConn
BY Zenon, BoundAssumption DEF Conn

\* The connection that a thread makes next.
LEMMA NextConn ==
  ASSUME WaitInv, NEW t \in Thread, conns[t] < MaxConn
  PROVE  /\ <<life, t, conns[t] + 1>> \in Conn
         /\ <<life, t, conns[t] + 1>>[1] = life
         /\ <<life, t, conns[t] + 1>>[2] = t
         /\ <<life, t, conns[t] + 1>>[3] = conns[t] + 1
         /\ conns[t] \in Nat /\ life \in Nat
<1>1. conns[t] \in 0 .. MaxConn /\ life \in 1 .. MaxLife  BY Zenon DEF WaitInv
<1>2. conns[t] + 1 \in 1 .. MaxConn /\ conns[t] \in Nat /\ life \in Nat
  BY <1>1, ConnNumbers
<1> DEFINE k == conns[t] + 1
<1>3. k \in 1 .. MaxConn  BY Zenon, <1>2
<1> HIDE DEF k
<1>4. <<life, t, k>> \in Conn  BY Zenon, <1>1, <1>3 DEF Conn
<1>5. <<life, t, k>>[1] = life /\ <<life, t, k>>[2] = t /\ <<life, t, k>>[3] = k
  OBVIOUS
<1> QED BY Zenon, <1>2, <1>4, <1>5 DEF k

\* Nobody has connected when the application is started first.
LEMMA InitWait == Init => WaitInv
<1> SUFFICES ASSUME Init PROVE WaitInv
  BY Zenon
<1>1. FirstThread \in [Thread -> ThreadPC]  BY Zenon DEF FirstThread, ThreadPC
<1>2. 0 \in 0 .. MaxConn /\ 1 \in 1 .. MaxLife  BY BoundAssumption
<1>3. /\ life = 1 /\ st = FirstThread /\ conns = [t \in Thread |-> 0]
      /\ queue = <<>> /\ dpc = "none"
  BY Zenon DEF Init, InitApp
<1>4. queue \in Seq(Conn) /\ 1 .. Len(queue) = {}  BY <1>3
<1>5. dpc \notin Client  BY Zenon, <1>3 DEF Client
<1>6. conns \in [Thread -> 0 .. MaxConn]  BY Zenon, <1>2, <1>3
<1> QED BY Zenon, <1>1, <1>2, <1>3, <1>4, <1>5, <1>6 DEF WaitInv

LEMMA WaitApp == WaitInv /\ AppStep => WaitInv'
<1> SUFFICES ASSUME WaitInv, AppStep PROVE WaitInv'
  OBVIOUS
<1>1. st' \in [Thread -> ThreadPC]  BY Zenon, AppStands
<1>2. life' \in 1..MaxLife /\ life <= life'
  BY AppStands, BoundAssumption DEF WaitInv, StandsStill
<1>3. UNCHANGED <<dpc, cur>>  BY Zenon, AppLeavesMonitor
<1>4. queue' \in Seq(Conn) /\ \A i \in 1..Len(queue') : queue'[i][1] <= life'
  <2>1. CASE UNCHANGED queue
    <3>1. \A i \in 1..Len(queue) : queue[i] \in Conn  BY DEF WaitInv
    <3>2. \A c \in Conn : c[1] \in Int  BY ConnNumbers
    <3> QED  BY <1>2, <2>1, <3>1, <3>2 DEF WaitInv
  <2>2. ASSUME NEW t \in Thread, UNCHANGED life, conns[t] < MaxConn,
               queue' = Append(queue, <<life, t, conns[t] + 1>>)
        PROVE  queue' \in Seq(Conn) /\ \A i \in 1..Len(queue') : queue'[i][1] <= life'
    <3> DEFINE n == <<life, t, conns[t] + 1>>
    <3>1. n \in Conn /\ n[1] = life /\ life \in Nat  BY Zenon, <2>2, NextConn
    <3>2. queue' = Append(queue, n)  BY Zenon, <2>2
    <3> HIDE DEF n
    <3>3. queue \in Seq(Conn) /\ \A i \in 1..Len(queue) : queue[i][1] <= life
      BY Zenon DEF WaitInv
    <3>4. /\ Append(queue, n) \in Seq(Conn) /\ Len(Append(queue, n)) = Len(queue) + 1
          /\ Len(queue) \in Nat /\ Append(queue, n)[Len(queue) + 1] = n
          /\ \A i \in 1..Len(queue) : Append(queue, n)[i] = queue[i]
      BY <3>1, <3>3
    <3>5. ASSUME NEW i \in 1..Len(queue) + 1 PROVE Append(queue, n)[i][1] <= life
      <4>1. CASE i = Len(queue) + 1
        <5>1. life <= life  BY <3>1
        <5> QED  BY Zenon, <3>1, <3>4, <4>1, <5>1
      <4>2. CASE i # Len(queue) + 1
        <5>1. i \in 1..Len(queue)  BY <3>4, <3>5, <4>2
        <5> QED  BY Zenon, <3>3, <3>4, <5>1
      <4> QED  BY Zenon, <4>1, <4>2
    <3> QED  BY Zenon, <2>2, <3>2, <3>4, <3>5
  <2>3. Restart => UNCHANGED queue  BY Zenon DEF Restart, monitorVars, listenVars
  <2> QED  BY Zenon, <2>1, <2>2, <2>3, AppConnects
<1>5. dpc' \in Client => cur' \in Conn /\ cur'[1] <= life'
  <2>1. \A c \in Conn : c[1] \in Int  BY ConnNumbers
  <2> QED  BY <1>2, <1>3, <2>1 DEF WaitInv
<1>6. conns' \in [Thread -> 0..MaxConn]
  <2>1. CASE UNCHANGED conns  BY Zenon, <2>1 DEF WaitInv
  <2>2. CASE Restart
    <3>1. 0 \in 0..MaxConn  BY BoundAssumption
    <3> QED  BY Zenon, <2>2, <3>1 DEF Restart
  <2>3. ASSUME NEW t \in Thread, conns[t] < MaxConn, conns' = [conns EXCEPT ![t] = @ + 1]
        PROVE  conns' \in [Thread -> 0..MaxConn]
    <3>1. conns[t] \in 0..MaxConn  BY Zenon DEF WaitInv
    <3>2. conns[t] + 1 \in 0..MaxConn  BY <2>3, <3>1, BoundAssumption
    <3> QED  BY Zenon, <2>3, <3>2 DEF WaitInv
  <2> QED  BY Zenon, <2>1, <2>2, <2>3, AppConnects
<1> QED  BY Zenon, <1>1, <1>2, <1>4, <1>5, <1>6 DEF WaitInv

LEMMA FrozenApp == WaitInv /\ FrozenInv /\ AppStep => FrozenInv'
<1> SUFFICES ASSUME WaitInv, FrozenInv, AppStep PROVE FrozenInv'
  BY Zenon
<1>1. UNCHANGED <<dpc, cur, todo, held>>  BY Zenon, AppLeavesMonitor
<1>2. CASE ~alive'  BY Zenon, <1>1, <1>2 DEF FrozenInv
<1>3. CASE life' = life + 1
  <2>1. dpc' \in {"list", "threads", "dump"} => cur'[1] # life'
    <3>1. \A c \in Conn : c[1] \in Int  BY ConnNumbers
    <3>2. dpc \in {"list", "threads", "dump"} => cur \in Conn /\ cur[1] <= life
      BY Zenon DEF WaitInv, Client
    <3>3. life \in Int  BY DEF WaitInv
    <3> QED  BY <1>1, <1>3, <3>1, <3>2, <3>3
  <2> QED  BY Zenon, <1>1, <2>1 DEF FrozenInv
<1>4. CASE StandsStill
  <2>1. ASSUME dpc \in {"threads", "dump"}, alive, cur[1] = life,
               NEW t \in Thread \ {Main}
        PROVE  t \in traced' \/ st'[t] = "gone" \/ t \in missed' \/ t \in todo'
    BY Zenon, <1>1, <1>4, <2>1 DEF FrozenInv, StandsStill
  <2> QED  BY Zenon, <1>1, <1>4, <2>1 DEF FrozenInv, StandsStill
<1> QED  BY Zenon, <1>2, <1>3, <1>4, AppStands
-----------------------------------------------------------------------------
(* The service and the daemon.                                             *)

\* The queue is emptied or left alone; the client is kept or dropped.
LEMMA WaitService == WaitInv /\ ServiceStep => WaitInv'
<1> SUFFICES ASSUME WaitInv, ServiceStep PROVE WaitInv'
  OBVIOUS
<1>0. UNCHANGED <<life, st, conns>>  BY Zenon, MonitorLeavesApp DEF appVars
<1>1. ASSUME queue' = <<>>, dpc' \notin Client PROVE WaitInv'
  BY <1>0, <1>1 DEF WaitInv
<1>2. ASSUME UNCHANGED <<queue, cur>>, dpc' = dpc \/ dpc' \notin Client PROVE WaitInv'
  BY Zenon, <1>0, <1>2 DEF WaitInv
<1>3. CASE StartService
  BY Zenon, <1>2, <1>3 DEF StartService, StartDaemon, listenVars, reportVars, Client
<1>4. CASE StopService
  BY Zenon, <1>2, <1>4 DEF StopService, listenVars, reportVars
<1>5. ASSUME MonitorDies PROVE WaitInv'
  BY Zenon, <1>1, <1>5 DEF MonitorDies, Client
<1>6. CASE Join
  BY Zenon, <1>2, <1>5, <1>6 DEF Join, listenVars, reportVars, Client
<1>7. CASE KillMonitor  BY Zenon, <1>5, <1>7 DEF KillMonitor
<1> QED  BY Zenon, <1>3, <1>4, <1>6, <1>7 DEF ServiceStep

LEMMA WaitDaemon == WaitInv /\ Daemon => WaitInv'
<1> SUFFICES ASSUME WaitInv, Daemon PROVE WaitInv'
  OBVIOUS
<1>0. UNCHANGED <<life, st, conns>>  BY Zenon, MonitorLeavesApp DEF appVars
<1>1. ASSUME queue' = <<>>, dpc' \notin Client PROVE WaitInv'
  BY <1>0, <1>1 DEF WaitInv
<1>2. ASSUME UNCHANGED queue, dpc' \notin Client PROVE WaitInv'
  BY Zenon, <1>0, <1>2 DEF WaitInv
<1>3. ASSUME UNCHANGED <<queue, cur>>, dpc \in Client PROVE WaitInv'
  BY Zenon, <1>0, <1>3 DEF WaitInv
<1>4. CASE Boot \/ Interrupted
  BY Zenon, <1>2, <1>4 DEF Boot, Interrupted, DaemonStep, listenVars, Client
<1>5. CASE Accept
  <2>1. queue # <<>> /\ cur' = Head(queue) /\ queue' = Tail(queue)
    BY Zenon, <1>5 DEF Accept
  <2>2. Len(queue) \in Nat /\ 1 \in 1..Len(queue) /\ cur' = queue[1]
    BY <2>1 DEF WaitInv
  <2>3. /\ Tail(queue) \in Seq(Conn) /\ Len(Tail(queue)) = Len(queue) - 1
        /\ \A i \in 1..Len(Tail(queue)) : Tail(queue)[i] = queue[i + 1]
    BY <2>1 DEF WaitInv
  <2>4. \A i \in 1..Len(queue') : queue'[i][1] <= life'
    BY <1>0, <2>1, <2>2, <2>3 DEF WaitInv
  <2>5. cur' \in Conn /\ cur'[1] <= life'
    BY <1>0, <2>2 DEF WaitInv
  <2> QED  BY Zenon, <1>0, <2>1, <2>3, <2>4, <2>5 DEF WaitInv
<1>6. CASE ReadMessage
  BY Zenon, <1>2, <1>3, <1>6 DEF ReadMessage, DaemonStep, listenVars, reportVars, Client
<1>7. CASE AttachCrashed
  BY Zenon, <1>3, <1>7 DEF AttachCrashed, DaemonStep, listenVars, Client
<1>8. ASSUME NEW t \in Thread, AttachOther(t) \/ Detach(t) PROVE WaitInv'
  BY Zenon, <1>3, <1>8 DEF AttachOther, Detach, DaemonStep, listenVars, Client
<1>9. CASE ListThreads \/ AttachedAll
  BY Zenon, <1>3, <1>9
     DEF ListThreads, AttachedAll, DaemonStep, listenVars, reportVars, Client
<1>10. CASE Dump
  BY Zenon, <1>1, <1>3, <1>10 DEF Dump, DaemonStep, MonitorDies, listenVars, Client
<1>11. CASE DetachedAll
  BY Zenon, <1>3, <1>11 DEF DetachedAll, DaemonStep, listenVars, reportVars, Client
<1>12. CASE Reply
  BY Zenon, <1>2, <1>3, <1>12 DEF Reply, DaemonStep, listenVars, reportVars, Client
<1>13. CASE Callback \/ Close
  BY Zenon, <1>1, <1>2, <1>13 DEF Callback, Close, DaemonStep, listenVars, Client
<1> QED  BY Zenon, <1>4, <1>5, <1>6, <1>7, <1>8, <1>9, <1>10, <1>11, <1>12, <1>13 DEF Daemon

LEMMA FrozenService ==
    ContextOutlivesThread /\ FrozenInv /\ ServiceStep => FrozenInv'
<1> SUFFICES ASSUME ContextOutlivesThread, FrozenInv, ServiceStep PROVE FrozenInv'
  OBVIOUS
<1>0. UNCHANGED <<life, alive, st>>  BY Zenon, MonitorLeavesApp DEF appVars
<1>1. ASSUME dpc' \notin {"list", "threads", "dump"} PROVE FrozenInv'
  BY Zenon, <1>1 DEF FrozenInv
<1>2. ASSUME UNCHANGED <<dpc, cur, todo, held, traced, missed>> PROVE FrozenInv'
  BY Zenon, <1>0, <1>2 DEF FrozenInv
<1>3. CASE StartService
  BY Zenon, <1>1, <1>2, <1>3 DEF StartService, StartDaemon, reportVars, traceVars
<1>4. CASE StopService  BY Zenon, <1>2, <1>4 DEF StopService, reportVars, traceVars
<1>5. CASE Join \/ KillMonitor  BY Zenon, <1>1, <1>5 DEF Join, KillMonitor, MonitorDies
<1> QED  BY Zenon, <1>3, <1>4, <1>5 DEF ServiceStep

LEMMA FrozenDaemon == FrozenInv /\ Daemon => FrozenInv'
<1> SUFFICES ASSUME FrozenInv, Daemon PROVE FrozenInv'
  OBVIOUS
<1>0. UNCHANGED <<life, alive, st>>  BY Zenon, MonitorLeavesApp DEF appVars
<1>1. ASSUME dpc' \notin {"list", "threads", "dump"} PROVE FrozenInv'
  BY Zenon, <1>1 DEF FrozenInv
<1>2. CASE Boot \/ Interrupted \/ Accept \/ ReadMessage
  BY Zenon, <1>1, <1>2 DEF Boot, Interrupted, Accept, ReadMessage, DaemonStep
<1>3. CASE AttachCrashed
  <2>1. PICK ok \in BOOLEAN : /\ DaemonStep("attach", IF ok THEN "list" ELSE "reply")
                              /\ PtraceAttach(cur[2], ok)
    BY Zenon, <1>3 DEF AttachCrashed
  <2>2. cur' = cur /\ held' = {}  BY Zenon, <1>3 DEF AttachCrashed
  <2>3. CASE ok
    <3>1. dpc' = "list" /\ cur[2] \in traced'
      BY Zenon, <2>1, <2>3 DEF DaemonStep, PtraceAttach
    <3> QED  BY Zenon, <2>2, <3>1 DEF FrozenInv
  <2>4. CASE ~ok  BY Zenon, <1>1, <2>1, <2>4 DEF DaemonStep
  <2> QED  BY Zenon, <2>3, <2>4
<1>8. CASE ListThreads
  <2>1. /\ dpc = "list" /\ dpc' = "threads" /\ missed' = Tasks \ todo'
        /\ UNCHANGED <<cur, held, traced>>
    BY Zenon, <1>8 DEF ListThreads, DaemonStep
  <2>2. ASSUME alive, cur[1] = life, NEW t \in Thread \ {Main}
        PROVE  t \in traced' \/ st[t] = "gone" \/ t \in missed' \/ t \in todo'
    BY Zenon, <2>1, <2>2 DEF Tasks
  <2> QED  BY Zenon, <1>0, <2>1, <2>2 DEF FrozenInv
<1>4. ASSUME NEW t \in Thread, AttachOther(t) PROVE FrozenInv'
  <2>1. /\ dpc = "threads" /\ dpc' = "threads" /\ cur' = cur
        /\ todo' = todo \ {t}
        /\ missed' = IF Attachable(t) /\ t \notin traced' THEN missed \cup {t} ELSE missed
    BY Zenon, <1>4 DEF AttachOther, DaemonStep
  <2>2. PICK ok \in BOOLEAN : /\ PtraceAttach(t, ok)
                              /\ held' = IF ok THEN held \cup {t} ELSE held
    BY Zenon, <1>4 DEF AttachOther
  <2>3. traced \subseteq traced' /\ (ok => t \in traced')
    BY Zenon, <2>2 DEF PtraceAttach
  <2>4. held' \subseteq held \cup traced'  BY Zenon, <2>2, <2>3
  <2>5. alive /\ cur[1] = life => t \in traced' \/ st[t] = "gone" \/ t \in missed'
    BY Zenon, <2>1, <2>3 DEF Attachable
  <2>6. missed \subseteq missed'  BY Zenon, <2>1
  <2>7. ASSUME alive, cur[1] = life PROVE held' \cup {cur[2]} \subseteq traced'
    BY Zenon, <2>1, <2>3, <2>4, <2>7 DEF FrozenInv
  <2>8. ASSUME alive, cur[1] = life, NEW u \in Thread \ {Main}
        PROVE  u \in traced' \/ st[u] = "gone" \/ u \in missed' \/ u \in todo'
    <3>1. u \in traced \/ st[u] = "gone" \/ u \in missed \/ u \in todo
      BY Zenon, <2>1, <2>8 DEF FrozenInv
    <3>2. u \in todo => u \in todo' \/ u = t  BY Zenon, <2>1
    <3> QED  BY Zenon, <2>3, <2>5, <2>6, <2>8, <3>1, <3>2
  <2> QED  BY Zenon, <1>0, <2>1, <2>7, <2>8 DEF FrozenInv
<1>5. CASE AttachedAll
  BY Zenon, <1>0, <1>5 DEF AttachedAll, DaemonStep, FrozenInv, reportVars, traceVars
<1>6. CASE Dump  BY Zenon, <1>1, <1>6 DEF Dump, DaemonStep, MonitorDies
<1>7. CASE DetachedAll \/ Reply \/ Callback \/ Close
  BY Zenon, <1>1, <1>7 DEF DetachedAll, Reply, Callback, Close, DaemonStep
<1>9. ASSUME NEW t \in Thread, Detach(t) PROVE FrozenInv'
  BY Zenon, <1>1, <1>9 DEF Detach, DaemonStep
<1> QED  BY Zenon, <1>2, <1>3, <1>4, <1>5, <1>6, <1>7, <1>8, <1>9 DEF Daemon

\* While a living process is dumped the threads the report shows stand still,
\* whoever starts, exits, crashes, is killed or started again meanwhile and
\* whichever attach fails; and so does every other thread but the main one and
\* those the daemon missed (hawkeye_daemon.cpp:59-94).
THEOREM FrozenWhileDumpedHolds == SafetySpec => []FrozenWhileDumped
<1> DEFINE Inv == ContextOutlivesThread /\ WaitInv /\ FrozenInv
<1>1. Init => Inv
  BY Zenon, InitWait DEF Init, ContextOutlivesThread, FrozenInv
<1>2. Inv /\ [Next]_vars => Inv'
  <2> SUFFICES ASSUME Inv, [Next]_vars PROVE WaitInv' /\ FrozenInv'
    BY Zenon, ContextStep
  <2>1. CASE AppStep  BY Zenon, <2>1, WaitApp, FrozenApp
  <2>2. CASE ServiceStep  BY Zenon, <2>2, WaitService, FrozenService
  <2>3. CASE Daemon  BY Zenon, <2>3, WaitDaemon, FrozenDaemon
  <2>4. CASE UNCHANGED vars
    <3>1. UNCHANGED <<life, alive, st, conns, queue, dpc, cur, todo, held, traced, missed>>
      BY Zenon, <2>4 DEF vars, appVars, reportVars, listenVars, traceVars
    <3>2. WaitInv'  BY Zenon, <3>1 DEF WaitInv
    <3>3. FrozenInv'  BY Zenon, <3>1 DEF FrozenInv
    <3> QED  BY Zenon, <3>2, <3>3
  <2> QED  BY Zenon, <2>1, <2>2, <2>3, <2>4, NextCases
<1>3. Inv => FrozenWhileDumped
  BY Zenon DEF FrozenInv, FrozenWhileDumped
<1> QED  BY <1>1, <1>2, <1>3, PTL DEF SafetySpec
-----------------------------------------------------------------------------
(* The daemon implements CrashService.                                     *)

\* A connection is in one place, is closed before the callback, and bears a
\* number its thread has come to.
ConnInv ==
    /\ created \in BOOLEAN
    /\ dpc \in Reporting => created
    /\ dpc \notin Client => cur = NoConn
    /\ IsInjective(queue) /\ cur \notin Range(queue)
    /\ hung \subseteq Conn /\ \A c \in hung : c[1] <= life
    /\ dpc = "call" => cur \in hung \/ cur[1] < life
    /\ \A c \in Conn : c \in Range(queue) \cup {cur} \cup hung /\ c[1] = life
                       => c[3] <= conns[c[2]]

\* So the connection a thread makes next is nowhere yet.
LEMMA NextIsNew ==
  ASSUME WaitInv, ConnInv, NEW t \in Thread, conns[t] < MaxConn
  PROVE  <<life, t, conns[t] + 1>> \notin Range(queue) \cup {cur} \cup hung
<1> DEFINE n == <<life, t, conns[t] + 1>>
<1>1. n \in Conn /\ n[1] = life /\ n[2] = t /\ n[3] = conns[t] + 1 /\ conns[t] \in Nat
  BY Zenon, NextConn
<1> HIDE DEF n
<1>2. ~(n[3] <= conns[n[2]])
  <2>1. ~(conns[t] + 1 <= conns[t])  BY <1>1
  <2> QED BY Zenon, <1>1, <2>1
<1>3. n \notin Range(queue) \cup {cur} \cup hung  BY Zenon, <1>1, <1>2 DEF ConnInv
<1> QED BY Zenon, <1>3 DEF n

\* Everybody who waits has connected in this life or an earlier one.
LEMMA Waiting ==
  ASSUME WaitInv
  PROVE  \A c \in Range(queue) : c \in Conn /\ c[1] <= life
BY DEF WaitInv, Range

LEMMA ConnApp == WaitInv /\ ConnInv /\ AppStep => ConnInv'
<1> SUFFICES ASSUME WaitInv, ConnInv, AppStep PROVE ConnInv'
  BY Zenon
<1>0. UNCHANGED <<dpc, cur, created>>  BY Zenon, AppLeavesMonitor
<1>1. CASE UNCHANGED <<queue, hung, life, conns>>
  BY Zenon, <1>0, <1>1 DEF ConnInv
<1>2. CASE Restart
  <2>1. /\ life' = life + 1 /\ hung' = {} /\ UNCHANGED queue /\ life \in 1 .. MaxLife
    BY Zenon, <1>2 DEF Restart, monitorVars, listenVars, WaitInv
  <2>2. ASSUME NEW c \in Conn, c \in Range(queue) \cup {cur} PROVE c[1] # life'
    <3>1. CASE c \in Range(queue)
      <4>1. c[1] <= life  BY Zenon, <3>1, Waiting
      <4> QED BY <2>1, <4>1, ConnNumbers
    <3>2. CASE c = cur
      <4>1. dpc \in Client  BY Zenon, <3>2, ConnAssumption DEF ConnInv
      <4>2. c[1] <= life  BY Zenon, <3>2, <4>1 DEF WaitInv
      <4> QED BY <2>1, <4>2, ConnNumbers
    <3> QED BY Zenon, <2>2, <3>1, <3>2
  <2>5. dpc = "call" => cur[1] < life'
    <3>1. dpc = "call" => cur \in Conn /\ cur[1] <= life  BY Zenon DEF WaitInv, Client
    <3> QED BY <2>1, <3>1, ConnNumbers
  <2> QED BY Zenon, <1>0, <2>1, <2>2, <2>5 DEF ConnInv
<1>3. ASSUME NEW t \in Thread, UNCHANGED <<hung, life>>, conns[t] < MaxConn,
             conns' = [conns EXCEPT ![t] = @ + 1],
             queue' = Append(queue, <<life, t, conns[t] + 1>>)
      PROVE  ConnInv'
  <2> DEFINE n == <<life, t, conns[t] + 1>>
  <2>1. /\ n \in Conn /\ n[2] = t /\ n[3] = conns[t] + 1 /\ queue \in Seq(Conn)
        /\ conns[t] \in Nat
    BY Zenon, <1>3, NextConn DEF WaitInv
  <2>2. n \notin Range(queue) \cup {cur} \cup hung  BY Zenon, <1>3, NextIsNew
  <2>3. queue' = Append(queue, n)  BY Zenon, <1>3
  <2> HIDE DEF n
  <2>4. Range(queue') = Range(queue) \cup {n} /\ IsInjective(queue')
    <3>1. Range(Append(queue, n)) = Range(queue) \cup {n}  BY <2>1, RangeAppend
    <3>2. IsInjective(Append(queue, n))
      BY Zenon, <2>1, <2>2, InjectiveAppend DEF ConnInv
    <3> QED BY Zenon, <2>3, <3>1, <3>2
  <2>5. ASSUME NEW c \in Conn, c \in Range(queue') \cup {cur} \cup hung, c[1] = life
        PROVE  c[3] <= conns'[c[2]]
    <3>1. conns'[t] = conns[t] + 1 /\ \A u \in Thread : u # t => conns'[u] = conns[u]
      BY Zenon, <1>3 DEF WaitInv
    <3>2. CASE c = n
      <4>1. n[3] = conns'[n[2]]  BY Zenon, <2>1, <3>1
      <4>2. n[3] \in Nat  BY <2>1
      <4> QED BY <3>2, <4>1, <4>2
    <3>3. CASE c # n
      <4>1. c[3] <= conns[c[2]]  BY Zenon, <2>4, <2>5, <3>3 DEF ConnInv
      <4>2. c[2] \in Thread /\ c[3] \in Int  BY ConnNumbers
      <4>3. CASE c[2] = t  BY <2>1, <3>1, <4>1, <4>2, <4>3
      <4>4. CASE c[2] # t  BY Zenon, <3>1, <4>1, <4>2, <4>4
      <4> QED BY Zenon, <4>3, <4>4
    <3> QED BY Zenon, <3>2, <3>3
  <2> QED BY Zenon, <1>0, <1>3, <2>2, <2>4, <2>5 DEF ConnInv
<1> QED BY Zenon, <1>1, <1>2, <1>3, AppConnects

\* Steps of the monitor process: everything but the connections they close.
LEMMA ConnCloses ==
  ASSUME WaitInv, ConnInv, UNCHANGED <<life, conns>>,
         NEW C, C \subseteq Range(queue) \cup (IF dpc \in Client THEN {cur} ELSE {}),
         hung' = hung \cup C, queue' = <<>> \/ UNCHANGED queue,
         cur' = NoConn \/ UNCHANGED cur,
         created' \in BOOLEAN, dpc' \in Reporting => created',
         dpc' \notin Client => cur' = NoConn,
         dpc' = "call" => cur' \in hung' \/ cur'[1] < life
  PROVE  ConnInv'
<1>1. C \subseteq Conn /\ \A c \in C : c[1] <= life
  BY Zenon, Waiting DEF WaitInv
<1>2. hung' \subseteq Conn /\ \A c \in hung' : c[1] <= life'
  BY Zenon, <1>1 DEF ConnInv
<1>3. IsInjective(queue') /\ Range(queue') \subseteq Range(queue)
  BY Zenon, RangeEmpty DEF ConnInv
<1>4. NoConn \notin Range(queue)  BY Zenon, Waiting, ConnAssumption
<1>5. cur' \notin Range(queue')  BY Zenon, <1>3, <1>4 DEF ConnInv
<1>6. ASSUME NEW c \in Conn, c \in Range(queue') \cup {cur'} \cup hung', c[1] = life
      PROVE  c[3] <= conns[c[2]]
  <2>1. c \in Range(queue) \cup {cur} \cup hung
    BY Zenon, <1>3, <1>6, ConnAssumption
  <2> QED BY Zenon, <1>6, <2>1 DEF ConnInv
<1> QED BY Zenon, <1>2, <1>3, <1>5, <1>6 DEF ConnInv

\* The death of the monitor process closes all its connections.
LEMMA ConnDies == WaitInv /\ ConnInv /\ MonitorDies => ConnInv'
<1> SUFFICES ASSUME WaitInv, ConnInv, MonitorDies PROVE ConnInv'
  OBVIOUS
<1>1. /\ UNCHANGED <<life, conns>> /\ hung' = hung \cup Connected /\ queue' = <<>>
      /\ cur' = NoConn /\ created' = FALSE /\ dpc' = "none"
  BY Zenon DEF MonitorDies, ClientDone, appVars
<1>2. Connected \subseteq Range(queue) \cup (IF dpc \in Client THEN {cur} ELSE {})
  BY Zenon DEF Connected, Client
<1>3. dpc' \notin Reporting /\ dpc' # "call"  BY Zenon, <1>1 DEF Reporting
<1> QED BY Zenon, <1>1, <1>2, <1>3, ConnCloses

LEMMA ConnService == ContextOutlivesThread /\ WaitInv /\ ConnInv /\ ServiceStep => ConnInv'
<1> SUFFICES ASSUME ContextOutlivesThread, WaitInv, ConnInv, ServiceStep PROVE ConnInv'
  BY Zenon
<1>0. UNCHANGED <<life, st, conns>>  BY Zenon, MonitorLeavesApp DEF appVars
<1>1. ASSUME UNCHANGED <<queue, hung, cur, created>>,
             dpc' = dpc \/ (dpc \notin Client /\ dpc' \notin Client)
      PROVE  ConnInv'
  <2>1. dpc' # dpc => dpc' \notin Reporting /\ dpc' # "call"
    BY Zenon, <1>1 DEF Client, Reporting
  <2> QED BY Zenon, <1>0, <1>1, <2>1 DEF ConnInv
<1>2. CASE StartService
  <2>1. UNCHANGED <<queue, hung, cur, created>>
    BY Zenon, <1>2 DEF StartService, listenVars, sockVars, reportVars
  <2>2. dpc' = dpc \/ (ctx = "null" /\ dpc' = "boot")
    BY Zenon, <1>2 DEF StartService, StartDaemon
  <2>3. ctx = "null" => dpc \notin Client  BY Zenon DEF ContextOutlivesThread, Client
  <2>4. "boot" \notin Client  BY Zenon DEF Client
  <2> QED BY Zenon, <1>1, <2>1, <2>2, <2>3, <2>4
<1>3. CASE StopService
  BY Zenon, <1>1, <1>3 DEF StopService, listenVars, sockVars, reportVars
<1>4. CASE Join
  <2>1. CASE MonitorDies  BY Zenon, <2>1, ConnDies
  <2>2. CASE ~MonitorDies
    <3>1. dpc = "done" /\ dpc' = "none" /\ UNCHANGED <<queue, hung, cur, created>>
      BY Zenon, <1>4, <2>2 DEF Join, listenVars, sockVars, reportVars
    <3>2. "done" \notin Client /\ "none" \notin Client  BY Zenon DEF Client
    <3> QED BY Zenon, <1>1, <3>1, <3>2
  <2> QED BY Zenon, <2>1, <2>2
<1>5. CASE KillMonitor  BY Zenon, <1>5, ConnDies DEF KillMonitor
<1> QED BY Zenon, <1>2, <1>3, <1>4, <1>5 DEF ServiceStep

\* accept takes the oldest connection.
LEMMA Accepted ==
  ASSUME WaitInv, ConnInv, Accept
  PROVE  /\ queue = <<cur'>> \o queue'
         /\ Range(queue) = Range(queue') \cup {cur'}
         /\ cur' \notin Range(queue') /\ IsInjective(queue')
         /\ dpc = "accept" /\ dpc' = "read" /\ cur = NoConn
         /\ UNCHANGED <<created, hung>>
<1>1. /\ queue # <<>> /\ cur' = Head(queue) /\ queue' = Tail(queue)
      /\ dpc = "accept" /\ dpc' = "read" /\ UNCHANGED <<created, hung>>
  BY Zenon DEF Accept, DaemonStep
<1>2. cur = NoConn  BY Zenon, <1>1 DEF ConnInv, Client
<1> DEFINE q == queue
<1>3. q \in Seq(Conn) /\ q # <<>> /\ IsInjective(q)  BY Zenon, <1>1 DEF WaitInv, ConnInv
<1> HIDE DEF q
<1>4. q = <<Head(q)>> \o Tail(q)  BY <1>3
<1>5. /\ Len(q) \in Nat \ {0} /\ DOMAIN q = 1 .. Len(q) /\ DOMAIN Tail(q) = 1 .. Len(q) - 1
      /\ Head(q) = q[1] /\ \A i \in 1 .. Len(q) - 1 : Tail(q)[i] = q[i + 1]
  BY <1>3
<1>6. Range(q) = Range(Tail(q)) \cup {Head(q)}
  <2>1. ASSUME NEW x \in Range(q) PROVE x \in Range(Tail(q)) \cup {Head(q)}
    <3>1. PICK i \in 1 .. Len(q) : x = q[i]  BY Zenon, <1>5, <2>1 DEF Range
    <3>2. CASE i = 1  BY Zenon, <1>5, <3>1, <3>2
    <3>3. CASE i # 1
      <4>1. i - 1 \in DOMAIN Tail(q) /\ Tail(q)[i - 1] = x  BY <1>5, <3>1, <3>3
      <4> QED BY Zenon, <4>1 DEF Range
    <3> QED BY Zenon, <3>2, <3>3
  <2>2. ASSUME NEW x \in Range(Tail(q)) PROVE x \in Range(q)
    <3>1. PICK i \in 1 .. Len(q) - 1 : x = Tail(q)[i]  BY Zenon, <1>5, <2>2 DEF Range
    <3>2. i + 1 \in DOMAIN q /\ q[i + 1] = x  BY <1>5, <3>1
    <3> QED BY Zenon, <3>2 DEF Range
  <2>3. 1 \in DOMAIN q /\ Head(q) = q[1]  BY <1>5
  <2>4. Head(q) \in Range(q)  BY Zenon, <2>3 DEF Range
  <2> QED BY Zenon, <2>1, <2>2, <2>4
<1>7. IsInjective(Tail(q))
  BY <1>3, <1>5 DEF IsInjective
<1>8. Head(q) \notin Range(Tail(q))
  BY <1>3, <1>5 DEF IsInjective, Range
<1> QED BY Zenon, <1>1, <1>2, <1>4, <1>6, <1>7, <1>8 DEF q

LEMMA ConnDaemon == WaitInv /\ ConnInv /\ Daemon => ConnInv'
<1> SUFFICES ASSUME WaitInv, ConnInv, Daemon PROVE ConnInv'
  OBVIOUS
<1>0. UNCHANGED <<life, st, conns>>  BY Zenon, MonitorLeavesApp DEF appVars
\* Steps that keep the client.
<1>1. ASSUME UNCHANGED <<queue, hung, cur>>, dpc' # "call",
             dpc' \notin Client => dpc \notin Client,
             created' \in BOOLEAN, dpc' \in Reporting => created'
      PROVE  ConnInv'
  BY Zenon, <1>0, <1>1 DEF ConnInv
<1>2. CASE Boot \/ Interrupted
  <2>1. UNCHANGED <<queue, hung, cur, created>> /\ dpc \in {"boot", "accept"}
        /\ dpc' \in {"accept", "done", "close"}
    BY Zenon, <1>2 DEF Boot, Interrupted, DaemonStep, listenVars, reportVars
  <2>2. dpc' # "call" /\ dpc \notin Client /\ dpc' \notin Reporting
    BY Zenon, <2>1 DEF Client, Reporting
  <2> QED BY Zenon, <1>1, <2>1, <2>2 DEF ConnInv
<1>3. CASE Accept
  <2>1. dpc' # "call" /\ dpc' \notin Reporting /\ dpc' \in Client
    BY Zenon, <1>3, Accepted DEF Client, Reporting
  <2>2. /\ Range(queue') \cup {cur'} \subseteq Range(queue) \cup {cur}
        /\ cur' \notin Range(queue') /\ IsInjective(queue') /\ UNCHANGED <<created, hung>>
    BY Zenon, <1>3, Accepted
  <2> QED BY Zenon, <1>0, <2>1, <2>2 DEF ConnInv
<1>4. CASE ReadMessage
  <2>1. CASE DaemonStep("read", "attach") /\ UNCHANGED <<hung, reportVars>>
    <3>1. UNCHANGED <<queue, hung, cur, created>> /\ dpc' = "attach"
      BY Zenon, <1>4, <2>1 DEF ReadMessage, DaemonStep, listenVars, reportVars
    <3>2. dpc' \in Client /\ dpc' \notin Reporting  BY Zenon, <3>1 DEF Client, Reporting
    <3> QED BY Zenon, <1>1, <3>1, <3>2 DEF ConnInv
  <2>2. CASE DaemonStep("read", "accept") /\ hung' = hung \cup {cur} /\ ClientDone
    <3>1. UNCHANGED queue /\ dpc = "read" /\ dpc' = "accept" /\ cur' = NoConn /\ created' = FALSE
      BY Zenon, <1>4, <2>2 DEF ReadMessage, DaemonStep, listenVars, ClientDone
    <3>2. dpc \in Client /\ dpc' \notin Reporting /\ dpc' # "call"
      BY Zenon, <3>1 DEF Client, Reporting
    <3>3. {cur} \subseteq Range(queue) \cup (IF dpc \in Client THEN {cur} ELSE {})
      BY Zenon, <3>2
    <3> QED BY Zenon, <1>0, <2>2, <3>1, <3>2, <3>3, ConnCloses
  <2> QED BY Zenon, <1>4, <2>1, <2>2 DEF ReadMessage
<1>5. CASE AttachCrashed
  <2>1. /\ UNCHANGED <<queue, hung, cur>>
        /\ \/ dpc' = "list" /\ created' = TRUE
           \/ dpc' = "reply" /\ created' = FALSE
    BY Zenon, <1>5 DEF AttachCrashed, DaemonStep, listenVars
  <2>2. dpc' \in Client /\ dpc' # "call" /\ (dpc' = "reply" => dpc' \notin Reporting)
    BY Zenon, <2>1 DEF Client, Reporting
  <2> QED BY Zenon, <1>1, <2>1, <2>2
<1>6. ASSUME NEW t \in Thread, AttachOther(t) \/ Detach(t) PROVE ConnInv'
  <2>1. UNCHANGED <<queue, hung, cur, created, dpc>>
    BY Zenon, <1>6 DEF AttachOther, Detach, DaemonStep, listenVars
  <2> QED BY Zenon, <1>0, <2>1 DEF ConnInv
<1>7. CASE ListThreads \/ AttachedAll \/ DetachedAll
  <2>1. UNCHANGED <<queue, hung, cur, created>> /\ dpc \in {"list", "threads", "detach"}
        /\ dpc' \in {"threads", "dump", "reply"}
    BY Zenon, <1>7
       DEF ListThreads, AttachedAll, DetachedAll, DaemonStep, listenVars, reportVars
  <2>2. dpc \in Reporting /\ dpc' \in Client /\ dpc' # "call"
    BY Zenon, <2>1 DEF Client, Reporting
  <2> QED BY Zenon, <1>1, <2>1, <2>2 DEF ConnInv
<1>8. CASE Dump
  <2>1. CASE MonitorDies  BY Zenon, <2>1, ConnDies
  <2>2. CASE DaemonStep("dump", "detach") /\ UNCHANGED <<cur, created, listenVars, hung>>
    <3>1. UNCHANGED <<queue, hung, cur, created>> /\ dpc = "dump" /\ dpc' = "detach"
      BY Zenon, <2>2 DEF DaemonStep, listenVars
    <3>2. dpc \in Reporting /\ dpc' \in Client /\ dpc' # "call"
      BY Zenon, <3>1 DEF Client, Reporting
    <3> QED BY Zenon, <1>1, <3>1, <3>2 DEF ConnInv
  <2> QED BY Zenon, <1>8, <2>1, <2>2 DEF Dump
<1>9. CASE Reply
  <2>1. UNCHANGED queue /\ dpc = "reply" /\ hung' = hung \cup {cur}
        /\ \/ dpc' = "call" /\ UNCHANGED <<cur, created>>
           \/ dpc' = "accept" /\ cur' = NoConn /\ created' = FALSE
    BY Zenon, <1>9 DEF Reply, DaemonStep, listenVars, reportVars, ClientDone
  <2>2. dpc \in Client /\ dpc' \notin Reporting /\ (dpc' \notin Client => cur' = NoConn)
    BY Zenon, <2>1 DEF Client, Reporting
  <2>3. {cur} \subseteq Range(queue) \cup (IF dpc \in Client THEN {cur} ELSE {})
    BY Zenon, <2>2
  <2>4. dpc' = "call" => cur' \in hung'  BY Zenon, <2>1
  <2>5. created' \in BOOLEAN  BY Zenon, <2>1 DEF ConnInv
  <2> QED BY Zenon, <1>0, <2>1, <2>2, <2>3, <2>4, <2>5, ConnCloses
<1>10. CASE Callback
  <2>1. UNCHANGED queue /\ hung' = hung \cup {} /\ dpc' = "accept" /\ cur' = NoConn
        /\ created' = FALSE
    BY Zenon, <1>10 DEF Callback, DaemonStep, listenVars, ClientDone
  <2>2. dpc' \notin Reporting /\ dpc' # "call"  BY Zenon, <2>1 DEF Reporting
  <2>3. {} \subseteq Range(queue) \cup (IF dpc \in Client THEN {cur} ELSE {})
    BY Zenon
  <2> QED BY Zenon, <1>0, <2>1, <2>2, <2>3, ConnCloses
<1>11. CASE Close
  <2>1. queue' = <<>> /\ hung' = hung \cup Range(queue) /\ dpc = "close" /\ dpc' = "done"
        /\ UNCHANGED <<cur, created>>
    BY Zenon, <1>11 DEF Close, DaemonStep, reportVars
  <2>2. dpc' \notin Reporting /\ dpc' # "call" /\ dpc \notin Client
    BY Zenon, <2>1 DEF Reporting, Client
  <2>3. Range(queue) \subseteq Range(queue) \cup (IF dpc \in Client THEN {cur} ELSE {})
    BY Zenon
  <2>4. created' \in BOOLEAN /\ cur' = NoConn  BY Zenon, <2>1, <2>2 DEF ConnInv
  <2> QED BY Zenon, <1>0, <2>1, <2>2, <2>3, <2>4, ConnCloses
<1> QED BY Zenon, <1>2, <1>3, <1>4, <1>5, <1>6, <1>7, <1>8, <1>9, <1>10, <1>11 DEF Daemon
-----------------------------------------------------------------------------
(* The refinement mapping.                                                 *)

PendingOf(d, k, q) == (IF d \in Taken THEN <<k>> ELSE <<>>) \o q

\* The phase of c when the queue is q, the daemon serves k at d and has closed
\* h in life l.
PhaseOf(q, k, d, r, h, l, c) ==
    IF c \in Range(q) THEN "pending"
    ELSE IF c = k
      THEN CASE d \in Taken -> "pending"
             [] d = "detach" \/ (d = "reply" /\ r) -> "reported"
             [] d = "reply" /\ ~r -> "refused"
             [] OTHER -> "answered"
    ELSE IF c \in h \/ c[1] < l THEN "answered"
    ELSE "new"

Pend == PendingOf(dpc, cur, queue)
Phase == [c \in Conn |-> PhaseOf(queue, cur, dpc, created, hung, life, c)]

\* The variables of CrashService are Pend and Phase.
LEMMA MapStutter == UNCHANGED <<Pend, Phase>> => UNCHANGED Service!vars
BY Zenon DEF Pend, Phase, PendingOf, PhaseOf, Taken, Service!vars

LEMMA MapArrive ==
  ASSUME NEW c \in Conn, Phase[c] = "new", Pend' = Append(Pend, c),
         Phase' = [Phase EXCEPT ![c] = "pending"]
  PROVE  Service!Next
<1>1. Service!Arrive(c)
  BY Zenon DEF Pend, Phase, PendingOf, PhaseOf, Taken, Service!Arrive
<1> QED BY Zenon, <1>1 DEF Service!Next

LEMMA MapFinish ==
  ASSUME NEW o \in {"reported", "refused", "answered"}, Pend # <<>>, Pend' = Tail(Pend),
         Phase' = [Phase EXCEPT ![Head(Pend)] = o]
  PROVE  Service!Next
<1>1. Service!Finish(o)
  BY Zenon DEF Pend, Phase, PendingOf, PhaseOf, Taken, Service!Finish
<1> QED BY Zenon, <1>1 DEF Service!Next

LEMMA MapAnswer ==
  ASSUME NEW c \in Conn, Phase[c] \in {"reported", "refused"},
         Phase' = [Phase EXCEPT ![c] = "answered"], Pend' = Pend
  PROVE  Service!Next
<1>1. Service!Answer(c)
  BY Zenon DEF Pend, Phase, PendingOf, PhaseOf, Taken, Service!Answer
<1> QED BY Zenon, <1>1 DEF Service!Next

LEMMA MapShutdown ==
  ASSUME Pend' = <<>>,
         Phase' = [c \in Conn |-> IF Phase[c] = "new" THEN "new" ELSE "answered"]
  PROVE  Service!Next
<1>1. Service!Shutdown
  BY Zenon DEF Pend, Phase, PendingOf, PhaseOf, Taken, Service!Shutdown
<1> QED BY Zenon, <1>1 DEF Service!Next

LEMMA MapLeave ==
  ASSUME NEW C \in SUBSET Conn, \A c \in C : Phase[c] = "new", Pend' = Pend,
         Phase' = [c \in Conn |-> IF c \in C THEN "answered" ELSE Phase[c]]
  PROVE  Service!Next
<1>1. Service!Leave(C)
  BY Zenon DEF Pend, Phase, PendingOf, PhaseOf, Taken, Service!Leave
<1> QED BY Zenon, <1>1 DEF Service!Next
-----------------------------------------------------------------------------
(* The steps.                                                              *)

ServiceInv == ContextOutlivesThread /\ WaitInv /\ ConnInv

LEMMA PhaseValue ==
    /\ \A c \in Conn : Phase[c] = PhaseOf(queue, cur, dpc, created, hung, life, c)
    /\ \A c \in Conn : Phase'[c] = PhaseOf(queue', cur', dpc', created', hung', life', c)
BY Zenon DEF Phase

LEMMA SamePhase ==
  ASSUME \A c \in Conn : PhaseOf(queue', cur', dpc', created', hung', life', c)
                         = PhaseOf(queue, cur, dpc, created, hung, life, c)
  PROVE  Phase' = Phase
BY Zenon DEF Phase

\* The application.
LEMMA RefineApp ==
  ASSUME ServiceInv, ConnInv', AppStep
  PROVE  Service!Next \/ UNCHANGED Service!vars
<1>0. UNCHANGED <<dpc, cur, created>> /\ created \in BOOLEAN /\ created' \in BOOLEAN
  BY Zenon, AppLeavesMonitor DEF ServiceInv, ConnInv
<1>1. CASE UNCHANGED <<queue, hung, life, conns>>
  BY Zenon, <1>0, <1>1, MapStutter DEF Pend, Phase
<1>2. CASE Restart
  <2> DEFINE C == {c \in Conn : c[1] = life /\ Phase[c] = "new"}
  <2>1. /\ life' = life + 1 /\ hung' = {} /\ UNCHANGED queue /\ life \in 1 .. MaxLife
    BY Zenon, <1>2 DEF Restart, monitorVars, listenVars, ServiceInv, WaitInv
  <2>2. Pend' = Pend  BY Zenon, <1>0, <2>1 DEF Pend
  <2>3. ASSUME NEW c \in Conn
        PROVE  Phase'[c] = IF c \in C THEN "answered" ELSE Phase[c]
    <3>1. /\ Phase[c] = PhaseOf(queue, cur, dpc, created, hung, life, c)
          /\ Phase'[c] = PhaseOf(queue, cur, dpc, created, {}, life + 1, c)
      BY Zenon, <1>0, <2>1, PhaseValue
    <3>2. c[1] \in Int /\ life \in Int  BY <2>1, ConnNumbers
    <3>3. c \in hung => c[1] <= life  BY Zenon DEF ServiceInv, ConnInv
    <3>4. CASE c \in Range(queue)
      BY Zenon, <3>1, <3>4 DEF PhaseOf
    <3>5. CASE c = cur
      <4>1. PhaseOf(queue, cur, dpc, created, hung, life, c)
            = PhaseOf(queue, cur, dpc, created, {}, life + 1, c)
        BY <3>5 DEF PhaseOf
      <4>2. dpc \in Client
        BY Zenon, <3>5, ConnAssumption DEF ServiceInv, ConnInv
      <4>3. PhaseOf(queue, cur, dpc, created, hung, life, c) # "new"
        BY Zenon, <3>5, <4>2 DEF Client, Taken, PhaseOf
      <4> QED BY Zenon, <3>1, <4>1, <4>3
    <3>6. CASE c \notin Range(queue) /\ c # cur
      <4>1. CASE c \in hung \/ c[1] < life
        <5>1. c[1] < life + 1  BY <3>2, <3>3, <4>1
        <5>2. Phase[c] = "answered" /\ Phase'[c] = "answered"
          BY Zenon, <3>1, <3>6, <4>1, <5>1 DEF PhaseOf
        <5> QED BY Zenon, <5>2
      <4>2. CASE ~(c \in hung \/ c[1] < life)
        <5>1. Phase[c] = "new"  BY Zenon, <3>1, <3>6, <4>2 DEF PhaseOf
        <5>2. CASE c[1] = life
          <6>1. c[1] < life + 1  BY <3>2, <5>2
          <6>2. Phase'[c] = "answered"  BY Zenon, <3>1, <3>6, <6>1 DEF PhaseOf
          <6> QED BY Zenon, <5>1, <5>2, <6>2
        <5>3. CASE c[1] # life
          <6>1. ~(c[1] < life + 1)  BY <3>2, <4>2, <5>3
          <6>2. Phase'[c] = "new"  BY Zenon, <3>1, <3>6, <6>1 DEF PhaseOf
          <6> QED BY Zenon, <5>1, <5>3, <6>2
        <5> QED BY Zenon, <5>2, <5>3
      <4> QED BY Zenon, <4>1, <4>2
    <3> QED BY Zenon, <3>4, <3>5, <3>6
  <2>4. C \in SUBSET Conn /\ \A c \in C : Phase[c] = "new"  BY Zenon
  <2>5. Phase' = [c \in Conn |-> IF c \in C THEN "answered" ELSE Phase[c]]
    <3> HIDE DEF C
    <3>1. Phase' = [c \in Conn |-> Phase'[c]]  BY ZenonT(40) DEF Phase
    <3> QED BY Zenon, <2>3, <3>1
  <2> HIDE DEF C
  <2> QED BY Zenon, <2>2, <2>4, <2>5, MapLeave
<1>3. ASSUME NEW t \in Thread, UNCHANGED <<hung, life>>, conns[t] < MaxConn,
             queue' = Append(queue, <<life, t, conns[t] + 1>>)
      PROVE  Service!Next
  <2> DEFINE n == <<life, t, conns[t] + 1>>
  <2>1. n \in Conn /\ n[1] = life /\ life \in Nat /\ queue \in Seq(Conn)
    BY Zenon, <1>3, NextConn DEF ServiceInv, WaitInv
  <2>2. n \notin Range(queue) /\ n # cur /\ n \notin hung
    BY Zenon, <1>3, NextIsNew DEF ServiceInv
  <2>3. ~(n[1] < life)
    <3>1. ~(life < life)  BY <2>1
    <3> QED BY Zenon, <2>1, <3>1
  <2>4. queue' = Append(queue, n)  BY Zenon, <1>3
  <2> HIDE DEF n
  <2>5. Phase[n] = "new"
    <3>1. PhaseOf(queue, cur, dpc, created, hung, life, n) = "new"
      BY Zenon, <2>2, <2>3 DEF PhaseOf
    <3> QED BY Zenon, <2>1, <3>1, PhaseValue
  <2>6. Range(queue') = Range(queue) \cup {n}
    <3>1. Range(Append(queue, n)) = Range(queue) \cup {n}  BY <2>1, RangeAppend
    <3> QED BY Zenon, <2>4, <3>1
  <2>7. ASSUME NEW c \in Conn
        PROVE  Phase'[c] = IF c = n THEN "pending" ELSE Phase[c]
    <3>1. /\ Phase[c] = PhaseOf(queue, cur, dpc, created, hung, life, c)
          /\ Phase'[c] = PhaseOf(queue', cur, dpc, created, hung, life, c)
      BY Zenon, <1>0, <1>3, PhaseValue
    <3>2. CASE c = n  BY Zenon, <2>6, <3>1, <3>2 DEF PhaseOf
    <3>3. CASE c # n  BY Zenon, <2>6, <3>1, <3>3 DEF PhaseOf
    <3> QED BY Zenon, <3>2, <3>3
  <2>8. Phase' = [Phase EXCEPT ![n] = "pending"]
    BY Zenon, <2>7 DEF Phase
  <2>9. Pend' = Append(Pend, n)
    <3>1. dpc \in Taken => cur \in Conn  BY Zenon DEF ServiceInv, WaitInv, Taken, Client
    <3>2. CASE dpc \in Taken
      BY <1>0, <2>1, <2>4, <3>1, <3>2 DEF Pend, PendingOf
    <3>3. CASE dpc \notin Taken
      BY <1>0, <2>1, <2>4, <3>3 DEF Pend, PendingOf
    <3> QED BY Zenon, <3>2, <3>3
  <2> QED BY Zenon, <2>1, <2>5, <2>8, <2>9, MapArrive
<1> QED BY Zenon, <1>1, <1>2, <1>3, AppConnects DEF ServiceInv

\* The end of the daemon, or of its process, closes every connection.
LEMMA RefineEnd ==
  ASSUME ServiceInv, queue' = <<>>, cur' = NoConn, dpc' \in {"none", "done"}, UNCHANGED life,
         NEW C, hung' = hung \cup C, Range(queue) \subseteq C,
         C \subseteq Range(queue) \cup (IF dpc \in Client THEN {cur} ELSE {}),
         dpc \in Client /\ dpc # "call" => cur \in C
  PROVE  Service!Next
<1>1. Pend' = <<>>
  <2>1. dpc' \notin Taken  BY Zenon DEF Taken
  <2>2. PendingOf(dpc', cur', queue') = <<>>  BY <2>1 DEF PendingOf
  <2> QED BY Zenon, <2>2 DEF Pend
<1>2. ASSUME NEW c \in Conn
      PROVE  Phase'[c] = IF Phase[c] = "new" THEN "new" ELSE "answered"
  <2>1. /\ Phase[c] = PhaseOf(queue, cur, dpc, created, hung, life, c)
        /\ Phase'[c] = PhaseOf(queue', cur', dpc', created', hung', life, c)
    BY Zenon, PhaseValue
  <2>2. Phase'[c] = IF c \in hung' \/ c[1] < life THEN "answered" ELSE "new"
    <3>1. c \notin Range(queue') /\ c # cur'
      BY Zenon, RangeEmpty, ConnAssumption
    <3> QED BY Zenon, <2>1, <3>1 DEF PhaseOf
  <2>3. CASE c \in Range(queue)
    <3>1. Phase[c] = "pending"  BY Zenon, <2>1, <2>3 DEF PhaseOf
    <3>2. c \in hung'  BY Zenon, <2>3
    <3> QED BY Zenon, <2>2, <3>1, <3>2
  <2>4. CASE c = cur /\ c \notin Range(queue)
    <3>1. dpc \in Client  BY Zenon, <2>4, ConnAssumption DEF ServiceInv, ConnInv
    <3>2. Phase[c] # "new"  BY Zenon, <2>1, <2>4 DEF PhaseOf
    <3>3. c \in hung' \/ c[1] < life  BY Zenon, <2>4, <3>1 DEF ServiceInv, ConnInv
    <3> QED BY Zenon, <2>2, <3>2, <3>3
  <2>5. CASE c # cur /\ c \notin Range(queue)
    <3>1. c \in hung' <=> c \in hung  BY Zenon, <2>5
    <3>2. Phase[c] = IF c \in hung \/ c[1] < life THEN "answered" ELSE "new"
      BY Zenon, <2>1, <2>5 DEF PhaseOf
    <3> QED BY Zenon, <2>2, <3>1, <3>2
  <2> QED BY Zenon, <2>3, <2>4, <2>5
<1>3. Phase' = [c \in Conn |-> IF Phase[c] = "new" THEN "new" ELSE "answered"]
  <2>1. Phase' = [c \in Conn |-> Phase'[c]]  BY Zenon DEF Phase
  <2> QED BY Zenon, <1>2, <2>1
<1> QED BY Zenon, <1>1, <1>3, MapShutdown

LEMMA RefineDies ==
  ASSUME ServiceInv, MonitorDies
  PROVE  Service!Next
<1>1. /\ UNCHANGED life /\ hung' = hung \cup Connected /\ queue' = <<>>
      /\ cur' = NoConn /\ dpc' = "none"
  BY Zenon DEF MonitorDies, ClientDone, appVars
<1>2. /\ Range(queue) \subseteq Connected
      /\ Connected \subseteq Range(queue) \cup (IF dpc \in Client THEN {cur} ELSE {})
      /\ dpc \in Client /\ dpc # "call" => cur \in Connected
  BY Zenon DEF Connected, Client
<1>3. dpc' \in {"none", "done"}  BY Zenon, <1>1
<1> QED BY Zenon, <1>1, <1>2, <1>3, RefineEnd

\* Steps without a client change nothing.
LEMMA RefineIdle ==
  ASSUME ServiceInv, UNCHANGED <<queue, hung, cur, life>>,
         \/ dpc' = dpc /\ created' = created
         \/ dpc \notin Client /\ dpc' \notin Client
  PROVE  UNCHANGED Service!vars
<1>1. CASE dpc' = dpc /\ created' = created
  BY Zenon, <1>1, MapStutter DEF Pend, Phase
<1>2. CASE dpc \notin Client /\ dpc' \notin Client
  <2>1. Pend' = Pend
    <3>1. dpc \notin Taken /\ dpc' \notin Taken  BY Zenon, <1>2 DEF Client, Taken
    <3> QED BY Zenon, <3>1 DEF Pend, PendingOf
  <2>2. cur = NoConn  BY Zenon, <1>2 DEF ServiceInv, ConnInv
  <2>3. ASSUME NEW c \in Conn
        PROVE  PhaseOf(queue', cur', dpc', created', hung', life', c)
               = PhaseOf(queue, cur, dpc, created, hung, life, c)
    <3>1. c # cur  BY Zenon, <2>2, ConnAssumption
    <3> QED BY Zenon, <3>1 DEF PhaseOf
  <2>4. Phase' = Phase  BY Zenon, <2>3, SamePhase
  <2> QED BY Zenon, <2>1, <2>4, MapStutter
<1> QED BY Zenon, <1>1, <1>2

LEMMA RefineService ==
  ASSUME ServiceInv, ServiceStep
  PROVE  Service!Next \/ UNCHANGED Service!vars
<1>0. UNCHANGED life  BY Zenon, MonitorLeavesApp DEF appVars
<1>2. CASE StartService
  <2>1. UNCHANGED <<queue, hung, cur, created>>
    BY Zenon, <1>2 DEF StartService, listenVars, sockVars, reportVars
  <2>2. dpc' = dpc \/ (ctx = "null" /\ dpc' = "boot")
    BY Zenon, <1>2 DEF StartService, StartDaemon
  <2>3. ctx = "null" => dpc \notin Client
    BY Zenon DEF ServiceInv, ContextOutlivesThread, Client
  <2>4. "boot" \notin Client  BY Zenon DEF Client
  <2> QED BY Zenon, <1>0, <2>1, <2>2, <2>3, <2>4, RefineIdle
<1>3. CASE StopService
  BY Zenon, <1>0, <1>3, RefineIdle DEF StopService, listenVars, sockVars, reportVars
<1>4. CASE Join
  <2>1. CASE MonitorDies  BY Zenon, <2>1, RefineDies
  <2>2. CASE ~MonitorDies
    <3>1. dpc = "done" /\ dpc' = "none" /\ UNCHANGED <<queue, hung, cur, created>>
      BY Zenon, <1>4, <2>2 DEF Join, listenVars, sockVars, reportVars
    <3>2. "done" \notin Client /\ "none" \notin Client  BY Zenon DEF Client
    <3> QED BY Zenon, <1>0, <3>1, <3>2, RefineIdle
  <2> QED BY Zenon, <2>1, <2>2
<1>5. CASE KillMonitor  BY Zenon, <1>5, RefineDies DEF KillMonitor
<1> QED BY Zenon, <1>2, <1>3, <1>4, <1>5 DEF ServiceStep

\* Only the client that is served changes.
LEMMA RefineOthers ==
  ASSUME ServiceInv, dpc \in Client, UNCHANGED <<queue, life>>,
         hung' = hung \/ hung' = hung \cup {cur}, cur' = cur \/ cur' = NoConn
  PROVE  /\ cur \in Conn /\ cur \notin Range(queue)
         /\ \A o : PhaseOf(queue', cur', dpc', created', hung', life', cur) = o
                   => Phase' = [Phase EXCEPT ![cur] = o]
<1>1. cur \in Conn /\ cur \notin Range(queue)
  BY Zenon DEF ServiceInv, WaitInv, ConnInv
<1>2. ASSUME NEW c \in Conn, c # cur PROVE Phase'[c] = Phase[c]
  <2>1. c # NoConn  BY Zenon, ConnAssumption
  <2>2. /\ Phase[c] = PhaseOf(queue, cur, dpc, created, hung, life, c)
        /\ Phase'[c] = PhaseOf(queue, cur', dpc', created', hung', life, c)
    BY Zenon, PhaseValue
  <2>3. c # cur' /\ (c \in hung' <=> c \in hung)  BY Zenon, <1>2, <2>1
  <2> QED BY <1>2, <2>2, <2>3 DEF PhaseOf
<1>3. ASSUME NEW o, PhaseOf(queue', cur', dpc', created', hung', life', cur) = o
      PROVE  Phase' = [Phase EXCEPT ![cur] = o]
  <2>1. Phase'[cur] = o  BY Zenon, <1>1, <1>3, PhaseValue
  <2>2. Phase' = [c \in Conn |-> Phase'[c]] /\ Phase = [c \in Conn |-> Phase[c]]
    BY Zenon DEF Phase
  <2> DEFINE q == Phase'
  <2>3. /\ q = [c \in Conn |-> q[c]] /\ q[cur] = o
        /\ \A c \in Conn : c # cur => q[c] = Phase[c]
    BY Zenon, <1>2, <2>1, <2>2
  <2> HIDE DEF q
  <2>4. q = [Phase EXCEPT ![cur] = o]  BY Zenon, <1>1, <2>2, <2>3
  <2> QED BY Zenon, <2>4 DEF q
<1> QED BY Zenon, <1>1, <1>3

\* The client is dealt with.
LEMMA RefineFinish ==
  ASSUME ServiceInv, dpc \in Taken, dpc' \notin Taken, UNCHANGED <<queue, life>>,
         hung' = hung \/ hung' = hung \cup {cur}, cur' = cur \/ cur' = NoConn,
         NEW o \in {"reported", "refused", "answered"},
         PhaseOf(queue', cur', dpc', created', hung', life', cur) = o
  PROVE  Service!Next
<1>1. dpc \in Client  BY Zenon DEF Taken, Client
<1>2. cur \in Conn /\ queue \in Seq(Conn)
  BY Zenon, <1>1 DEF ServiceInv, WaitInv
<1>3. Pend = <<cur>> \o queue  BY Zenon DEF Pend, PendingOf
<1>4. Pend' = queue
  <2>1. PendingOf(dpc', cur', queue') = <<>> \o queue  BY Zenon DEF PendingOf
  <2>2. <<>> \o queue = queue  BY <1>2
  <2> QED BY Zenon, <2>1, <2>2 DEF Pend
<1>5. <<cur>> \o queue # <<>> /\ Head(<<cur>> \o queue) = cur /\ Tail(<<cur>> \o queue) = queue
  BY <1>2
<1>6. Phase' = [Phase EXCEPT ![cur] = o]  BY Zenon, <1>1, RefineOthers
<1> QED BY Zenon, <1>3, <1>4, <1>5, <1>6, MapFinish

\* Steps within a phase.
LEMMA RefineSame ==
  ASSUME ServiceInv, UNCHANGED <<queue, hung, cur, life>>, dpc \in Taken, dpc' \in Taken
  PROVE  UNCHANGED Service!vars
<1>1. Pend' = Pend  BY Zenon DEF Pend, PendingOf
<1>2. ASSUME NEW c \in Conn
      PROVE  PhaseOf(queue', cur', dpc', created', hung', life', c)
             = PhaseOf(queue, cur, dpc, created, hung, life, c)
  BY Zenon DEF PhaseOf, Taken
<1>3. Phase' = Phase  BY Zenon, <1>2, SamePhase
<1> QED BY Zenon, <1>1, <1>3, MapStutter

LEMMA RefineDaemon ==
  ASSUME ServiceInv, Daemon
  PROVE  Service!Next \/ UNCHANGED Service!vars
<1>0. UNCHANGED life  BY Zenon, MonitorLeavesApp DEF appVars
<1>2. CASE Boot \/ Interrupted
  <2>1. UNCHANGED <<queue, hung, cur, created>> /\ dpc \in {"boot", "accept"}
        /\ dpc' \in {"accept", "done", "close"}
    BY Zenon, <1>2 DEF Boot, Interrupted, DaemonStep, listenVars, reportVars
  <2>2. dpc \notin Client /\ dpc' \notin Client  BY Zenon, <2>1 DEF Client
  <2> QED BY Zenon, <1>0, <2>1, <2>2, RefineIdle
<1>3. CASE Accept
  <2>1. /\ queue = <<cur'>> \o queue' /\ Range(queue) = Range(queue') \cup {cur'}
        /\ dpc = "accept" /\ dpc' = "read" /\ cur = NoConn /\ UNCHANGED hung
    BY Zenon, <1>3, Accepted DEF ServiceInv
  <2>2. dpc \notin Taken /\ dpc' \in Taken  BY Zenon, <2>1 DEF Taken
  <2>3. Pend' = Pend
    <3>1. <<>> \o queue = queue  BY DEF ServiceInv, WaitInv
    <3> QED BY Zenon, <2>1, <2>2, <3>1 DEF Pend, PendingOf
  <2>4. ASSUME NEW c \in Conn
        PROVE  PhaseOf(queue', cur', dpc', created', hung', life', c)
               = PhaseOf(queue, cur, dpc, created, hung, life, c)
    <3>1. c # cur  BY Zenon, <2>1, ConnAssumption
    <3>2. CASE c = cur'
      <4>1. c \in Range(queue)  BY Zenon, <2>1, <3>2
      <4> QED BY Zenon, <2>2, <3>2, <4>1 DEF PhaseOf, Taken
    <3>3. CASE c # cur'
      <4>1. c \in Range(queue') <=> c \in Range(queue)  BY Zenon, <2>1, <3>3
      <4> QED BY Zenon, <1>0, <2>1, <3>1, <3>3, <4>1 DEF PhaseOf
    <3> QED BY Zenon, <3>2, <3>3
  <2>5. Phase' = Phase  BY Zenon, <2>4, SamePhase
  <2> QED BY Zenon, <2>3, <2>5, MapStutter
<1>4. CASE ReadMessage
  <2>1. CASE DaemonStep("read", "attach") /\ UNCHANGED <<hung, reportVars>>
    <3>1. UNCHANGED <<queue, hung, cur>> /\ dpc = "read" /\ dpc' = "attach"
      BY Zenon, <1>4, <2>1 DEF ReadMessage, DaemonStep, listenVars, reportVars
    <3>2. dpc \in Taken /\ dpc' \in Taken  BY Zenon, <3>1 DEF Taken
    <3> QED BY Zenon, <1>0, <3>1, <3>2, RefineSame
  <2>2. CASE DaemonStep("read", "accept") /\ hung' = hung \cup {cur} /\ ClientDone
    <3>1. UNCHANGED queue /\ dpc = "read" /\ dpc' = "accept" /\ cur' = NoConn
      BY Zenon, <1>4, <2>2 DEF ReadMessage, DaemonStep, listenVars, ClientDone
    <3>2. dpc \in Taken /\ dpc \in Client /\ dpc' \notin Taken
      BY Zenon, <3>1 DEF Taken, Client
    <3>3. cur \in Conn /\ cur \notin Range(queue)
      BY Zenon, <3>2 DEF ServiceInv, WaitInv, ConnInv
    <3>4. cur # cur' /\ cur \in hung' /\ cur \notin Range(queue')
      BY Zenon, <2>2, <3>1, <3>3, ConnAssumption
    <3>5. PhaseOf(queue', cur', dpc', created', hung', life', cur) = "answered"
      BY Zenon, <3>4 DEF PhaseOf
    <3>6. "answered" \in {"reported", "refused", "answered"}  BY Zenon
    <3> QED BY Zenon, <1>0, <2>2, <3>1, <3>2, <3>5, <3>6, RefineFinish
  <2> QED BY Zenon, <1>4, <2>1, <2>2 DEF ReadMessage
<1>5. CASE AttachCrashed
  <2>1. /\ UNCHANGED <<queue, hung, cur>> /\ dpc = "attach"
        /\ \/ dpc' = "list"
           \/ dpc' = "reply" /\ created' = FALSE
    BY Zenon, <1>5 DEF AttachCrashed, DaemonStep, listenVars
  <2>2. dpc \in Taken /\ dpc \in Client  BY Zenon, <2>1 DEF Taken, Client
  <2>3. CASE dpc' = "list"
    <3>1. dpc' \in Taken  BY Zenon, <2>3 DEF Taken
    <3> QED BY Zenon, <1>0, <2>1, <2>2, <3>1, RefineSame
  <2>4. CASE dpc' = "reply" /\ created' = FALSE
    <3>1. dpc' \notin Taken  BY Zenon, <2>4 DEF Taken
    <3>2. cur \notin Range(queue')  BY Zenon, <2>1 DEF ServiceInv, ConnInv
    <3>3. PhaseOf(queue', cur', dpc', created', hung', life', cur) = "refused"
      BY Zenon, <2>1, <2>4, <3>1, <3>2 DEF PhaseOf
    <3>4. "refused" \in {"reported", "refused", "answered"}  BY Zenon
    <3> QED BY Zenon, <1>0, <2>1, <2>2, <3>1, <3>3, <3>4, RefineFinish
  <2> QED BY Zenon, <2>1, <2>3, <2>4
<1>6. ASSUME NEW t \in Thread, AttachOther(t) \/ Detach(t)
      PROVE  Service!Next \/ UNCHANGED Service!vars
  <2>1. UNCHANGED <<queue, hung, cur, created, dpc>>
    BY Zenon, <1>6 DEF AttachOther, Detach, DaemonStep, listenVars
  <2> QED BY Zenon, <1>0, <2>1, RefineIdle
<1>7. CASE ListThreads \/ AttachedAll
  <2>1. UNCHANGED <<queue, hung, cur>> /\ dpc \in {"list", "threads"}
        /\ dpc' \in {"threads", "dump"}
    BY Zenon, <1>7 DEF ListThreads, AttachedAll, DaemonStep, listenVars, reportVars
  <2>2. dpc \in Taken /\ dpc' \in Taken  BY Zenon, <2>1 DEF Taken
  <2> QED BY Zenon, <1>0, <2>1, <2>2, RefineSame
<1>8. CASE Dump
  <2>1. CASE MonitorDies  BY Zenon, <2>1, RefineDies
  <2>2. CASE DaemonStep("dump", "detach") /\ UNCHANGED <<cur, listenVars, hung>>
    <3>1. UNCHANGED <<queue, hung, cur>> /\ dpc = "dump" /\ dpc' = "detach"
      BY Zenon, <2>2 DEF DaemonStep, listenVars
    <3>2. dpc \in Taken /\ dpc' \notin Taken  BY Zenon, <3>1 DEF Taken
    <3>3. cur \notin Range(queue')  BY Zenon, <3>1 DEF ServiceInv, ConnInv
    <3>4. PhaseOf(queue', cur', dpc', created', hung', life', cur) = "reported"
      BY Zenon, <3>1, <3>2, <3>3 DEF PhaseOf
    <3>5. "reported" \in {"reported", "refused", "answered"}  BY Zenon
    <3> QED BY Zenon, <1>0, <3>1, <3>2, <3>4, <3>5, RefineFinish
  <2> QED BY Zenon, <1>8, <2>1, <2>2 DEF Dump
<1>9. CASE DetachedAll
  <2>1. UNCHANGED <<queue, hung, cur, created>> /\ dpc = "detach" /\ dpc' = "reply"
    BY Zenon, <1>9 DEF DetachedAll, DaemonStep, listenVars, reportVars
  <2>2. dpc \notin Taken /\ dpc' \notin Taken /\ dpc \in Reporting
    BY Zenon, <2>1 DEF Taken, Reporting
  <2>3. created  BY Zenon, <2>2 DEF ServiceInv, ConnInv
  <2>4. Pend' = Pend  BY Zenon, <2>1, <2>2 DEF Pend, PendingOf
  <2>5. ASSUME NEW c \in Conn
        PROVE  PhaseOf(queue', cur', dpc', created', hung', life', c)
               = PhaseOf(queue, cur, dpc, created, hung, life, c)
    BY <1>0, <2>1, <2>2, <2>3 DEF PhaseOf
  <2>6. Phase' = Phase  BY Zenon, <2>5, SamePhase
  <2> QED BY Zenon, <2>4, <2>6, MapStutter
<1>10. CASE Reply
  <2>1. UNCHANGED queue /\ dpc = "reply" /\ hung' = hung \cup {cur}
        /\ \/ dpc' = "call" /\ UNCHANGED cur
           \/ dpc' = "accept" /\ cur' = NoConn
    BY Zenon, <1>10 DEF Reply, DaemonStep, listenVars, reportVars, ClientDone
  <2>2. dpc \in Client /\ dpc \notin Taken /\ dpc' \notin Taken /\ dpc' # "detach"
        /\ dpc' # "reply"
    BY Zenon, <2>1 DEF Client, Taken
  <2>3. cur \in Conn /\ cur \notin Range(queue) /\ created \in BOOLEAN
    BY Zenon, <2>2 DEF ServiceInv, WaitInv, ConnInv
  <2>4. Phase[cur] \in {"reported", "refused"}
    <3>1. PhaseOf(queue, cur, dpc, created, hung, life, cur) \in {"reported", "refused"}
      BY Zenon, <2>1, <2>2, <2>3 DEF PhaseOf
    <3> QED BY Zenon, <2>3, <3>1, PhaseValue
  <2>5. Phase' = [Phase EXCEPT ![cur] = "answered"]
    <3>1. cur \in hung' /\ cur \notin Range(queue')  BY Zenon, <2>1, <2>3
    <3>2. PhaseOf(queue', cur', dpc', created', hung', life', cur) = "answered"
      BY Zenon, <2>2, <3>1 DEF PhaseOf
    <3> QED BY Zenon, <1>0, <2>1, <2>2, <3>2, RefineOthers
  <2>6. Pend' = Pend  BY Zenon, <2>1, <2>2 DEF Pend, PendingOf
  <2> QED BY Zenon, <2>3, <2>4, <2>5, <2>6, MapAnswer
<1>11. CASE Callback
  <2>1. UNCHANGED <<queue, hung>> /\ dpc = "call" /\ dpc' = "accept" /\ cur' = NoConn
    BY Zenon, <1>11 DEF Callback, DaemonStep, listenVars, ClientDone
  <2>2. dpc \notin Taken /\ dpc' \notin Taken  BY Zenon, <2>1 DEF Taken
  <2>3. Pend' = Pend  BY Zenon, <2>1, <2>2 DEF Pend, PendingOf
  <2>4. ASSUME NEW c \in Conn
        PROVE  PhaseOf(queue', cur', dpc', created', hung', life', c)
               = PhaseOf(queue, cur, dpc, created, hung, life, c)
    <3>1. c # cur'  BY Zenon, <2>1, ConnAssumption
    <3>2. c = cur => c \in hung \/ c[1] < life
      BY Zenon, <2>1 DEF ServiceInv, ConnInv
    <3>3. CASE c = cur
      BY Zenon, <1>0, <2>1, <2>2, <3>1, <3>2, <3>3 DEF PhaseOf
    <3>4. CASE c # cur  BY <1>0, <2>1, <3>1, <3>4 DEF PhaseOf
    <3> QED BY Zenon, <3>3, <3>4
  <2>5. Phase' = Phase  BY Zenon, <2>4, SamePhase
  <2> QED BY Zenon, <2>3, <2>5, MapStutter
<1>12. CASE Close
  <2>1. queue' = <<>> /\ hung' = hung \cup Range(queue) /\ dpc = "close" /\ dpc' = "done"
        /\ UNCHANGED cur
    BY Zenon, <1>12 DEF Close, DaemonStep, reportVars
  <2>2. dpc \notin Client /\ dpc' \in {"none", "done"}  BY Zenon, <2>1 DEF Client
  <2>3. cur' = NoConn  BY Zenon, <2>1, <2>2 DEF ServiceInv, ConnInv
  <2>4. Range(queue) \subseteq Range(queue) \cup (IF dpc \in Client THEN {cur} ELSE {})
    BY Zenon
  <2> QED BY Zenon, <1>0, <2>1, <2>2, <2>3, <2>4, RefineEnd
<1> QED BY Zenon, <1>2, <1>3, <1>4, <1>5, <1>6, <1>7, <1>8, <1>9, <1>10, <1>11, <1>12
        DEF Daemon

LEMMA ServiceInvStep == ServiceInv /\ [Next]_vars => ServiceInv'
<1> SUFFICES ASSUME ServiceInv, [Next]_vars PROVE ServiceInv'
  OBVIOUS
<1>1. ContextOutlivesThread'  BY Zenon, ContextStep DEF ServiceInv
<1>2. CASE AppStep
  BY Zenon, <1>1, <1>2, WaitApp, ConnApp DEF ServiceInv
<1>3. CASE ServiceStep
  BY Zenon, <1>1, <1>3, WaitService, ConnService DEF ServiceInv
<1>4. CASE Daemon
  BY Zenon, <1>1, <1>4, WaitDaemon, ConnDaemon DEF ServiceInv
<1>5. CASE UNCHANGED vars
  <2>1. UNCHANGED <<life, st, conns, queue, dpc, cur, created, hung>>
    BY Zenon, <1>5 DEF vars, appVars, reportVars, listenVars, sockVars
  <2>2. WaitInv'  BY Zenon, <2>1 DEF ServiceInv, WaitInv
  <2>4. ConnInv'  BY Zenon, <2>1 DEF ServiceInv, ConnInv
  <2> QED BY Zenon, <1>1, <2>2, <2>4 DEF ServiceInv
<1> QED BY Zenon, <1>2, <1>3, <1>4, <1>5, NextCases

\* The crash daemon keeps the promise of CrashService to every application,
\* however many threads crash, whatever fails, and however often either
\* process dies and is started again: connections are dealt with in the order
\* in which they were made, each is reported at most once, and nobody is
\* answered before (DaemonFunction, DaemonProcessClient, SignalHandler).
THEOREM ServiceRefinement == SafetySpec => ImplementsService
<1>1. Init => ServiceInv
  <2> SUFFICES ASSUME Init PROVE ServiceInv
    BY Zenon
  <2>1. ContextOutlivesThread  BY Zenon DEF Init, ContextOutlivesThread
  <2>2. WaitInv  BY Zenon, InitWait
  <2>4. ConnInv
    <3>1. queue = <<>> /\ hung = {} /\ cur = NoConn /\ dpc = "none" /\ created = FALSE
      BY Zenon DEF Init
    <3>2. dpc \notin Reporting /\ dpc # "call"  BY Zenon, <3>1 DEF Reporting
    <3>3. IsInjective(queue) /\ Range(queue) = {}
      BY Zenon, <3>1, RangeEmpty DEF IsInjective
    <3> QED BY Zenon, <3>1, <3>2, <3>3, ConnAssumption DEF ConnInv
  <2> QED BY Zenon, <2>1, <2>2, <2>4 DEF ServiceInv
<1>2. ServiceInv /\ [Next]_vars => ServiceInv'
  BY Zenon, ServiceInvStep
<1>3. Init => Service!Init
  <2> SUFFICES ASSUME Init PROVE Service!Init
    OBVIOUS
  <2>1. queue = <<>> /\ hung = {} /\ cur = NoConn /\ dpc = "none" /\ life = 1
    BY Zenon DEF Init, InitApp
  <2>2. Pend = <<>>
    <3>1. dpc \notin Taken  BY Zenon, <2>1 DEF Taken
    <3> QED BY <2>1, <3>1 DEF Pend, PendingOf
  <2>3. ASSUME NEW c \in Conn PROVE Phase[c] = "new"
    <3>1. c # cur /\ c \notin Range(queue) /\ c \notin hung
      BY Zenon, <2>1, ConnAssumption, RangeEmpty
    <3>2. ~(c[1] < life)  BY <2>1, ConnNumbers
    <3>3. PhaseOf(queue, cur, dpc, created, hung, life, c) = "new"
      BY Zenon, <3>1, <3>2 DEF PhaseOf
    <3> QED BY Zenon, <3>3, PhaseValue
  <2>4. Phase = [c \in Conn |-> "new"]
    <3>1. Phase = [c \in Conn |-> Phase[c]]  BY Zenon DEF Phase
    <3> QED BY Zenon, <2>3, <3>1
  <2> QED BY Zenon, <2>2, <2>4 DEF Pend, Phase, PendingOf, PhaseOf, Taken, Service!Init
<1>4. ServiceInv /\ ServiceInv' /\ [Next]_vars => [Service!Next]_(Service!vars)
  <2> SUFFICES ASSUME ServiceInv, ServiceInv', [Next]_vars
               PROVE  Service!Next \/ UNCHANGED Service!vars
    BY Zenon
  <2>1. CASE AppStep  BY Zenon, <2>1, RefineApp DEF ServiceInv
  <2>2. CASE ServiceStep  BY Zenon, <2>2, RefineService
  <2>3. CASE Daemon  BY Zenon, <2>3, RefineDaemon
  <2>4. CASE UNCHANGED vars
    <3>1. UNCHANGED <<life, queue, dpc, cur, created, hung>>
      BY Zenon, <2>4 DEF vars, appVars, reportVars, listenVars, sockVars
    <3> QED BY Zenon, <3>1, RefineIdle
  <2> QED BY Zenon, <2>1, <2>2, <2>3, <2>4, NextCases
<1> QED BY <1>1, <1>2, <1>3, <1>4, PTL DEF SafetySpec, ImplementsService, Service!Spec
=============================================================================
