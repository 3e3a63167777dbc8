------------------------------- MODULE Hawkeye -------------------------------
(***************************************************************************)
(* The native half of Hawkeye: the signal handler in the application       *)
(* (hawkeye_core.cpp), and the daemon thread in the monitor process        *)
(* (hawkeye_daemon.cpp) that it talks to over a local socket, started and  *)
(* stopped by HawkeyeMonitorService.                                       *)
(*                                                                         *)
(* A step of a thread is what it does between two system calls that other  *)
(* threads can see.  The kernel's part (signals, sockets, ptrace) is       *)
(* modelled as the code uses it; a system call that fails although nothing *)
(* in the state explains it takes one of MaxFault faults.                  *)
(***************************************************************************)
EXTENDS Integers, Sequences, FiniteSets, Functions

CONSTANTS
    Thread,     \* the threads of the application
    Main,       \* its main thread, whose tid is the pid
    Sig,        \* SIGNALS_TO_CATCH
    Abrt,       \* SIGABRT
    OldDfl,     \* the signals whose old handler is SIG_DFL
    MaxLife,    \* how often the application is started
    MaxConn,    \* how often a thread connects in one life of its process
    MaxTids,    \* the size of tids in DaemonCreateReport (64)
    Backlog,    \* SOCKET_BACKLOG
    MaxFault,   \* how many system calls fail
    Folder,     \* whether a log folder is given: a subset of BOOLEAN
    NoConn

ASSUME ThreadAssumption == IsFiniteSet(Thread) /\ Main \in Thread
ASSUME SigAssumption == OldDfl \subseteq Sig /\ Abrt \in Sig
ASSUME BoundAssumption ==
    /\ MaxLife \in Nat \ {0} /\ MaxConn \in Nat /\ MaxTids \in Nat
    /\ Backlog \in Nat /\ MaxFault \in Nat
ASSUME FolderAssumption == Folder \subseteq BOOLEAN

VARIABLES
    \* the application: core_context with its old_handlers, and the handler of
    \* each signal; where each thread is, its signal and how often it connected
    life, alive, core, saved, disp, st, sig, conns,
    \* the daemon_context with its guard and pipe, the daemon thread with the
    \* connection it serves, and the service that owns them
    ctx, guard, pipe, dpc, cur, todo, held, created, started, svc,
    \* the kernel: the listener and the connections in its backlog, the clients'
    \* ends, messages not yet read, what the daemon has closed; stopped threads
    bound, listening, queue, open, sent, hung, traced, leaked,
    \* history: the report is in a file; the threads the dump goes on without
    \* (started too late, not in tids, not attached); system calls that failed
    filed, missed, faults

appVars == <<life, alive, core, saved, disp, st, sig, conns>>
ctxVars == <<ctx, guard>>
reportVars == <<cur, todo, held, created, filed>>
svcVars == <<started, svc, pipe>>
listenVars == <<bound, listening, queue>>
sockVars == <<open, sent, hung>>
traceVars == <<traced, leaked, missed>>
vars == <<appVars, ctxVars, reportVars, dpc, svcVars, listenVars, sockVars,
          traceVars, faults>>

\* The n-th connection of a thread in a life of its process.
Conn == (1..MaxLife) \X Thread \X (1..MaxConn)
Mine(t) == <<life, t, conns[t]>>

ASSUME ConnAssumption == NoConn \notin Conn

\* Of the message: signo, and whether si_code > 0.
NoSig == [no |-> Abrt, fault |-> FALSE]

\* Where SignalHandler may be.
HandlerPC == {"caught", "connect", "send", "recv", "out", "return", "rethrow"}
\* A process that has just started has its main thread and none of our handlers.
OldHandlers == [s \in Sig |-> "old"]
FirstThread == [t \in Thread |-> IF t = Main THEN "run" ELSE "gone"]

\* The application before InitCore.
InitApp ==
    /\ life = 1 /\ alive = TRUE /\ core = "null"
    /\ saved = OldHandlers /\ disp = OldHandlers
    /\ st = FirstThread
    /\ sig = [t \in Thread |-> NoSig]
    /\ conns = [t \in Thread |-> 0]

Init ==
    /\ InitApp
    /\ ctx = "null" /\ guard = "null" /\ pipe = 0
    /\ dpc = "none" /\ cur = NoConn /\ todo = {} /\ held = {} /\ created = FALSE
    /\ started = FALSE /\ svc = "idle"
    /\ bound = FALSE /\ listening = FALSE /\ queue = <<>>
    /\ open = {} /\ sent = {} /\ hung = {} /\ traced = {} /\ leaked = {}
    /\ filed = FALSE /\ missed = {} /\ faults = 0

\* A system call fails for no reason the model knows.
Fault == faults < MaxFault /\ faults' = faults + 1
NoFault == UNCHANGED faults
-----------------------------------------------------------------------------
(* The application.  A traced thread does not run.                         *)

Running(t) == alive /\ t \notin traced

\* The process is gone: its sockets close, its tracer has nothing to trace.
Die ==
    /\ alive' = FALSE
    /\ st' = [t \in Thread |-> "gone"]
    /\ sig' = [t \in Thread |-> NoSig]
    /\ open' = {} /\ traced' = {} /\ leaked' = {} /\ missed' = {}
    /\ UNCHANGED <<life, core, saved, disp, conns, sent, hung>>

\* What steps of the application leave alone.
monitorVars == <<ctxVars, reportVars, dpc, svcVars, listenVars>>

\* The system, or the user, kills the application.
Kill == alive /\ Die /\ UNCHANGED <<monitorVars, faults>>

Restart ==
    /\ ~alive /\ life < MaxLife
    /\ life' = life + 1 /\ alive' = TRUE /\ core' = "null"
    /\ saved' = OldHandlers /\ disp' = OldHandlers
    /\ st' = FirstThread
    /\ conns' = [t \in Thread |-> 0]
    /\ hung' = {}
    /\ UNCHANGED <<sig, monitorVars, open, sent, traceVars, faults>>

\* Mutation: the handlers registered so far stay.
UnregisterNothing(registered) ==
    disp' = [s \in Sig |-> IF s \in registered THEN "ours" ELSE disp[s]]

\* UnregisterSignalHandler after a registration that stopped half way: an old
\* handler that is null, as SIG_DFL is, is taken for one never registered.  One
\* that is ours, left there by an earlier failure, is put back like any other.
UnregisterSignalHandler(registered) ==
    disp' = [s \in Sig |->
               IF s \in registered \cap OldDfl THEN "ours" ELSE disp[s]]

\* RegisterSignalHandler: all of them, their handlers saved in old_handlers; or
\* those before the one that fails, and the context is freed.
RegisterSignalHandler ==
    \/ /\ core' = "set" /\ saved' = disp
       /\ disp' = [s \in Sig |-> "ours"]
       /\ NoFault
    \/ \E registered \in SUBSET Sig :
          /\ registered # Sig
          /\ core' = "null" /\ UNCHANGED saved
          /\ UnregisterSignalHandler(registered)
          /\ Fault

InitCore ==
    /\ Running(Main) /\ st[Main] = "run"
    /\ core = "null"
    /\ RegisterSignalHandler
    /\ UNCHANGED <<life, alive, st, sig, conns, monitorVars, sockVars, traceVars>>

\* What the start and the end of a thread leave alone.
threadVars == <<life, alive, core, saved, disp, sig, conns, monitorVars,
                sockVars, traced, leaked, faults>>

\* A running thread creates another one.
ThreadStart(t) ==
    /\ \E u \in Thread : Running(u) /\ st[u] = "run"
    /\ st[t] = "gone"
    /\ st' = [st EXCEPT ![t] = "run"]
    /\ missed' = IF dpc \in {"threads", "dump"} THEN missed \cup {t} ELSE missed
    /\ UNCHANGED threadVars

ThreadExit(t) ==
    /\ t # Main /\ Running(t) /\ st[t] = "run"
    /\ st' = [st EXCEPT ![t] = "gone"]
    /\ UNCHANGED <<threadVars, missed>>

\* The kernel delivers s to t: to our handler, or to the old one, which ends
\* the process.  Our handler without its core_context is a null access.
Deliver(t, s) ==
    IF disp[s.no] = "ours" /\ core = "set"
      THEN /\ st' = [st EXCEPT ![t] = "caught"]
           /\ sig' = [sig EXCEPT ![t] = s]
           /\ UNCHANGED <<life, alive, core, saved, disp, conns, sockVars, traceVars>>
      ELSE Die

\* A fault of t (si_code > 0), or a signal sent to it (si_code <= 0).
Crash(t) ==
    /\ Running(t) /\ st[t] = "run"
    /\ \E s \in Sig, f \in BOOLEAN :
          /\ f => s # Abrt
          /\ Deliver(t, [no |-> s, fault |-> f])
    /\ UNCHANGED <<monitorVars, faults>>

\* A step of the handler on t that changes nothing of the daemon's.
HandlerStep(t, from, to) ==
    /\ Running(t) /\ st[t] = from
    /\ st' = [st EXCEPT ![t] = to]
    /\ UNCHANGED <<life, alive, core, saved, sig, ctxVars, reportVars, dpc, svcVars,
                   bound, listening, traceVars>>

\* SignalHandler restores the handler in old_handlers, fills the message and
\* asks for a socket.
RestoreHandler(t) ==
    /\ \/ HandlerStep(t, "caught", "connect") /\ NoFault
       \/ HandlerStep(t, "caught", "out") /\ Fault
    /\ disp' = [disp EXCEPT ![sig[t].no] = saved[sig[t].no]]
    /\ UNCHANGED <<queue, sockVars, conns>>

\* connect: refused when nobody listens, blocked while the backlog is full.
Connect(t) ==
    /\ \/ /\ listening /\ Len(queue) <= Backlog /\ conns[t] < MaxConn
          /\ HandlerStep(t, "connect", "send")
          /\ conns' = [conns EXCEPT ![t] = @ + 1]
          /\ queue' = Append(queue, Mine(t)')
          /\ open' = open \cup {Mine(t)'}
       \/ /\ ~listening
          /\ HandlerStep(t, "connect", "out")
          /\ UNCHANGED <<queue, open, conns>>
    /\ UNCHANGED <<disp, sent, hung, faults>>

\* send: the whole message, or an error, after which the handler goes on to
\* wait for the answer all the same.
Send(t) ==
    /\ HandlerStep(t, "send", "recv")
    /\ \/ Mine(t) \notin hung /\ sent' = sent \cup {Mine(t)} /\ NoFault
       \/ Mine(t) \in hung /\ UNCHANGED sent /\ NoFault
       \/ UNCHANGED sent /\ Fault
    /\ UNCHANGED <<disp, conns, queue, open, hung>>

\* recv: until the daemon writes its byte or closes; then close.
Recv(t) ==
    /\ HandlerStep(t, "recv", "out")
    /\ \/ Mine(t) \in hung /\ NoFault
       \/ Fault
    /\ open' = open \ {Mine(t)}
    /\ UNCHANGED <<disp, conns, queue, sent, hung>>

\* Mutation: only SIGABRT is sent again.
ResendAbrtOnly(t) == sig[t].no = Abrt

\* siginfo->si_code <= 0 || signo == SIGABRT
Resend(t) == ~sig[t].fault \/ sig[t].no = Abrt

\* The end of SignalHandler: tgkill or not.
HandlerEnds(t) ==
    /\ HandlerStep(t, "out", IF Resend(t) THEN "rethrow" ELSE "return")
    /\ UNCHANGED <<disp, conns, queue, sockVars, faults>>

\* The interrupted code runs on; a faulting instruction faults again.
Resume(t) ==
    /\ HandlerStep(t, "return", IF sig[t].fault THEN "rethrow" ELSE "run")
    /\ UNCHANGED <<disp, conns, queue, sockVars, faults>>

\* The signal comes a second time.
Rethrow(t) ==
    /\ Running(t) /\ st[t] = "rethrow"
    /\ Deliver(t, sig[t])
    /\ UNCHANGED <<monitorVars, faults>>

Handler(t) ==
    \/ RestoreHandler(t) \/ Connect(t) \/ Send(t) \/ Recv(t)
    \/ HandlerEnds(t) \/ Resume(t) \/ Rethrow(t)
-----------------------------------------------------------------------------
(* The service and the daemon_context.                                     *)

\* ~MmapGuard, and the pointer is reset.
DeleteGuard == guard' = "null"

\* The daemon process dies, or the last steps of StopDaemon: nothing is left.
FreeContext == ctx' = "null" /\ DeleteGuard

\* The new MmapGuard, when a log folder is given: its file may not open, or
\* its mmap may fail, and it is kept in either case.
NewGuard(f) ==
    \/ guard' = (IF f THEN "ok" ELSE "null") /\ NoFault
    \/ f /\ guard' \in {"nobuffer", "unmapped"} /\ Fault

\* StartDaemon, reached through ZygoteCxxCrashDaemon: refused when there is a
\* context; given up when there is no pipe; and, when pthread_create fails,
\* returning false with the context in place.
StartDaemon ==
    \/ ctx = "set" /\ UNCHANGED <<ctxVars, dpc, pipe, faults>>
    \/ ctx = "null" /\ Fault /\ UNCHANGED <<ctxVars, dpc, pipe>>
    \/ \E f \in Folder :
          /\ ctx = "null"
          /\ ctx' = "set" /\ pipe' = 0
          /\ \/ NewGuard(f) /\ dpc' = "boot"
             \/ guard' = (IF f THEN "ok" ELSE "null") /\ Fault /\ UNCHANGED dpc

\* HawkeyeMonitorService.startDaemon: the flag is set whatever the outcome.
StartService ==
    /\ svc = "idle" /\ ~started
    /\ started' = TRUE
    /\ StartDaemon
    /\ UNCHANGED <<appVars, svc, reportVars, listenVars, sockVars, traceVars>>

\* Mutation: StopDaemon does not wait for the daemon thread.
StopNoJoin ==
    \/ ctx = "null" /\ UNCHANGED <<ctxVars, pipe, svc, faults>>
    \/ ctx = "set" /\ dpc = "none" /\ FreeContext /\ UNCHANGED <<pipe, svc, faults>>
    \/ ctx = "set" /\ dpc # "none" /\ FreeContext /\ pipe' = 1
       /\ UNCHANGED <<svc, faults>>

\* StopDaemon up to its join: without a thread the context is freed at once;
\* when the pipe cannot be written it stays.
StopDaemon ==
    \/ ctx = "null" /\ UNCHANGED <<ctxVars, pipe, svc, faults>>
    \/ ctx = "set" /\ dpc = "none" /\ FreeContext /\ UNCHANGED <<pipe, svc, faults>>
    \/ ctx = "set" /\ dpc # "none" /\ pipe' = 1 /\ svc' = "join" /\ NoFault
       /\ UNCHANGED ctxVars
    \/ ctx = "set" /\ dpc # "none" /\ Fault /\ UNCHANGED <<ctxVars, pipe, svc>>

\* HawkeyeMonitorService.onDestroy.
StopService ==
    /\ svc = "idle" /\ started
    /\ started' = FALSE
    /\ StopDaemon
    /\ UNCHANGED <<appVars, dpc, reportVars, listenVars, sockVars, traceVars>>

\* Every connection the monitor process has, taken up or not.
Connected == Range(queue) \cup (IF dpc \in {"read", "attach", "list", "threads",
                                           "dump", "detach", "reply"}
                                  THEN {cur} ELSE {})

\* DaemonProcessClient returns: its locals go.
ClientDone ==
    /\ cur' = NoConn /\ todo' = {} /\ held' = {}
    /\ created' = FALSE /\ filed' = FALSE

\* The monitor process dies: the kernel closes and detaches everything.
MonitorDies ==
    /\ FreeContext
    /\ dpc' = "none" /\ svc' = "idle" /\ started' = FALSE /\ pipe' = 0
    /\ ClientDone
    /\ bound' = FALSE /\ listening' = FALSE /\ queue' = <<>>
    /\ hung' = hung \cup Connected /\ sent' = {}
    /\ traced' = {} /\ leaked' = {} /\ missed' = {}
    /\ UNCHANGED <<appVars, open>>

\* The rest of StopDaemon, once pthread_join has returned.  Deleting a guard
\* that was not mapped ends the process.
Join ==
    /\ svc = "join" /\ dpc = "done"
    /\ IF guard = "unmapped"
         THEN MonitorDies
         ELSE /\ svc' = "idle" /\ dpc' = "none" /\ pipe' = 0
              /\ FreeContext
              /\ UNCHANGED <<appVars, started, reportVars, listenVars, sockVars,
                             traceVars>>
    /\ UNCHANGED faults

KillMonitor == started /\ Fault /\ MonitorDies
-----------------------------------------------------------------------------
(* The daemon thread.                                                      *)

DaemonStep(from, to) ==
    /\ dpc = from /\ dpc' = to
    /\ UNCHANGED <<appVars, svcVars, open>>

\* DaemonFunction up to its loop: socket, bind, listen.  A socket that was
\* bound and cannot listen is never closed.
Boot ==
    /\ \/ /\ ~bound /\ DaemonStep("boot", "accept")
          /\ bound' = TRUE /\ listening' = TRUE /\ NoFault
       \/ /\ DaemonStep("boot", "done")
          /\ \/ bound /\ NoFault /\ UNCHANGED bound
             \/ Fault /\ UNCHANGED bound
             \/ ~bound /\ Fault /\ bound' = TRUE
          /\ UNCHANGED listening
    /\ UNCHANGED <<ctxVars, reportVars, queue, sent, hung, traceVars>>

\* Mutation: the pipe is not looked at.
InterruptedByError ==
    /\ DaemonStep("accept", "close")
    /\ Fault
    /\ UNCHANGED <<ctxVars, reportVars, listenVars, sent, hung, traceVars>>

\* select on the listener and the pipe: the pipe, or an error, ends the loop.
Interrupted ==
    /\ DaemonStep("accept", "close")
    /\ \/ pipe = 1 /\ NoFault
       \/ Fault
    /\ UNCHANGED <<ctxVars, reportVars, listenVars, sent, hung, traceVars>>

\* Mutation: the connection made last is taken up first.
AcceptLast ==
    /\ DaemonStep("accept", "read")
    /\ pipe = 0 /\ queue # <<>>
    /\ cur' = queue[Len(queue)] /\ queue' = SubSeq(queue, 1, Len(queue) - 1)
    /\ UNCHANGED <<ctxVars, todo, held, created, filed, bound, listening, sent, hung,
                   traceVars, faults>>

\* accept; one that fails is tried again, which is no step here.
Accept ==
    /\ DaemonStep("accept", "read")
    /\ pipe = 0 /\ queue # <<>>
    /\ cur' = Head(queue) /\ queue' = Tail(queue)
    /\ UNCHANGED <<ctxVars, todo, held, created, filed, bound, listening, sent, hung,
                   traceVars, faults>>

\* DaemonProcessClient reads the message.  It waits for the client alone: the
\* pipe is not in the set it selects on, and a client that has gone, whose
\* recv returns 0, is waited for like one that is slow.  An error closes.
ReadMessage ==
    /\ \/ DaemonStep("read", "attach") /\ cur \in sent /\ NoFault
          /\ UNCHANGED <<hung, reportVars>>
       \/ DaemonStep("read", "accept") /\ Fault
          /\ hung' = hung \cup {cur} /\ ClientDone
    /\ sent' = sent \ {cur}
    /\ UNCHANGED <<ctxVars, listenVars, traceVars>>

\* t is a thread of the process that sent the message, and not traced.
Attachable(t) == alive /\ cur[1] = life /\ st[t] # "gone" /\ t \notin traced

\* PtraceAttach fails when there is nothing to attach, when PTRACE_ATTACH is
\* refused, and when waitpid fails after it: then the thread stays stopped.
PtraceAttach(t, ok) ==
    \/ /\ Attachable(t) /\ ok
       /\ traced' = traced \cup {t} /\ UNCHANGED leaked /\ NoFault
    \/ /\ ~Attachable(t) /\ ~ok
       /\ UNCHANGED <<traced, leaked>> /\ NoFault
    \/ /\ Attachable(t) /\ ~ok
       /\ UNCHANGED <<traced, leaked>> /\ Fault
    \/ /\ Attachable(t) /\ ~ok
       /\ traced' = traced \cup {t} /\ leaked' = leaked \cup {t} /\ Fault

\* DaemonCreateReport attaches the crashed thread; without it no report.
AttachCrashed ==
    /\ \E ok \in BOOLEAN :
          /\ DaemonStep("attach", IF ok THEN "list" ELSE "reply")
          /\ PtraceAttach(cur[2], ok)
          /\ created' = ok
    /\ held' = {}
    /\ UNCHANGED <<ctxVars, cur, todo, filed, missed, listenVars, sent, hung>>

\* The task directory without the main thread.
Tasks == {t \in Thread \ {Main} : alive /\ cur[1] = life /\ st[t] # "gone"}

\* As many of the tasks as the array holds; none when opendir fails.
GetThreads(tids) ==
    \/ /\ tids \in SUBSET Tasks /\ NoFault
       /\ \/ tids = Tasks /\ Cardinality(Tasks) <= MaxTids
          \/ Cardinality(tids) = MaxTids /\ MaxTids < Cardinality(Tasks)
    \/ tids = {} /\ Fault

ListThreads ==
    /\ DaemonStep("list", "threads")
    /\ GetThreads(todo')
    /\ missed' = Tasks \ todo'
    /\ UNCHANGED <<ctxVars, cur, held, created, filed, listenVars, sent, hung,
                   traced, leaked>>

\* Then the others, one by one; those that fail become 0 in tids.
AttachOther(t) ==
    /\ DaemonStep("threads", "threads")
    /\ t \in todo /\ todo' = todo \ {t}
    /\ \E ok \in BOOLEAN :
          /\ PtraceAttach(t, ok)
          /\ held' = IF ok THEN held \cup {t} ELSE held
    /\ missed' = IF Attachable(t) /\ t \notin traced' THEN missed \cup {t} ELSE missed
    /\ UNCHANGED <<ctxVars, cur, created, filed, listenVars, sent, hung>>

\* Mutation: the threads are let go before the report is written.
AttachedAllDetach ==
    /\ DaemonStep("threads", "dump")
    /\ todo = {}
    /\ traced' = traced \ held
    /\ UNCHANGED <<ctxVars, reportVars, listenVars, sent, hung, leaked, missed, faults>>

AttachedAll ==
    /\ DaemonStep("threads", "dump")
    /\ todo = {}
    /\ UNCHANGED <<ctxVars, reportVars, listenVars, sent, hung, traceVars, faults>>

\* The dump of all threads (see CrashReport), its flush to the report file and
\* the deletion of the guard; without a guard nothing is written.  A guard that
\* was not mapped, and a file that does not open, end the process.
Dump ==
    \/ /\ DaemonStep("dump", "detach")
       /\ guard # "unmapped"
       /\ filed' = (guard = "ok")
       /\ DeleteGuard
       /\ todo' = held \cup {cur[2]} /\ missed' = {}
       /\ UNCHANGED <<ctx, cur, held, created, listenVars, sent, hung,
                      traced, leaked, faults>>
    \/ /\ dpc = "dump"
       /\ \/ guard = "unmapped" /\ NoFault
          \/ guard # "null" /\ Fault
       /\ MonitorDies

\* PtraceDetach: a thread that is not let go stays stopped.
PtraceDetach(t) ==
    \/ traced' = traced \ {t} /\ leaked' = leaked \ {t} /\ NoFault
    \/ t \in traced /\ UNCHANGED traced /\ leaked' = leaked \cup {t} /\ Fault

\* The crashed thread is detached first, then the others; none of a process
\* that has ended meanwhile.
Detach(t) ==
    /\ DaemonStep("detach", "detach")
    /\ t \in todo /\ todo' = todo \ {t}
    /\ cur[2] \in todo => t = cur[2]
    /\ IF cur[1] = life THEN PtraceDetach(t) ELSE UNCHANGED <<traced, leaked, faults>>
    /\ UNCHANGED <<ctxVars, cur, held, created, filed, missed, listenVars, sent, hung>>

\* Mutation: the report is over when the crashed thread has been let go.
DetachedCrashed ==
    /\ DaemonStep("detach", "reply")
    /\ cur[2] \notin todo
    /\ UNCHANGED <<ctxVars, reportVars, listenVars, sent, hung, traceVars, faults>>

DetachedAll ==
    /\ DaemonStep("detach", "reply")
    /\ todo = {}
    /\ UNCHANGED <<ctxVars, reportVars, listenVars, sent, hung, traceVars, faults>>

\* The byte and the close.  The write fails when the client has gone.
Reply ==
    /\ DaemonStep("reply", IF created THEN "call" ELSE "accept")
    /\ hung' = hung \cup {cur}
    /\ IF created THEN UNCHANGED reportVars ELSE ClientDone
    /\ UNCHANGED <<ctxVars, listenVars, sent, traceVars, faults>>

\* crash_callback, that is OnCrash and through it onCxxCrashCallback.
Callback ==
    /\ DaemonStep("call", "accept")
    /\ ClientDone
    /\ UNCHANGED <<ctxVars, listenVars, sent, hung, traceVars, faults>>

\* close(listener) resets who has not been accepted; the thread ends, and
\* with it its traces.
Close ==
    /\ DaemonStep("close", "done")
    /\ bound' = FALSE /\ listening' = FALSE /\ queue' = <<>>
    /\ hung' = hung \cup Range(queue) /\ sent' = sent \ Range(queue)
    /\ traced' = {} /\ leaked' = {} /\ missed' = {}
    /\ UNCHANGED <<ctxVars, reportVars, faults>>

Daemon ==
    \/ Boot \/ Interrupted \/ Accept \/ ReadMessage
    \/ AttachCrashed \/ ListThreads \/ (\E t \in Thread : AttachOther(t)) \/ AttachedAll
    \/ Dump \/ (\E t \in Thread : Detach(t)) \/ DetachedAll
    \/ Reply \/ Callback \/ Close
-----------------------------------------------------------------------------
Next ==
    \/ Kill \/ Restart \/ InitCore
    \/ \E t \in Thread : ThreadStart(t) \/ ThreadExit(t) \/ Crash(t) \/ Handler(t)
    \/ StartService \/ StopService \/ Join \/ KillMonitor
    \/ Daemon

SafetySpec == Init /\ [][Next]_vars

\* The scheduler runs every thread that can run; the kernel delivers what is
\* pending.  Nobody has to crash, to kill, to start or to stop anything.
Spec ==
    /\ SafetySpec
    /\ WF_vars(Daemon)
    /\ WF_vars(Join)
    /\ \A t \in Thread : WF_vars(Handler(t))
-----------------------------------------------------------------------------
(* Safety.                                                                 *)

\* StopDaemon frees the daemon_context only when no daemon thread can use it
\* any more, whichever system call failed before (hawkeye_daemon.cpp:318).
ContextOutlivesThread == dpc \notin {"none", "done"} => ctx = "set"

\* Between reports no thread of the application is held, except one whose
\* waitpid failed after its attach, or whose detach failed
\* (hawkeye_daemon.cpp:29, :42).
ThreadsReleased ==
    dpc \notin {"list", "threads", "dump", "detach"} => traced = leaked

\* While a living process is dumped, every thread the report shows stands
\* still; and no other thread runs but the main one, which GetThreads leaves
\* out, and those the daemon misses: they started after the directory was read,
\* it could not be read, tids had no room for them, or they could not be
\* attached (hawkeye_daemon.cpp:59-94, hawkeye_private.cpp:200-213).
FrozenWhileDumped ==
    dpc = "dump" /\ alive /\ cur[1] = life
    => /\ held \cup {cur[2]} \subseteq traced
       /\ \A t \in Thread \ {Main} : t \in traced \/ st[t] = "gone" \/ t \in missed

\* After a registration that failed half way no signal with an old handler
\* is left with ours, whose context has been freed (hawkeye_core.cpp:50).
FailedInitRestores ==
    core = "null" => \A s \in Sig \ OldDfl : disp[s] = "old"

\* A callback is only made for a report that is in a file: crash_callback is
\* "Called when a crash report is generated" (hawkeye.cpp:34).
CallbackHasReport == dpc = "call" => filed

\* Where the connection of the daemon has been neither reported nor refused.
Taken == {"read", "attach", "list", "threads", "dump"}

\* At most one report for each connection, made or refused in the order of the
\* connections, and no answer before it.  Whether a report gets into a file is
\* not part of it: see CallbackHasReport (DaemonFunction, DaemonProcessClient).
Service == INSTANCE CrashService WITH
    pending <- (IF dpc \in Taken
                  THEN <<cur>> ELSE <<>>) \o queue,
    phase <- [c \in Conn |->
                IF c \in Range(queue) THEN "pending"
                ELSE IF c = cur
                  THEN CASE dpc \in Taken -> "pending"
                         [] dpc = "detach" \/ (dpc = "reply" /\ created) -> "reported"
                         [] dpc = "reply" /\ ~created -> "refused"
                         [] OTHER -> "answered"
                ELSE IF c \in hung \/ c[1] < life THEN "answered"
                ELSE "new"]

ImplementsService == Service!Spec

(* Liveness.                                                               *)

\* The daemon waits for a client that will never send: it died, its send
\* failed, or it is stopped by a trace that is never ended.
Stuck ==
    /\ dpc = "read" /\ cur \notin sent
    /\ \/ cur \notin open
       \/ st[cur[2]] = "recv"
       \/ cur[2] \in leaked

\* A process that crashes ends, whatever happens to the daemon: "restoring an
\* old handler to make built-in Android crash mechanism work", unless the
\* daemon is stuck or has lost a thread it stopped, or the handler that was
\* saved is our own, left by a registration that failed before the one that
\* succeeded: then the crash is handled again and again (hawkeye_core.cpp:78).
CrashEnds ==
    \A t \in Thread, n \in 1..MaxLife :
        (st[t] = "caught" /\ life = n /\ saved[sig[t].no] = "old")
            ~> (~alive \/ life > n \/ Stuck \/ leaked # {})

\* StopDaemon returns unless the daemon is stuck.
StopReturnsUnlessStuck == (svc = "join") ~> (svc = "idle" \/ Stuck)

=============================================================================
