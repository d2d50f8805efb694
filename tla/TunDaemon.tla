----------------------------- MODULE TunDaemon ------------------------------
(***************************************************************************)
(* Life cycle of the background TUN daemon on Unix (src/tun_daemon): the   *)
(* `tun up` parent, the worker it spawns, the worker's control and data    *)
(* tasks, and `tun status` / `tun down` clients, sharing tun.lock, tun.sock *)
(* and tun.pid.  A worker stands for one spawn, so its session is unique;  *)
(* its parent goes by the same name.                                       *)
(***************************************************************************)
EXTENDS Naturals, FiniteSets

CONSTANTS
    Worker,   \* bound: the spawns that may happen
    Client,   \* processes running `tun status` and `tun down`
    Slow,     \* a live daemon may miss PROBE_CONNECT_TIMEOUT
    Leaves,   \* the data plane may be away from cancel.notified() again
    Faults    \* kills, interrupted parents, failing data plane or pid write

ASSUME TunDaemonConstants ==
    /\ Worker \cap Client = {}
    /\ {Slow, Leaves, Faults} \subseteq BOOLEAN

None == "none"
ASSUME NoneIsNoWorker == None \notin Worker

VARIABLES
    lock,   \* who holds the flock on tun.lock
    sock,   \* whose listener the path tun.sock names
    pid,    \* the session recorded in tun.pid
    wpc,    \* where run_worker is
    ctl,    \* serve_ctl_until_shutdown: the listener and its accept loop
    data,   \* the data plane, "waiting" while at cancel.notified()
    ready,  \* the worker's oneshot from the data plane
    line,   \* the ready line sent to the parent
    cpc,    \* where each parent or client is
    saw     \* the pid record a probe read before its handshake

files == <<lock, sock, pid>>
work == <<wpc, ctl, data, ready, line>>
cmds == <<cpc, saw>>
vars == <<files, work, cmds>>

Held == {"prep", "prepclean", "bind", "pid", "ready", "join", "joinctl",
         "clean", "unlock"}
Done == {"ok", "failed", "gone"}
UpPoint == {"idle", "spawn", "wait", "confirm", "reprobe", "reap", "reapclean"} \cup Done
ClientPoint == {"idle", "stale", "send", "poll", "pollclean"}

Init ==
    /\ lock = None /\ sock = None /\ pid = None
    /\ wpc = [w \in Worker |-> "none"]
    /\ ctl = [w \in Worker |-> "off"]
    /\ data = [w \in Worker |-> "off"]
    /\ ready = [w \in Worker |-> "pending"]
    /\ line = [w \in Worker |-> "none"]
    /\ cpc = [c \in Worker \cup Client |-> "idle"]
    /\ saw = [c \in Worker \cup Client |-> None]

-----------------------------------------------------------------------------
(* handshake_status: the answer of the listener behind the path. *)

Silent == IF sock = None THEN TRUE ELSE Slow \/ ctl[sock] \in {"draining", "ended"}
HandshakeStatus ==
    {v \in Worker : sock = v /\ ctl[v] = "serving"} \cup {v \in {None} : Silent}

Step(c, p) == cpc' = [cpc EXCEPT ![c] = p]

(* probe: a daemon answers, or the pid record read before the handshake    *)
(* decides what is unlinked next.                                          *)
Probe(c, running, notRunning) ==
    \E v \in HandshakeStatus :
        /\ Step(c, IF v = None THEN notRunning ELSE running)
        /\ saw' = IF v = None THEN [saw EXCEPT ![c] = pid] ELSE saw

Unlinked(c) ==
    /\ sock' = None
    /\ pid' = IF saw[c] # None /\ wpc[saw[c]] = "dead" THEN None ELSE pid
    /\ saw' = [saw EXCEPT ![c] = None]

(* The process of worker w is gone: the kernel drops its flock and its     *)
(* listener, the files stay.                                               *)
Dies(w) ==
    /\ wpc' = [wpc EXCEPT ![w] = "dead"]
    /\ ctl' = [ctl EXCEPT ![w] = "ended"]
    /\ data' = [data EXCEPT ![w] = "ended"]
    /\ ready' = [ready EXCEPT ![w] = "pending"]
    /\ lock' = IF lock = w THEN None ELSE lock

-----------------------------------------------------------------------------
(* spawn_daemon_unix: the parent of worker w *)

UpProbes(w) ==
    /\ cpc[w] = "idle"
    /\ Probe(w, "failed", "spawn")
    /\ UNCHANGED <<files, work>>

UpSpawns(w) ==
    /\ cpc[w] = "spawn"
    /\ Unlinked(w)
    /\ wpc' = [wpc EXCEPT ![w] = "start"]
    /\ Step(w, "wait")
    /\ UNCHANGED <<lock, ctl, data, ready, line>>

Reads(w) == line' = [line EXCEPT ![w] = "none"]

UpReady(w) ==
    /\ cpc[w] = "wait" /\ line[w] = "ok"
    /\ Reads(w) /\ Step(w, "confirm")
    /\ UNCHANGED <<files, wpc, ctl, data, ready, saw>>

(* ERROR line, or ready_timeout with no line at all. *)
UpKillsOnError(w) ==
    /\ cpc[w] = "wait" /\ line[w] = "err"
    /\ Reads(w) /\ Dies(w) /\ Step(w, "reap")
    /\ UNCHANGED <<sock, pid, saw>>
UpKills(w) ==
    /\ cpc[w] = "wait" /\ line[w] # "ok"
    /\ Reads(w) /\ Dies(w) /\ Step(w, "reap")
    /\ UNCHANGED <<sock, pid, saw>>

(* cleanup_residuals_if_dead *)
UpReaps(w) ==
    /\ cpc[w] = "reap"
    /\ Probe(w, "failed", "reapclean")
    /\ UNCHANGED <<files, work>>
UpReapCleans(w) ==
    /\ cpc[w] = "reapclean"
    /\ Unlinked(w) /\ Step(w, "failed")
    /\ UNCHANGED <<lock, work>>

(* The socket must answer with our session before the 2 s deadline; a      *)
(* parent that gives up here leaves its worker alone.                      *)
UpConfirms(w) ==
    /\ cpc[w] = "confirm"
    /\ Probe(w, IF sock = w THEN "ok" ELSE "failed", "reprobe")
    /\ UNCHANGED <<files, work>>
UpReprobes(w) ==
    /\ cpc[w] = "reprobe"
    /\ Unlinked(w) /\ Step(w, "confirm")
    /\ UNCHANGED <<lock, work>>
UpGivesUp(w) ==
    /\ cpc[w] = "reprobe"
    /\ Unlinked(w) /\ Step(w, "failed")
    /\ UNCHANGED <<lock, work>>

(* The user interrupts `tun up`; a worker it spawned is in a session of    *)
(* its own and lives on.                                                   *)
UpInterrupted(w) ==
    /\ Faults
    /\ cpc[w] \notin Done \cup {"idle"}
    /\ Reads(w) /\ Step(w, "gone")
    /\ saw' = [saw EXCEPT ![w] = None]
    /\ UNCHANGED <<files, wpc, ctl, data, ready>>

-----------------------------------------------------------------------------
(* run_worker *)

Goto(w, p) == wpc' = [wpc EXCEPT ![w] = p]
Gives(w) == lock' = None /\ Goto(w, "exit")

(* try_acquire_lock *)
TryAcquireLock(w) ==
    /\ wpc[w] = "start"
    /\ IF lock = None THEN lock' = w /\ Goto(w, "prep")
                      ELSE Goto(w, "exit") /\ UNCHANGED lock
    /\ UNCHANGED <<sock, pid, ctl, data, ready, line, cmds>>

(* prepare_bind *)
PrepareBindTrusting(w) ==
    /\ wpc[w] = "prep"
    /\ None \in HandshakeStatus /\ Goto(w, "bind")
    /\ UNCHANGED <<files, ctl, data, ready, line, cmds>>
PrepareBind(w) ==
    /\ wpc[w] = "prep"
    /\ \E v \in HandshakeStatus :
          IF v # None
          THEN Gives(w)
          ELSE Goto(w, IF sock = None THEN "bind" ELSE "prepclean") /\ UNCHANGED lock
    /\ UNCHANGED <<sock, pid, ctl, data, ready, line, cmds>>
PrepareCleans(w) ==
    /\ wpc[w] = "prepclean"
    /\ sock' = None /\ Goto(w, "bind")
    /\ UNCHANGED <<lock, pid, ctl, data, ready, line, cmds>>

(* bind_listener *)
Bind(w) ==
    /\ wpc[w] = "bind"
    /\ IF sock = None
       THEN /\ sock' = w /\ Goto(w, "pid")
            /\ ctl' = [ctl EXCEPT ![w] = "bound"]
            /\ UNCHANGED lock
       ELSE Gives(w) /\ UNCHANGED <<sock, ctl>>
    /\ UNCHANGED <<pid, data, ready, line, cmds>>

(* The pid record, then run_live_control_and_data. *)
WritePid(w) ==
    /\ wpc[w] = "pid"
    /\ pid' = w /\ Goto(w, "ready")
    /\ ctl' = [ctl EXCEPT ![w] = "serving"]
    /\ data' = [data EXCEPT ![w] = "setup"]
    /\ UNCHANGED <<lock, sock, ready, line, cmds>>
WritePidFails(w) ==
    /\ Faults
    /\ wpc[w] = "pid"
    /\ sock' = None /\ Gives(w)
    /\ ctl' = [ctl EXCEPT ![w] = "ended"]
    /\ UNCHANGED <<pid, data, ready, line, cmds>>

(* join_live_control_and_data: a worker whose parent is gone cannot send   *)
(* OK and returns at once, its tasks detached until the process ends.      *)
Sends(w, l) ==
    line' = IF cpc[w] = "wait" /\ line[w] = "none"
            THEN [line EXCEPT ![w] = l] ELSE line
Receives(w) == ready' = [ready EXCEPT ![w] = "pending"]
ReportReady(w) ==
    /\ wpc[w] = "ready" /\ ready[w] = "ok"
    /\ Sends(w, "ok")
    /\ Receives(w)
    /\ Goto(w, IF cpc[w] = "wait" THEN "join" ELSE "clean")
    /\ UNCHANGED <<files, ctl, data, cmds>>

(* hooks.request_shutdown is notify_waiters: only a data plane that waits  *)
(* at cancel.notified() hears it.                                          *)
RequestShutdown(w) ==
    data' = IF data[w] = "waiting" THEN [data EXCEPT ![w] = "stopping"] ELSE data

(* The data plane reported a failure, or READY_TIMEOUT passed. *)
ReportError(w) ==
    /\ wpc[w] = "ready" /\ ready[w] # "ok"
    /\ Sends(w, "err")
    /\ RequestShutdown(w)
    /\ Receives(w)
    /\ Goto(w, "join")
    /\ UNCHANGED <<files, ctl, cmds>>

JoinDataNot(w) ==
    /\ wpc[w] = "join"
    /\ Goto(w, "joinctl")
    /\ UNCHANGED <<files, ctl, data, ready, line, cmds>>
JoinData(w) ==
    /\ wpc[w] = "join" /\ data[w] = "ended"
    /\ RequestShutdown(w)
    /\ Goto(w, "joinctl")
    /\ UNCHANGED <<files, ctl, ready, line, cmds>>

JoinCtlUnlocks(w) ==
    /\ wpc[w] = "joinctl" /\ ctl[w] = "ended"
    /\ lock' = None /\ Goto(w, "clean")
    /\ UNCHANGED <<sock, pid, ctl, data, ready, line, cmds>>
JoinCtl(w) ==
    /\ wpc[w] = "joinctl" /\ ctl[w] = "ended"
    /\ Goto(w, "clean")
    /\ UNCHANGED <<files, ctl, data, ready, line, cmds>>

(* cleanup_worker_files *)
CleanupWorkerFiles(w) ==
    /\ wpc[w] = "clean"
    /\ sock' = None /\ pid' = None
    /\ Goto(w, "unlock")
    /\ UNCHANGED <<lock, ctl, data, ready, line, cmds>>

(* drop_lock *)
DropLock(w) ==
    /\ wpc[w] = "unlock"
    /\ Gives(w)
    /\ UNCHANGED <<sock, pid, ctl, data, ready, line, cmds>>

(* run_worker returns: ERROR to a parent that still waits, then the end. *)
Exit(w) ==
    /\ wpc[w] = "exit"
    /\ Sends(w, "err") /\ Dies(w)
    /\ UNCHANGED <<sock, pid, cmds>>

Killed(w) ==
    /\ Faults
    /\ wpc[w] \notin {"none", "dead"}
    /\ Dies(w)
    /\ UNCHANGED <<sock, pid, line, cmds>>

-----------------------------------------------------------------------------
(* The data plane and the control task *)

(* signal_ready: the worker may have stopped listening. *)
SignalReady(w, r) ==
    ready' = IF wpc[w] = "ready" THEN [ready EXCEPT ![w] = r] ELSE ready

DataReady(w) ==
    /\ data[w] = "setup"
    /\ data' = [data EXCEPT ![w] = "busy"]
    /\ SignalReady(w, "ok")
    /\ UNCHANGED <<files, wpc, ctl, line, cmds>>

(* A setup error before signal_ready leaves the oneshot pending: the       *)
(* sender lives in the hooks, which the control task shares.               *)
DataFails(w) ==
    /\ Faults
    /\ data[w] \in {"setup", "busy", "waiting"}
    /\ data' = [data EXCEPT ![w] = "ended"]
    /\ UNCHANGED ready \/ (data[w] = "setup" /\ SignalReady(w, "err"))
    /\ UNCHANGED <<files, wpc, ctl, line, cmds>>

(* The select with cancel.notified(); dials and handshakes happen outside. *)
DataListens(w) ==
    /\ data[w] = "busy"
    /\ data' = [data EXCEPT ![w] = "waiting"]
    /\ UNCHANGED <<files, wpc, ctl, ready, line, cmds>>
DataLeaves(w) ==
    /\ Leaves
    /\ data[w] = "waiting"
    /\ data' = [data EXCEPT ![w] = "busy"]
    /\ UNCHANGED <<files, wpc, ctl, ready, line, cmds>>
DataStops(w) ==
    /\ data[w] = "stopping"
    /\ data' = [data EXCEPT ![w] = "ended"]
    /\ UNCHANGED <<files, wpc, ctl, ready, line, cmds>>

(* The accept loop has left; in-flight requests have CTL_DRAIN_TIMEOUT. *)
CtlDrains(w) ==
    /\ ctl[w] = "draining"
    /\ ctl' = [ctl EXCEPT ![w] = "ended"]
    /\ UNCHANGED <<files, wpc, data, ready, line, cmds>>

(* handle_ctl_request: Shutdown stops the accept loop, then the data plane. *)
Shutdown(w) ==
    /\ ctl' = [ctl EXCEPT ![w] = "draining"]
    /\ RequestShutdown(w)

-----------------------------------------------------------------------------
(* cmd_down, and cmd_status: the same probe, which changes nothing when a  *)
(* daemon answers.                                                         *)

ClientProbes(c) ==
    /\ cpc[c] = "idle"
    /\ Probe(c, "send", "stale")
    /\ UNCHANGED <<files, work>>
ClientCleans(c) ==
    /\ cpc[c] = "stale"
    /\ Unlinked(c) /\ Step(c, "idle")
    /\ UNCHANGED <<lock, work>>

DownSends(c) ==
    /\ cpc[c] = "send"
    /\ \E v \in HandshakeStatus :
          IF v = None THEN Step(c, "idle") /\ UNCHANGED <<ctl, data>>
                      ELSE Shutdown(v) /\ Step(c, "poll")
    /\ UNCHANGED <<files, wpc, ready, line, saw>>

(* Until a probe finds nobody, or the deadline. *)
DownPolls(c) ==
    /\ cpc[c] = "poll"
    /\ Probe(c, "poll", "pollclean")
    /\ UNCHANGED <<files, work>>
DownGivesUp(c) ==
    /\ cpc[c] = "poll"
    /\ Step(c, "idle")
    /\ UNCHANGED <<files, work, saw>>
DownCleans(c) ==
    /\ cpc[c] = "pollclean"
    /\ sock' = None /\ pid' = None
    /\ saw' = [saw EXCEPT ![c] = None]
    /\ Step(c, "idle")
    /\ UNCHANGED <<lock, work>>

-----------------------------------------------------------------------------
UpSteps(w) ==
    \/ UpSpawns(w) \/ UpReady(w) \/ UpKills(w) \/ UpReaps(w) \/ UpReapCleans(w)
    \/ UpConfirms(w) \/ UpReprobes(w)

WorkerSteps(w) ==
    \/ TryAcquireLock(w) \/ PrepareBind(w) \/ PrepareCleans(w) \/ Bind(w)
    \/ WritePid(w) \/ ReportReady(w) \/ ReportError(w)
    \/ JoinData(w) \/ JoinCtl(w) \/ CleanupWorkerFiles(w) \/ DropLock(w) \/ Exit(w)

DataSteps(w) == DataReady(w) \/ DataListens(w) \/ DataStops(w)

Next ==
    \/ \E w \in Worker :
          \/ UpProbes(w) \/ UpSteps(w) \/ UpGivesUp(w) \/ UpInterrupted(w)
          \/ WorkerSteps(w) \/ WritePidFails(w) \/ Killed(w)
          \/ DataSteps(w) \/ DataFails(w) \/ DataLeaves(w) \/ CtlDrains(w)
    \/ \E c \in Client :
          \/ ClientProbes(c) \/ ClientCleans(c) \/ DownSends(c)
          \/ DownPolls(c) \/ DownGivesUp(c) \/ DownCleans(c)

(* Every process, task and timer goes on; nobody has to type a command, no *)
(* fault has to happen.  The 2 s deadline of the confirm loop is strong    *)
(* fairness: it passes however often the loop probes.                      *)
Fairness ==
    /\ \A w \in Worker :
          /\ WF_vars(UpSteps(w)) /\ SF_vars(UpGivesUp(w))
          /\ WF_vars(WorkerSteps(w)) /\ WF_vars(DataSteps(w)) /\ WF_vars(CtlDrains(w))
    /\ \A c \in Client :
          WF_vars(ClientCleans(c) \/ DownSends(c) \/ DownGivesUp(c)
                  \/ DownCleans(c))

Spec == Init /\ [][Next]_vars
FairSpec == Spec /\ Fairness

-----------------------------------------------------------------------------
(* Properties *)

TypeOK ==
    /\ {lock, sock, pid} \subseteq Worker \cup {None}
    /\ wpc \in [Worker -> Held \cup {"none", "start", "exit", "dead"}]
    /\ ctl \in [Worker -> {"off", "bound", "serving", "draining", "ended"}]
    /\ data \in [Worker -> {"off", "setup", "busy", "waiting", "stopping", "ended"}]
    /\ ready \in [Worker -> {"pending", "ok", "err"}]
    /\ line \in [Worker -> {"none", "ok", "err"}]
    /\ cpc \in [Worker \cup Client -> UpPoint \cup ClientPoint]
    /\ \A w \in Worker : cpc[w] \in UpPoint
    /\ \A c \in Client : cpc[c] \in ClientPoint
    /\ saw \in [Worker \cup Client -> Worker \cup {None}]

(* cleanup_worker_files runs before drop_lock: a socket or pid file names  *)
(* the holder of the lock or a process that no longer exists, so a worker  *)
(* that cleans up never removes the files of its successor.                *)
LockGuardsFiles ==
    \A w \in Worker : sock = w \/ pid = w => lock = w \/ wpc[w] = "dead"

(* tun.lock: two data planes never run at once.  The exception is a worker *)
(* whose parent was interrupted before it could send OK: it gives the lock *)
(* back with its tasks still running, until its process ends.              *)
Plane(w) == data[w] \notin {"off", "ended"}
Detached(w) == wpc[w] = "exit" /\ cpc[w] = "gone"
OnePlane ==
    \A v, w \in Worker : v # w /\ Plane(v) /\ Plane(w) => Detached(v) \/ Detached(w)

(* prepare_bind: whatever a killed worker left behind and whoever probes   *)
(* meanwhile, a worker never finds its socket path taken when it binds.    *)
BindClear == \A w \in Worker : wpc[w] = "bind" => sock = None

(* "Shutdown -> hooks.cancel -> data plane exit -> cleanup" for a Shutdown  *)
(* the data plane hears: the worker ends.                                  *)
ShutdownHeard == \A w \in Worker : data[w] = "stopping" ~> wpc[w] = "dead"

(* spawn_daemon_unix: `tun up` always returns, even when the worker was    *)
(* killed without a word.                                                  *)
UpsEnd == \A w \in Worker : cpc[w] # "idle" ~> cpc[w] \in Done

(* The same order for every Shutdown the control task accepted. *)
ShutdownCompletes == \A w \in Worker : ctl[w] = "draining" ~> wpc[w] = "dead"

(* A Shutdown that the data plane hears ends the worker, and `tun up`      *)
(* returns, whoever dies or keeps silent.                                  *)
CommandsComplete == ShutdownHeard /\ UpsEnd
=============================================================================
