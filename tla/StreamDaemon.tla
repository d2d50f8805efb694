---------------------------- MODULE StreamDaemon ----------------------------
(***************************************************************************)
(* Life cycle of the stream phone daemon (src/stream_daemon_unix.rs): the   *)
(* `call up` parents, the workers they spawn, and `call down` clients,     *)
(* sharing a lock file, a control socket and a pid file.  A worker stands  *)
(* for one spawn, so its session is unique; its parent goes by its name.   *)
(* StreamPhone models what happens inside a plane that is up.              *)
(***************************************************************************)
EXTENDS Naturals

CONSTANTS
    Worker,   \* bound: the spawns that may happen
    Client,   \* processes running `call down`
    Faults,   \* kills, failing planes and pid writes
    None

ASSUME StreamDaemonConstants ==
    /\ Worker \cap Client = {} /\ None \notin Worker
    /\ Faults \in BOOLEAN

VARIABLES
    lock,    \* who holds the lock file
    sock,    \* whose listener the socket path names
    pid,     \* the session of the pid file
    wpc,     \* where run_daemon_inner is
    ctl,     \* the listener: bound, serving, or closed
    plane,   \* run_phone_plane
    stop,    \* a Shutdown is in the command channel
    line,    \* the ready line for the parent
    cpc,     \* where each parent or client is
    late     \* history: files were unlinked after another took the lock

files == <<lock, sock, pid>>
work == <<wpc, ctl, plane, stop, line>>
vars == <<files, work, cpc, late>>

Done == {"ok", "failed", "gone"}
Holding == {"unlink", "bind", "pid", "ready", "serve", "unlock"}

Init ==
    /\ lock = None /\ sock = None /\ pid = None
    /\ wpc = [w \in Worker |-> "none"]
    /\ ctl = [w \in Worker |-> "closed"]
    /\ plane = [w \in Worker |-> "off"]
    /\ stop = [w \in Worker |-> FALSE]
    /\ line = [w \in Worker |-> "none"]
    /\ cpc = [c \in Worker \cup Client |-> "idle"]
    /\ late = FALSE

Goto(w, p) == wpc' = [wpc EXCEPT ![w] = p]
Step(c, p) == cpc' = [cpc EXCEPT ![c] = p]

-----------------------------------------------------------------------------
(* probe.  A listener that is bound and not yet served, a daemon slower     *)
(* than the timeouts and no listener at all look alike: not running.       *)
Answers == {v \in Worker : sock = v /\ ctl[v] = "serving"} \cup {None}

(* The process of worker w is gone; its files stay.                        *)
Dies(w) ==
    /\ wpc' = [wpc EXCEPT ![w] = "dead"]
    /\ ctl' = [ctl EXCEPT ![w] = "closed"]
    /\ plane' = [plane EXCEPT ![w] = "off"]
    /\ lock' = IF lock = w THEN None ELSE lock

-----------------------------------------------------------------------------
(* cmd_up: spawn_daemon_unix, and run_foreground, whose worker is the       *)
(* command itself.                                                         *)
Starts(w, then) ==
    /\ cpc[w] = "idle"
    /\ \E v \in Answers :
          IF v # None THEN Step(w, "failed") /\ UNCHANGED wpc
          ELSE Goto(w, "start") /\ Step(w, then)
    /\ UNCHANGED <<files, ctl, plane, stop, line, late>>

UpProbes(w) == Starts(w, "wait")
Foreground(w) == Starts(w, "gone")

UpReady(w) ==
    /\ cpc[w] = "wait" /\ line[w] = "ok"
    /\ Step(w, "confirm")
    /\ UNCHANGED <<files, work, late>>

(* An ERROR line, or ready_timeout without a line: kill the child.         *)
UpKills(w) ==
    /\ cpc[w] = "wait" /\ line[w] # "ok"
    /\ Dies(w) /\ Step(w, "failed")
    /\ UNCHANGED <<sock, pid, stop, line, late>>

(* Probe every 50 ms until our session answers; the 5 s deadline ends it.   *)
UpConfirms(w) ==
    /\ cpc[w] = "confirm"
    /\ \E v \in Answers :
          \/ v # None /\ Step(w, IF v = w THEN "ok" ELSE "failed")
          \/ v = None /\ Step(w, "failed")
    /\ UNCHANGED <<files, work, late>>

-----------------------------------------------------------------------------
(* run_daemon_inner *)

Sends(w, l) == line' = IF cpc[w] = "wait" THEN [line EXCEPT ![w] = l] ELSE line

(* Mutant: a worker that does not get the lock goes on. *)
IgnoreLock(w) ==
    /\ wpc[w] = "start"
    /\ lock' = w /\ Goto(w, "unlink")
    /\ UNCHANGED <<sock, pid, ctl, plane, stop, line, cpc, late>>

(* Mutant: the stale socket is unlinked before the lock is tried. *)
UnlinkFirst(w) ==
    /\ wpc[w] = "start"
    /\ sock' = None
    /\ IF lock = None THEN lock' = w /\ Goto(w, "unlink")
                      ELSE Goto(w, "exit") /\ UNCHANGED lock
    /\ UNCHANGED <<pid, ctl, plane, stop, line, cpc, late>>

TryAcquireLock(w) ==
    /\ wpc[w] = "start"
    /\ IF lock = None THEN lock' = w /\ Goto(w, "unlink")
                      ELSE Goto(w, "exit") /\ UNCHANGED lock
    /\ UNCHANGED <<sock, pid, ctl, plane, stop, line, cpc, late>>

(* The lock is ours: whatever socket file there is, it is stale.           *)
UnlinkStale(w) ==
    /\ wpc[w] = "unlink"
    /\ sock' = None /\ Goto(w, "bind")
    /\ UNCHANGED <<lock, pid, ctl, plane, stop, line, cpc, late>>

Bind(w) ==
    /\ wpc[w] = "bind"
    /\ IF sock = None
       THEN /\ sock' = w /\ ctl' = [ctl EXCEPT ![w] = "bound"]
            /\ Goto(w, "pid")
       ELSE Goto(w, "exit") /\ UNCHANGED <<sock, ctl>>
    /\ UNCHANGED <<lock, pid, plane, stop, line, cpc, late>>

(* The pid record, the command channel, and the plane is spawned; a write   *)
(* that fails returns with the socket file left behind.                    *)
WritePid(w) ==
    /\ wpc[w] = "pid"
    /\ pid' = w /\ Goto(w, "ready")
    /\ plane' = [plane EXCEPT ![w] = "setup"]
    /\ UNCHANGED <<lock, sock, ctl, stop, line, cpc, late>>

WritePidFails(w) ==
    /\ Faults /\ wpc[w] = "pid"
    /\ Goto(w, "exit")
    /\ UNCHANGED <<files, ctl, plane, stop, line, cpc, late>>

(* ready_rx: OK to the parent, then the control loop is spawned; or the     *)
(* plane failed, and the lock is dropped before the socket is unlinked.    *)
Ready(w) ==
    /\ wpc[w] = "ready" /\ plane[w] \in {"up", "ended"}
    /\ Sends(w, "ok")
    /\ ctl' = [ctl EXCEPT ![w] = "serving"] /\ Goto(w, "serve")
    /\ UNCHANGED <<files, plane, stop, cpc, late>>

NotReady(w) ==
    /\ wpc[w] = "ready" /\ plane[w] = "failed"
    /\ lock' = None /\ Goto(w, "unlinksock")
    /\ UNCHANGED <<sock, pid, ctl, plane, stop, line, cpc, late>>

(* phone.await returned: ctl.abort, then the lock.                         *)
PlaneJoined(w) ==
    /\ wpc[w] = "serve" /\ plane[w] = "ended"
    /\ ctl' = [ctl EXCEPT ![w] = "closed"] /\ Goto(w, "unlock")
    /\ UNCHANGED <<files, plane, stop, line, cpc, late>>

DropLock(w) ==
    /\ wpc[w] = "unlock"
    /\ lock' = None /\ Goto(w, "unlinkall")
    /\ UNCHANGED <<sock, pid, ctl, plane, stop, line, cpc, late>>

(* remove_file, by path: the successor's socket as well as its own.        *)
UnlinkSock(w) ==
    /\ wpc[w] \in {"unlinksock", "unlinkall"}
    /\ sock' = None /\ late' = (late \/ lock # None)
    /\ Goto(w, IF wpc[w] = "unlinkall" THEN "unlinkpid" ELSE "exit")
    /\ UNCHANGED <<lock, pid, ctl, plane, stop, line, cpc>>

UnlinkPid(w) ==
    /\ wpc[w] = "unlinkpid"
    /\ pid' = None /\ late' = (late \/ lock # None)
    /\ Goto(w, "exit")
    /\ UNCHANGED <<lock, sock, ctl, plane, stop, line, cpc>>

(* run_worker returns, with an ERROR line when the result is one.          *)
Exit(w) ==
    /\ wpc[w] = "exit"
    /\ line' = IF cpc[w] = "wait" /\ line[w] = "none"
               THEN [line EXCEPT ![w] = "err"] ELSE line
    /\ Dies(w)
    /\ UNCHANGED <<sock, pid, stop, cpc, late>>

Killed(w) ==
    /\ Faults /\ wpc[w] \notin {"none", "dead"}
    /\ Dies(w)
    /\ UNCHANGED <<sock, pid, stop, line, cpc, late>>

-----------------------------------------------------------------------------
(* run_phone_plane, seen from outside: it binds and comes online, and the   *)
(* loop takes a Shutdown that waits in its channel.                        *)
PlaneUp(w) ==
    /\ plane[w] = "setup" /\ plane' = [plane EXCEPT ![w] = "up"]
    /\ UNCHANGED <<files, wpc, ctl, stop, line, cpc, late>>

PlaneFails(w) ==
    /\ Faults /\ plane[w] \in {"setup", "up"}
    /\ plane' = [plane EXCEPT ![w] = IF @ = "setup" THEN "failed" ELSE "ended"]
    /\ UNCHANGED <<files, wpc, ctl, stop, line, cpc, late>>

(* Mutant: the loop looks at its channel once the control loop is gone. *)
PlaneDeaf(w) ==
    /\ plane[w] = "up" /\ stop[w] /\ ctl[w] = "closed"
    /\ plane' = [plane EXCEPT ![w] = "ended"]
    /\ UNCHANGED <<files, wpc, ctl, stop, line, cpc, late>>

PlaneStops(w) ==
    /\ plane[w] = "up" /\ stop[w]
    /\ plane' = [plane EXCEPT ![w] = "ended"]
    /\ UNCHANGED <<files, wpc, ctl, stop, line, cpc, late>>

-----------------------------------------------------------------------------
(* cmd_down *)

DownProbes(c) ==
    /\ cpc[c] = "idle"
    /\ \E v \in Answers : v # None /\ Step(c, "send")
    /\ UNCHANGED <<files, work, late>>

(* handle_one_ctl: Shutdown is sent to the plane and answered Ok.          *)
DownSends(c) ==
    /\ cpc[c] = "send"
    /\ \E v \in Answers :
          IF v = None THEN Step(c, "idle") /\ UNCHANGED stop
          ELSE stop' = [stop EXCEPT ![v] = TRUE] /\ Step(c, "poll")
    /\ UNCHANGED <<files, wpc, ctl, plane, line, late>>

(* Until nobody answers, or for 5 s; both say "stopped".                   *)
DownPolls(c) ==
    /\ cpc[c] = "poll"
    /\ Step(c, "idle")
    /\ UNCHANGED <<files, work, late>>

-----------------------------------------------------------------------------
UpSteps(w) == UpReady(w) \/ UpKills(w) \/ UpConfirms(w)

WorkerSteps(w) ==
    \/ TryAcquireLock(w) \/ UnlinkStale(w) \/ Bind(w) \/ WritePid(w)
    \/ Ready(w) \/ NotReady(w) \/ PlaneJoined(w) \/ DropLock(w)
    \/ UnlinkSock(w) \/ UnlinkPid(w) \/ Exit(w)

PlaneSteps(w) == PlaneUp(w) \/ PlaneStops(w)

Next ==
    \/ \E w \in Worker :
          \/ UpProbes(w) \/ Foreground(w) \/ UpSteps(w) \/ WorkerSteps(w) \/ PlaneSteps(w)
          \/ WritePidFails(w) \/ PlaneFails(w) \/ Killed(w)
    \/ \E c \in Client : DownProbes(c) \/ DownSends(c) \/ DownPolls(c)

Spec == Init /\ [][Next]_vars

(* Processes and tasks go on and deadlines pass; no command has to be       *)
(* typed and no fault has to happen.                                       *)
FairSpec ==
    /\ Spec
    /\ \A w \in Worker :
          WF_vars(UpSteps(w)) /\ WF_vars(WorkerSteps(w)) /\ WF_vars(PlaneSteps(w))

-----------------------------------------------------------------------------
(* Properties *)

TypeOK ==
    /\ {lock, sock, pid} \subseteq Worker \cup {None}
    /\ wpc \in [Worker -> Holding \cup {"none", "start", "unlinksock", "unlinkall",
                                        "unlinkpid", "exit", "dead"}]
    /\ ctl \in [Worker -> {"closed", "bound", "serving"}]
    /\ plane \in [Worker -> {"off", "setup", "failed", "up", "ended"}]
    /\ stop \in [Worker -> BOOLEAN]
    /\ line \in [Worker -> {"none", "ok", "err"}]
    /\ cpc \in [Worker \cup Client -> {"idle", "wait", "confirm", "send", "poll"} \cup Done]
    /\ late \in BOOLEAN

Running == {w \in Worker : plane[w] \in {"setup", "up"}}

(* The daemon implements the promise of its lock file, whoever is killed    *)
(* and whenever: one owner, one plane, and no handover with a plane left.  *)
Owner == INSTANCE SingleOwner WITH owner <- lock, running <- Running
OneDaemon == Owner!Spec

(* A daemon that serves is found behind its socket path, as long as no      *)
(* predecessor unlinked the files after it had given up the lock.          *)
Reachable ==
    ~late => \A w \in Worker : ctl[w] = "serving" => sock = w

(* A socket file left by a killed daemon never keeps the next one from      *)
(* binding its path.                                                       *)
BindClear == \A w \in Worker : wpc[w] = "bind" => sock = None

(* A Shutdown the control loop answered with Ok ends the daemon.           *)
ShutdownCompletes == \A w \in Worker : stop[w] ~> wpc[w] = "dead"

(* Every `call up` returns.                                                *)
UpsEnd == \A w \in Worker : cpc[w] # "idle" ~> cpc[w] \in Done

(* The daemon's files are sound: a serving daemon is reachable unless a    *)
(* predecessor cleaned up late, and a stale socket never blocks a start.   *)
FilesSound == TypeOK /\ Reachable /\ BindClear

(* Every Shutdown that was accepted ends the daemon and every `call up`    *)
(* returns.                                                                *)
CommandsComplete == ShutdownCompletes /\ UpsEnd
=============================================================================
