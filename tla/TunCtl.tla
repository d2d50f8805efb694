------------------------------- MODULE TunCtl -------------------------------
(***************************************************************************)
(* The control socket of a running TUN daemon: the accept loop with a task *)
(* per connection, its bounded drain (src/src/tun_daemon/unix.rs), the     *)
(* request handler (tun_daemon/mod.rs), the framing that refuses another   *)
(* version's frames (tun_ctl.rs) and the commands that use it.  Starting   *)
(* and replacing daemons is module TunDaemon.                              *)
(*                                                                         *)
(* A local answer takes microseconds and the timeouts are 200 ms and more: *)
(* a timeout fires only on a connection nobody is about to advance.        *)
(***************************************************************************)
EXTENDS Naturals, Sequences, FiniteSets

CONSTANTS Client,       \* command line runs
          Ops,          \* what they may set out to do: a set of [Client -> Command]
          Trusted,      \* those the operating system vouches for
          Other,        \* those that speak another protocol version
          SystemMode,   \* a system daemon asks for privilege
          PhoneMode,    \* the data plane takes call commands
          CallQueue,    \* room in the queue of call commands
          MaxPolls      \* bound on the polls within the two seconds of `tun call`

Command == {"status", "peers", "ring", "call", "accept", "reject", "down", "stall"}

VARIABLES op,           \* what each run does
          sockFile,     \* the socket's name exists
          listening,    \* somebody listens behind it
          serving,      \* the accept loop: accept, drain, ended
          quit,         \* its shutdown watch
          cancelled,    \* the data plane was told to stop
          data,         \* the data plane: run, ended
          peered,       \* the data plane has a peer
          calls,        \* queue of call commands
          conn,         \* each run's current connection
          cli,          \* each run
          hurt          \* a probe removed the name of a daemon in service

ctlVars == <<op, sockFile, listening, serving, quit, cancelled, data, peered, calls,
             conn, cli, hurt>>

NoConn == [at |-> "none", req |-> "-", resp |-> "-"]
Request == {"Status", "Peers", "Shutdown", "Call", "Accept", "Reject", "-"}

Init ==
    /\ op \in Ops
    /\ sockFile = TRUE /\ listening = TRUE /\ serving = "accept"
    /\ quit = FALSE /\ cancelled = FALSE /\ data = "run" /\ peered = FALSE
    /\ calls = <<>> /\ hurt = FALSE
    /\ conn = [c \in Client |-> NoConn]
    /\ cli = [c \in Client |-> [step |-> "off", said |-> "-", polls |-> 0]]

Server == <<op, serving, quit, cancelled, data, peered, calls>>
Conn(c, s) == conn' = [conn EXCEPT ![c].at = s]

-----------------------------------------------------------------------------
CanAcceptInline(c) ==
    /\ serving = "accept" /\ ~quit /\ conn[c].at = "backlog"
    /\ \A d \in Client : conn[d].at \notin {"read", "reply"}

(* `serve_ctl_until_shutdown`.  The select is biased to the watch.         *)
CanAccept(c) == serving = "accept" /\ ~quit /\ conn[c].at = "backlog"

AcceptConn(c) ==
    /\ CanAccept(c)
    /\ Conn(c, "read")
    /\ UNCHANGED <<sockFile, listening, Server, cli, hurt>>

(* `check_version`: a frame of another protocol version is refused.        *)
Compatible(c) == c \notin Other

Task(c) == conn[c].at \in {"read", "reply"}
Stuck(c) == conn[c].at = "read" /\ conn[c].req = "-"

StopAccept ==
    /\ serving = "accept" /\ quit
    /\ serving' = "drain"
    /\ UNCHANGED <<op, sockFile, listening, quit, cancelled, data, peered, calls, conn, cli, hurt>>

(* The drain ends when no task is left, or after CTL_DRAIN_TIMEOUT; then   *)
(* the listener and what is left of the tasks are dropped.                 *)
Drained == \A c \in Client : Task(c) => Stuck(c)

EndDrain ==
    /\ serving = "drain" /\ Drained
    /\ serving' = "ended" /\ listening' = FALSE
    /\ conn' = [c \in Client |->
                  IF Task(c) \/ conn[c].at = "backlog" THEN [conn[c] EXCEPT !.at = "gone"]
                                                       ELSE conn[c]]
    /\ UNCHANGED <<op, sockFile, quit, cancelled, data, peered, calls, cli, hurt>>

(* The worker leaves once both halves have ended and removes its files.    *)
WorkerExits ==
    /\ serving = "ended" /\ data = "ended" /\ sockFile
    /\ sockFile' = FALSE
    /\ UNCHANGED <<listening, Server, conn, cli, hurt>>

(* `handle_one_connection`: a frame that does not come in CTL_READ_TIMEOUT *)
(* or is of another version drops this connection only.                    *)
DropConn(c) ==
    /\ Stuck(c) \/ (conn[c].at = "read" /\ ~Compatible(c))
    /\ Conn(c, "gone")
    /\ UNCHANGED <<sockFile, listening, Server, cli, hurt>>

(* `resolve_ctl_privilege`, `peer_is_privileged`.                          *)
Privileged(c) == ~SystemMode \/ c \in Trusted

Answer(c, r) == conn' = [conn EXCEPT ![c] = [at |-> "reply", req |-> @.req, resp |-> r]]

(* `try_send_call_cmd`: only phone mode registers a queue, whose receiver  *)
(* goes with the data plane.                                               *)
TrySend(c) ==
    IF PhoneMode /\ data = "run" /\ Len(calls) < CallQueue
      THEN /\ calls' = Append(calls, conn[c].req)
           /\ Answer(c, "Ok")
      ELSE /\ calls' = calls
           /\ Answer(c, "Err")

ShutdownOpDataOnly == quit' = quit /\ cancelled' = TRUE

ShutdownOp == quit' = TRUE /\ cancelled' = TRUE

(* `handle_ctl_request`.                                                   *)
HandleCtlRequest(c) ==
    /\ conn[c].at = "read" /\ conn[c].req # "-" /\ Compatible(c)
    /\ CASE conn[c].req = "Status" -> Answer(c, "Status") /\ UNCHANGED <<quit, cancelled, calls>>
         [] conn[c].req = "Peers"  -> /\ Answer(c, IF peered THEN "Peers" ELSE "NoPeers")
                                      /\ UNCHANGED <<quit, cancelled, calls>>
         [] conn[c].req = "Call"   -> TrySend(c) /\ UNCHANGED <<quit, cancelled>>
         [] conn[c].req \in {"Accept", "Reject"} ->
              /\ IF Privileged(c) THEN TrySend(c)
                                  ELSE Answer(c, "Denied") /\ UNCHANGED calls
              /\ UNCHANGED <<quit, cancelled>>
         [] conn[c].req = "Shutdown" ->
              IF Privileged(c) THEN Answer(c, "Ok") /\ ShutdownOp /\ UNCHANGED calls
                ELSE Answer(c, "Denied") /\ UNCHANGED <<quit, cancelled, calls>>
    /\ UNCHANGED <<op, sockFile, listening, serving, data, peered, cli, hurt>>

WriteResponse(c) ==
    /\ conn[c].at = "reply"
    /\ Conn(c, "answered")
    /\ UNCHANGED <<sockFile, listening, Server, cli, hurt>>

(* The data plane: it takes commands, may get or lose its peer, and ends   *)
(* when told to or on an error of its own.                                 *)
PhoneTakes ==
    /\ data = "run" /\ calls # <<>>
    /\ calls' = Tail(calls)
    /\ peered' \in IF Head(calls) = "Reject" THEN {peered} ELSE {peered, TRUE}
    /\ UNCHANGED <<op, sockFile, listening, serving, quit, cancelled, data, conn, cli, hurt>>

DataEnds ==
    /\ data = "run"
    /\ data' = "ended" /\ calls' = <<>>
    /\ UNCHANGED <<op, sockFile, listening, serving, quit, cancelled, peered, conn, cli, hurt>>

-----------------------------------------------------------------------------
(* The command runs.                                                       *)
Probing(c) == cli[c].step \in {"probe", "poll"}
Wanted(c) ==
    CASE Probing(c) -> "Status"
      [] cli[c].step = "pollpeers" -> "Peers"
      [] OTHER -> CASE op[c] = "peers" -> "Peers" [] op[c] = "call" -> "Call"
                    [] op[c] = "accept" -> "Accept" [] op[c] = "reject" -> "Reject"
                    [] op[c] = "down" -> "Shutdown" [] OTHER -> "-"

To(c, s)   == cli' = [cli EXCEPT ![c].step = s]
Says(c, w) == cli' = [cli EXCEPT ![c] = [step |-> "done", said |-> w, polls |-> @.polls]]

(* Accepting and rejecting go straight to the request; the rest probe.     *)
Begin(c) ==
    /\ cli[c].step = "off"
    /\ To(c, IF op[c] \in {"accept", "reject", "stall"} THEN "request" ELSE "probe")
    /\ UNCHANGED <<sockFile, listening, Server, conn, hurt>>

(* `connect_timed` and `write_request`.                                    *)
Connect(c) ==
    /\ cli[c].step \notin {"off", "done"} /\ conn[c].at = "none"
    /\ sockFile /\ listening
    /\ conn' = [conn EXCEPT ![c] = [at |-> "backlog", req |-> Wanted(c), resp |-> "-"]]
    /\ UNCHANGED <<sockFile, listening, Server, cli, hurt>>

InService == serving = "accept" /\ ~quit

(* The deadline of `tun call`, and of `tun down`, which then warns that    *)
(* the daemon may still be shutting down, is the number of polls in it.    *)
PollAgain(c) ==
    IF cli[c].polls < MaxPolls
      THEN cli' = [cli EXCEPT ![c] = [step |-> "poll", said |-> @.said, polls |-> @.polls + 1]]
      ELSE Says(c, "waiting")

(* No answer.  `probe` takes that for a daemon that is gone and removes    *)
(* the name of the socket; what the command does next depends on it.       *)
Unanswered(c) ==
    /\ \/ conn[c].at = "none" /\ cli[c].step \notin {"off", "done"} /\ ~(sockFile /\ listening)
       \/ conn[c].at = "gone"
       \/ conn[c].at = "backlog" /\ ~CanAccept(c) /\ op[c] # "stall"
    /\ conn' = [conn EXCEPT ![c] = NoConn]
    /\ IF Probing(c)
         THEN sockFile' = FALSE /\ hurt' = (hurt \/ (sockFile /\ InService))
         ELSE UNCHANGED <<sockFile, hurt>>
    /\ CASE cli[c].step = "probe" /\ op[c] = "call" /\ ~SystemMode -> Says(c, "spawns")
         [] cli[c].step = "poll" /\ op[c] = "call" -> PollAgain(c)
         [] cli[c].step = "poll" /\ op[c] = "down" -> Says(c, "stopped")
         [] cli[c].step = "pollpeers" -> PollAgain(c)
         [] OTHER -> Says(c, "notrunning")
    /\ UNCHANGED <<listening, Server>>

(* An answer.                                                              *)
Answered(c) ==
    /\ conn[c].at = "answered"
    /\ conn' = [conn EXCEPT ![c] = NoConn]
    /\ LET r == conn[c].resp IN
       CASE cli[c].step = "probe" ->
              (CASE op[c] \in {"status", "ring"} -> Says(c, "shown")
                 [] op[c] = "call" /\ ~PhoneMode -> Says(c, "usage")
                 [] OTHER -> To(c, "request"))
         [] cli[c].step = "request" ->
              (CASE op[c] = "call" /\ r = "Ok" -> To(c, "poll")
                 [] op[c] = "down" /\ r = "Ok" -> To(c, "poll")
                 [] OTHER -> Says(c, r))
         [] cli[c].step = "poll" -> IF op[c] = "call" THEN To(c, "pollpeers") ELSE PollAgain(c)
         [] OTHER -> IF r = "Peers" THEN Says(c, "connected") ELSE PollAgain(c)
    /\ UNCHANGED <<sockFile, listening, Server, hurt>>

ClientStep(c) == Begin(c) \/ Connect(c) \/ Unanswered(c) \/ Answered(c)
ServerStep(c) == AcceptConn(c) \/ DropConn(c) \/ HandleCtlRequest(c) \/ WriteResponse(c)
LoopStep == StopAccept \/ EndDrain \/ WorkerExits

Next ==
    \/ \E c \in Client : ClientStep(c) \/ ServerStep(c)
    \/ LoopStep \/ PhoneTakes \/ DataEnds

(* Nothing keeps the runtime, the phone loop or a command from going on,   *)
(* but a data plane that is not told to stop need not end.                 *)
Fairness ==
    /\ \A c \in Client : WF_ctlVars(Connect(c) \/ Unanswered(c) \/ Answered(c))
    /\ \A c \in Client : WF_ctlVars(ServerStep(c))
    /\ WF_ctlVars(StopAccept) /\ WF_ctlVars(EndDrain)

-----------------------------------------------------------------------------
(* Every variable has its type.                                            *)
TypeOK ==
    /\ {sockFile, listening, quit, cancelled, peered, hurt} \subseteq BOOLEAN
    /\ serving \in {"accept", "drain", "ended"} /\ data \in {"run", "ended"}
    /\ Len(calls) <= CallQueue
    /\ op \in [Client -> Command]
    /\ \A c \in Client : /\ conn[c].req \in Request
                         /\ conn[c].at \in {"none", "backlog", "read", "reply", "answered", "gone"}
                         /\ cli[c].polls <= MaxPolls

(* A probe never takes the socket away from a daemon that serves, however  *)
(* many clients stall: `probe` and `prepare_bind` "do not unlink a live    *)
(* peer's sock".                                                           *)
LiveSocketKept == ~hurt

(* The command that stopped the daemon hears so: the drain lets the answer *)
(* out, so `tun down` never reports a daemon that was not running.         *)
ShutdownAnswered ==
    \A c \in Client : op[c] = "down" /\ conn[c].req = "Shutdown" /\ conn[c].resp = "Ok"
                        => conn[c].at \in {"reply", "answered"}

CtlSound == TypeOK /\ LiveSocketKept /\ ShutdownAnswered

(* Every command ends by its own timeouts, whoever stalls, and a Shutdown  *)
(* that was answered Ok ends the control loop: neither a connection whose  *)
(* client stays silent nor one after another holds the drain up for good.  *)
CommandsEnd ==
    /\ \A c \in Client : (cli[c].step # "off" /\ op[c] # "stall") ~> cli[c].step = "done"
    /\ (\E c \in Client : conn[c].req = "Shutdown" /\ conn[c].resp = "Ok") ~> serving = "ended"
=============================================================================
