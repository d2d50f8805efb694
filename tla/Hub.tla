-------------------------------- MODULE Hub --------------------------------
(***************************************************************************)
(* The TUN hub (src/tun/hub.rs): the accept loop, one hub_run_spoke task   *)
(* per connection, the dual-stack peer index, the roster fan-out and the   *)
(* host routes.  A session is one accepted connection, numbered by         *)
(* session_seq; every stretch of hub_run_spoke between two points at which *)
(* another task can observe or change shared state is one action.          *)
(***************************************************************************)
EXTENDS Naturals, Sequences

CONSTANTS
    Peer,        \* EndpointIds that may dial the hub
    Allowed,     \* the --allow list (Peer when the list is open)
    HiddenPeer,  \* peers started with --hidden
    Vip4, Vip6,  \* virtual addresses a peer may announce
    OwnV4, OwnV6,\* the hub's own addresses
    OffMesh,     \* addresses outside 172.24.0.0/16 and fd24:ac18::/64
    Announce,    \* Announce[p]: the address pairs peer p may bind
    MaxSession,  \* bound: connections accepted in one behaviour
    FanCap,      \* TUN_CTRL_QUEUE, 32 in the code
    Redial,      \* how early a spoke may redial, seen from the hub:
                 \* "after" its old session's task returned, or once that
                 \* was "established"
    RouteFaults, \* installing or deleting a host route may fail
    HelloLost,   \* the 800 ms HELLO wait may expire
    Daemon       \* hooks are present: the hub maintains the Status list

ASSUME HubConstants ==
    /\ Allowed \subseteq Peer /\ HiddenPeer \subseteq Peer
    /\ MaxSession \in Nat /\ FanCap \in Nat \ {0}
    /\ Announce \in [Peer -> SUBSET (Vip4 \X Vip6)]
    /\ OwnV4 \in Vip4 /\ OwnV6 \in Vip6
    /\ Redial \in {"after", "established"}
    /\ {RouteFaults, HelloLost, Daemon} \subseteq BOOLEAN

Session == 1..MaxSession
None == 0                       \* no session: an empty slot
NoPeer == "no peer"
NoVip == <<>>                   \* nothing known about a peer's addresses
Pair == Vip4 \X Vip6

VARIABLES
    session_seq,  \* connections accepted so far
    pc,           \* where each hub_run_spoke task is
    id,           \* remote EndpointId of each session
    vip,          \* announced address pair of each session
    hidden,       \* the hub's record of the HELLO flag
    open,         \* sessions whose spoke still holds the connection open
    by_v4, by_v6, \* HubPeerIndex: the session whose HubPeer sits in each slot
    fans,         \* RosterFans: the session whose fan_tx each peer maps to
    fanq,         \* contents of each session's fan channel
    fanTask,      \* "none" | "running" | "ended": who holds fan_rx
    sends,        \* senders a broadcast has cloned and not served yet
    removed,      \* result of peers_remove_if_owned, kept until the routes
    route4, route6, \* host routes installed on the TUN interface
    view,         \* what each control stream has told its spoke so far
    loaded,       \* index contents read by refresh_hub_peers_state
    status        \* the peer list the control socket reports

sessVars   == <<id, vip, hidden>>
indexVars  == <<by_v4, by_v6>>
fanVars    == <<fans, fanq, fanTask, sends, view>>
routeVars  == <<route4, route6>>
statusVars == <<loaded, status>>
vars == <<session_seq, pc, sessVars, open, indexVars, fanVars, removed,
          routeVars, statusVars>>

(* Program points of hub_run_spoke, in order. *)
Handshake == {"vips", "hello"}
Joining   == {"claimed", "fan", "route", "routeErr", "snap", "joinCollect", "joinSend",
              "refreshUp", "storeUp"}
Leaving   == {"judge", "unfan", "leftCollect", "leftSend", "refreshDown",
              "storeDown", "unroute"}
Phase     == {"idle", "up", "remove", "done"} \cup Handshake \cup Joining \cup Leaving

(* Between its claim and the update of peers_remove_if_owned a session may  *)
(* own slots.                                                              *)
Holding == (Joining \ {"routeErr"}) \cup {"up", "remove"}

Entry == [kind : {"joined", "left"}, id : Peer, vip : Pair]

Init ==
    /\ session_seq = 0
    /\ pc = [s \in Session |-> "idle"]
    /\ id = [s \in Session |-> NoPeer]
    /\ vip = [s \in Session |-> NoVip]
    /\ hidden = [s \in Session |-> FALSE]
    /\ open = {}
    /\ by_v4 = [v \in Vip4 |-> None]
    /\ by_v6 = [v \in Vip6 |-> None]
    /\ fans = [p \in Peer |-> None]
    /\ fanq = [s \in Session |-> <<>>]
    /\ fanTask = [s \in Session |-> "none"]
    /\ sends = [s \in Session |-> {}]
    /\ removed = [s \in Session |-> FALSE]
    /\ route4 = {} /\ route6 = {}
    /\ view = [s \in Session |-> [p \in Peer |-> NoVip]]
    /\ loaded = [s \in Session |-> {}]
    /\ status = {}

(* `if let Some(h) = &hooks`: the Status refresh before the last step. *)
JoinTail == IF Daemon THEN "refreshUp" ELSE "storeUp"
LeaveTail == IF Daemon THEN "refreshDown" ELSE "unroute"

Goto(s, p) == pc' = [pc EXCEPT ![s] = p]

-----------------------------------------------------------------------------
(* The spokes and the network *)

(* A spoke process keeps one hub connection at a time and redials when it  *)
(* lost it.  Whether the hub has noticed the loss is another matter: a     *)
(* killed or partitioned spoke leaves the hub waiting for the idle timeout.*)
MayDial(p) ==
    /\ session_seq < MaxSession
    /\ \A s \in open : id[s] # p
    /\ \A s \in Session : id[s] = p =>
          CASE Redial = "after"       -> pc[s] = "done"
            [] Redial = "established" -> pc[s] \notin Handshake \cup Joining

SpokeCloses(s) ==
    /\ s \in open
    /\ open' = open \ {s}
    /\ UNCHANGED <<session_seq, pc, sessVars, indexVars, fanVars, removed,
                   routeVars, statusVars>>

-----------------------------------------------------------------------------
(* The accept loop *)

Accept(p) ==
    LET s == session_seq + 1 IN
    /\ MayDial(p)
    /\ session_seq' = s
    /\ id' = [id EXCEPT ![s] = p]
    /\ IF p \in Allowed                       \* check_allow
       THEN Goto(s, "vips") /\ open' = open \cup {s}
       ELSE Goto(s, "done") /\ UNCHANGED open \* conn.close(b"denied")
    /\ UNCHANGED <<vip, hidden, indexVars, fanVars, removed, routeVars,
                   statusVars>>

-----------------------------------------------------------------------------
(* hub_run_spoke: handshake *)

Usable(pair) ==
    /\ pair[1] # OwnV4 /\ pair[2] # OwnV6
    /\ pair[1] \notin OffMesh /\ pair[2] \notin OffMesh

(* An error return of the handshake: a timeout, a closed stream, a refused *)
(* address.  The function's Connection handle is dropped, but the path     *)
(* monitor still holds a clone, so the connection itself stays open.       *)
HandshakeFails(s) ==
    /\ pc[s] \in Handshake
    /\ Goto(s, "done")
    /\ UNCHANGED <<session_seq, sessVars, open, indexVars, fanVars, removed,
                   routeVars, statusVars>>

ExchangeVips(s) ==
    /\ pc[s] = "vips"
    /\ \E pair \in Announce[id[s]] :
          /\ vip' = [vip EXCEPT ![s] = pair]
          /\ Goto(s, IF Usable(pair) THEN "hello" ELSE "done")
    /\ UNCHANGED <<session_seq, id, hidden, open, indexVars, fanVars, removed,
                   routeVars, statusVars>>

Foreign(slot, s) == slot # None /\ id[slot] # id[s]

(* Mutants: the claim looks at one family only. *)
ClaimableV4Only(s) == ~Foreign(by_v4[vip[s][1]], s)

(* try_claim_peer: all or nothing on the two families; a slot held by the  *)
(* same EndpointId is replaced whatever its session number.                *)
Claimable(s) == ~Foreign(by_v4[vip[s][1]], s) /\ ~Foreign(by_v6[vip[s][2]], s)

ClaimPeer(s) ==
    /\ pc[s] = "hello"
    /\ \E h \in BOOLEAN :            \* a HELLO that is late or bad reads as visible
          /\ IF h THEN id[s] \in HiddenPeer ELSE id[s] \notin HiddenPeer \/ HelloLost
          /\ hidden' = [hidden EXCEPT ![s] = h]
    /\ IF Claimable(s)
       THEN /\ by_v4' = [by_v4 EXCEPT ![vip[s][1]] = s]
            /\ by_v6' = [by_v6 EXCEPT ![vip[s][2]] = s]
       ELSE UNCHANGED indexVars
    /\ Goto(s, "claimed")
    /\ UNCHANGED <<session_seq, id, vip, open, fanVars, removed, routeVars,
                   statusVars>>

(* Success is read from the index loaded after the update, from by_v4 alone. *)
ClaimHeld(s) == by_v4[vip[s][1]] # None /\ id[by_v4[vip[s][1]]] = id[s]

VerifyClaim(s) ==
    /\ pc[s] = "claimed"
    /\ Goto(s, IF ClaimHeld(s) THEN "fan" ELSE "done")
    /\ UNCHANGED <<session_seq, sessVars, open, indexVars, fanVars, removed,
                   routeVars, statusVars>>

-----------------------------------------------------------------------------
(* hub_run_spoke: joining *)

InsertFan(s) ==
    /\ pc[s] = "fan"
    /\ fans' = [fans EXCEPT ![id[s]] = s]
    /\ Goto(s, "route")
    /\ UNCHANGED <<session_seq, sessVars, open, indexVars, fanq, fanTask,
                   sends, view, removed, routeVars, statusVars>>

AddPeerRoute(s) ==
    /\ pc[s] = "route"
    /\ route4' = route4 \cup {vip[s][1]}
    /\ route6' = route6 \cup {vip[s][2]}
    /\ Goto(s, "snap")
    /\ UNCHANGED <<session_seq, sessVars, open, indexVars, fanVars, removed,
                   statusVars>>

(* Mutants: the v6 entry is forgotten; the slots are emptied whoever owns   *)
(* them.                                                                   *)
RemoveV4IfOwned(s) ==
    /\ by_v4' = [v \in Vip4 |-> IF v = vip[s][1] /\ by_v4[v] = s THEN None ELSE by_v4[v]]
    /\ by_v6' = by_v6
RemoveAnyOwner(s) ==
    /\ by_v4' = [by_v4 EXCEPT ![vip[s][1]] = None]
    /\ by_v6' = [by_v6 EXCEPT ![vip[s][2]] = None]

(* The update of peers_remove_if_owned. *)
RemoveIfOwned(s) ==
    /\ by_v4' = [v \in Vip4 |-> IF v = vip[s][1] /\ by_v4[v] = s THEN None ELSE by_v4[v]]
    /\ by_v6' = [v \in Vip6 |-> IF v = vip[s][2] /\ by_v6[v] = s THEN None ELSE by_v6[v]]

(* add_peer_route runs the v4 command, then the v6 one: either may fail,   *)
(* and a v4 route already added is left behind.                            *)
AddPeerRouteFails(s) ==
    /\ RouteFaults
    /\ pc[s] = "route"
    /\ route4' \in {route4, route4 \cup {vip[s][1]}}
    /\ RemoveIfOwned(s)
    /\ Goto(s, "routeErr")
    /\ UNCHANGED <<session_seq, sessVars, open, fanVars, removed, route6,
                   statusVars>>

DropFan(s) == fans' = [fans EXCEPT ![id[s]] = None]

(* The error return after fans.remove: fan_rx goes with the stack frame. *)
AbandonJoin(s) ==
    /\ pc[s] = "routeErr"
    /\ DropFan(s)
    /\ fanTask' = [fanTask EXCEPT ![s] = "ended"]
    /\ fanq' = [fanq EXCEPT ![s] = <<>>]
    /\ Goto(s, "done")
    /\ UNCHANGED <<session_seq, sessVars, open, indexVars, sends, view,
                   removed, routeVars, statusVars>>

(* Mutant: hidden peers not filtered. *)
VisibleToAll(s, p) ==
    {t \in Session : id[t] = p /\ p # id[s] /\ \E v \in Vip4 : by_v4[v] = t}

(* hub_roster_snapshot: the visible entries of by_v4, except the reader's  *)
(* own, which the spoke skips.                                             *)
Visible(s, p) ==
    {t \in Session : /\ id[t] = p /\ ~hidden[t] /\ p # id[s]
                     /\ \E v \in Vip4 : by_v4[v] = t}

(* A peer that changed its v4 address while its old session lingers is in  *)
(* the snapshot twice; HashMap order decides which entry the spoke keeps.  *)
WriteSnapshot(s) ==
    /\ pc[s] = "snap"
    /\ \E pick \in [Peer -> Session \cup {None}] :
          /\ \A p \in Peer : IF Visible(s, p) = {} THEN pick[p] = None
                             ELSE pick[p] \in Visible(s, p)
          /\ view' = [view EXCEPT ![s] =
                        [p \in Peer |-> IF pick[p] = None THEN NoVip ELSE vip[pick[p]]]]
    /\ Goto(s, IF hidden[s] THEN JoinTail ELSE "joinCollect")
    /\ UNCHANGED <<session_seq, sessVars, open, indexVars, fans, fanq,
                   fanTask, sends, removed, routeVars, statusVars>>

-----------------------------------------------------------------------------
(* broadcast_roster: clone the senders under the read lock, then send to   *)
(* each in turn, waiting while a channel is full; a dropped receiver is    *)
(* skipped.                                                                *)

Collect(s, from, to) ==
    /\ pc[s] = from
    /\ sends' = [sends EXCEPT ![s] = {fans[p] : p \in Peer} \ {None}]
    /\ Goto(s, to)
    /\ UNCHANGED <<session_seq, sessVars, open, indexVars, fans, fanq,
                   fanTask, view, removed, routeVars, statusVars>>

(* Mutant: capacity off by one. *)
HasRoomButOne(t) == Len(fanq[t]) + 1 < FanCap

Closed(t) == fanTask[t] = "ended"

HasRoom(t) == Len(fanq[t]) < FanCap

(* Mutant: only a dropped receiver is struck off the list. *)
SendOneRepeated(s, t, point, kind) ==
    /\ pc[s] = point /\ t \in sends[s]
    /\ Closed(t) \/ HasRoom(t)
    /\ fanq' = IF Closed(t) THEN fanq
               ELSE [fanq EXCEPT ![t] = Append(@, [kind |-> kind, id |-> id[s], vip |-> vip[s]])]
    /\ sends' = IF Closed(t) THEN [sends EXCEPT ![s] = @ \ {t}] ELSE sends
    /\ UNCHANGED <<session_seq, pc, sessVars, open, indexVars, fans, fanTask,
                   view, removed, routeVars, statusVars>>

SendOne(s, t, point, kind) ==
    /\ pc[s] = point /\ t \in sends[s]
    /\ Closed(t) \/ HasRoom(t)
    /\ fanq' = IF Closed(t) THEN fanq
               ELSE [fanq EXCEPT ![t] = Append(@, [kind |-> kind, id |-> id[s], vip |-> vip[s]])]
    /\ sends' = [sends EXCEPT ![s] = @ \ {t}]
    /\ UNCHANGED <<session_seq, pc, sessVars, open, indexVars, fans, fanTask,
                   view, removed, routeVars, statusVars>>

SendDone(s, from, to) ==
    /\ pc[s] = from /\ sends[s] = {}
    /\ Goto(s, to)
    /\ UNCHANGED <<session_seq, sessVars, open, indexVars, fanVars, removed,
                   routeVars, statusVars>>

BroadcastJoined(s) ==
    \/ Collect(s, "joinCollect", "joinSend")
    \/ \E t \in Session : SendOne(s, t, "joinSend", "joined")
    \/ SendDone(s, "joinSend", JoinTail)

BroadcastLeft(s) ==
    \/ Collect(s, "leftCollect", "leftSend")
    \/ \E t \in Session : SendOne(s, t, "leftSend", "left")
    \/ SendDone(s, "leftSend", LeaveTail)

-----------------------------------------------------------------------------
(* refresh_hub_peers_state: the index is read first, the list stored after *)
(* waiting for the state's lock.                                           *)

RefreshLoad(s, from, to) ==
    /\ pc[s] = from
    /\ loaded' = [loaded EXCEPT ![s] =
                     {by_v4[v] : v \in Vip4} \ {None}]
    /\ Goto(s, to)
    /\ UNCHANGED <<session_seq, sessVars, open, indexVars, fanVars, removed,
                   routeVars, status>>

RefreshStore(s, from) ==
    /\ pc[s] = from
    /\ status' = IF Daemon THEN loaded[s] ELSE status
    /\ loaded' = [loaded EXCEPT ![s] = {}]
    /\ UNCHANGED <<session_seq, sessVars, open, indexVars, fans, fanq, sends,
                   view, removed, routeVars>>

RefreshUp(s) == RefreshLoad(s, "refreshUp", "storeUp")

(* The join ends by spawning the fan-out task, which now owns fan_rx. *)
JoinDone(s) ==
    /\ RefreshStore(s, "storeUp")
    /\ fanTask' = [fanTask EXCEPT ![s] = "running"]
    /\ Goto(s, "up")

-----------------------------------------------------------------------------
(* The fan-out task: one queued message to the control stream.  The spoke  *)
(* inserts a joined entry (never its own) and forgets a left one.          *)

Apply(known, own, m) ==
    CASE m.kind = "left"                -> [known EXCEPT ![m.id] = NoVip]
      [] m.kind = "joined" /\ m.id # own -> [known EXCEPT ![m.id] = m.vip]
      [] OTHER                          -> known

Deliver(s) ==
    /\ fanTask[s] = "running" /\ fanq[s] # <<>>
    /\ view' = [view EXCEPT ![s] = Apply(@, id[s], Head(fanq[s]))]
    /\ fanq' = [fanq EXCEPT ![s] = Tail(@)]
    /\ UNCHANGED <<session_seq, pc, sessVars, open, indexVars, fans, fanTask,
                   sends, removed, routeVars, statusVars>>

(* A write to a dead connection ends the task and drops fan_rx. *)
FanWriteFails(s) ==
    /\ fanTask[s] = "running" /\ fanq[s] # <<>> /\ s \notin open
    /\ fanTask' = [fanTask EXCEPT ![s] = "ended"]
    /\ fanq' = [fanq EXCEPT ![s] = <<>>]
    /\ UNCHANGED <<session_seq, pc, sessVars, open, indexVars, fans, sends,
                   view, removed, routeVars, statusVars>>

-----------------------------------------------------------------------------
(* hub_run_spoke: teardown *)

(* conn.closed() fires in hub_peer_to_mesh; the fan-out task is aborted. *)
SeeClose(s) ==
    /\ pc[s] = "up" /\ s \notin open
    /\ fanTask' = [fanTask EXCEPT ![s] = "ended"]
    /\ fanq' = [fanq EXCEPT ![s] = <<>>]
    /\ Goto(s, "remove")
    /\ UNCHANGED <<session_seq, sessVars, open, indexVars, fans, sends, view,
                   removed, routeVars, statusVars>>

(* Mutant: the result taken from the index as it was before the update.    *)
RemovePeerPreCas(s) ==
    /\ pc[s] = "remove"
    /\ RemoveIfOwned(s)
    /\ removed' = [removed EXCEPT ![s] =
                     by_v4[vip[s][1]] = None /\ by_v6[vip[s][2]] = None]
    /\ Goto(s, "unfan")
    /\ UNCHANGED <<session_seq, sessVars, open, fanVars, routeVars, statusVars>>

RemovePeer(s) ==
    /\ pc[s] = "remove"
    /\ RemoveIfOwned(s)
    /\ Goto(s, "judge")
    /\ UNCHANGED <<session_seq, sessVars, open, fanVars, removed, routeVars,
                   statusVars>>

(* Mutant: only the IPv4 slot is looked at. *)
SlotsEmptyV4Only(s) == by_v4[vip[s][1]] = None

(* What it returns is read from the index loaded after the update. *)
SlotsEmpty(s) == by_v4[vip[s][1]] = None /\ by_v6[vip[s][2]] = None

JudgeRemoved(s) ==
    /\ pc[s] = "judge"
    /\ removed' = [removed EXCEPT ![s] = SlotsEmpty(s)]
    /\ Goto(s, "unfan")
    /\ UNCHANGED <<session_seq, sessVars, open, indexVars, fanVars, routeVars,
                   statusVars>>

(* Mutant: spokes leave silently. *)
RemoveFanSilently(s) ==
    /\ pc[s] = "unfan"
    /\ DropFan(s)
    /\ Goto(s, LeaveTail)
    /\ UNCHANGED <<session_seq, sessVars, open, indexVars, fanq, fanTask,
                   sends, view, removed, routeVars, statusVars>>

RemoveFan(s) ==
    /\ pc[s] = "unfan"
    /\ DropFan(s)
    /\ Goto(s, IF hidden[s] THEN LeaveTail ELSE "leftCollect")
    /\ UNCHANGED <<session_seq, sessVars, open, indexVars, fanq, fanTask,
                   sends, view, removed, routeVars, statusVars>>

RefreshDown(s) ==
    \/ RefreshLoad(s, "refreshDown", "storeDown")
    \/ /\ RefreshStore(s, "storeDown")
       /\ Goto(s, "unroute")
       /\ UNCHANGED fanTask

(* Two commands; a failure of either is ignored. *)
Deleted(route, v) == {route \ {v}} \cup (IF RouteFaults THEN {route} ELSE {})

DelPeerRoute(s) ==
    /\ pc[s] = "unroute"
    /\ route4' \in IF removed[s] THEN Deleted(route4, vip[s][1]) ELSE {route4}
    /\ route6' \in IF removed[s] THEN Deleted(route6, vip[s][2]) ELSE {route6}
    /\ Goto(s, "done")
    /\ UNCHANGED <<session_seq, sessVars, open, indexVars, fanVars, removed,
                   statusVars>>

-----------------------------------------------------------------------------
(* Steps the hub's own tasks take. *)
Step(s) ==
    \/ HandshakeFails(s) \/ ExchangeVips(s) \/ ClaimPeer(s) \/ VerifyClaim(s)
    \/ InsertFan(s) \/ AddPeerRoute(s) \/ AddPeerRouteFails(s) \/ AbandonJoin(s)
    \/ WriteSnapshot(s) \/ BroadcastJoined(s) \/ RefreshUp(s) \/ JoinDone(s)
    \/ SeeClose(s) \/ RemovePeer(s) \/ JudgeRemoved(s) \/ RemoveFan(s)
    \/ BroadcastLeft(s) \/ RefreshDown(s) \/ DelPeerRoute(s)

FanStep(s) == Deliver(s) \/ FanWriteFails(s)

Next ==
    \/ \E p \in Peer : Accept(p)
    \/ \E s \in Session : SpokeCloses(s) \/ Step(s) \/ FanStep(s)

(* The runtime polls every ready task, each handshake wait has a timeout,  *)
(* and the idle timeout reports a dead connection; spokes owe nothing.     *)
Fairness == \A s \in Session : WF_vars(Step(s)) /\ WF_vars(FanStep(s))

Spec == Init /\ [][Next]_vars
FairSpec == Spec /\ Fairness

-----------------------------------------------------------------------------
(* Properties *)

TypeOK ==
    /\ session_seq \in 0..MaxSession
    /\ pc \in [Session -> Phase]
    /\ id \in [Session -> Peer \cup {NoPeer}]
    /\ vip \in [Session -> Pair \cup {NoVip}]
    /\ hidden \in [Session -> BOOLEAN]
    /\ open \subseteq Session
    /\ by_v4 \in [Vip4 -> Session \cup {None}]
    /\ by_v6 \in [Vip6 -> Session \cup {None}]
    /\ fans \in [Peer -> Session \cup {None}]
    /\ fanq \in [Session -> Seq(Entry)]
    /\ fanTask \in [Session -> {"none", "running", "ended"}]
    /\ sends \in [Session -> SUBSET Session]
    /\ removed \in [Session -> BOOLEAN]
    /\ route4 \subseteq Vip4 /\ route6 \subseteq Vip6
    /\ view \in [Session -> [Peer -> Pair \cup {NoVip}]]
    /\ loaded \in [Session -> SUBSET Session]
    /\ status \subseteq Session

(* try_claim_peer / peers_remove_if_owned: an index entry never outlives   *)
(* the session that put it there, whatever reconnects and teardowns ran in *)
(* between, and it sits under the addresses that session announced.        *)
IndexSound ==
    /\ \A v \in Vip4 : by_v4[v] # None =>
          pc[by_v4[v]] \in Holding /\ vip[by_v4[v]][1] = v
    /\ \A v \in Vip6 : by_v6[v] # None =>
          pc[by_v6[v]] \in Holding /\ vip[by_v6[v]][2] = v

(* try_claim_peer: no step hands an occupied slot of either family from    *)
(* one EndpointId to another; it is vacated first ("Reject duplicate VIP   *)
(* on second join").                                                       *)
NoTakeover ==
    [][/\ \A v \in Vip4 : by_v4[v] # None /\ by_v4'[v] # None => id'[by_v4'[v]] = id[by_v4[v]]
       /\ \A v \in Vip6 : by_v6[v] # None /\ by_v6'[v] # None => id'[by_v6'[v]] = id[by_v6[v]]]_vars

(* The index keeps what AddressLeases promises, of usable addresses only:  *)
(* both families or none, never from one EndpointId straight to another,   *)
(* and a teardown gives up its own peer's entries, whoever reconnects.     *)
Leased4 == {<<v, id[by_v4[v]]>> : v \in {w \in Vip4 : by_v4[w] # None}}
Leased6 == {<<v, id[by_v6[v]]>> : v \in {w \in Vip6 : by_v6[w] # None}}
Leases == INSTANCE AddressLeases WITH
              Vip4 <- Vip4 \ ({OwnV4} \cup OffMesh),
              Vip6 <- Vip6 \ ({OwnV6} \cup OffMesh),
              lease4 <- Leased4, lease6 <- Leased6
IndexLeases == Leases!Spec

(* The newest connection of a peer, established at the hub and still held  *)
(* open by the spoke: the one the user believes in.                        *)
Newest(s) == \A t \in Session : id[t] = id[s] => t <= s
Served(s) == pc[s] = "up" /\ s \in open /\ Newest(s)
Settled == \A s \in Session : pc[s] \in {"idle", "up", "done"}

(* Comment on HubPeer.session: a reconnecting peer's fresh session replaces *)
(* the stale entry, so the newest established session owns both slots,     *)
(* where a peer never changes one address of its pair and keeps the other: *)
(* a refused claim would then read its own older entry as success.         *)
SlotKept ==
    \A s \in Session : Served(s) => by_v4[vip[s][1]] = s /\ by_v6[vip[s][2]] = s

(* hub_run_spoke teardown, "Do not delete the route when a newer session   *)
(* still holds the slots": a session is told to delete the host routes of  *)
(* its addresses only while no newest session, of its own peer or of       *)
(* another, has been granted either address.                               *)
Granted(s) == pc[s] \in Holding \ {"claimed"}
SuccessorSpared ==
    [][\A t \in Session : ~removed[t] /\ removed'[t] =>
          \A s \in Session : Granted(s) /\ Newest(s) =>
              vip[s][1] # vip[t][1] /\ vip[s][2] # vip[t][2]]_vars

(* hub_run_spoke teardown: the roster sender of the newest established     *)
(* session stays registered.                                               *)
FanKept == \A s \in Session : Served(s) => fans[id[s]] = s

(* peers_remove_if_owned / del_peer_route: the host routes of the newest   *)
(* established session stay installed.                                     *)
RouteKept ==
    \A s \in Session : Served(s) => vip[s][1] \in route4 /\ vip[s][2] \in route6

(* add_peer_route / del_peer_route: with no join or teardown in progress,  *)
(* the host routes are those of the indexed addresses and no other.        *)
NoStaleRoute ==
    Settled => /\ route4 \subseteq {v \in Vip4 : by_v4[v] # None}
               /\ route6 \subseteq {v \in Vip6 : by_v6[v] # None}

(* Snapshot, Joined and Left together: once everything queued is written,  *)
(* a spoke knows exactly the visible peers that are established, at their  *)
(* addresses.                                                              *)
Present(p) == {t \in Session : id[t] = p /\ pc[t] = "up" /\ ~hidden[t]}
RosterAgrees ==
    \A s \in Session : Served(s) /\ Settled /\ fanq[s] = <<>> =>
        \A p \in Peer \ {id[s]} :
            view[s][p] \in IF Present(p) = {} THEN {NoVip} ELSE {vip[t] : t \in Present(p)}

(* --hidden: no control stream ever carries a peer that asked to be hidden, *)
(* in a snapshot, a Joined or a Left.                                      *)
HiddenUnseen ==
    \A s \in Session :
        /\ \A p \in HiddenPeer : view[s][p] = NoVip
        /\ \A i \in DOMAIN fanq[s] : fanq[s][i].id \notin HiddenPeer

(* broadcast_roster awaits every send, and a session still joining drains   *)
(* nothing: no join and no teardown ever finds the channel of such a       *)
(* session full, so joining sessions never wait for each other.            *)
JoinsNeverWait ==
    \A s, t \in Session :
        pc[s] \in {"joinSend", "leftSend"} /\ t \in sends[s] /\ fanTask[t] = "none" =>
            Len(fanq[t]) < FanCap

(* broadcast_roster, sent while the session's own channel is not drained   *)
(* yet: a join that claimed its slots ends in an established session or an *)
(* error.  It takes a channel of 2 * (MaxSession - 1) + 1 messages.        *)
JoinsComplete == \A s \in Session : pc[s] \in Joining ~> pc[s] \in {"up", "done"}
(* hub_run_spoke teardown: a dead connection is torn down to the end. *)
LeavesComplete == \A s \in Session : (pc[s] = "up" /\ s \notin open) ~> pc[s] = "done"

(* Host routes and sessions agree, where no peer shares an address with    *)
(* another and a spoke redials once its old session is torn down: the      *)
(* routes of an established session are there, and with no join or         *)
(* teardown in progress no route is left of a session that is gone.        *)
RoutesAgree == RouteKept /\ NoStaleRoute

(* Rosters and sessions agree: every established session keeps the sender  *)
(* of its roster updates, and every spoke's view settles on the            *)
(* established sessions.                                                   *)
RostersAgree == FanKept /\ RosterAgrees

(* Whoever vanishes in the middle, joins and teardowns run to their end:   *)
(* the sends into other sessions' bounded channels never block each other  *)
(* for good.                                                               *)
ChurnCompletes == JoinsComplete /\ LeavesComplete
=============================================================================
