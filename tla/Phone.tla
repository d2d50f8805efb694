------------------------------- MODULE Phone --------------------------------
(***************************************************************************)
(* TUN phone mode (src/tun/phone.rs): the select loop of run_tun_phone,    *)
(* one phone_run_peer task per call, the map of active peers they share,   *)
(* the list of ringing strangers, and the phase and pending calls the      *)
(* control socket reports.  A call is a slot for one connection, used      *)
(* again once nothing refers to it any more.                               *)
(***************************************************************************)
EXTENDS Naturals, SequencesExt, SessionPhase

CONSTANTS
    Peer,        \* EndpointIds other than our own
    Contact,     \* peers in the contact book: auto-accepted
    Higher,      \* peers whose EndpointId is above ours (should_dial)
    Allowed,     \* the --allow list (Peer when the list is open)
    Vip4, Vip6,  \* virtual addresses a peer may announce
    Bad,         \* addresses that are ours or outside the mesh prefixes
    Announce,    \* Announce[p]: the address pairs peer p may bind
    MaxCall,     \* bound: connections dialled, ringing or served at once
    RouteFaults, \* the families (4, 6) whose `route add` may fail
    DeleteFaults \* the families whose `route del` may fail

ASSUME PhoneConstants ==
    /\ Contact \subseteq Peer /\ Higher \subseteq Peer /\ Allowed \subseteq Peer
    /\ Announce \in [Peer -> SUBSET (Vip4 \X Vip6)]
    /\ MaxCall \in Nat
    /\ RouteFaults \subseteq {4, 6} /\ DeleteFaults \subseteq {4, 6}

Call == 1..MaxCall
Loop == 0                       \* the select loop, as a task of its own
Task == Call \cup {Loop}
NoPeer == "no peer"
NoVip == <<>>
Pair == Vip4 \X Vip6

VARIABLES
    pc,       \* where each dial or phone_run_peer task is
    who,      \* remote EndpointId of each call
    vip,      \* address pair announced on each call
    alive,    \* calls whose connection is open
    active,   \* ActivePeers: the addresses of each peer's entry
    ringing,  \* RingingList: calls in the order they rang
    pending,  \* the pending_calls published to the control plane
    loop,     \* the select loop: "select", inside a handler, or "stopped"
    rec,      \* phone_reconcile_phase_after_ring: each task's progress
    phase,    \* TunLiveState.phase
    route4, route6 \* host routes

callVars == <<pc, who, vip, alive>>
listVars == <<ringing, pending>>
routeVars == <<route4, route6>>
vars == <<callVars, active, listVars, loop, rec, phase, routeVars>>

Point == {"free", "dial", "ring", "vips", "claim", "route", "connected", "up",
          "left", "failed", "unroute"}

Init ==
    /\ pc = [c \in Call |-> "free"]
    /\ who = [c \in Call |-> NoPeer]
    /\ vip = [c \in Call |-> NoVip]
    /\ alive = {}
    /\ active = [p \in Peer |-> NoVip]
    /\ ringing = <<>> /\ pending = <<>>
    /\ loop = "select"
    /\ rec = [t \in Task |-> "off"]
    /\ phase = ApplyPhase("Starting", "Ready")
    /\ route4 = {} /\ route6 = {}

IsActive(p) == active[p] # NoVip

(* The task of call c goes on to p; the calls in C end. *)
Goto(c, p) == pc' = [pc EXCEPT ![c] = p]
Release(C) ==
    /\ pc' = [c \in Call |-> IF c \in C THEN "free" ELSE pc[c]]
    /\ who' = [c \in Call |-> IF c \in C THEN NoPeer ELSE who[c]]
    /\ vip' = [c \in Call |-> IF c \in C THEN NoVip ELSE vip[c]]
    /\ alive' = alive \ C

-----------------------------------------------------------------------------
(* The network: a remote side or the idle timeout closes a connection. *)

RemoteCloses(c) ==
    /\ c \in alive
    /\ alive' = alive \ {c}
    /\ UNCHANGED <<pc, who, vip, active, listVars, loop, rec, phase, routeVars>>

-----------------------------------------------------------------------------
(* The select loop *)

(* A connection to p takes a slot. *)
Begin(c, p, point) ==
    /\ loop = "select"
    /\ pc[c] = "free" /\ ~IsActive(p)
    /\ who' = [who EXCEPT ![c] = p]
    /\ Goto(c, point)
    /\ UNCHANGED <<vip, active, rec, routeVars>>

(* Accepting a connection: a contact is answered, a stranger left ringing. *)
(* One that is not allowed, or whose peer is already active, is closed at  *)
(* once and leaves no trace.                                               *)
IncomingContact(c, p) ==
    /\ p \in Allowed \cap Contact
    /\ Begin(c, p, "vips")
    /\ alive' = alive \cup {c}
    /\ UNCHANGED <<listVars, loop, phase>>

IncomingStranger(c, p) ==
    /\ p \in Allowed \ Contact
    /\ Begin(c, p, "ring")
    /\ alive' = alive \cup {c}
    /\ ringing' = Append(ringing, c)
    /\ loop' = "rang"
    /\ UNCHANGED <<pending, phase>>

(* Mutant: published from the list as it was. *)
PublishBefore == pending' = [i \in DOMAIN ringing |-> who[ringing[i]]]

(* publish_pending, once the list has changed. *)
PublishPending == pending' = [i \in DOMAIN ringing' |-> who[ringing'[i]]]

(* The rest of that handler: the phase, then the published list. *)
Rang ==
    /\ loop = "rang"
    /\ phase' = ApplyPhase(phase, "Ring")
    /\ UNCHANGED <<callVars, active, ringing, rec, routeVars>>
    /\ PublishPending
    /\ loop' = "select"

(* CallCmd::Dial: among contacts only the lower EndpointId dials. *)
Dial(c, p) ==
    /\ p \in Contact => p \in Higher
    /\ Begin(c, p, "dial")
    /\ phase' = ApplyPhase(phase, "BeginDial")
    /\ UNCHANGED <<alive, listVars, loop>>

(* The list's first entry that match_peer_token finds to be p's is the i-th. *)
TakeRing(p, i) ==
    /\ loop = "select"
    /\ i \in DOMAIN ringing /\ who[ringing[i]] = p
    /\ \A j \in 1..(i - 1) : who[ringing[j]] # p
    /\ ringing' = RemoveAt(ringing, i)
    /\ PublishPending

(* CallCmd::Accept *)
Accept(p, i) ==
    /\ TakeRing(p, i)
    /\ Goto(ringing[i], "vips")
    /\ UNCHANGED <<who, vip, alive, active, loop, rec, phase, routeVars>>

(* The loop enters phone_reconcile_phase_after_ring. *)
LoopReconciles == loop' = "reconcile" /\ rec' = [rec EXCEPT ![Loop] = "peers"]

(* CallCmd::Reject *)
Reject(p, i) ==
    /\ TakeRing(p, i)
    /\ Release({ringing[i]})
    /\ LoopReconciles
    /\ UNCHANGED <<active, phase, routeVars>>

(* Mutant: the newest call never expires. *)
ExpiredButNewest(n) == n \in 1..(Len(ringing) - 1)

(* How many calls, oldest first, are past RING_TIMEOUT. *)
Expired(n) == n \in 1..Len(ringing)

(* The one-second tick closes them. *)
RingTimeout(n) ==
    /\ loop = "select" /\ Expired(n)
    /\ ringing' = SubSeq(ringing, n + 1, Len(ringing))
    /\ PublishPending
    /\ Release(Range(SubSeq(ringing, 1, n)))
    /\ LoopReconciles
    /\ UNCHANGED <<active, phase, routeVars>>

(* hooks.cancel: the endpoint closes every connection. *)
Shutdown ==
    /\ loop = "select"
    /\ loop' = "stopped"
    /\ phase' = ApplyPhase(phase, "Reset")
    /\ alive' = {}
    /\ UNCHANGED <<pc, who, vip, active, listVars, rec, routeVars>>

-----------------------------------------------------------------------------
(* phone_reconcile_phase_after_ring, by the loop or by a call's task: look *)
(* at the active map, then at the ringing list, then apply the event.      *)

ReconcilePeers(t) ==
    /\ rec[t] = "peers"
    /\ rec' = [rec EXCEPT ![t] = IF \E p \in Peer : IsActive(p) THEN "Connected" ELSE "ringing"]
    /\ UNCHANGED <<callVars, active, listVars, loop, phase, routeVars>>

ReconcileRinging(t) ==
    /\ rec[t] = "ringing"
    /\ rec' = [rec EXCEPT ![t] = IF ringing # <<>> THEN "Ring" ELSE "PeerLeft"]
    /\ UNCHANGED <<callVars, active, listVars, loop, phase, routeVars>>

ReconcileApply(t) ==
    /\ rec[t] \in PhaseEvent
    /\ phase' = ApplyPhase(phase, rec[t])
    /\ rec' = [rec EXCEPT ![t] = "off"]
    /\ \/ t = Loop /\ loop' = "select" /\ UNCHANGED callVars
       \/ t # Loop /\ pc[t] = "failed" /\ Release({t}) /\ UNCHANGED loop
       \/ t # Loop /\ pc[t] = "left" /\ Goto(t, "unroute") /\ UNCHANGED <<who, vip, alive, loop>>
    /\ UNCHANGED <<active, listVars, routeVars>>

(* Task c leaves phone_run_peer with an error, or reconciles at its end. *)
TaskReconciles(c, p) == Goto(c, p) /\ rec' = [rec EXCEPT ![c] = "peers"]

-----------------------------------------------------------------------------
(* The task of one call *)

DialConnects(c) ==
    /\ pc[c] = "dial" /\ loop # "stopped"
    /\ Goto(c, "vips")
    /\ alive' = alive \cup {c}
    /\ UNCHANGED <<who, vip, active, listVars, loop, rec, phase, routeVars>>

(* The dial fails, or the exchange does: a timeout, a closed stream. *)
CallFails(c) ==
    /\ pc[c] \in {"dial", "vips"}
    /\ TaskReconciles(c, "failed")
    /\ UNCHANGED <<who, vip, alive, active, listVars, loop, phase, routeVars>>

ExchangeVips(c) ==
    /\ pc[c] = "vips" /\ c \in alive
    /\ \E pair \in Announce[who[c]] :
          /\ vip' = [vip EXCEPT ![c] = pair]
          /\ IF pair[1] \in Bad \/ pair[2] \in Bad
             THEN TaskReconciles(c, "failed")
             ELSE Goto(c, "claim") /\ UNCHANGED rec
    /\ UNCHANGED <<who, alive, active, listVars, loop, phase, routeVars>>

(* Mutant: v6 collisions overlooked. *)
TakenV4Only(c) ==
    \/ IsActive(who[c])
    \/ \E p \in Peer : IsActive(p) /\ active[p][1] = vip[c][1]

(* The closure of the claim's rcu leaves the map alone. *)
Taken(c) ==
    \/ IsActive(who[c])
    \/ \E p \in Peer : /\ IsActive(p)
                       /\ active[p][1] = vip[c][1] \/ active[p][2] = vip[c][2]

(* rcu returns the map it replaced, and that is where success is read. *)
ClaimSeen(c) == active[who[c]] = vip[c]

Claim(c) ==
    /\ pc[c] = "claim"
    /\ active' = IF Taken(c) THEN active ELSE [active EXCEPT ![who[c]] = vip[c]]
    /\ IF ClaimSeen(c) THEN Goto(c, "route") /\ UNCHANGED rec
                       ELSE TaskReconciles(c, "failed")
    /\ UNCHANGED <<who, vip, alive, listVars, loop, phase, routeVars>>

AddPeerRoute(c) ==
    /\ pc[c] = "route"
    /\ route4' = route4 \cup {vip[c][1]}
    /\ route6' = route6 \cup {vip[c][2]}
    /\ Goto(c, "connected")
    /\ UNCHANGED <<who, vip, alive, active, listVars, loop, rec, phase>>

(* Entries go by EndpointId, whichever call put them there. *)
ForgetPeer(c) == active' = [active EXCEPT ![who[c]] = NoVip]

(* add_peer_route runs the v4 command, then the v6 one: if the second      *)
(* fails the first route stays.                                            *)
AddPeerRouteFails(c) ==
    /\ pc[c] = "route"
    /\ \E f \in RouteFaults : route4' = IF f = 4 THEN route4 ELSE route4 \cup {vip[c][1]}
    /\ ForgetPeer(c)
    /\ TaskReconciles(c, "failed")
    /\ UNCHANGED <<who, vip, alive, listVars, loop, phase, route6>>

Connected(c) ==
    /\ pc[c] = "connected"
    /\ phase' = ApplyPhase(phase, "Connected")
    /\ Goto(c, "up")
    /\ UNCHANGED <<who, vip, alive, active, listVars, loop, rec, routeVars>>

(* conn.closed() *)
Disconnected(c) ==
    /\ pc[c] = "up" /\ c \notin alive
    /\ ForgetPeer(c)
    /\ TaskReconciles(c, "left")
    /\ UNCHANGED <<who, vip, alive, listVars, loop, phase, routeVars>>

(* Both commands run, and nobody looks at how either ended. *)
DelPeerRoute(c) ==
    /\ pc[c] = "unroute"
    /\ \/ route4' = route4 \ {vip[c][1]}
       \/ 4 \in DeleteFaults /\ UNCHANGED route4
    /\ \/ route6' = route6 \ {vip[c][2]}
       \/ 6 \in DeleteFaults /\ UNCHANGED route6
    /\ Release({c})
    /\ UNCHANGED <<active, listVars, loop, rec, phase>>

-----------------------------------------------------------------------------
PhoneRunPeer(c) ==
    \/ DialConnects(c) \/ CallFails(c) \/ ExchangeVips(c) \/ Claim(c)
    \/ AddPeerRoute(c) \/ AddPeerRouteFails(c) \/ Connected(c)
    \/ Disconnected(c) \/ DelPeerRoute(c)

Reconcile(t) == ReconcilePeers(t) \/ ReconcileRinging(t) \/ ReconcileApply(t)

(* Once the loop has stopped the tasks go on until the process exits. *)
Next ==
    \/ Rang \/ Shutdown
    \/ \E p \in Peer, i \in Call : Accept(p, i) \/ Reject(p, i)
    \/ \E c \in Call, p \in Peer : IncomingContact(c, p) \/ IncomingStranger(c, p) \/ Dial(c, p)
    \/ \E n \in Call : RingTimeout(n)
    \/ \E c \in Call : RemoteCloses(c) \/ PhoneRunPeer(c)
    \/ \E t \in Task : Reconcile(t)

(* While the process lives the runtime polls every ready task, waits have  *)
(* timeouts, and select!, which picks among ready branches at random,      *)
(* comes round to the tick.                                                *)
Fairness ==
    /\ \A c \in Call : WF_vars(loop # "stopped" /\ PhoneRunPeer(c))
    /\ \A t \in Task : WF_vars(loop # "stopped" /\ Reconcile(t))
    /\ WF_vars(Rang)
    /\ SF_vars(\E n \in Call : RingTimeout(n))

Spec == Init /\ [][Next]_vars
FairSpec == Spec /\ Fairness

-----------------------------------------------------------------------------
(* Properties *)

TypeOK ==
    /\ pc \in [Call -> Point]
    /\ who \in [Call -> Peer \cup {NoPeer}]
    /\ vip \in [Call -> Pair \cup {NoVip}]
    /\ alive \subseteq Call
    /\ active \in [Peer -> Pair \cup {NoVip}]
    /\ ringing \in Seq(Call) /\ pending \in Seq(Peer)
    /\ loop \in {"select", "rang", "reconcile", "stopped"}
    /\ rec \in [Task -> {"off", "peers", "ringing"} \cup PhaseEvent]
    /\ phase \in PhaseName
    /\ route4 \subseteq Vip4 /\ route6 \subseteq Vip6

(* The claim's rcu: two active peers never share an address of either      *)
(* family and none holds an unusable one, so a packet has one recipient.   *)
VipUnique ==
    \A p \in Peer : IsActive(p) =>
        /\ active[p][1] \notin Bad /\ active[p][2] \notin Bad
        /\ \A q \in Peer \ {p} : IsActive(q) =>
              active[p][1] # active[q][1] /\ active[p][2] # active[q][2]

(* The active map keeps what AddressLeases promises, of usable addresses   *)
(* only: a call that fails, a teardown or an older call of the same peer   *)
(* never hands an address over or leaves half a pair.                      *)
Leased(f) == {<<active[p][f], p>> : p \in {q \in Peer : IsActive(q)}}
Leases == INSTANCE AddressLeases WITH
              Vip4 <- Vip4 \ Bad, Vip6 <- Vip6 \ Bad,
              lease4 <- Leased(1), lease6 <- Leased(2)
ActiveLeases == Leases!Spec

(* publish_pending: whenever the loop waits for its next event, the        *)
(* control plane shows exactly the calls that are ringing, in the order    *)
(* Accept and Reject would take them.                                      *)
PendingAgrees ==
    loop = "select" =>
        /\ pending = [i \in DOMAIN ringing |-> who[ringing[i]]]
        /\ {c \in Call : pc[c] = "ring"} = Range(ringing)

(* add_peer_route / del_peer_route: no host route survives the calls,      *)
(* except one whose delete command failed.                                 *)
RoutesGone ==
    (\A c \in Call : pc[c] \in {"free", "ring"}) =>
        /\ route4 = {} \/ 4 \in DeleteFaults
        /\ route6 = {} \/ 6 \in DeleteFaults

(* RING_TIMEOUT: every ring ends, even if nobody answers and whatever else *)
(* the loop is busy with.                                                  *)
RingsEnd == \A c \in Call : pc[c] = "ring" ~> pc[c] # "ring" \/ loop = "stopped"

(* phone_run_peer: a call whose connection is gone is torn down to the end. *)
CallsEnd ==
    \A c \in Call : (pc[c] \notin {"dial", "ring"} /\ c \notin alive)
                        ~> pc[c] = "free" \/ loop = "stopped"

(* Comment on the claim, "success iff our peer_id owns this VIP            *)
(* afterwards": an entry of the active map has a task serving it.          *)
NoGhost ==
    \A p \in Peer : IsActive(p) =>
        \E c \in Call : who[c] = p /\ pc[c] \in {"route", "connected", "up"}

(* Comment on phone_reconcile_phase_after_ring: "Idle if nothing live". *)
IdleIfNothingLive ==
    /\ \A c \in Call : pc[c] = "free"
    /\ \A p \in Peer : ~IsActive(p)
    /\ loop = "select"
    => phase = "Idle"

(* What the phone shows and leaves behind follows its calls: the published *)
(* pending calls are the ringing ones and no host route outlives its call  *)
(* unless the command that deletes it fails.                               *)
CallsTidy == TypeOK /\ PendingAgrees /\ RoutesGone

(* Every ring is answered, refused or expires, and every call whose        *)
(* connection died is torn down to the end.                                *)
RingsAndCallsEnd == RingsEnd /\ CallsEnd
=============================================================================
