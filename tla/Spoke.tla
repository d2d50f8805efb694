------------------------------- MODULE Spoke -------------------------------
(***************************************************************************)
(* A TUN spoke (src/tun/spoke.rs): the loop that dials the hub, the task   *)
(* that reads the roster control stream, and one task per direct link to   *)
(* another spoke, all updating one SpokeMesh.  mesh_update loads the       *)
(* table, changes its copy and stores the copy back, and the tasks run on  *)
(* several threads: each update is a load and a store.                     *)
(* A peer's name stands for the two addresses the hub announces for it;    *)
(* what a link to or from it announces is checked against them only when   *)
(* this side dials.                                                        *)
(***************************************************************************)
EXTENDS Naturals, Sequences

CONSTANTS
    Peer,      \* the other spokes of the mesh
    Allowed,   \* the --allow list (Peer when the list is open)
    Dials,     \* peers p with should_dial(own_id, p): this side dials
    Addr,      \* addresses of either family; Peer, "hub" and "own" are some
    InMesh,    \* those inside the mesh prefixes
    Announce,  \* address pairs an inbound link may announce
    MaxConn,   \* bound: hub connections in one behaviour
    MaxLink,   \* bound: direct links attempted in one behaviour
    MaxMove    \* bound: roster messages the hub sends after its snapshots

ASSUME SpokeConstants ==
    /\ Allowed \subseteq Peer /\ Dials \subseteq Peer
    /\ {MaxConn, MaxLink, MaxMove} \subseteq Nat
    /\ Peer \cap {"hub", "own"} = {} /\ Peer \cup {"hub", "own"} \subseteq Addr
    /\ Announce \subseteq Addr \X Addr /\ InMesh \subseteq Addr

Key == {4, 6} \X Addr             \* entries of direct and direct6
Link == 1..MaxLink
None == 0                        \* no hub_out, no direct link
LoopTask == MaxLink + 1
RosterTask == MaxLink + 2
Task == 1..(MaxLink + 2)         \* who updates the table: links, loop, reader
Nobody == "nobody"
Table == [hub : 0..MaxConn, direct : [Key -> 0..MaxLink],
          roster : SUBSET (Peer \cup {"hub"})]
Msg == [kind : {"snapshot", "joined", "left"}, who : SUBSET Peer]
Reader == [at : {"off", "read", "apply"},
           kind : {"snapshot", "joined", "left"}, todo : SUBSET Peer]
LoopPoint == {"dial", "setup", "install", "up", "clear", "quit", "sleep", "stopped"}

VARIABLES
    mesh,     \* SharedSpokeMesh
    copy,     \* the copy a task is changing, <<>> outside mesh_update
    loop,     \* where run_tun_connect_inner is
    conn,     \* hub connections made so far; the last one is the session's
    hubUp,    \* the last hub connection is alive
    route,    \* the mesh route is installed
    reader,   \* the roster task: what it does and the entries left to apply
    ctrl,     \* roster messages under way on the control stream
    link,     \* program point of each direct-link task
    peer,     \* the peer of each direct-link task
    vip,      \* the address pair of each direct link
    linkUp,   \* direct connections that are alive
    member,   \* external: the peers now in the hub's mesh
    moves,    \* membership changes so far
    overlap   \* history: two updates of the table have overlapped

loopVars == <<loop, conn, hubUp, route>>
linkVars == <<link, peer, vip, linkUp>>
hubVars  == <<member, moves>>
vars == <<mesh, copy, loopVars, reader, ctrl, linkVars, hubVars, overlap>>

Quiet == [at |-> "off", kind |-> "left", todo |-> {}]

TypeOK ==
    /\ mesh \in Table
    /\ copy \in [Task -> Table \cup {<<>>}]
    /\ loop \in LoopPoint
    /\ conn \in 0..MaxConn /\ hubUp \in BOOLEAN /\ route \in BOOLEAN
    /\ reader \in Reader
    /\ ctrl \in Seq(Msg)
    /\ link \in [Link -> {"free", "check", "dial", "install", "up",
                          "closing", "done"}]
    /\ peer \in [Link -> Peer \cup {Nobody}] /\ vip \in [Link -> Addr \X Addr]
    /\ linkUp \subseteq Link
    /\ member \subseteq Peer /\ moves \in 0..MaxMove
    /\ overlap \in BOOLEAN

(* SpokeMesh::new; the TUN device exists and Ready has been signalled.      *)
Init ==
    /\ mesh = [hub |-> None, direct |-> [k \in Key |-> None], roster |-> {}]
    /\ copy = [t \in Task |-> <<>>]
    /\ loop = "dial" /\ conn = 0 /\ hubUp = FALSE /\ route = FALSE
    /\ reader = Quiet /\ ctrl = <<>>
    /\ link = [l \in Link |-> "free"]
    /\ peer = [l \in Link |-> Nobody] /\ vip = [l \in Link |-> <<"own", "own">>]
    /\ linkUp = {} /\ member \in SUBSET Peer /\ moves = 0 /\ overlap = FALSE

-----------------------------------------------------------------------------
(* mesh_update: the two halves, and what the closures do to the copy.      *)

Load(t) ==
    /\ copy[t] = <<>>
    /\ copy' = [copy EXCEPT ![t] = mesh]

Updating(t) == copy[t] # <<>>

(* A store while another task holds a copy: one of the two will be lost.   *)
Store(t, table) ==
    /\ mesh' = table
    /\ copy' = [copy EXCEPT ![t] = <<>>]
    /\ overlap' = (overlap \/ \E u \in Task \ {t} : Updating(u))

WithHub(t) == [hub |-> conn, direct |-> t.direct, roster |-> t.roster \cup {"hub"}]

ClearHub(t) == [t EXCEPT !.hub = None]

(* Mutant: a roster entry is dialed and never inserted. *)
SameTable(t, p) == t

WithEntry(t, p) == [t EXCEPT !.roster = @ \cup {p}]
WithoutEntry(t, p) ==
    [hub |-> t.hub, roster |-> t.roster \ {p},
     direct |-> [k \in Key |-> IF k[2] = p THEN None ELSE t.direct[k]]]

(* The keys of link l in the two indexes, whoever holds them.              *)
Keys(l) == {<<4, vip[l][1]>>, <<6, vip[l][2]>>}

WithDirect(t, l) ==
    [hub |-> t.hub, roster |-> t.roster \cup {peer[l]},
     direct |-> [k \in Key |-> IF k \in Keys(l) THEN l ELSE t.direct[k]]]

(* Mutant: the teardown forgets the index the data path reads. *)
KeepDirect(t, l) == t

WithoutDirect(t, l) ==
    [hub |-> t.hub, roster |-> t.roster,
     direct |-> [k \in Key |-> IF k \in Keys(l) THEN None ELSE t.direct[k]]]

(* Where a packet for the address and family k goes: lookup_out.           *)
LookupOut(k) ==
    IF k[2] = "hub" /\ mesh.hub # None THEN <<"hub", mesh.hub>>
    ELSE IF mesh.direct[k] # None THEN <<"direct", mesh.direct[k]>>
    ELSE IF k[2] \in InMesh THEN <<"hub", mesh.hub>> ELSE <<"nowhere", None>>

-----------------------------------------------------------------------------
(* The session loop. *)

(* endpoint.connect, exchange_peer_vips and open_bi succeed.                *)
HubConnects ==
    /\ loop = "dial" /\ conn < MaxConn
    /\ loop' = "setup" /\ conn' = conn + 1 /\ hubUp' = TRUE
    /\ UNCHANGED <<mesh, copy, route, reader, ctrl, linkVars, hubVars, overlap>>

(* Any step before the hub is installed fails: PeerGone without a route.   *)
SessionFails ==
    /\ loop \in {"dial", "setup"}
    /\ loop' = "sleep" /\ hubUp' = FALSE
    /\ UNCHANGED <<mesh, copy, conn, route, reader, ctrl, linkVars, hubVars, overlap>>

(* set_tun_mtu, add_mesh_route and the Connected phase; the hub, which has *)
(* read HELLO by now, starts with its snapshot.                            *)
SetUp ==
    /\ loop = "setup"
    /\ loop' = "install" /\ route' = TRUE
    /\ ctrl' = IF hubUp THEN <<[kind |-> "snapshot", who |-> member]>> ELSE <<>>
    /\ UNCHANGED <<mesh, copy, conn, hubUp, reader, linkVars, hubVars, overlap>>

(* hub_out and the hub's roster entry; then the two reader tasks.  The old  *)
(* reader, which never waits inside a message, is over by now.             *)
InstallHub ==
    /\ loop = "install" /\ reader.at = "off"
    /\ \/ /\ ~Updating(LoopTask) /\ Load(LoopTask)
          /\ UNCHANGED <<mesh, loop, reader, overlap>>
       \/ /\ Updating(LoopTask) /\ Store(LoopTask, WithHub(copy[LoopTask]))
          /\ loop' = "up"
          /\ reader' = [Quiet EXCEPT !.at = "read"]
    /\ UNCHANGED <<conn, hubUp, route, ctrl, linkVars, hubVars>>

(* conn.closed(), or cancel: the reader is aborted, which lets it finish    *)
(* the message it is applying.                                             *)
SessionEnds(stop) ==
    /\ loop = "up" /\ (stop \/ ~hubUp)
    /\ loop' = IF stop THEN "quit" ELSE "clear"
    /\ reader' = IF reader.at = "read" THEN Quiet ELSE reader
    /\ ctrl' = <<>>
    /\ hubUp' = FALSE
    /\ UNCHANGED <<mesh, copy, conn, route, linkVars, hubVars, overlap>>

(* clear_hub, and on a shutdown del_mesh_route.                            *)
ClearsHub ==
    /\ loop \in {"clear", "quit"}
    /\ \/ ~Updating(LoopTask) /\ Load(LoopTask) /\ UNCHANGED <<mesh, loop, route, overlap>>
       \/ /\ Updating(LoopTask) /\ Store(LoopTask, ClearHub(copy[LoopTask]))
          /\ loop' = IF loop = "quit" THEN "stopped" ELSE "sleep"
          /\ route' = (route /\ loop # "quit")
    /\ UNCHANGED <<conn, hubUp, reader, ctrl, linkVars, hubVars>>

(* The delay ends, or cancel is heard: that return leaves the route alone. *)
SleepEnds(stop) ==
    /\ loop = "sleep"
    /\ loop' = IF stop THEN "stopped" ELSE "dial"
    /\ UNCHANGED <<mesh, copy, conn, hubUp, route, reader, ctrl,
                   linkVars, hubVars, overlap>>

-----------------------------------------------------------------------------
(* The roster reader: spoke_apply_roster_msg, entry by entry.              *)

ReadMsg ==
    /\ reader.at = "read" /\ ctrl # <<>>
    /\ reader' = IF Head(ctrl).who = {} THEN reader
                 ELSE [at |-> "apply", kind |-> Head(ctrl).kind, todo |-> Head(ctrl).who]
    /\ ctrl' = Tail(ctrl)
    /\ UNCHANGED <<mesh, copy, loopVars, linkVars, hubVars, overlap>>

(* read_msg fails once the connection is gone and nothing is left to read. *)
CtrlCloses ==
    /\ reader.at = "read" /\ ctrl = <<>> /\ ~hubUp
    /\ reader' = Quiet
    /\ UNCHANGED <<mesh, copy, loopVars, ctrl, linkVars, hubVars, overlap>>

(* A task starts for p; link numbers are never reused.                     *)
Spawns(p, pair, at) ==
    \E l \in Link :
        /\ link[l] = "free" /\ \A k \in Link : link[k] = "free" => l <= k
        /\ link' = [link EXCEPT ![l] = at]
        /\ peer' = [peer EXCEPT ![l] = p] /\ vip' = [vip EXCEPT ![l] = pair]

(* spoke_try_dial_peer returns at once for a peer that is not allowed or    *)
(* that is to dial us; past the bound MaxLink every dial fails.            *)
TryDialPeer(p) ==
    IF p \in Allowed \cap Dials /\ \E l \in Link : link[l] = "free"
    THEN Spawns(p, <<p, p>>, "check") /\ UNCHANGED linkUp
    ELSE UNCHANGED linkVars

LoadEntry ==
    /\ reader.at = "apply" /\ reader.todo # {}
    /\ ~Updating(RosterTask) /\ Load(RosterTask)
    /\ UNCHANGED <<mesh, loopVars, reader, ctrl, linkVars, hubVars, overlap>>

(* Snapshot and Joined insert the entry and spawn a dial; Left removes the  *)
(* entry and whatever direct link the table holds for it.                  *)
StoreEntry(p) ==
    /\ reader.at = "apply" /\ p \in reader.todo
    /\ Updating(RosterTask)
    /\ reader' = [at |-> IF reader.todo # {p} THEN "apply"
                         ELSE IF loop = "up" THEN "read" ELSE "off",
                  kind |-> reader.kind, todo |-> reader.todo \ {p}]
    /\ IF reader.kind = "left"
       THEN Store(RosterTask, WithoutEntry(copy[RosterTask], p)) /\ UNCHANGED linkVars
       ELSE /\ Store(RosterTask, WithEntry(copy[RosterTask], p))
            /\ TryDialPeer(p)
    /\ UNCHANGED <<loopVars, ctrl, hubVars>>

-----------------------------------------------------------------------------
(* A direct link: spoke_try_dial_peer_inner, the inbound accept task and    *)
(* spoke_install_direct.                                                   *)

To(l, at) == link' = [link EXCEPT ![l] = at]

(* No dial while the table holds a direct link for the peer's IPv4 address. *)
CheckDial(l) ==
    /\ link[l] = "check"
    /\ To(l, IF mesh.direct[<<4, peer[l]>>] = None THEN "dial" ELSE "done")
    /\ UNCHANGED <<mesh, copy, loopVars, reader, ctrl, peer, vip, linkUp, hubVars, overlap>>

(* Connect and VIP exchange with the addresses the hub announced; or one   *)
(* of them fails, or the peer announces others, and the hub keeps          *)
(* forwarding.                                                             *)
DialPeer(l) ==
    /\ link[l] = "dial"
    /\ \/ To(l, "install") /\ linkUp' = linkUp \cup {l}
       \/ To(l, "done") /\ UNCHANGED linkUp
    /\ UNCHANGED <<mesh, copy, loopVars, reader, ctrl, peer, vip, hubVars, overlap>>

(* The accept task: an allowed peer that is to dial us; others are closed,  *)
(* and a failed VIP exchange, or one that announces an address of ours,     *)
(* leaves no trace.  Nothing ties the addresses of the others to those the *)
(* hub has announced for the peer.                                         *)
Inbound(p) ==
    /\ loop # "stopped" /\ p \in Allowed \ Dials
    /\ \E pair \in Announce :
          "own" \notin {pair[1], pair[2]} /\ Spawns(p, pair, "install")
    /\ linkUp' = linkUp \cup {l \in Link : link'[l] # link[l]}
    /\ UNCHANGED <<mesh, copy, loopVars, reader, ctrl, hubVars, overlap>>

InstallDirect(l) ==
    /\ link[l] = "install"
    /\ \/ ~Updating(l) /\ Load(l) /\ UNCHANGED <<mesh, link, overlap>>
       \/ Updating(l) /\ Store(l, WithDirect(copy[l], l)) /\ To(l, "up")
    /\ UNCHANGED <<loopVars, reader, ctrl, peer, vip, linkUp, hubVars>>

(* conn.closed() or a failed read_datagram ends the receive loop.          *)
DirectEnds(l) ==
    /\ link[l] = "up" /\ l \notin linkUp
    /\ To(l, "closing")
    /\ UNCHANGED <<mesh, copy, loopVars, reader, ctrl, peer, vip, linkUp, hubVars, overlap>>

(* Mutant: the task returns before its teardown update. *)
ReturnEarly(l) ==
    /\ link[l] = "closing" /\ To(l, "done")
    /\ UNCHANGED <<mesh, copy, loopVars, reader, ctrl, peer, vip, linkUp, hubVars, overlap>>

RemoveDirect(l) ==
    /\ link[l] = "closing"
    /\ \/ ~Updating(l) /\ Load(l) /\ UNCHANGED <<mesh, link, overlap>>
       \/ Updating(l) /\ Store(l, WithoutDirect(copy[l], l)) /\ To(l, "done")
    /\ UNCHANGED <<loopVars, reader, ctrl, peer, vip, linkUp, hubVars>>

-----------------------------------------------------------------------------
(* The environment: connections die, peers come and go at the hub.         *)

HubDies ==
    /\ hubUp
    /\ hubUp' = FALSE
    /\ UNCHANGED <<mesh, copy, loop, conn, route, reader, ctrl,
                   linkVars, hubVars, overlap>>

LinkDies(l) ==
    /\ l \in linkUp
    /\ linkUp' = linkUp \ {l}
    /\ UNCHANGED <<mesh, copy, loopVars, reader, ctrl, link, peer, vip, hubVars, overlap>>

(* The hub tells a spoke whose snapshot it has written.                    *)
Moves(p) ==
    LET joins == p \notin member
    IN  /\ moves < MaxMove /\ moves' = moves + 1
        /\ member' = IF joins THEN member \cup {p} ELSE member \ {p}
        /\ ctrl' = IF hubUp /\ loop \in {"install", "up"}
                   THEN Append(ctrl, [kind |-> IF joins THEN "joined" ELSE "left",
                                      who |-> {p}])
                   ELSE ctrl
        /\ UNCHANGED <<mesh, copy, loopVars, reader, linkVars, overlap>>

(* The hub takes its snapshot between a peer's claim and its Joined, or     *)
(* between its removal and its Left: the spoke is told again what the       *)
(* snapshot said, dials once more, or drops a link the peer dialled.       *)
Repeats(p) ==
    /\ moves < MaxMove /\ moves' = moves + 1
    /\ hubUp /\ loop \in {"install", "up"}
    /\ ctrl' = Append(ctrl, [kind |-> IF p \in member THEN "joined" ELSE "left", who |-> {p}])
    /\ UNCHANGED <<mesh, copy, loopVars, reader, linkVars, member, overlap>>

-----------------------------------------------------------------------------
LoopStep ==
    \/ HubConnects \/ SessionFails \/ SetUp \/ InstallHub
    \/ SessionEnds(FALSE) \/ ClearsHub \/ SleepEnds(FALSE)

ReaderStep ==
    \/ ReadMsg \/ CtrlCloses \/ LoadEntry
    \/ \E p \in Peer : StoreEntry(p)

LinkStep(l) ==
    \/ CheckDial(l) \/ DialPeer(l) \/ InstallDirect(l)
    \/ DirectEnds(l) \/ RemoveDirect(l)

Environment ==
    \/ SessionEnds(TRUE) \/ SleepEnds(TRUE) \/ HubDies
    \/ \E l \in Link : LinkDies(l)
    \/ \E p \in Peer : Moves(p) \/ Repeats(p) \/ Inbound(p)

Next == LoopStep \/ ReaderStep \/ (\E l \in Link : LinkStep(l)) \/ Environment

Spec == Init /\ [][Next]_vars

(* The runtime keeps polling the task of a direct link that has its         *)
(* teardown left; nothing else needs fairness for what is claimed.         *)
FairSpec == Spec /\ \A l \in Link : WF_vars(RemoveDirect(l))

-----------------------------------------------------------------------------
(* Properties.  mesh_update is not atomic, and a store may discard another  *)
(* task's update: each property says what holds as long as no two updates  *)
(* have overlapped.                                                        *)

(* While a hub session is installed, and only then, the table sends to that *)
(* session's connection and no other: a reconnect replaces hub_out and the *)
(* end of a session clears it.                                             *)
HubEntry ==
    ~overlap => mesh.hub = IF loop \in {"up", "clear", "quit"}
                        THEN conn ELSE None

(* lookup_out never hands a packet to the queue of a direct link that is    *)
(* over, nor to one that did not announce the packet's address, whatever   *)
(* addresses links announce and however they replace and tear down each    *)
(* other's entries: in doubt the packet goes to the hub.  Whose address it *)
(* is, an inbound link alone decides.                                      *)
NoBlackHole ==
    ~overlap => \A k \in Key :
                LET out == LookupOut(k)
                IN  out[1] = "direct" =>
                      k \in Keys(out[2]) /\ link[out[2]] \in {"up", "closing"}

(* Once the roster messages sent so far are applied, every peer of the     *)
(* hub's mesh is on the spoke's roster, across reconnects.                 *)
RosterComplete ==
    ~overlap /\ loop = "up" /\ hubUp /\ reader.at = "read" /\ ctrl = <<>>
        => member \subseteq mesh.roster

(* A direct link that closed leaves the table.                             *)
DeadLinkCleared ==
    \A l \in Link :
        link[l] = "closing" ~> overlap \/ \A k \in Key : mesh.direct[k] # l

(* The table of the spoke is sound: well-typed, its hub entry follows the  *)
(* hub session, and no entry sends into a direct link that is finished.    *)
TableSound == TypeOK /\ HubEntry /\ NoBlackHole
=============================================================================
