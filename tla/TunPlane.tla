------------------------------ MODULE TunPlane ------------------------------
(***************************************************************************)
(* The packet plane of a TUN node (src/src/tun/mod.rs, hub.rs, phone.rs):  *)
(* one task owns the device and joins it to two bounded queues, a demux    *)
(* task spreads packets over one bounded queue per peer, a sender task per *)
(* peer empties it onto the QUIC connection, and a read loop per peer      *)
(* brings datagrams in.  On top of it runs the path MTU machinery: an      *)
(* oversize packet lowers the interface MTU and is answered with ICMP, and *)
(* the read loops raise the MTU again when they find two idle seconds.     *)
(*                                                                         *)
(* Time passes in ticks of a second or more.  Each flow of the local host  *)
(* offers packets as large as the device and the kernel's path MTU cache   *)
(* allow.                                                                  *)
(***************************************************************************)
EXTENDS Naturals, Sequences, FiniteSets

CONSTANTS Peer,        \* peers with a session on this node
          V6,          \* the peers the local host talks to over IPv6
          Ceiling,     \* values max_datagram_size() takes
          UserMtu,     \* --mtu
          Floor,       \* least MTU the platform programs: 1280 on Linux, else 0
          Queue,       \* TUN_PKT_QUEUE
          IcmpRate,    \* ICMP_PTB_RATE_PER_SEC
          Recheck,     \* ticks a read loop sleeps before refresh_tun_mtu
          Holdoff,     \* MTU_RAISE_HOLDOFF in ticks
          MaxAge,      \* how far the time since the last check is counted
          Flow,        \* peers the local host sends to
          Budget       \* bound on what the environment does to the plane

ASSUME PlaneAssumption ==
    /\ V6 \subseteq Peer /\ Flow \subseteq Peer /\ Ceiling \subseteq Nat \ {0}
    /\ {UserMtu, Queue, IcmpRate, Recheck, Holdoff} \subseteq Nat \ {0}
    /\ {Floor, MaxAge, Budget} \subseteq Nat /\ "other" \notin Peer

VARIABLES live,      \* peers with an entry in the index
          ceiling,   \* max_datagram_size() of each connection
          cell,      \* SharedIfaceMtu
          device,    \* MTU the operating system has for the interface
          hold,      \* seconds left on MtuRaiseGate
          tunUp,     \* the task of spawn_tun_io runs
          toTun,     \* queue into the device
          held,      \* packet that task has read and found no room for
          fromTun,   \* queue out of the device
          outQ,      \* outbound queue of each peer
          sender,    \* where spawn_peer_sender's task is, per peer
          icmps,     \* ICMP answers of each sender in the current second
          reader,    \* where each read loop is
          slept,     \* seconds each read loop's sleep has run
          age,       \* seconds since each live session last looked at its MTU
          pmtu,      \* the kernel's path MTU towards each peer
          cut,       \* a packet did not fit the buffer it was read into
          budget     \* environment events left

mtuVars   == <<cell, device, hold>>
queueVars == <<tunUp, toTun, held, fromTun>>
timeVars  == <<slept, age>>
planeVars == <<live, ceiling, mtuVars, queueVars, outQ, sender, icmps, reader,
          timeVars, pmtu, cut, budget>>

IPV6_MIN == 1280
Headroom == 64      \* the read buffer is user_mtu + 64
Unlearned == 65535  \* no path MTU cached

Lesser(a, b)  == IF a < b THEN a ELSE b
Greater(a, b) == IF a > b THEN a ELSE b

Packet == [to : Peer, len : Nat, own : BOOLEAN]
Answer == [for : Peer, mtu : Nat]
Other  == [for : {"other"}]     \* a packet that teaches the kernel nothing

(* `set_tun_mtu` runs a command of the platform, which may fail.  The cell *)
(* is written before it and keeps the new value either way.                *)
SetMtu(m, ok) ==
    /\ cell' = m
    /\ device' = IF ok THEN Greater(m, Floor) ELSE device
    /\ ok \/ budget > 0
    /\ budget' = IF ok THEN budget ELSE budget - 1
KeepMtu == UNCHANGED <<cell, device, budget>>

Idle    == [at |-> "recv"]
Waiting == [at |-> "send"]

PlaneInit ==
    /\ live = {} /\ ceiling \in [Peer -> Ceiling]
    /\ cell = UserMtu /\ device = Greater(UserMtu, Floor) /\ hold = 0
    /\ tunUp = TRUE /\ toTun = <<>> /\ held = <<>> /\ fromTun = <<>>
    /\ outQ = [p \in Peer |-> <<>>]
    /\ sender = [p \in Peer |-> Idle]
    /\ icmps = [p \in Peer |-> 0]
    /\ reader = [p \in Peer |-> "select"]
    /\ slept = [p \in Peer |-> 0] /\ age = [p \in Peer |-> 0]
    /\ pmtu = [p \in Peer |-> Unlearned]
    /\ cut = FALSE /\ budget = Budget

-----------------------------------------------------------------------------
(* Sessions: the set-up clamps the interface MTU to the new path and never *)
(* raises it; the end drops the entry, and with it the queue's last sender.*)
(* Mutant: the path's size alone, past --mtu. *)
ChooseMtuOfPath(p) == ceiling[p]
ChooseMtu(p) == Lesser(UserMtu, ceiling[p])

SessionUp(p) ==
    /\ p \notin live /\ reader[p] = "select" /\ sender[p] = Idle /\ outQ[p] = <<>>
    /\ live' = live \union {p}
    /\ IF ChooseMtu(p) < cell
         THEN \E ok \in BOOLEAN : SetMtu(ChooseMtu(p), ok)
         ELSE KeepMtu
    /\ slept' = [slept EXCEPT ![p] = 0] /\ age' = [age EXCEPT ![p] = 0]
    /\ UNCHANGED <<ceiling, hold, queueVars, outQ, sender, icmps, reader, pmtu, cut>>

SessionDown(p) ==
    /\ p \in live /\ reader[p] = "select" /\ budget > 0
    /\ live' = live \ {p} /\ budget' = budget - 1
    /\ UNCHANGED <<ceiling, mtuVars, queueVars, outQ, sender, icmps, reader, timeVars,
                   pmtu, cut>>

-----------------------------------------------------------------------------
(* The task that owns the device.  Its select is biased: it reads the      *)
(* device only when nothing waits to be written.                           *)
TunWrite ==
    /\ tunUp /\ held = <<>> /\ toTun # <<>>
    /\ toTun' = Tail(toTun)
    /\ pmtu' = [p \in Peer |->
                 IF Head(toTun).for = p
                   THEN IF p \in V6 THEN Greater(Head(toTun).mtu, IPV6_MIN)
                                    ELSE Head(toTun).mtu
                   ELSE pmtu[p]]
    /\ UNCHANGED <<live, ceiling, mtuVars, tunUp, held, fromTun, outQ, sender, icmps,
                   reader, timeVars, cut, budget>>

Offered(p) == Lesser(device, pmtu[p])

TunRead(p) ==
    /\ p \in Flow /\ tunUp /\ held = <<>> /\ toTun = <<>>
    /\ LET pkt == [to |-> p, len |-> Lesser(Offered(p), UserMtu + Headroom),
                   own |-> TRUE] IN
       IF Len(fromTun) < Queue
         THEN fromTun' = Append(fromTun, pkt) /\ held' = held
         ELSE fromTun' = fromTun /\ held' = <<pkt>>
    /\ cut' = (cut \/ Offered(p) > UserMtu + Headroom)
    /\ UNCHANGED <<live, ceiling, mtuVars, tunUp, toTun, outQ, sender, icmps, reader,
                   timeVars, pmtu, budget>>

TunPush ==
    /\ tunUp /\ held # <<>> /\ Len(fromTun) < Queue
    /\ fromTun' = fromTun \o held /\ held' = <<>>
    /\ UNCHANGED <<live, ceiling, mtuVars, tunUp, toTun, outQ, sender, icmps, reader,
                   timeVars, pmtu, cut, budget>>

(* A read or write error of the device ends the task; both queues close.   *)
TunFails ==
    /\ tunUp /\ held = <<>> /\ budget > 0
    /\ tunUp' = FALSE /\ toTun' = <<>> /\ held' = <<>>
    /\ budget' = budget - 1
    /\ UNCHANGED <<live, ceiling, mtuVars, fromTun, outQ, sender, icmps, reader,
                   timeVars, pmtu, cut>>

(* `enqueue_peer`: try_send, so a full queue loses the packet.             *)
EnqueueAnyway(p, pkt) == outQ' = [outQ EXCEPT ![p] = Append(@, pkt)]

Enqueue(p, pkt) ==
    outQ' = IF p \in live /\ Len(outQ[p]) < Queue
              THEN [outQ EXCEPT ![p] = Append(@, pkt)] ELSE outQ

FanOutBlocks ==
    /\ fromTun # <<>> /\ Len(outQ[Head(fromTun).to]) < Queue
    /\ fromTun' = Tail(fromTun)
    /\ Enqueue(Head(fromTun).to, Head(fromTun))
    /\ UNCHANGED <<live, ceiling, mtuVars, tunUp, toTun, held, sender, icmps, reader,
                   timeVars, pmtu, cut, budget>>

FanOut ==
    /\ fromTun # <<>>
    /\ fromTun' = Tail(fromTun)
    /\ Enqueue(Head(fromTun).to, Head(fromTun))
    /\ UNCHANGED <<live, ceiling, mtuVars, tunUp, toTun, held, sender, icmps, reader,
                   timeVars, pmtu, cut, budget>>

(* `TunIo::send`: waits for room; once the task is gone it returns at once.*)
CanSendTun == tunUp => Len(toTun) < Queue
SendTun(x) == toTun' = IF tunUp THEN Append(toTun, x) ELSE toTun

-----------------------------------------------------------------------------
(* `spawn_peer_sender`.  The ceiling is read once, before the cell's lock. *)
(* send_datagram_wait may wait for room in the connection's send buffer    *)
(* while the queue behind it fills; a packet sent or an error ends it.     *)
SenderAt(p, s) == sender' = [sender EXCEPT ![p] = s]

Send(p) ==
    /\ sender[p] = Idle /\ outQ[p] # <<>>
    /\ outQ' = [outQ EXCEPT ![p] = Tail(@)]
    /\ LET pkt == Head(outQ[p]) IN
       IF pkt.len > ceiling[p]
         THEN SenderAt(p, [at |-> "shrink", own |-> pkt.own, next |-> ceiling[p]])
         ELSE sender' = sender \/ SenderAt(p, Waiting)
    /\ UNCHANGED <<live, ceiling, mtuVars, queueVars, icmps, reader, timeVars, pmtu,
                   cut, budget>>

SendEnds(p) ==
    /\ sender[p] = Waiting
    /\ SenderAt(p, Idle)
    /\ UNCHANGED <<live, ceiling, mtuVars, queueVars, outQ, icmps, reader, timeVars,
                   pmtu, cut, budget>>

ShrinkTunMtu(p) ==
    /\ sender[p].at = "shrink"
    /\ LET next == sender[p].next IN
       IF next < cell
         THEN \E ok \in BOOLEAN :
                /\ SetMtu(next, ok)
                /\ SenderAt(p, [sender[p] EXCEPT !.at = IF ok THEN "note" ELSE "icmp"])
         ELSE /\ KeepMtu
              /\ SenderAt(p, [sender[p] EXCEPT !.at = "icmp"])
    /\ UNCHANGED <<live, ceiling, hold, queueVars, outQ, icmps, reader, timeVars, pmtu,
                   cut>>

NoteMtuShrink(p) ==
    /\ sender[p].at = "note"
    /\ hold' = Holdoff
    /\ SenderAt(p, [sender[p] EXCEPT !.at = "icmp"])
    /\ UNCHANGED <<live, ceiling, cell, device, queueVars, outQ, icmps, reader,
                   timeVars, pmtu, cut, budget>>

(* An answer names the refused packet's source.  The local host is the     *)
(* source of its own packets; for a forwarded one the answer is written to *)
(* the local device all the same, where the host has no use for it.        *)
IcmpFor(p) == IF sender[p].own THEN [for |-> p, mtu |-> sender[p].next]
                               ELSE [for |-> "other"]

InjectIcmpOnShrink(p) ==
    /\ sender[p].at = "icmp"
    /\ IF icmps[p] < IcmpRate /\ cell = sender[p].next /\ hold = Holdoff
         THEN /\ CanSendTun
              /\ SendTun(IcmpFor(p))
              /\ icmps' = [icmps EXCEPT ![p] = @ + 1]
         ELSE UNCHANGED <<toTun, icmps>>
    /\ SenderAt(p, Idle)
    /\ UNCHANGED <<live, ceiling, mtuVars, tunUp, held, fromTun, outQ, reader, timeVars,
                   pmtu, cut, budget>>

InjectIcmp(p) ==
    /\ sender[p].at = "icmp"
    /\ IF icmps[p] < IcmpRate
         THEN /\ CanSendTun
              /\ SendTun(IcmpFor(p))
              /\ icmps' = [icmps EXCEPT ![p] = @ + 1]
         ELSE UNCHANGED <<toTun, icmps>>
    /\ SenderAt(p, Idle)
    /\ UNCHANGED <<live, ceiling, mtuVars, tunUp, held, fromTun, outQ, reader, timeVars,
                   pmtu, cut, budget>>

-----------------------------------------------------------------------------
(* The read loop of a session.  Every datagram starts the loop, and with   *)
(* it a new sleep, over; one for this host waits for room in the device's  *)
(* queue, one for another peer is forwarded or lost, the rest is dropped. *)
ReadLocal(p) ==
    /\ p \in live /\ reader[p] = "select" /\ budget > 0
    /\ IF CanSendTun
         THEN SendTun([for |-> "other"]) /\ reader' = reader
         ELSE toTun' = toTun /\ reader' = [reader EXCEPT ![p] = "deliver"]
    /\ slept' = [slept EXCEPT ![p] = 0] /\ budget' = budget - 1
    /\ UNCHANGED <<live, ceiling, mtuVars, tunUp, held, fromTun, outQ, sender, icmps,
                   age, pmtu, cut>>

ReadDropped(p) ==
    /\ p \in live /\ reader[p] = "select" /\ budget > 0
    /\ slept' = [slept EXCEPT ![p] = 0] /\ budget' = budget - 1
    /\ UNCHANGED <<live, ceiling, mtuVars, queueVars, outQ, sender, icmps, reader, age,
                   pmtu, cut>>

ReadForwarded(p, q) ==
    /\ p \in live /\ reader[p] = "select" /\ budget > 0 /\ p # q
    /\ Enqueue(q, [to |-> q, len |-> Lesser(UserMtu, ceiling[p]), own |-> FALSE])
    /\ slept' = [slept EXCEPT ![p] = 0] /\ budget' = budget - 1
    /\ UNCHANGED <<live, ceiling, mtuVars, queueVars, sender, icmps, reader, age, pmtu,
                   cut>>

Deliver(p) ==
    /\ reader[p] = "deliver" /\ CanSendTun
    /\ SendTun([for |-> "other"])
    /\ reader' = [reader EXCEPT ![p] = "select"]
    /\ UNCHANGED <<live, ceiling, mtuVars, tunUp, held, fromTun, outQ, sender, icmps,
                   timeVars, pmtu, cut, budget>>

(* `refresh_tun_mtu`: raises only, and only once the hold-off has passed.  *)
(* `try_refresh_tun_mtu` runs it under the cell's lock throughout.         *)
RaiseMtuByDevice(p) ==
    IF hold = 0 /\ ChooseMtu(p) > device
      THEN \E ok \in BOOLEAN : SetMtu(ChooseMtu(p), ok)
      ELSE KeepMtu

RaiseMtu(p) ==
    IF hold = 0 /\ ChooseMtu(p) > cell
      THEN \E ok \in BOOLEAN : SetMtu(ChooseMtu(p), ok)
      ELSE KeepMtu

Refresh(p) ==
    /\ p \in live /\ reader[p] = "select" /\ slept[p] = Recheck
    /\ RaiseMtu(p)
    /\ slept' = [slept EXCEPT ![p] = 0] /\ age' = [age EXCEPT ![p] = 0]
    /\ UNCHANGED <<live, ceiling, hold, queueVars, outQ, sender, icmps, reader, pmtu,
                   cut>>

-----------------------------------------------------------------------------
(* A second passes: sleeping loops come nearer their check, the hold-off   *)
(* runs down and every sender's ICMP window opens again.                   *)
Sleeping(p) == p \in live /\ reader[p] = "select"

Tick ==
    /\ \A p \in Peer : Sleeping(p) => slept[p] < Recheck
    /\ slept' = [p \in Peer |-> IF Sleeping(p) THEN slept[p] + 1 ELSE slept[p]]
    /\ age' = [p \in Peer |-> IF p \in live THEN Lesser(age[p] + 1, MaxAge) ELSE 0]
    /\ hold' = IF hold = 0 THEN 0 ELSE hold - 1
    /\ icmps' = [p \in Peer |-> 0]
    /\ UNCHANGED <<live, ceiling, cell, device, queueVars, outQ, sender, reader, pmtu,
                   cut, budget>>

(* The environment: QUIC moves a connection to another path, and the       *)
(* kernel forgets a path MTU it has cached.                                *)
PathMoves(p) ==
    /\ budget > 0 /\ budget' = budget - 1
    /\ \E c \in Ceiling \ {ceiling[p]} : ceiling' = [ceiling EXCEPT ![p] = c]
    /\ UNCHANGED <<live, mtuVars, queueVars, outQ, sender, icmps, reader, timeVars,
                   pmtu, cut>>

PmtuExpires(p) ==
    /\ budget > 0 /\ budget' = budget - 1 /\ pmtu[p] # Unlearned
    /\ pmtu' = [pmtu EXCEPT ![p] = Unlearned]
    /\ UNCHANGED <<live, ceiling, mtuVars, queueVars, outQ, sender, icmps, reader,
                   timeVars, cut>>

SenderStep(p) ==
    Send(p) \/ SendEnds(p) \/ ShrinkTunMtu(p) \/ NoteMtuShrink(p) \/ InjectIcmp(p)

PlaneNext ==
    \/ TunWrite \/ TunPush \/ TunFails \/ FanOut \/ Tick
    \/ \E p \in Peer :
         \/ SessionUp(p) \/ SessionDown(p) \/ TunRead(p) \/ SenderStep(p)
         \/ ReadLocal(p) \/ ReadDropped(p) \/ Deliver(p) \/ Refresh(p)
         \/ PathMoves(p) \/ PmtuExpires(p)
         \/ \E q \in Peer : ReadForwarded(p, q)

PlaneSpec == PlaneInit /\ [][PlaneNext]_planeVars

(* Every task that can run does, time passes, and the local host keeps     *)
(* sending to every peer.  A connection takes a waiting datagram in the    *)
(* end or fails: an idle one times out.  Nothing else is promised of the   *)
(* environment.                                                            *)
PlaneFairness ==
    /\ WF_planeVars(TunWrite) /\ WF_planeVars(TunPush) /\ WF_planeVars(FanOut) /\ WF_planeVars(Tick)
    /\ \A p \in Peer :
         /\ SF_planeVars(TunRead(p)) /\ WF_planeVars(SenderStep(p))
         /\ WF_planeVars(Deliver(p)) /\ WF_planeVars(Refresh(p))

PlaneFairSpec == PlaneSpec /\ PlaneFairness

-----------------------------------------------------------------------------
SenderState ==
    {Idle, Waiting} \union [at : {"shrink", "note", "icmp"}, own : BOOLEAN, next : Nat]

(* Every variable has its type and no queue grows past TUN_PKT_QUEUE.      *)
PlaneTypeOK ==
    /\ live \subseteq Peer /\ ceiling \in [Peer -> Ceiling]
    /\ cell \in Nat /\ device \in Nat /\ hold \in 0..Holdoff
    /\ tunUp \in BOOLEAN /\ toTun \in Seq(Answer \union Other) /\ Len(toTun) <= Queue
    /\ held \in Seq(Packet) /\ Len(held) <= 1
    /\ fromTun \in Seq(Packet) /\ Len(fromTun) <= Queue
    /\ outQ \in [Peer -> Seq(Packet)] /\ \A p \in Peer : Len(outQ[p]) <= Queue
    /\ sender \in [Peer -> SenderState] /\ icmps \in [Peer -> 0..IcmpRate]
    /\ reader \in [Peer -> {"select", "deliver"}]
    /\ slept \in [Peer -> 0..Recheck] /\ age \in [Peer -> 0..MaxAge]
    /\ pmtu \in [Peer -> Nat] /\ cut \in BOOLEAN /\ budget \in 0..Budget

(* The device's task waits for the demux, a sender that answers with ICMP  *)
(* and a read loop that delivers wait for the device's task: no such wait  *)
(* closes a circle, and the end of the device's task ends every one.       *)
WritersServed ==
    \A p \in Peer :
        /\ (reader[p] = "deliver") ~> (reader[p] = "select")
        /\ (sender[p] # Idle) ~> (sender[p] = Idle)

(* Once paths stop moving, an IPv4 flow's full-size packets fit its path,  *)
(* although commands that set the MTU may fail, answers are rate limited   *)
(* and another peer's path keeps the interface MTU higher.                 *)
FlowsSettle ==
    \A p \in Flow \ V6 :
        <>[](tunUp /\ p \in live => Offered(p) <= ceiling[p])

(* Once paths stop moving and the peers pause, the recorded MTU climbs     *)
(* back to what the best path of a session carries.                        *)
MtuRecovers ==
    \A p \in Peer : <>[](p \in live => cell >= ChooseMtu(p))

(* "re-check about every 2s" (tun/mod.rs:600, 950): a session never goes   *)
(* longer than twice that without looking at its MTU.                      *)
RecheckedInTime == \A p \in live : age[p] <= 2 * Recheck

(* "--mtu is an upper bound" (tun/mod.rs:476): the interface keeps to it,  *)
(* so that no packet is longer than the buffer it is read into.            *)
MtuBoundKept == ~cut
=============================================================================
