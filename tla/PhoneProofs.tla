---------------------------- MODULE PhoneProofs ----------------------------
(* Proofs about phone mode for every contact book, every set of peers and   *)
(* addresses and every number of concurrent calls.                          *)
EXTENDS Phone, SequenceTheorems, TLAPS

(* The typing the claim depends on. *)
ClaimTypes ==
    /\ pc \in [Call -> Point]
    /\ who \in [Call -> Peer \cup {NoPeer}]
    /\ vip \in [Call -> Pair \cup {NoVip}]
    /\ active \in [Peer -> Pair \cup {NoVip}]

(* A call in use has a peer, and one about to claim has usable addresses. *)
Ready ==
    \A c \in Call :
        /\ pc[c] # "free" => who[c] \in Peer
        /\ pc[c] = "claim" => vip[c] \in Pair /\ vip[c][1] \notin Bad /\ vip[c][2] \notin Bad

(* The inductive strengthening of VipUnique. *)
ClaimInv == ClaimTypes /\ Ready /\ VipUnique

LEMMA InitClaimInv == Init => ClaimInv
  BY DEF Init, ClaimInv, ClaimTypes, Ready, VipUnique, IsActive, Point

(* A step that leaves the active map alone keeps it free of collisions. *)
LEMMA SameMap == VipUnique /\ UNCHANGED active => VipUnique'
  BY DEF VipUnique, IsActive

(* Moving a call that has a peer to any point but the claim. *)
LEMMA MoveKeeps ==
  ASSUME ClaimInv, NEW c, c \in Call => who[c] \in Peer,
         NEW q \in Point \ {"claim"}, pc' = [pc EXCEPT ![c] = q],
         UNCHANGED <<who, vip>>
  PROVE  pc' \in [Call -> Point] /\ Ready'
  <1>1. \A d \in Call : pc'[d] = pc[d] \/ (d = c /\ pc'[d] = q)
    BY DEF ClaimInv, ClaimTypes
  <1>2. pc' \in [Call -> Point]
    BY <1>1 DEF ClaimInv, ClaimTypes
  <1>3. Ready'
    BY <1>1 DEF ClaimInv, Ready
  <1> QED BY <1>2, <1>3

(* Ending calls frees their slots and disturbs no other call. *)
LEMMA ReleaseKeeps ==
  ASSUME ClaimInv, NEW C, Release(C)
  PROVE  /\ pc' \in [Call -> Point]
         /\ who' \in [Call -> Peer \cup {NoPeer}]
         /\ vip' \in [Call -> Pair \cup {NoVip}]
         /\ Ready'
  <1>1. /\ pc' \in [Call -> Point]
        /\ who' \in [Call -> Peer \cup {NoPeer}]
        /\ vip' \in [Call -> Pair \cup {NoVip}]
    BY DEF ClaimInv, ClaimTypes, Release, Point
  <1>2. ASSUME NEW d \in Call, d \notin C
        PROVE  pc'[d] = pc[d] /\ who'[d] = who[d] /\ vip'[d] = vip[d]
    BY <1>2 DEF Release
  <1>3. ASSUME NEW d \in Call, d \in C PROVE pc'[d] = "free"
    BY <1>3 DEF Release
  <1>4. Ready'
    BY <1>2, <1>3 DEF ClaimInv, Ready
  <1> QED BY <1>1, <1>4

(* The loop's handlers and the network. *)
LEMMA LoopKeeps ==
  ASSUME ClaimInv,
         \/ Rang \/ Shutdown
         \/ \E p \in Peer, i \in Call : Accept(p, i) \/ Reject(p, i)
         \/ \E n \in Call : RingTimeout(n)
         \/ \E c \in Call : RemoteCloses(c)
  PROVE  ClaimInv'
  <1> USE DEF ClaimInv, callVars
  <1>1. CASE Rang \/ Shutdown \/ \E c \in Call : RemoteCloses(c)
    <2>1. UNCHANGED <<pc, who, vip, active>>
      BY <1>1 DEF Rang, Shutdown, RemoteCloses
    <2> QED BY <2>1, SameMap DEF ClaimTypes, Ready
  <1>2. ASSUME NEW p \in Peer, NEW i \in Call, Accept(p, i) PROVE ClaimInv'
    <2>1. who[ringing[i]] = p /\ UNCHANGED <<who, vip, active>>
      BY <1>2 DEF Accept, TakeRing
    <2>2. pc' \in [Call -> Point] /\ Ready'
      BY <1>2, <2>1, MoveKeeps DEF Accept, Goto, Point
    <2> QED BY <2>1, <2>2, SameMap DEF ClaimTypes
  <1>3. ASSUME NEW p \in Peer, NEW i \in Call, Reject(p, i) PROVE ClaimInv'
    <2>1. Release({ringing[i]}) /\ UNCHANGED active
      BY <1>3 DEF Reject
    <2> QED BY <2>1, ReleaseKeeps, SameMap DEF ClaimTypes
  <1>4. ASSUME NEW n \in Call, RingTimeout(n) PROVE ClaimInv'
    <2>1. Release(Range(SubSeq(ringing, 1, n))) /\ UNCHANGED active
      BY <1>4 DEF RingTimeout
    <2> QED BY <2>1, ReleaseKeeps, SameMap DEF ClaimTypes
  <1> QED BY <1>1, <1>2, <1>3, <1>4

(* Connections accepted and dialled. *)
LEMMA BeginKeeps ==
  ASSUME ClaimInv, NEW c \in Call, NEW p \in Peer, NEW q \in {"vips", "ring", "dial"},
         Begin(c, p, q)
  PROVE  ClaimInv'
  <1> USE DEF ClaimInv
  <1>1. /\ who' = [who EXCEPT ![c] = p] /\ pc' = [pc EXCEPT ![c] = q]
        /\ UNCHANGED <<vip, active>>
    BY DEF Begin, Goto
  <1>2. ClaimTypes'
    BY <1>1 DEF ClaimTypes, Point
  <1>3. Ready'
    BY <1>1 DEF Ready, ClaimTypes
  <1> QED BY <1>1, <1>2, <1>3, SameMap

(* The claim: the map changes only where neither family collides. *)
LEMMA ClaimKeeps ==
  ASSUME ClaimInv, NEW c \in Call, Claim(c)
  PROVE  ClaimInv'
  <1> USE DEF ClaimInv
  <1>1. who[c] \in Peer /\ vip[c] \in Pair /\ vip[c][1] \notin Bad /\ vip[c][2] \notin Bad
    BY DEF Claim, Ready
  <1>2. UNCHANGED <<who, vip>> /\ \E q \in {"route", "failed"} : pc' = [pc EXCEPT ![c] = q]
    BY DEF Claim, Goto, TaskReconciles
  <1>3. pc' \in [Call -> Point] /\ Ready'
    BY <1>1, <1>2, MoveKeeps DEF Point
  <1>4. CASE Taken(c)
    <2>1. UNCHANGED active
      BY <1>4 DEF Claim
    <2> QED BY <2>1, <1>2, <1>3, SameMap DEF ClaimTypes
  <1>5. CASE ~Taken(c)
    <2>1. active' = [active EXCEPT ![who[c]] = vip[c]]
      BY <1>5 DEF Claim
    <2>2. active' \in [Peer -> Pair \cup {NoVip}]
      BY <2>1, <1>1 DEF ClaimTypes
    <2>3. \A p \in Peer : IsActive(p) => active[p][1] # vip[c][1] /\ active[p][2] # vip[c][2]
      BY <1>5 DEF Taken
    <2>4. /\ active'[who[c]] = vip[c]
          /\ \A p \in Peer \ {who[c]} : active'[p] = active[p]
      BY <2>1, <1>1 DEF ClaimTypes
    <2>5. VipUnique'
      BY <1>1, <2>3, <2>4 DEF VipUnique, IsActive
    <2> QED BY <1>2, <1>3, <2>2, <2>5 DEF ClaimTypes
  <1> QED BY <1>4, <1>5

(* Every other step of a call's task. *)
LEMMA TaskKeeps ==
  ASSUME ClaimInv, NEW c \in Call, PhoneRunPeer(c)
  PROVE  ClaimInv'
  <1> USE DEF ClaimInv
  <1>1. CASE DialConnects(c) \/ CallFails(c) \/ AddPeerRoute(c) \/ Connected(c)
    <2>1. who[c] \in Peer
      BY <1>1 DEF DialConnects, CallFails, AddPeerRoute, Connected, Ready
    <2>2. UNCHANGED <<who, vip, active>>
      BY <1>1 DEF DialConnects, CallFails, AddPeerRoute, Connected
    <2>3. \E q \in {"vips", "failed", "connected", "up"} : pc' = [pc EXCEPT ![c] = q]
      BY <1>1 DEF DialConnects, CallFails, AddPeerRoute, Connected, Goto, TaskReconciles
    <2>4. pc' \in [Call -> Point] /\ Ready'
      BY <2>1, <2>2, <2>3, MoveKeeps DEF Point
    <2> QED BY <2>2, <2>4, SameMap DEF ClaimTypes
  <1>2. CASE ExchangeVips(c)
    <2>1. who[c] \in Peer
      BY <1>2 DEF ExchangeVips, Ready
    <2>2. PICK pair \in Announce[who[c]] :
             /\ vip' = [vip EXCEPT ![c] = pair]
             /\ pc' = [pc EXCEPT ![c] = IF pair[1] \in Bad \/ pair[2] \in Bad
                                        THEN "failed" ELSE "claim"]
      BY <1>2 DEF ExchangeVips, TaskReconciles, Goto
    <2>3. pair \in Pair
      BY <2>1, PhoneConstants DEF Pair
    <2>4. UNCHANGED <<who, active>>
      BY <1>2 DEF ExchangeVips
    <2>5. /\ pc' \in [Call -> Point] /\ vip' \in [Call -> Pair \cup {NoVip}]
          /\ vip'[c] = pair
          /\ pc'[c] = "claim" => pair[1] \notin Bad /\ pair[2] \notin Bad
          /\ \A d \in Call \ {c} : pc'[d] = pc[d] /\ vip'[d] = vip[d]
      BY <2>2, <2>3 DEF ClaimTypes, Point
    <2>6. Ready'
      BY <2>1, <2>3, <2>4, <2>5 DEF Ready
    <2> QED BY <2>4, <2>5, <2>6, SameMap DEF ClaimTypes
  <1>3. CASE AddPeerRouteFails(c) \/ Disconnected(c)
    <2>1. who[c] \in Peer /\ UNCHANGED <<who, vip>>
      BY <1>3 DEF AddPeerRouteFails, Disconnected, Ready
    <2>2. \E q \in {"failed", "left"} : pc' = [pc EXCEPT ![c] = q]
      BY <1>3 DEF AddPeerRouteFails, Disconnected, Goto, TaskReconciles
    <2>3. pc' \in [Call -> Point] /\ Ready'
      BY <2>1, <2>2, MoveKeeps DEF Point
    <2>4. active' = [active EXCEPT ![who[c]] = NoVip]
      BY <1>3 DEF AddPeerRouteFails, Disconnected, ForgetPeer
    <2>5. active' \in [Peer -> Pair \cup {NoVip}]
      BY <2>1, <2>4 DEF ClaimTypes
    <2>6. \A p \in Peer : active'[p] = NoVip \/ active'[p] = active[p]
      BY <2>4 DEF ClaimTypes
    <2>7. VipUnique'
      BY <2>6 DEF VipUnique, IsActive
    <2> QED BY <2>1, <2>3, <2>5, <2>7 DEF ClaimTypes
  <1>4. CASE DelPeerRoute(c)
    <2>1. Release({c}) /\ UNCHANGED active
      BY <1>4 DEF DelPeerRoute
    <2> QED BY <2>1, ReleaseKeeps, SameMap DEF ClaimTypes
  <1> QED BY <1>1, <1>2, <1>3, <1>4, ClaimKeeps DEF PhoneRunPeer

(* phone_reconcile_phase_after_ring *)
LEMMA ReconcileKeeps ==
  ASSUME ClaimInv, NEW t \in Task, Reconcile(t)
  PROVE  ClaimInv'
  <1> USE DEF ClaimInv, callVars
  <1>1. CASE ReconcilePeers(t) \/ ReconcileRinging(t)
    <2>1. UNCHANGED <<pc, who, vip, active>>
      BY <1>1 DEF ReconcilePeers, ReconcileRinging
    <2> QED BY <2>1, SameMap DEF ClaimTypes, Ready
  <1>2. CASE ReconcileApply(t)
    <2>1. UNCHANGED active
      BY <1>2 DEF ReconcileApply
    <2>2. CASE t = Loop /\ UNCHANGED callVars
      BY <2>1, <2>2, SameMap DEF ClaimTypes, Ready
    <2>3. CASE t # Loop /\ Release({t})
      BY <2>1, <2>3, ReleaseKeeps, SameMap DEF ClaimTypes
    <2>4. CASE t # Loop /\ pc[t] = "left" /\ Goto(t, "unroute") /\ UNCHANGED <<who, vip>>
      <3>1. t \in Call
        BY <2>4 DEF Task
      <3>2. who[t] \in Peer
        BY <3>1, <2>4 DEF Ready
      <3>3. pc' \in [Call -> Point] /\ Ready'
        BY <2>4, <3>2, MoveKeeps DEF Goto, Point
      <3> QED BY <2>1, <2>4, <3>3, SameMap DEF ClaimTypes
    <2> QED BY <1>2, <2>2, <2>3, <2>4 DEF ReconcileApply
  <1> QED BY <1>1, <1>2 DEF Reconcile

LEMMA StepClaimInv == ClaimInv /\ [Next]_vars => ClaimInv'
  <1> SUFFICES ASSUME ClaimInv, [Next]_vars PROVE ClaimInv'
    OBVIOUS
  <1>1. CASE UNCHANGED vars
    <2>1. UNCHANGED <<pc, who, vip, active>>
      BY <1>1 DEF vars, callVars
    <2> QED BY <2>1, SameMap DEF ClaimInv, ClaimTypes, Ready
  <1>2. ASSUME NEW c \in Call, NEW p \in Peer,
               IncomingContact(c, p) \/ IncomingStranger(c, p) \/ Dial(c, p)
        PROVE  ClaimInv'
    BY <1>2, BeginKeeps DEF IncomingContact, IncomingStranger, Dial
  <1> QED BY <1>1, <1>2, LoopKeeps, TaskKeeps, ReconcileKeeps DEF Next

(* The claim's rcu, for every interleaving of calls: two active peers never *)
(* share a virtual address and none holds an unusable one.                  *)
THEOREM ActiveVipsUnique == Spec => []VipUnique
  <1>1. Spec => []ClaimInv
    BY InitClaimInv, StepClaimInv, PTL DEF Spec
  <1>2. ClaimInv => VipUnique
    BY DEF ClaimInv
  <1> QED BY <1>1, <1>2, PTL

-----------------------------------------------------------------------------
(* The active map and its leases                                            *)

LEMMA PairIsNoBlank == \A pair \in Pair : pair # NoVip
  <1>1. ASSUME NEW pair \in Pair PROVE Len(pair) = 2
    BY DEF Pair
  <1>2. Len(NoVip) = 0
    BY DEF NoVip
  <1> QED BY <1>1, <1>2

LEMMA LeaseFrame == UNCHANGED active => Leased(1)' = Leased(1) /\ Leased(2)' = Leased(2)
  BY DEF Leased, IsActive

(* Only a claim and a removal change the map.                               *)
LEMMA ActiveFrame ==
  ASSUME [Next]_vars,
         \A c \in Call : ~Claim(c) /\ ~AddPeerRouteFails(c) /\ ~Disconnected(c)
  PROVE  UNCHANGED active
  <1>1. CASE UNCHANGED vars
    BY <1>1 DEF vars
  <1>2. CASE \/ Rang \/ Shutdown
             \/ \E p \in Peer, i \in Call : Accept(p, i) \/ Reject(p, i)
             \/ \E n \in Call : RingTimeout(n)
             \/ \E c \in Call : RemoteCloses(c)
    BY <1>2 DEF Rang, Shutdown, Accept, Reject, RingTimeout, RemoteCloses
  <1>3. CASE \E c \in Call, p \in Peer :
                IncomingContact(c, p) \/ IncomingStranger(c, p) \/ Dial(c, p)
    BY <1>3 DEF IncomingContact, IncomingStranger, Dial, Begin
  <1>4. CASE \E c \in Call : PhoneRunPeer(c)
    BY <1>4 DEF PhoneRunPeer, DialConnects, CallFails, ExchangeVips, AddPeerRoute, Connected,
       DelPeerRoute
  <1>5. CASE \E t \in Task : Reconcile(t)
    BY <1>5 DEF Reconcile, ReconcilePeers, ReconcileRinging, ReconcileApply
  <1> QED BY <1>1, <1>2, <1>3, <1>4, <1>5 DEF Next

(* A claim that goes through takes a lease on both addresses.               *)
LEMMA ClaimLeases ==
  ASSUME ClaimInv, NEW c \in Call, Claim(c)
  PROVE  Leases!Next \/ UNCHANGED Leases!vars
  <1> USE DEF ClaimInv
  <1>1. /\ who[c] \in Peer /\ vip[c] \in Pair
        /\ vip[c][1] \in Vip4 \ Bad /\ vip[c][2] \in Vip6 \ Bad
    BY DEF Claim, Ready, Pair
  <1>2. CASE Taken(c)
    <2>1. UNCHANGED active
      BY <1>2 DEF Claim
    <2> QED BY <2>1, LeaseFrame DEF Leases!vars
  <1>3. CASE ~Taken(c)
    <2>1. active' = [active EXCEPT ![who[c]] = vip[c]] /\ active[who[c]] = NoVip
      BY <1>3 DEF Claim, Taken, IsActive
    <2>2. /\ active'[who[c]] = vip[c] /\ vip[c] # NoVip
          /\ \A p \in Peer \ {who[c]} : active'[p] = active[p]
      BY <1>1, <2>1, PairIsNoBlank DEF ClaimTypes
    <2>3. Leased(1)' = Leased(1) \cup {<<vip[c][1], who[c]>>}
      BY <1>1, <2>1, <2>2 DEF Leased, IsActive
    <2>4. Leased(2)' = Leased(2) \cup {<<vip[c][2], who[c]>>}
      BY <1>1, <2>1, <2>2 DEF Leased, IsActive
    <2>5. /\ Leases!FreeFor(who[c], vip[c][1], Leased(1))
          /\ Leases!FreeFor(who[c], vip[c][2], Leased(2))
      BY <1>3 DEF Leases!FreeFor, Leased, Taken
    <2>6. Leases!Claim(who[c], vip[c][1], vip[c][2])
      BY <2>3, <2>4, <2>5 DEF Leases!Claim
    <2> QED BY <1>1, <2>6 DEF Leases!Next
  <1> QED BY <1>2, <1>3

(* An entry that goes gives up its own peer's leases, whichever call it was *)
(* that went by the EndpointId.                                             *)
LEMMA ForgetReleases ==
  ASSUME ClaimInv, NEW c \in Call, ForgetPeer(c), who[c] \in Peer
  PROVE  Leases!Next
  <1>1. \A p \in Peer : active'[p] = IF p = who[c] THEN NoVip ELSE active[p]
    BY DEF ForgetPeer, ClaimInv, ClaimTypes
  <1>2. ASSUME NEW f \in {1, 2} PROVE Leases!GivesUp(who[c], Leased(f), Leased(f)')
    <2>1. Leased(f)' \subseteq Leased(f)
      BY <1>1 DEF Leased, IsActive
    <2>2. ASSUME NEW l \in Leased(f), l \notin Leased(f)' PROVE l = <<l[1], who[c]>>
      <3>1. PICK p \in Peer : IsActive(p) /\ l = <<active[p][f], p>>
        BY <2>2 DEF Leased
      <3>2. p = who[c]
        BY <1>1, <2>2, <3>1 DEF Leased, IsActive
      <3> QED BY <3>1, <3>2
    <2> QED BY <2>1, <2>2 DEF Leases!GivesUp
  <1> QED BY <1>2 DEF Leases!Next, Leases!Release

LEMMA InitLeases == Init => Leases!Init
  BY DEF Init, Leases!Init, Leased, IsActive

LEMMA StepLeases == ClaimInv /\ [Next]_vars => [Leases!Next]_(Leases!vars)
  <1> SUFFICES ASSUME ClaimInv, [Next]_vars
               PROVE  Leases!Next \/ UNCHANGED Leases!vars
    OBVIOUS
  <1>1. ASSUME NEW c \in Call, AddPeerRouteFails(c) \/ Disconnected(c) PROVE Leases!Next
    <2>1. ForgetPeer(c) /\ who[c] \in Peer
      BY <1>1 DEF AddPeerRouteFails, Disconnected, ClaimInv, Ready
    <2> QED BY <2>1, ForgetReleases
  <1>2. CASE \A c \in Call : ~Claim(c) /\ ~AddPeerRouteFails(c) /\ ~Disconnected(c)
    <2>1. UNCHANGED active
      BY <1>2, ActiveFrame
    <2> QED BY <2>1, LeaseFrame DEF Leases!vars
  <1> QED BY <1>1, <1>2, ClaimLeases

(* The claim's rcu and the removals implement AddressLeases, for every      *)
(* interleaving of calls, route failures and stale calls of the same peer.  *)
THEOREM ActiveMapKeepsLeases == Spec => ActiveLeases
  <1>1. Spec => []ClaimInv
    BY InitClaimInv, StepClaimInv, PTL DEF Spec
  <1> QED BY InitLeases, StepLeases, <1>1, PTL DEF Spec, ActiveLeases, Leases!Spec

(* What the leases are for, and for whoever keeps them: an address has one  *)
(* holder, so a packet sent to it has one recipient.                        *)
THEOREM LeasesAreExclusive == Spec => []Leases!Exclusive
  <1>1. Leases!Init => Leases!Exclusive
    BY DEF Leases!Init, Leases!Exclusive
  <1>2. Leases!Exclusive /\ [Leases!Next]_(Leases!vars) => Leases!Exclusive'
    <2> SUFFICES ASSUME Leases!Exclusive, [Leases!Next]_(Leases!vars) PROVE Leases!Exclusive'
      OBVIOUS
    <2> DEFINE One(S) == \A l, k \in S : l[1] = k[1] => l[2] = k[2]
    <2>1. One(Leased(1)) /\ One(Leased(2))
      BY DEF Leases!Exclusive
    <2>2. ASSUME NEW p \in Peer, NEW v, NEW S, One(S), \A l \in S : l = <<l[1], l[2]>> /\ l[2] \in Peer,
                 Leases!FreeFor(p, v, S)
          PROVE  One(S \cup {<<v, p>>})
      BY <2>2 DEF Leases!FreeFor
    <2>3. \A f \in {1, 2} : \A l \in Leased(f) : l = <<l[1], l[2]>> /\ l[2] \in Peer
      BY DEF Leased
    <2>4. ASSUME NEW p \in Peer, NEW v, NEW w, Leases!Claim(p, v, w)
          PROVE  One(Leased(1)') /\ One(Leased(2)')
      <3>1. One(Leased(1) \cup {<<v, p>>}) /\ One(Leased(2) \cup {<<w, p>>})
        BY <2>1, <2>2, <2>3, <2>4 DEF Leases!Claim
      <3> QED BY <2>4, <3>1 DEF Leases!Claim
    <2>5. ASSUME NEW p \in Peer, Leases!Release(p)
          PROVE  One(Leased(1)') /\ One(Leased(2)')
      BY <2>1, <2>5 DEF Leases!Release, Leases!GivesUp
    <2>6. CASE UNCHANGED Leases!vars
      BY <2>1, <2>6 DEF Leases!vars, Leases!Exclusive
    <2> QED BY <2>4, <2>5, <2>6 DEF Leases!Next, Leases!Exclusive
  <1> QED BY <1>1, <1>2, ActiveMapKeepsLeases, PTL DEF ActiveLeases, Leases!Spec

-----------------------------------------------------------------------------
(* The ringing list                                                         *)

LEMMA PhaseTyped ==
  ASSUME NEW ph \in PhaseName, NEW ev PROVE ApplyPhase(ph, ev) \in PhaseName
  <1>1. \A e \in Edge : e[3] \in PhaseName
    BY DEF Edge, PhaseName
  <1> QED BY <1>1 DEF ApplyPhase

(* A list of numbers read through a table is a sequence of table entries. *)
LEMMA SeqOfMap ==
  ASSUME NEW S, NEW n \in Nat, NEW g \in [1..n -> S] PROVE g \in Seq(S)
  OBVIOUS

Distinct(q) == \A i, j \in DOMAIN q : q[i] = q[j] => i = j

LEMMA AppendFacts ==
  ASSUME NEW q \in Seq(Call), NEW c \in Call, Distinct(q), \A i \in DOMAIN q : q[i] # c
  PROVE  /\ Append(q, c) \in Seq(Call) /\ Distinct(Append(q, c))
         /\ \A d : (\E i \in DOMAIN Append(q, c) : Append(q, c)[i] = d)
                     <=> (d = c \/ \E i \in DOMAIN q : q[i] = d)
  <1>1. /\ Append(q, c) \in Seq(Call) /\ DOMAIN q = 1..Len(q) /\ Len(q) \in Nat
        /\ DOMAIN Append(q, c) = 1..(Len(q) + 1)
        /\ \A i \in 1..Len(q) : Append(q, c)[i] = q[i]
        /\ Append(q, c)[Len(q) + 1] = c
    OBVIOUS
  <1>2. Distinct(Append(q, c))
    BY <1>1 DEF Distinct
  <1> QED BY <1>1, <1>2

(* The part of a list between two of its positions, either end included. *)
LEMMA SubSeqFacts ==
  ASSUME NEW q \in Seq(Call), NEW m \in 1..(Len(q) + 1), NEW n \in 0..Len(q), m <= n + 1
  PROVE  /\ SubSeq(q, m, n) \in Seq(Call) /\ Len(SubSeq(q, m, n)) = n - m + 1
         /\ DOMAIN SubSeq(q, m, n) = 1..(n - m + 1)
         /\ \A j \in 1..(n - m + 1) : SubSeq(q, m, n)[j] = q[m + j - 1]
  <1>1. m \in Int /\ n \in Int /\ Len(q) \in Nat /\ \A i \in m..n : q[i] \in Call
    OBVIOUS
  <1>2. /\ SubSeq(q, m, n) \in Seq(Call)
        /\ Len(SubSeq(q, m, n)) = IF m <= n THEN n - m + 1 ELSE 0
        /\ \A i \in 1..(n - m + 1) : SubSeq(q, m, n)[i] = q[m + i - 1]
    BY <1>1, SubSeqProperties
  <1>3. Len(SubSeq(q, m, n)) = n - m + 1
    BY <1>1, <1>2
  <1> QED BY <1>2, <1>3

(* Taking one call out leaves the others, in their order. *)
LEMMA RemoveFacts ==
  ASSUME NEW q \in Seq(Call), NEW i \in DOMAIN q, Distinct(q)
  PROVE  /\ RemoveAt(q, i) \in Seq(Call) /\ Distinct(RemoveAt(q, i))
         /\ \A d : (\E j \in DOMAIN RemoveAt(q, i) : RemoveAt(q, i)[j] = d)
                     <=> (d # q[i] /\ \E j \in DOMAIN q : q[j] = d)
  <1> DEFINE r == RemoveAt(q, i)  a == SubSeq(q, 1, i - 1)  b == SubSeq(q, i + 1, Len(q))
  <1>1. DOMAIN q = 1..Len(q) /\ Len(q) \in Nat /\ \A j \in 1..Len(q) : q[j] \in Call
    OBVIOUS
  <1>2. /\ a \in Seq(Call) /\ Len(a) = i - 1
        /\ \A j \in 1..(i - 1) : a[j] = q[j]
    BY <1>1, SubSeqFacts
  <1>3. /\ b \in Seq(Call) /\ Len(b) = Len(q) - i
        /\ \A j \in 1..(Len(q) - i) : b[j] = q[i + j]
    BY <1>1, SubSeqFacts
  <1>4. /\ r \in Seq(Call) /\ DOMAIN r = 1..(Len(q) - 1)
        /\ \A j \in 1..(Len(q) - 1) : r[j] = IF j < i THEN q[j] ELSE q[j + 1]
    <2>1. r = a \o b
      BY DEF RemoveAt
    <2> HIDE DEF r, a, b
    <2>2. /\ r \in Seq(Call) /\ Len(r) = Len(a) + Len(b)
          /\ \A j \in 1..(Len(a) + Len(b)) : r[j] = IF j <= Len(a) THEN a[j] ELSE b[j - Len(a)]
      BY <1>2, <1>3, <2>1, ConcatProperties
    <2>3. Len(r) = Len(q) - 1 /\ DOMAIN r = 1..(Len(q) - 1)
      BY <1>1, <1>2, <1>3, <2>2
    <2>4. ASSUME NEW j \in 1..(Len(q) - 1)
          PROVE  r[j] = IF j < i THEN q[j] ELSE q[j + 1]
      <3>1. r[j] = IF j <= i - 1 THEN a[j] ELSE b[j - (i - 1)]
        BY <1>1, <1>2, <1>3, <2>2
      <3>2. CASE j < i
        BY <1>1, <1>2, <3>1, <3>2
      <3>3. CASE ~(j < i)
        <4>1. j - (i - 1) \in 1..(Len(q) - i) /\ i + (j - (i - 1)) = j + 1
          BY <1>1, <3>3
        <4>2. ~(j <= i - 1)
          BY <1>1, <3>3
        <4> QED BY <1>3, <3>1, <3>3, <4>1, <4>2
      <3> QED BY <3>2, <3>3
    <2> QED BY <2>2, <2>3, <2>4
  <1> HIDE DEF r, a, b
  <1>5. Distinct(r)
    BY <1>1, <1>4 DEF Distinct
  <1>6. ASSUME NEW d, NEW j \in DOMAIN r, r[j] = d
        PROVE  d # q[i] /\ \E k \in DOMAIN q : q[k] = d
    BY <1>1, <1>4, <1>6 DEF Distinct
  <1>7. ASSUME NEW d, NEW k \in DOMAIN q, q[k] = d, d # q[i]
        PROVE  \E j \in DOMAIN r : r[j] = d
    <2>1. CASE k < i
      <3>1. k \in DOMAIN r /\ r[k] = d
        BY <1>1, <1>4, <1>7, <2>1
      <3> QED BY <3>1
    <2>2. CASE k > i
      <3>1. k - 1 \in DOMAIN r /\ r[k - 1] = d
        BY <1>1, <1>4, <1>7, <2>2
      <3> QED BY <3>1
    <2> QED BY <1>1, <1>7, <2>1, <2>2
  <1> QED BY <1>4, <1>5, <1>6, <1>7 DEF r

(* Dropping the n oldest calls. *)
LEMMA ExpireFacts ==
  ASSUME NEW q \in Seq(Call), NEW n \in 1..Len(q), Distinct(q)
  PROVE  /\ SubSeq(q, n + 1, Len(q)) \in Seq(Call) /\ Distinct(SubSeq(q, n + 1, Len(q)))
         /\ \A d : (\E j \in DOMAIN SubSeq(q, n + 1, Len(q)) : SubSeq(q, n + 1, Len(q))[j] = d)
                     <=> (d \notin Range(SubSeq(q, 1, n)) /\ \E j \in DOMAIN q : q[j] = d)
  <1> DEFINE a == SubSeq(q, 1, n)  b == SubSeq(q, n + 1, Len(q))
  <1>1. DOMAIN q = 1..Len(q) /\ Len(q) \in Nat /\ \A j \in 1..Len(q) : q[j] \in Call
    OBVIOUS
  <1>2. /\ a \in Seq(Call) /\ DOMAIN a = 1..n
        /\ \A j \in 1..n : a[j] = q[j]
    BY <1>1, SubSeqFacts
  <1>3. /\ b \in Seq(Call) /\ DOMAIN b = 1..(Len(q) - n)
        /\ \A j \in 1..(Len(q) - n) : b[j] = q[n + j]
    BY <1>1, SubSeqFacts
  <1>4. \A d : d \in Range(a) <=> \E j \in 1..n : q[j] = d
    BY <1>2 DEF Range
  <1> HIDE DEF a, b
  <1>8. \A j \in DOMAIN b : n + j \in DOMAIN q /\ b[j] = q[n + j]
    BY <1>1, <1>3
  <1>5. Distinct(b)
    <2> SUFFICES ASSUME NEW j \in DOMAIN b, NEW k \in DOMAIN b, b[j] = b[k] PROVE j = k
      BY DEF Distinct
    <2>1. n + j = n + k
      BY <1>8 DEF Distinct
    <2> QED BY <1>1, <1>3, <2>1
  <1>6. ASSUME NEW d, NEW j \in DOMAIN b, b[j] = d
        PROVE  d \notin Range(a) /\ \E k \in DOMAIN q : q[k] = d
    <2>1. n + j \in DOMAIN q /\ q[n + j] = d
      BY <1>6, <1>8
    <2>2. ASSUME NEW k \in 1..n, q[k] = d PROVE FALSE
      <3>1. k \in DOMAIN q
        BY <1>1, <2>2
      <3>2. k = n + j
        BY <2>1, <2>2, <3>1 DEF Distinct
      <3> QED BY <1>1, <1>3, <1>6, <3>2
    <2> QED BY <1>4, <2>1, <2>2
  <1>7. ASSUME NEW d, NEW k \in DOMAIN q, q[k] = d, d \notin Range(a)
        PROVE  \E j \in DOMAIN b : b[j] = d
    <2>1. k > n
      BY <1>1, <1>4, <1>7
    <2>2. k - n \in DOMAIN b /\ b[k - n] = d
      BY <1>1, <1>3, <1>7, <2>1
    <2> QED BY <2>2
  <1> QED BY <1>3, <1>5, <1>6, <1>7 DEF a, b

(* The list holds the calls that ring, each once. *)
RingListed ==
    /\ Distinct(ringing)
    /\ \A c \in Call : pc[c] = "ring" <=> \E i \in DOMAIN ringing : ringing[i] = c

(* The published list lags behind only inside the handler of a new ring. *)
Published == loop # "rang" => pending = [i \in DOMAIN ringing |-> who[ringing[i]]]

(* The loop reconciles inside a handler, never while another event is open. *)
LoopOwns == rec[Loop] # "off" => loop = "reconcile"

Routed == {"connected", "up", "left", "unroute"}
Addressed == \A c \in Call : pc[c] \in {"claim", "route"} \cup Routed => vip[c] \in Pair

CallInv == ClaimInv /\ TypeOK /\ Addressed /\ RingListed /\ Published /\ LoopOwns

LEMMA LoopFacts == Loop \in Task /\ Loop \notin Call /\ \A c \in Call : c \in Task
  BY PhoneConstants DEF Loop, Task, Call

LEMMA InitCallInv == Init => CallInv
  <1> SUFFICES ASSUME Init PROVE CallInv
    OBVIOUS
  <1>1. ClaimInv
    BY InitClaimInv
  <1>2. phase \in PhaseName
    BY PhaseTyped DEF Init, PhaseName
  <1>3. TypeOK
    BY <1>2 DEF Init, TypeOK, Point
  <1>4. Addressed /\ LoopOwns
    BY LoopFacts DEF Init, Addressed, LoopOwns, Routed
  <1>5. RingListed
    BY DEF Init, RingListed, Distinct
  <1>6. Published
    BY DEF Init, Published
  <1> QED BY <1>1, <1>3, <1>4, <1>5, <1>6 DEF CallInv

(* A step that leaves both lists alone and neither starts nor ends a ring. *)
LEMMA ListFrame ==
  ASSUME CallInv, UNCHANGED <<ringing, pending>>, loop' # "rang" => loop # "rang",
         \A c \in Call : pc'[c] = "ring" <=> pc[c] = "ring",
         \A c \in Call : pc[c] = "ring" => who'[c] = who[c]
  PROVE  RingListed' /\ Published'
  <1> USE DEF CallInv
  <1>1. RingListed'
    BY DEF RingListed
  <1>2. \A i \in DOMAIN ringing : who'[ringing[i]] = who[ringing[i]]
    BY DEF RingListed, TypeOK
  <1> QED BY <1>1, <1>2 DEF Published

(* A step that takes calls off the list and publishes the rest. *)
LEMMA ListKeeps ==
  ASSUME CallInv, ringing' \in Seq(Call), Distinct(ringing'), PublishPending,
         \A c \in Call : pc'[c] = "ring" <=> \E i \in DOMAIN ringing' : ringing'[i] = c,
         \A c \in Call : pc'[c] = "ring" => pc[c] = "ring" /\ who'[c] = who[c]
  PROVE  RingListed' /\ Published' /\ pending' \in Seq(Peer)
  <1> USE DEF CallInv
  <1>1. RingListed'
    BY DEF RingListed
  <1>2. ASSUME NEW i \in DOMAIN ringing'
        PROVE  who'[ringing'[i]] = who[ringing'[i]] /\ who[ringing'[i]] \in Peer
    <2>1. ringing'[i] \in Call
      OBVIOUS
    <2>2. pc'[ringing'[i]] = "ring"
      BY <2>1
    <2> QED BY <2>1, <2>2 DEF ClaimInv, Ready
  <1>3. Published'
    BY <1>2 DEF Published, PublishPending
  <1>4. pending' \in [1..Len(ringing') -> Peer] /\ Len(ringing') \in Nat
    BY <1>2 DEF PublishPending
  <1> QED BY <1>1, <1>3, <1>4, SeqOfMap

(* The loop's handlers. *)
LEMMA HandlerKeeps ==
  ASSUME CallInv, ClaimInv',
         \/ Rang \/ Shutdown
         \/ \E p \in Peer, i \in Call : Accept(p, i) \/ Reject(p, i)
         \/ \E n \in Call : RingTimeout(n)
  PROVE  CallInv'
  <1> USE DEF CallInv, callVars, listVars, routeVars
  <1>0. loop \in {"select", "rang"} => rec[Loop] = "off"
    BY DEF LoopOwns
  <1>7. ringing \in Seq(Call) /\ Distinct(ringing)
    BY DEF RingListed, TypeOK
  <1>1. CASE Rang
    <2>1. RingListed' /\ Published' /\ pending' \in Seq(Peer)
      BY <1>1, ListKeeps DEF Rang, RingListed, TypeOK
    <2>2. phase' \in PhaseName
      BY <1>1, PhaseTyped DEF Rang, TypeOK
    <2>3. TypeOK'
      BY <1>1, <2>1, <2>2 DEF Rang, TypeOK
    <2> QED BY <1>0, <1>1, <2>1, <2>3 DEF Rang, Addressed, LoopOwns
  <1>2. CASE Shutdown
    <2>1. RingListed' /\ Published'
      BY <1>2, ListFrame DEF Shutdown
    <2>2. phase' \in PhaseName
      BY <1>2, PhaseTyped DEF Shutdown, TypeOK
    <2>3. TypeOK'
      BY <1>2, <2>2 DEF Shutdown, TypeOK
    <2> QED BY <1>0, <1>2, <2>1, <2>3 DEF Shutdown, Addressed, LoopOwns
  <1>3. ASSUME NEW p \in Peer, NEW i \in Call, Accept(p, i) PROVE CallInv'
    <2> DEFINE c == ringing[i]
    <2>1. /\ i \in DOMAIN ringing /\ c \in Call /\ loop = "select"
          /\ ringing' = RemoveAt(ringing, i) /\ PublishPending
          /\ pc' = [pc EXCEPT ![c] = "vips"]
          /\ UNCHANGED <<who, vip, alive, active, loop, rec, phase, route4, route6>>
      BY <1>3 DEF Accept, TakeRing, Goto, TypeOK
    <2>2. /\ ringing' \in Seq(Call) /\ Distinct(ringing')
          /\ \A d : (\E j \in DOMAIN ringing' : ringing'[j] = d)
                      <=> (d # c /\ \E j \in DOMAIN ringing : ringing[j] = d)
      <3>1. /\ RemoveAt(ringing, i) \in Seq(Call) /\ Distinct(RemoveAt(ringing, i))
            /\ \A d : (\E j \in DOMAIN RemoveAt(ringing, i) : RemoveAt(ringing, i)[j] = d)
                        <=> (d # c /\ \E j \in DOMAIN ringing : ringing[j] = d)
        BY <1>7, <2>1, RemoveFacts, Zenon
      <3> QED BY <2>1, <3>1, Zenon
    <2>3. \A d \in Call : pc'[d] = IF d = c THEN "vips" ELSE pc[d]
      BY <2>1 DEF TypeOK
    <2>4. RingListed' /\ Published' /\ pending' \in Seq(Peer)
      <3>1. \A d \in Call : pc'[d] = "ring" <=> \E j \in DOMAIN ringing' : ringing'[j] = d
        BY <2>2, <2>3 DEF RingListed
      <3> QED BY <2>1, <2>2, <2>3, <3>1, ListKeeps
    <2>5. TypeOK'
      BY <2>1, <2>2, <2>4 DEF TypeOK, ClaimInv, ClaimTypes
    <2>6. Addressed'
      BY <2>1, <2>3 DEF Addressed, Routed
    <2> QED BY <2>1, <2>4, <2>5, <2>6 DEF LoopOwns
  <1>4. ASSUME NEW C \in SUBSET Call, Release(C), ringing' \in Seq(Call), Distinct(ringing'),
               PublishPending,
               \A d : (\E j \in DOMAIN ringing' : ringing'[j] = d)
                         <=> (d \notin C /\ \E j \in DOMAIN ringing : ringing[j] = d),
               LoopReconciles, UNCHANGED <<active, phase, route4, route6>>
        PROVE  CallInv'
    <2>1. \A d \in Call : /\ d \in C => pc'[d] = "free"
                          /\ d \notin C => pc'[d] = pc[d] /\ who'[d] = who[d] /\ vip'[d] = vip[d]
      BY <1>4 DEF Release
    <2>2. RingListed' /\ Published' /\ pending' \in Seq(Peer)
      <3>1. \A d \in Call : pc'[d] = "ring" <=> \E j \in DOMAIN ringing' : ringing'[j] = d
        BY <1>4, <2>1 DEF RingListed
      <3>2. \A d \in Call : pc'[d] = "ring" => pc[d] = "ring" /\ who'[d] = who[d]
        BY <2>1
      <3> QED BY <1>4, <3>1, <3>2, ListKeeps
    <2>3. /\ loop' = "reconcile" /\ alive' \subseteq Call
          /\ rec' \in [Task -> {"off", "peers", "ringing"} \cup PhaseEvent]
      BY <1>4 DEF LoopReconciles, TypeOK, Release
    <2>4. TypeOK'
      BY <1>4, <2>2, <2>3 DEF TypeOK, ClaimInv, ClaimTypes
    <2>5. Addressed'
      BY <2>1 DEF Addressed, Routed
    <2> QED BY <2>2, <2>3, <2>4, <2>5 DEF LoopOwns
  <1>5. ASSUME NEW p \in Peer, NEW i \in Call, Reject(p, i) PROVE CallInv'
    <2>1. /\ i \in DOMAIN ringing /\ {ringing[i]} \in SUBSET Call
          /\ ringing' = RemoveAt(ringing, i) /\ PublishPending /\ Release({ringing[i]})
          /\ LoopReconciles /\ UNCHANGED <<active, phase, route4, route6>>
      BY <1>5 DEF Reject, TakeRing, TypeOK
    <2>2. /\ ringing' \in Seq(Call) /\ Distinct(ringing')
          /\ \A d : (\E j \in DOMAIN ringing' : ringing'[j] = d)
                      <=> (d \notin {ringing[i]} /\ \E j \in DOMAIN ringing : ringing[j] = d)
      <3>1. /\ RemoveAt(ringing, i) \in Seq(Call) /\ Distinct(RemoveAt(ringing, i))
            /\ \A d : (\E j \in DOMAIN RemoveAt(ringing, i) : RemoveAt(ringing, i)[j] = d)
                        <=> (d # ringing[i] /\ \E j \in DOMAIN ringing : ringing[j] = d)
        BY <1>7, <2>1, RemoveFacts, Zenon
      <3>2. \A d : d # ringing[i] <=> d \notin {ringing[i]}
        OBVIOUS
      <3> QED BY <2>1, <3>1, <3>2, Zenon
    <2> QED BY <2>1, <2>2, <1>4
  <1>6. ASSUME NEW n \in Call, RingTimeout(n) PROVE CallInv'
    <2> DEFINE C == Range(SubSeq(ringing, 1, n))
    <2>1. /\ n \in 1..Len(ringing) /\ ringing' = SubSeq(ringing, n + 1, Len(ringing))
          /\ PublishPending /\ Release(C) /\ LoopReconciles
          /\ UNCHANGED <<active, phase, route4, route6>>
      BY <1>6 DEF RingTimeout, Expired
    <2>2. C \in SUBSET Call
      <3>1. Len(ringing) \in Nat /\ ringing \in Seq(Call)
        BY DEF TypeOK
      <3>2. SubSeq(ringing, 1, n) \in Seq(Call)
        BY <2>1, <3>1, SubSeqFacts
      <3> QED BY <3>2 DEF Range
    <2>3. /\ ringing' \in Seq(Call) /\ Distinct(ringing')
          /\ \A d : (\E j \in DOMAIN ringing' : ringing'[j] = d)
                      <=> (d \notin C /\ \E j \in DOMAIN ringing : ringing[j] = d)
      <3> DEFINE r == SubSeq(ringing, n + 1, Len(ringing))
      <3>1. /\ r \in Seq(Call) /\ Distinct(r)
            /\ \A d : (\E j \in DOMAIN r : r[j] = d)
                        <=> (d \notin C /\ \E j \in DOMAIN ringing : ringing[j] = d)
        BY <1>7, <2>1, ExpireFacts, Zenon
      <3> QED BY <2>1, <3>1, Zenon
    <2> HIDE DEF C
    <2> QED BY <2>1, <2>2, <2>3, <1>4
  <1> QED BY <1>1, <1>2, <1>3, <1>5, <1>6

(* A connection that begins: only a stranger's is put on the list. *)
LEMMA BeginCallKeeps ==
  ASSUME CallInv, ClaimInv', NEW c \in Call, NEW p \in Peer,
         IncomingContact(c, p) \/ IncomingStranger(c, p) \/ Dial(c, p)
  PROVE  CallInv'
  <1> USE DEF CallInv, callVars, listVars, routeVars
  <1>1. PICK q \in {"vips", "ring", "dial"} :
           /\ Begin(c, p, q) /\ alive' \subseteq Call
           /\ q = "ring" <=> IncomingStranger(c, p)
    <2>1. alive \subseteq Call
      BY DEF TypeOK
    <2>2. CASE IncomingStranger(c, p)
      BY <2>1, <2>2 DEF IncomingStranger
    <2>3. CASE ~IncomingStranger(c, p) /\ IncomingContact(c, p)
      BY <2>1, <2>3 DEF IncomingContact
    <2>4. CASE ~IncomingStranger(c, p) /\ Dial(c, p)
      BY <2>1, <2>4 DEF Dial
    <2> QED BY <2>2, <2>3, <2>4
  <1>2. /\ pc[c] = "free" /\ loop = "select" /\ rec[Loop] = "off"
        /\ pc' = [pc EXCEPT ![c] = q] /\ who' = [who EXCEPT ![c] = p]
        /\ UNCHANGED <<vip, active, rec, route4, route6>>
    BY <1>1 DEF Begin, Goto, LoopOwns
  <1>3. \A d \in Call : /\ pc'[d] = IF d = c THEN q ELSE pc[d]
                        /\ who'[d] = IF d = c THEN p ELSE who[d]
    BY <1>2 DEF ClaimInv, ClaimTypes
  <1>4. Addressed'
    BY <1>2, <1>3 DEF Addressed, Routed
  <1>5. CASE ~IncomingStranger(c, p)
    <2>1. UNCHANGED <<ringing, pending, loop>>
      BY <1>5 DEF IncomingContact, Dial
    <2>2. \A d \in Call : pc'[d] = "ring" <=> pc[d] = "ring"
      BY <1>1, <1>2, <1>3, <1>5
    <2>3. \A d \in Call : pc[d] = "ring" => who'[d] = who[d]
      BY <1>2, <1>3
    <2>4. RingListed' /\ Published'
      BY <1>2, <2>1, <2>2, <2>3, ListFrame
    <2>5. phase' \in PhaseName
      BY <1>5, PhaseTyped DEF IncomingContact, Dial, TypeOK
    <2>6. TypeOK'
      BY <1>1, <1>2, <2>1, <2>5 DEF TypeOK, ClaimInv, ClaimTypes
    <2> QED BY <1>2, <1>4, <2>1, <2>4, <2>6 DEF LoopOwns
  <1>6. CASE IncomingStranger(c, p)
    <2>1. /\ q = "ring" /\ ringing' = Append(ringing, c) /\ loop' = "rang"
          /\ UNCHANGED <<pending, phase>>
      BY <1>1, <1>6 DEF IncomingStranger
    <2>2. /\ ringing \in Seq(Call) /\ Distinct(ringing)
          /\ \A i \in DOMAIN ringing : ringing[i] # c
      BY <1>2 DEF RingListed, TypeOK
    <2>3. /\ Append(ringing, c) \in Seq(Call) /\ Distinct(Append(ringing, c))
          /\ \A d : (\E i \in DOMAIN Append(ringing, c) : Append(ringing, c)[i] = d)
                      <=> (d = c \/ \E i \in DOMAIN ringing : ringing[i] = d)
      BY <2>2, AppendFacts, Zenon
    <2>4. /\ ringing' \in Seq(Call) /\ Distinct(ringing')
          /\ \A d : (\E i \in DOMAIN ringing' : ringing'[i] = d)
                      <=> (d = c \/ \E i \in DOMAIN ringing : ringing[i] = d)
      BY <2>1, <2>3, Zenon
    <2>5. RingListed'
      BY <1>3, <2>1, <2>4 DEF RingListed
    <2>6. Published'
      BY <2>1 DEF Published
    <2>7. TypeOK'
      BY <1>1, <1>2, <2>1, <2>4 DEF TypeOK, ClaimInv, ClaimTypes
    <2> QED BY <1>2, <1>4, <2>1, <2>5, <2>6, <2>7 DEF LoopOwns
  <1> QED BY <1>5, <1>6

(* A step of a call's task: it never touches the list. *)
LEMMA TaskCallKeeps ==
  ASSUME CallInv, ClaimInv', NEW c \in Call, PhoneRunPeer(c) \/ RemoteCloses(c)
  PROVE  CallInv'
  <1> USE DEF CallInv, callVars, listVars, routeVars
  <1>1. UNCHANGED <<ringing, pending, loop>>
    BY DEF PhoneRunPeer, RemoteCloses, DialConnects, CallFails, ExchangeVips, Claim,
           AddPeerRoute, AddPeerRouteFails, Connected, Disconnected, DelPeerRoute
  <1>2. /\ alive' \subseteq Call /\ phase' \in PhaseName
        /\ rec' \in [Task -> {"off", "peers", "ringing"} \cup PhaseEvent]
        /\ rec'[Loop] = rec[Loop]
    <2>1. rec' = rec \/ rec' = [rec EXCEPT ![c] = "peers"]
      BY DEF PhoneRunPeer, RemoteCloses, DialConnects, CallFails, ExchangeVips, Claim,
             AddPeerRoute, AddPeerRouteFails, Connected, Disconnected, DelPeerRoute,
             TaskReconciles
    <2>2. /\ rec' \in [Task -> {"off", "peers", "ringing"} \cup PhaseEvent]
          /\ rec'[Loop] = rec[Loop]
      BY <2>1, LoopFacts DEF TypeOK
    <2>3. alive' \subseteq Call
      BY DEF PhoneRunPeer, RemoteCloses, DialConnects, CallFails, ExchangeVips, Claim,
             AddPeerRoute, AddPeerRouteFails, Connected, Disconnected, DelPeerRoute,
             Release, TypeOK
    <2>4. phase' = phase \/ phase' = ApplyPhase(phase, "Connected")
      BY DEF PhoneRunPeer, RemoteCloses, DialConnects, CallFails, ExchangeVips, Claim,
             AddPeerRoute, AddPeerRouteFails, Connected, Disconnected, DelPeerRoute
    <2> QED BY <2>2, <2>3, <2>4, PhaseTyped DEF TypeOK
  <1>3. route4' \subseteq Vip4 /\ route6' \subseteq Vip6
    <2>1. pc[c] = "route" => vip[c][1] \in Vip4 /\ vip[c][2] \in Vip6
      BY DEF Addressed, Pair
    <2>2. CASE AddPeerRoute(c)
      BY <2>1, <2>2 DEF AddPeerRoute, TypeOK
    <2>3. CASE AddPeerRouteFails(c)
      BY <2>1, <2>3 DEF AddPeerRouteFails, TypeOK
    <2>4. CASE DelPeerRoute(c)
      BY <2>4 DEF DelPeerRoute, TypeOK
    <2>5. CASE ~(AddPeerRoute(c) \/ AddPeerRouteFails(c) \/ DelPeerRoute(c))
      <3>1. UNCHANGED <<route4, route6>>
        BY <2>5 DEF PhoneRunPeer, RemoteCloses, DialConnects, CallFails, ExchangeVips,
                    Claim, Connected, Disconnected
      <3> QED BY <3>1 DEF TypeOK
    <2> QED BY <2>2, <2>3, <2>4, <2>5
  <1>4. TypeOK' /\ LoopOwns'
    BY <1>1, <1>2, <1>3 DEF TypeOK, LoopOwns, ClaimInv, ClaimTypes
  <1>5. /\ \A d \in Call \ {c} : pc'[d] = pc[d] /\ who'[d] = who[d] /\ vip'[d] = vip[d]
        /\ pc'[c] = "ring" <=> pc[c] = "ring"
        /\ pc[c] = "ring" => who'[c] = who[c]
        /\ pc'[c] \in {"claim", "route"} \cup Routed => vip'[c] \in Pair
    <2>1. CASE RemoteCloses(c)
      BY <2>1 DEF RemoteCloses, Addressed
    <2>2. CASE DialConnects(c) \/ CallFails(c)
      BY <2>2 DEF DialConnects, CallFails, TaskReconciles, Goto, Addressed, Routed,
                  ClaimInv, ClaimTypes
    <2>3. CASE ExchangeVips(c)
      <3>1. who[c] \in Peer
        BY <2>3 DEF ExchangeVips, ClaimInv, Ready
      <3>2. PICK pair \in Announce[who[c]] :
               /\ vip' = [vip EXCEPT ![c] = pair]
               /\ pc' = [pc EXCEPT ![c] = IF pair[1] \in Bad \/ pair[2] \in Bad
                                          THEN "failed" ELSE "claim"]
        BY <2>3 DEF ExchangeVips, TaskReconciles, Goto
      <3>3. pair \in Pair
        BY <3>1, PhoneConstants DEF Pair
      <3>4. pc[c] = "vips" /\ UNCHANGED who
        BY <2>3 DEF ExchangeVips
      <3> QED BY <3>2, <3>3, <3>4 DEF ClaimInv, ClaimTypes
    <2>4. CASE Claim(c)
      BY <2>4 DEF Claim, TaskReconciles, Goto, Addressed, Routed, ClaimInv, ClaimTypes
    <2>5. CASE AddPeerRoute(c) \/ AddPeerRouteFails(c) \/ Connected(c) \/ Disconnected(c)
      BY <2>5 DEF AddPeerRoute, AddPeerRouteFails, Connected, Disconnected, TaskReconciles,
                  Goto, Addressed, Routed, ClaimInv, ClaimTypes
    <2>6. CASE DelPeerRoute(c)
      BY <2>6 DEF DelPeerRoute, Release, Routed, ClaimInv, ClaimTypes
    <2> QED BY <2>1, <2>2, <2>3, <2>4, <2>5, <2>6 DEF PhoneRunPeer
  <1>6. Addressed'
    BY <1>5 DEF Addressed
  <1>7. RingListed' /\ Published'
    BY <1>1, <1>5, ListFrame
  <1> QED BY <1>4, <1>6, <1>7

(* A step of a reconcile: the task that ran it is at "failed" or "left". *)
LEMMA ReconcileCallKeeps ==
  ASSUME CallInv, ClaimInv', NEW t \in Task, Reconcile(t)
  PROVE  CallInv'
  <1> USE DEF CallInv, callVars, listVars, routeVars
  <1>1. /\ UNCHANGED <<ringing, pending, route4, route6>>
        /\ rec' \in [Task -> {"off", "peers", "ringing"} \cup PhaseEvent]
        /\ \A u \in Task \ {t} : rec'[u] = rec[u]
    <2>1. PhaseEvent # {} /\ {"Connected", "Ring", "PeerLeft"} \subseteq PhaseEvent
      BY DEF PhaseEvent
    <2> QED BY <2>1 DEF Reconcile, ReconcilePeers, ReconcileRinging, ReconcileApply, TypeOK
  <1>2. CASE ReconcilePeers(t) \/ ReconcileRinging(t)
    <2>1. UNCHANGED <<pc, who, vip, alive, active, loop, phase>> /\ rec[t] # "off"
      BY <1>2 DEF ReconcilePeers, ReconcileRinging
    <2>2. TypeOK' /\ LoopOwns' /\ Addressed'
      BY <1>1, <2>1, LoopFacts DEF TypeOK, LoopOwns, Addressed
    <2> QED BY <1>1, <2>1, <2>2, ListFrame
  <1>3. CASE ReconcileApply(t)
    <2>1. phase' \in PhaseName /\ rec'[t] = "off" /\ UNCHANGED active /\ rec[t] # "off"
      BY <1>3, PhaseTyped DEF ReconcileApply, TypeOK, PhaseEvent
    <2>2. CASE t = Loop /\ loop' = "select" /\ UNCHANGED callVars
      <3>1. loop # "rang"
        BY <2>1, <2>2 DEF LoopOwns
      <3>2. TypeOK' /\ LoopOwns' /\ Addressed'
        BY <1>1, <2>1, <2>2 DEF TypeOK, LoopOwns, Addressed
      <3> QED BY <1>1, <2>2, <3>1, <3>2, ListFrame
    <2>3. CASE /\ t # Loop /\ UNCHANGED loop
               /\ \/ pc[t] = "failed" /\ Release({t})
                  \/ pc[t] = "left" /\ Goto(t, "unroute") /\ UNCHANGED <<who, vip, alive>>
      <3>1. t \in Call /\ alive' \subseteq Call
        BY <2>3 DEF Task, Release, TypeOK
      <3>2. /\ \A d \in Call \ {t} : pc'[d] = pc[d] /\ who'[d] = who[d] /\ vip'[d] = vip[d]
            /\ pc[t] # "ring" /\ pc'[t] # "ring"
            /\ pc'[t] \in {"claim", "route"} \cup Routed => vip'[t] \in Pair
        BY <2>3, <3>1 DEF Release, Goto, Addressed, Routed, ClaimInv, ClaimTypes
      <3>3. TypeOK' /\ LoopOwns'
        BY <1>1, <2>1, <2>3, <3>1, LoopFacts DEF TypeOK, LoopOwns, ClaimInv, ClaimTypes
      <3>4. Addressed'
        BY <3>2 DEF Addressed
      <3> QED BY <1>1, <2>3, <3>2, <3>3, <3>4, ListFrame
    <2> QED BY <1>3, <2>2, <2>3 DEF ReconcileApply
  <1> QED BY <1>2, <1>3 DEF Reconcile

LEMMA StepCallInv == CallInv /\ [Next]_vars => CallInv'
  <1> SUFFICES ASSUME CallInv, [Next]_vars PROVE CallInv'
    OBVIOUS
  <1>1. ClaimInv'
    BY StepClaimInv DEF CallInv
  <1>2. CASE UNCHANGED vars
    <2>1. UNCHANGED <<pc, who, vip, alive, active, ringing, pending, loop, rec, phase,
                      route4, route6>>
      BY <1>2 DEF vars, callVars, listVars, routeVars
    <2>2. TypeOK' /\ Addressed' /\ LoopOwns'
      BY <2>1 DEF CallInv, TypeOK, Addressed, LoopOwns
    <2> QED BY <1>1, <2>1, <2>2, ListFrame DEF CallInv
  <1> QED BY <1>1, <1>2, HandlerKeeps, BeginCallKeeps, TaskCallKeeps, ReconcileCallKeeps
          DEF Next

LEMMA PendingFollows == CallInv => TypeOK /\ PendingAgrees
  <1> SUFFICES ASSUME CallInv PROVE TypeOK /\ PendingAgrees
    OBVIOUS
  <1>1. TypeOK
    BY DEF CallInv
  <1>2. {c \in Call : pc[c] = "ring"} = Range(ringing)
    BY <1>1 DEF CallInv, RingListed, Range, TypeOK
  <1> QED BY <1>1, <1>2 DEF PendingAgrees, CallInv, Published

-----------------------------------------------------------------------------
(* Host routes                                                              *)

(* A host route belongs to a call that has not run del_peer_route yet,      *)
(* where that command does what it says.                                    *)
RouteOwned ==
    /\ 4 \notin DeleteFaults =>
          \A v \in route4 : \E c \in Call : pc[c] \in Routed /\ vip[c][1] = v
    /\ 6 \notin DeleteFaults =>
          \A v \in route6 : \E c \in Call : pc[c] \in Routed /\ vip[c][2] = v

(* A step that adds no route and takes no call from the calls that own one. *)
LEMMA OwnedFrame ==
  ASSUME RouteOwned, route4' \subseteq route4, route6' \subseteq route6,
         \A c \in Call : pc[c] \in Routed => pc'[c] \in Routed /\ vip'[c] = vip[c]
  PROVE  RouteOwned'
  BY DEF RouteOwned

(* A v4 failure leaves nothing; only a v6 failure orphans the v4 route. *)
LEMMA StepRouteOwned ==
  ASSUME CallInv, RouteOwned, 6 \notin RouteFaults, [Next]_vars
  PROVE  RouteOwned'
  <1> USE DEF callVars, listVars, routeVars
  <1>0. /\ pc \in [Call -> Point] /\ vip \in [Call -> Pair \cup {NoVip}]
        /\ ringing \in Seq(Call) /\ Distinct(ringing)
        /\ \A i \in DOMAIN ringing : ringing[i] \in Call /\ pc[ringing[i]] = "ring"
    BY DEF CallInv, ClaimInv, ClaimTypes, TypeOK, RingListed
  <1>1. CASE UNCHANGED vars \/ Rang \/ Shutdown \/ \E c \in Call : RemoteCloses(c)
    <2>1. UNCHANGED <<pc, vip, route4, route6>>
      BY <1>1 DEF vars, Rang, Shutdown, RemoteCloses
    <2> QED BY <2>1, OwnedFrame
  <1>2. ASSUME NEW C, Release(C), \A c \in C \cap Call : pc[c] \notin Routed,
               UNCHANGED <<route4, route6>>
        PROVE  RouteOwned'
    <2>1. \A c \in Call \ C : pc'[c] = pc[c] /\ vip'[c] = vip[c]
      BY <1>2 DEF Release
    <2> QED BY <1>2, <2>1, OwnedFrame
  <1>3. ASSUME NEW c \in Call, NEW q \in Point, pc' = [pc EXCEPT ![c] = q],
               pc[c] \in Routed => q \in Routed /\ vip'[c] = vip[c],
               \A d \in Call \ {c} : vip'[d] = vip[d],
               UNCHANGED <<route4, route6>>
        PROVE  RouteOwned'
    <2>1. \A d \in Call : pc'[d] = IF d = c THEN q ELSE pc[d]
      BY <1>0, <1>3
    <2> QED BY <1>3, <2>1, OwnedFrame
  <1>4. ASSUME NEW p \in Peer, NEW i \in Call, Accept(p, i) PROVE RouteOwned'
    <2>1. ringing[i] \in Call /\ pc[ringing[i]] = "ring"
      BY <1>0, <1>4 DEF Accept, TakeRing
    <2>2. pc' = [pc EXCEPT ![ringing[i]] = "vips"] /\ UNCHANGED <<vip, route4, route6>>
      BY <1>4 DEF Accept, Goto
    <2> QED BY <1>3, <2>1, <2>2 DEF Point, Routed
  <1>5. ASSUME NEW p \in Peer, NEW i \in Call, Reject(p, i) PROVE RouteOwned'
    <2>1. pc[ringing[i]] = "ring" /\ Release({ringing[i]}) /\ UNCHANGED <<route4, route6>>
      BY <1>0, <1>5 DEF Reject, TakeRing
    <2> QED BY <1>2, <2>1 DEF Routed
  <1>6. ASSUME NEW n \in Call, RingTimeout(n) PROVE RouteOwned'
    <2>1. n \in 1..Len(ringing) /\ Release(Range(SubSeq(ringing, 1, n))) /\ UNCHANGED <<route4, route6>>
      BY <1>6 DEF RingTimeout, Expired
    <2>2. Len(ringing) \in Nat /\ DOMAIN ringing = 1..Len(ringing)
      BY <1>0
    <2>3. /\ DOMAIN SubSeq(ringing, 1, n) = 1..n
          /\ \A j \in 1..n : SubSeq(ringing, 1, n)[j] = ringing[j] /\ j \in DOMAIN ringing
      BY <1>0, <2>1, <2>2, SubSeqFacts
    <2>4. \A c \in Range(SubSeq(ringing, 1, n)) : pc[c] = "ring"
      BY <1>0, <2>3 DEF Range
    <2> QED BY <1>2, <2>1, <2>4 DEF Routed
  <1>7. ASSUME NEW c \in Call, NEW p \in Peer,
               IncomingContact(c, p) \/ IncomingStranger(c, p) \/ Dial(c, p)
        PROVE  RouteOwned'
    <2>1. PICK q \in {"vips", "ring", "dial"} : Begin(c, p, q)
      BY <1>7 DEF IncomingContact, IncomingStranger, Dial
    <2>2. pc[c] = "free" /\ pc' = [pc EXCEPT ![c] = q] /\ UNCHANGED <<vip, route4, route6>>
      BY <2>1 DEF Begin, Goto
    <2> QED BY <1>3, <2>2 DEF Point, Routed
  <1>8. ASSUME NEW t \in Task, Reconcile(t) PROVE RouteOwned'
    <2>1. UNCHANGED <<route4, route6>>
      BY <1>8 DEF Reconcile, ReconcilePeers, ReconcileRinging, ReconcileApply
    <2>2. CASE UNCHANGED <<pc, vip>>
      BY <2>1, <2>2, OwnedFrame
    <2>3. CASE pc[t] = "failed" /\ Release({t})
      BY <1>2, <2>1, <2>3 DEF Routed
    <2>4. CASE t # Loop /\ pc[t] = "left" /\ Goto(t, "unroute") /\ UNCHANGED vip
      BY <1>3, <2>1, <2>4 DEF Routed, Point, Goto, Task
    <2> QED BY <1>8, <2>2, <2>3, <2>4
            DEF Reconcile, ReconcilePeers, ReconcileRinging, ReconcileApply
  <1>9. ASSUME NEW c \in Call, PhoneRunPeer(c) PROVE RouteOwned'
    <2>1. CASE DialConnects(c) \/ CallFails(c) \/ ExchangeVips(c) \/ Claim(c)
      <3>1. /\ pc[c] \in {"dial", "vips", "claim"} /\ UNCHANGED <<route4, route6>>
            /\ \E q \in {"vips", "failed", "claim", "route"} : pc' = [pc EXCEPT ![c] = q]
            /\ \A d \in Call \ {c} : vip'[d] = vip[d]
        BY <1>0, <2>1 DEF DialConnects, CallFails, ExchangeVips, Claim, TaskReconciles, Goto
      <3> QED BY <1>3, <3>1 DEF Point, Routed
    <2>2. CASE Connected(c) \/ Disconnected(c)
      <3>1. /\ UNCHANGED <<vip, route4, route6>>
            /\ \E q \in {"up", "left"} : pc' = [pc EXCEPT ![c] = q]
        BY <2>2 DEF Connected, Disconnected, TaskReconciles, Goto
      <3> QED BY <1>3, <3>1 DEF Point, Routed
    <2>3. CASE AddPeerRoute(c)
      <3>1. /\ \A d \in Call : pc'[d] = IF d = c THEN "connected" ELSE pc[d]
            /\ UNCHANGED vip /\ pc[c] = "route"
            /\ route4' = route4 \cup {vip[c][1]} /\ route6' = route6 \cup {vip[c][2]}
        BY <1>0, <2>3 DEF AddPeerRoute, Goto
      <3>2. \A d \in Call : pc[d] \in Routed => pc'[d] \in Routed
        BY <3>1 DEF Routed
      <3>3. pc'[c] \in Routed
        BY <3>1 DEF Routed
      <3> QED BY <3>1, <3>2, <3>3 DEF RouteOwned
    <2>4. CASE AddPeerRouteFails(c)
      <3>1. /\ UNCHANGED <<vip, route6>> /\ pc[c] = "route"
            /\ pc' = [pc EXCEPT ![c] = "failed"]
            /\ \E f \in RouteFaults : route4' = IF f = 4 THEN route4 ELSE route4 \cup {vip[c][1]}
        BY <2>4 DEF AddPeerRouteFails, TaskReconciles, Goto
      <3>2. UNCHANGED route4
        BY <3>1, PhoneConstants
      <3> QED BY <1>3, <3>1, <3>2 DEF Point, Routed
    <2>5. CASE DelPeerRoute(c)
      <3>1. /\ 4 \notin DeleteFaults => route4' = route4 \ {vip[c][1]}
            /\ 6 \notin DeleteFaults => route6' = route6 \ {vip[c][2]}
            /\ \A d \in Call \ {c} : pc'[d] = pc[d] /\ vip'[d] = vip[d]
        BY <2>5 DEF DelPeerRoute, Release
      <3> QED BY <3>1 DEF RouteOwned
    <2> QED BY <1>9, <2>1, <2>2, <2>3, <2>4, <2>5 DEF PhoneRunPeer
  <1> QED BY <1>1, <1>4, <1>5, <1>6, <1>7, <1>8, <1>9 DEF Next

(* publish_pending and the routes of phone_run_peer, whatever the calls do   *)
(* and in whatever order their tasks run: the control plane shows exactly   *)
(* the ringing calls, in order, and no host route outlives its call, but    *)
(* for the families whose delete command may fail unseen.  The hypothesis   *)
(* is needed: when the v6 command fails add_peer_route returns with the v4  *)
(* route installed, and the call ends without removing it.                  *)
THEOREM CallsStayTidy == 6 \notin RouteFaults => (Spec => []CallsTidy)
  <1> SUFFICES ASSUME 6 \notin RouteFaults PROVE Spec => []CallsTidy
    OBVIOUS
  <1> DEFINE Inv == CallInv /\ RouteOwned
  <1>1. Init => Inv
    <2>1. Init => RouteOwned
      BY DEF Init, RouteOwned
    <2> QED BY <2>1, InitCallInv
  <1>2. Inv /\ [Next]_vars => Inv'
    BY StepCallInv, StepRouteOwned
  <1>3. Inv => CallsTidy
    <2> SUFFICES ASSUME Inv PROVE CallsTidy
      OBVIOUS
    <2>1. RoutesGone
      BY DEF RoutesGone, RouteOwned, Routed
    <2> QED BY <2>1, PendingFollows DEF CallsTidy
  <1> QED BY <1>1, <1>2, <1>3, PTL DEF Spec

(* Without the hypothesis: what the control plane shows agrees with the     *)
(* ringing list whatever the route commands do.                             *)
THEOREM PendingAlwaysAgrees == Spec => [](TypeOK /\ PendingAgrees)
  BY InitCallInv, StepCallInv, PendingFollows, PTL DEF Spec
=============================================================================
