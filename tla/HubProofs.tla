----------------------------- MODULE HubProofs -----------------------------
(* Proofs about the hub for every set of peers and addresses, every number  *)
(* of sessions and every queue capacity, with and without the faults.       *)
EXTENDS Hub, FiniteSetTheorems, TLAPS

(* Session numbers not handed out yet have no task. *)
Fresh == \A s \in Session : s > session_seq => pc[s] = "idle"

(* A task knows its peer, and after the exchange the peer's addresses. *)
Announced ==
    \A s \in Session :
        /\ pc[s] # "idle" => id[s] \in Peer
        /\ pc[s] \notin {"idle", "vips", "done"} => vip[s] \in Pair

(* Once a peer has dialled again, its older sessions are past their joins.  *)
Orderly ==
    \A s, t \in Session :
        t < s /\ id[t] = id[s] /\ pc[s] # "idle" =>
            /\ pc[t] \notin Handshake \cup Joining
            /\ Redial = "after" => pc[t] = "done"

(* A claim not yet read back fills both slots or neither, and loses the     *)
(* IPv4 slot, by which it is read, no sooner than the other.                *)
WholeClaim ==
    \A s \in Session :
        pc[s] = "claimed" /\ by_v6[vip[s][2]] = s => by_v4[vip[s][1]] = s

(* The inductive strengthening of TypeOK and IndexSound. *)
Book == TypeOK /\ Fresh /\ Announced /\ IndexSound
IndexInv == TypeOK /\ Fresh /\ Announced /\ IndexSound /\ Orderly /\ WholeClaim

LEMMA SessionFacts == None \notin Session /\ \A s \in Session : s \in Nat
  BY HubConstants DEF Session, None

LEMMA InitIndexInv == Init => IndexInv
  <1> SUFFICES ASSUME Init PROVE IndexInv
    OBVIOUS
  <1>1. TypeOK
    BY HubConstants DEF Init, TypeOK, Phase, Session, None
  <1>2. Fresh /\ Announced /\ IndexSound /\ Orderly /\ WholeClaim
    BY DEF Init, Fresh, Announced, IndexSound, Orderly, WholeClaim
  <1> QED BY <1>1, <1>2 DEF IndexInv

(* A step of session s that moves its program counter to q and leaves its   *)
(* identity and the index alone keeps the bookkeeping, provided s keeps any *)
(* slots it owns.                                                           *)
LEMMA MoveKeeps ==
  ASSUME NEW s \in Session, NEW q \in Phase, IndexInv,
         pc[s] \notin {"idle", "vips"}, q # "idle", q # "vips",
         pc[s] = "done" => q = "done",
         pc[s] \in Holding => q \in Holding,
         pc' = [pc EXCEPT ![s] = q],
         UNCHANGED <<session_seq, id, vip, by_v4, by_v6>>
  PROVE  pc' \in [Session -> Phase] /\ Fresh' /\ Announced' /\ IndexSound'
  <1> USE DEF IndexInv, Book
  <1>1. pc' \in [Session -> Phase]
    BY DEF TypeOK
  <1>2. Fresh'
    BY DEF Fresh, TypeOK
  <1>3. Announced'
    BY DEF Announced, TypeOK
  <1>4. IndexSound'
    BY DEF IndexSound, TypeOK
  <1> QED BY <1>1, <1>2, <1>3, <1>4

(* A step that touches neither program counters nor the index. *)
LEMMA IdleKeeps ==
  ASSUME IndexInv, UNCHANGED <<session_seq, pc, id, vip, by_v4, by_v6>>
  PROVE  Fresh' /\ Announced' /\ IndexSound'
  BY DEF IndexInv, Fresh, Announced, IndexSound

(* Outside Holding a session owns no slot of either family. *)
LEMMA HoldsNothing ==
  ASSUME NEW s \in Session, IndexSound, pc[s] \notin Holding
  PROVE  /\ \A v \in Vip4 : by_v4[v] # s
         /\ \A v \in Vip6 : by_v6[v] # s
  BY SessionFacts DEF IndexSound

(* peers_remove_if_owned keeps the index typed and empties exactly the      *)
(* slots session s owned; every other session keeps what it held.           *)
LEMMA RemoveKeeps ==
  ASSUME NEW s \in Session, NEW q \in {"routeErr", "judge"}, IndexInv,
         pc[s] \in {"route", "remove"}, RemoveIfOwned(s),
         pc' = [pc EXCEPT ![s] = q],
         UNCHANGED <<session_seq, id, vip>>
  PROVE  /\ pc' \in [Session -> Phase]
         /\ by_v4' \in [Vip4 -> Session \cup {None}]
         /\ by_v6' \in [Vip6 -> Session \cup {None}]
         /\ Fresh' /\ Announced' /\ IndexSound'
  <1> USE DEF IndexInv, Book
  <1>1. pc' \in [Session -> Phase]
    BY DEF TypeOK, Phase, Joining, Leaving
  <1>2. /\ by_v4' \in [Vip4 -> Session \cup {None}]
        /\ by_v6' \in [Vip6 -> Session \cup {None}]
    BY DEF TypeOK, RemoveIfOwned
  <1>3. Fresh' /\ Announced'
    BY DEF Fresh, Announced, TypeOK
  <1>4. ASSUME NEW v \in Vip4, by_v4'[v] # None
        PROVE  pc'[by_v4'[v]] \in Holding /\ vip'[by_v4'[v]][1] = v
    <2>1. by_v4'[v] = by_v4[v] /\ ~(v = vip[s][1] /\ by_v4[v] = s)
      BY <1>4 DEF RemoveIfOwned, TypeOK
    <2>2. by_v4[v] # s
      BY <2>1, <1>4 DEF IndexSound
    <2> QED BY <2>1, <2>2, <1>4 DEF IndexSound, TypeOK
  <1>5. ASSUME NEW v \in Vip6, by_v6'[v] # None
        PROVE  pc'[by_v6'[v]] \in Holding /\ vip'[by_v6'[v]][2] = v
    <2>1. by_v6'[v] = by_v6[v] /\ ~(v = vip[s][2] /\ by_v6[v] = s)
      BY <1>5 DEF RemoveIfOwned, TypeOK
    <2>2. by_v6[v] # s
      BY <2>1, <1>5 DEF IndexSound
    <2> QED BY <2>1, <2>2, <1>5 DEF IndexSound, TypeOK
  <1>6. IndexSound'
    BY <1>4, <1>5 DEF IndexSound
  <1> QED BY <1>1, <1>2, <1>3, <1>6

(* try_claim_peer, successful or not. *)
LEMMA ClaimKeeps ==
  ASSUME NEW s \in Session, IndexInv, ClaimPeer(s)
  PROVE  Book'
  <1> USE DEF IndexInv, Book
  <1>1. vip[s] \in Pair /\ vip[s][1] \in Vip4 /\ vip[s][2] \in Vip6
    BY DEF ClaimPeer, Announced, Pair
  <1>2. /\ by_v4' \in [Vip4 -> Session \cup {None}]
        /\ by_v6' \in [Vip6 -> Session \cup {None}]
    <2>1. CASE Claimable(s)
      <3>1. /\ by_v4' = [by_v4 EXCEPT ![vip[s][1]] = s]
            /\ by_v6' = [by_v6 EXCEPT ![vip[s][2]] = s]
        BY <2>1 DEF ClaimPeer
      <3> QED BY <3>1, <1>1 DEF TypeOK
    <2>2. CASE ~Claimable(s)
      BY <2>2 DEF ClaimPeer, TypeOK, indexVars
    <2> QED BY <2>1, <2>2
  <1>3. pc' \in [Session -> Phase] /\ pc' = [pc EXCEPT ![s] = pc'[s]]
        /\ pc'[s] = "claimed"
    BY DEF ClaimPeer, TypeOK, Goto, Phase, Joining
  <1>4. hidden' \in [Session -> BOOLEAN]
    BY DEF ClaimPeer, TypeOK
  <1>5. TypeOK'
    BY <1>2, <1>3, <1>4 DEF ClaimPeer, TypeOK, fanVars, routeVars, statusVars
  <1>6. Fresh' /\ Announced'
    BY <1>1, <1>3 DEF Fresh, Announced, ClaimPeer, TypeOK
  <1>7. /\ \A v \in Vip4 : by_v4[v] # s
        /\ \A v \in Vip6 : by_v6[v] # s
    BY HoldsNothing DEF ClaimPeer, Holding, Joining
  <1>9. CASE Claimable(s)
    <2>1. /\ by_v4' = [by_v4 EXCEPT ![vip[s][1]] = s]
          /\ by_v6' = [by_v6 EXCEPT ![vip[s][2]] = s]
          /\ id' = id /\ vip' = vip
      BY <1>9 DEF ClaimPeer
    <2>2. s # None
      BY SessionFacts
    <2>4. "claimed" \in Holding
      BY DEF Holding, Joining
    <2>5. ASSUME NEW v \in Vip4, by_v4'[v] # None
          PROVE  pc'[by_v4'[v]] \in Holding /\ vip'[by_v4'[v]][1] = v
      <3>1. CASE v = vip[s][1]
        BY <3>1, <2>1, <1>3, <2>4, <1>1 DEF TypeOK
      <3>2. CASE v # vip[s][1]
        BY <3>2, <2>1, <2>5, <1>3, <1>7 DEF IndexSound, TypeOK
      <3> QED BY <3>1, <3>2
    <2>6. ASSUME NEW v \in Vip6, by_v6'[v] # None
          PROVE  pc'[by_v6'[v]] \in Holding /\ vip'[by_v6'[v]][2] = v
      <3>1. CASE v = vip[s][2]
        BY <3>1, <2>1, <1>3, <2>4, <1>1 DEF TypeOK
      <3>2. CASE v # vip[s][2]
        BY <3>2, <2>1, <2>6, <1>3, <1>7 DEF IndexSound, TypeOK
      <3> QED BY <3>1, <3>2
    <2>7. IndexSound'
      BY <2>5, <2>6 DEF IndexSound
    <2> QED BY <1>5, <1>6, <2>7
  <1>10. CASE ~Claimable(s)
    <2>1. UNCHANGED <<by_v4, by_v6>> /\ id' = id /\ vip' = vip
      BY <1>10 DEF ClaimPeer, indexVars
    <2>2. IndexSound'
      BY <2>1, <1>3, <1>7 DEF IndexSound, TypeOK
    <2> QED BY <1>5, <1>6, <2>2
  <1> QED BY <1>9, <1>10

(* A refused session owns nothing. *)
LEMMA VerifyKeeps ==
  ASSUME NEW s \in Session, IndexInv, VerifyClaim(s)
  PROVE  Book'
  <1> USE DEF IndexInv, Book
  <1>1. /\ pc[s] = "claimed"
        /\ pc' = [pc EXCEPT ![s] = IF ClaimHeld(s) THEN "fan" ELSE "done"]
        /\ UNCHANGED <<session_seq, sessVars, open, by_v4, by_v6, fanVars, removed,
                       routeVars, statusVars>>
    BY DEF VerifyClaim, Goto, indexVars
  <1>2. pc' \in [Session -> Phase] /\ Fresh' /\ Announced' /\ IndexSound'
    <2>1. CASE ClaimHeld(s)
      BY <1>1, <2>1, MoveKeeps DEF sessVars, Phase, Joining, Holding
    <2>2. CASE ~ClaimHeld(s)
      <3>1. vip[s] \in Pair /\ vip[s][1] \in Vip4 /\ vip[s][2] \in Vip6
        BY <1>1 DEF Announced, Pair
      <3>2. /\ \A v \in Vip4 : by_v4[v] # s
            /\ \A v \in Vip6 : by_v6[v] # s
        BY <1>1, <2>2, <3>1, SessionFacts DEF ClaimHeld, IndexSound, WholeClaim
      <3>3. pc' = [pc EXCEPT ![s] = "done"] /\ pc' \in [Session -> Phase]
        BY <1>1, <2>2 DEF TypeOK, Phase
      <3>4. Fresh' /\ Announced'
        BY <1>1, <3>3 DEF Fresh, Announced, sessVars, TypeOK
      <3>5. IndexSound'
        BY <1>1, <3>2, <3>3 DEF IndexSound, sessVars, TypeOK
      <3> QED BY <3>3, <3>4, <3>5
    <2> QED BY <2>1, <2>2
  <1> QED BY <1>1, <1>2 DEF TypeOK, sessVars, fanVars, routeVars, statusVars

LEMMA AcceptKeeps ==
  ASSUME NEW p \in Peer, IndexInv, Accept(p)
  PROVE  Book'
  <1> DEFINE s == session_seq + 1
  <1> USE DEF IndexInv, Book
  <1>1. s \in Session /\ session_seq < s /\ pc[s] = "idle" /\ session_seq' = s
    BY HubConstants DEF Accept, MayDial, TypeOK, Session, Fresh
  <1>2. /\ id' = [id EXCEPT ![s] = p]
        /\ pc' = [pc EXCEPT ![s] = pc'[s]] /\ pc'[s] \in {"vips", "done"}
        /\ open' \in {open, open \cup {s}}
        /\ UNCHANGED <<vip, hidden, by_v4, by_v6, fanVars, removed, routeVars, statusVars>>
    BY <1>1 DEF Accept, Goto, TypeOK, indexVars
  <1>3. pc' \in [Session -> Phase] /\ id' \in [Session -> Peer \cup {NoPeer}]
    BY <1>1, <1>2 DEF TypeOK, Phase, Handshake
  <1>4. session_seq' \in 0..MaxSession /\ open' \subseteq Session
    BY <1>1, <1>2, HubConstants DEF TypeOK, Session
  <1>5. TypeOK'
    BY <1>2, <1>3, <1>4 DEF TypeOK, fanVars, routeVars, statusVars
  <1>6. Fresh'
    BY <1>1, <1>2, HubConstants DEF Fresh, TypeOK, Session
  <1>7. Announced'
    BY <1>1, <1>2 DEF Announced, TypeOK
  <1>8. /\ \A v \in Vip4 : by_v4[v] # s
        /\ \A v \in Vip6 : by_v6[v] # s
    <2>1. pc[s] \notin Holding
      BY <1>1 DEF Holding, Joining
    <2> QED BY <1>1, <2>1, HoldsNothing
  <1>9. IndexSound'
    BY <1>1, <1>2, <1>8 DEF IndexSound, TypeOK
  <1> QED BY <1>5, <1>6, <1>7, <1>9

(* The handshake before the claim: the session owns nothing yet. *)
LEMMA HandshakeKeeps ==
  ASSUME NEW s \in Session, IndexInv, ExchangeVips(s) \/ HandshakeFails(s)
  PROVE  Book'
  <1> USE DEF IndexInv, Book
  <1>1. pc[s] \in Handshake /\ id[s] \in Peer
    BY DEF ExchangeVips, HandshakeFails, Handshake, Announced
  <1>2. /\ \A v \in Vip4 : by_v4[v] # s
        /\ \A v \in Vip6 : by_v6[v] # s
    BY <1>1, HoldsNothing DEF Handshake, Holding, Joining
  <1>3. CASE ExchangeVips(s)
    <2>1. PICK pair \in Announce[id[s]] :
             /\ vip' = [vip EXCEPT ![s] = pair]
             /\ pc' = [pc EXCEPT ![s] = IF Usable(pair) THEN "hello" ELSE "done"]
      BY <1>3 DEF ExchangeVips, Goto
    <2>2. pair \in Pair
      BY <1>1, HubConstants DEF Pair
    <2>3. /\ vip' \in [Session -> Pair \cup {NoVip}] /\ pc' \in [Session -> Phase]
          /\ vip'[s] \in Pair /\ pc'[s] \in {"hello", "done"}
          /\ \A t \in Session \ {s} : pc'[t] = pc[t] /\ vip'[t] = vip[t]
      BY <2>1, <2>2 DEF TypeOK, Phase, Handshake
    <2>4. UNCHANGED <<session_seq, id, hidden, open, by_v4, by_v6, fanVars, removed,
                      routeVars, statusVars>>
      BY <1>3 DEF ExchangeVips, indexVars
    <2>5. TypeOK'
      BY <2>3, <2>4 DEF TypeOK, fanVars, routeVars, statusVars
    <2>6. Fresh' /\ Announced'
      BY <1>1, <2>3, <2>4, <1>3 DEF Fresh, Announced, ExchangeVips
    <2>7. IndexSound'
      BY <1>2, <2>3, <2>4 DEF IndexSound, TypeOK
    <2> QED BY <2>5, <2>6, <2>7
  <1>4. CASE HandshakeFails(s)
    <2>1. /\ pc' = [pc EXCEPT ![s] = "done"]
          /\ UNCHANGED <<session_seq, sessVars, open, by_v4, by_v6, fanVars, removed,
                         routeVars, statusVars>>
      BY <1>4 DEF HandshakeFails, Goto, indexVars
    <2>2. TypeOK'
      BY <2>1 DEF TypeOK, sessVars, fanVars, routeVars, statusVars, Phase
    <2>3. Fresh' /\ Announced'
      BY <1>1, <2>1 DEF Fresh, Announced, sessVars, TypeOK, Handshake
    <2>4. IndexSound'
      BY <1>2, <2>1 DEF IndexSound, sessVars, TypeOK
    <2> QED BY <2>2, <2>3, <2>4
  <1> QED BY <1>3, <1>4

(* The steps of a join after its claim. *)
LEMMA JoinKeeps ==
  ASSUME NEW s \in Session, IndexInv,
         \/ InsertFan(s) \/ AddPeerRoute(s) \/ AbandonJoin(s)
         \/ RefreshUp(s) \/ JoinDone(s)
  PROVE  Book'
  <1> USE DEF IndexInv, Book, sessVars, indexVars, fanVars, routeVars, statusVars, Goto
  <1>1. CASE InsertFan(s)
    <2>1. id[s] \in Peer
      BY <1>1 DEF InsertFan, Announced
    <2>2. pc' \in [Session -> Phase] /\ Fresh' /\ Announced' /\ IndexSound'
      BY <1>1, MoveKeeps DEF InsertFan, Phase, Joining, Holding
    <2> QED BY <1>1, <2>1, <2>2 DEF InsertFan, TypeOK
  <1>2. CASE AddPeerRoute(s)
    <2>1. vip[s][1] \in Vip4 /\ vip[s][2] \in Vip6
      BY <1>2 DEF AddPeerRoute, Announced, Pair
    <2>2. pc' \in [Session -> Phase] /\ Fresh' /\ Announced' /\ IndexSound'
      BY <1>2, MoveKeeps DEF AddPeerRoute, Phase, Joining, Holding
    <2> QED BY <1>2, <2>1, <2>2 DEF AddPeerRoute, TypeOK
  <1>3. CASE AbandonJoin(s)
    <2>1. pc' \in [Session -> Phase] /\ Fresh' /\ Announced' /\ IndexSound'
      BY <1>3, MoveKeeps DEF AbandonJoin, Phase, Joining, Holding
    <2>2. fans' \in [Peer -> Session \cup {None}]
      BY <1>3 DEF AbandonJoin, DropFan, TypeOK
    <2>3. /\ fanq' \in [Session -> Seq(Entry)]
          /\ fanTask' \in [Session -> {"none", "running", "ended"}]
      BY <1>3 DEF AbandonJoin, TypeOK
    <2> QED BY <1>3, <2>1, <2>2, <2>3 DEF AbandonJoin, TypeOK
  <1>4. CASE RefreshUp(s)
    <2>1. pc' \in [Session -> Phase] /\ Fresh' /\ Announced' /\ IndexSound'
      BY <1>4, MoveKeeps DEF RefreshUp, RefreshLoad, Phase, Joining, Holding
    <2> QED BY <1>4, <2>1 DEF RefreshUp, RefreshLoad, TypeOK
  <1>5. CASE JoinDone(s)
    <2>1. pc' \in [Session -> Phase] /\ Fresh' /\ Announced' /\ IndexSound'
      BY <1>5, MoveKeeps DEF JoinDone, RefreshStore, Phase, Joining, Holding
    <2>2. status' \subseteq Session
      BY <1>5 DEF JoinDone, RefreshStore, TypeOK
    <2> QED BY <1>5, <2>1, <2>2 DEF JoinDone, RefreshStore, TypeOK
  <1> QED BY <1>1, <1>2, <1>3, <1>4, <1>5

(* hub_roster_snapshot writes addresses some session announced. *)
LEMMA SnapshotKeeps ==
  ASSUME NEW s \in Session, IndexInv, WriteSnapshot(s)
  PROVE  Book'
  <1> USE DEF IndexInv, Book, sessVars, indexVars, fanVars, routeVars, statusVars
  <1>1. PICK pick \in [Peer -> Session \cup {None}] :
           view' = [view EXCEPT ![s] =
              [p \in Peer |-> IF pick[p] = None THEN NoVip ELSE vip[pick[p]]]]
    BY DEF WriteSnapshot
  <1>2. view' \in [Session -> [Peer -> Pair \cup {NoVip}]]
    <2>1. [p \in Peer |-> IF pick[p] = None THEN NoVip ELSE vip[pick[p]]]
            \in [Peer -> Pair \cup {NoVip}]
      BY DEF TypeOK
    <2> QED BY <1>1, <2>1 DEF TypeOK
  <1>3. PICK q \in {"joinCollect", "refreshUp", "storeUp"} : pc' = [pc EXCEPT ![s] = q]
    BY DEF WriteSnapshot, Goto, JoinTail
  <1>4. pc' \in [Session -> Phase] /\ Fresh' /\ Announced' /\ IndexSound'
    <2>1. q \in Phase /\ q \in Holding /\ q # "idle" /\ q # "vips" /\ pc[s] = "snap"
      BY DEF Phase, Holding, Joining, WriteSnapshot
    <2> QED BY <1>3, <2>1, MoveKeeps DEF WriteSnapshot
  <1> QED BY <1>2, <1>4 DEF WriteSnapshot, TypeOK

(* broadcast_roster, for a Joined or a Left. *)
LEMMA BroadcastKeeps ==
  ASSUME NEW s \in Session, IndexInv, BroadcastJoined(s) \/ BroadcastLeft(s)
  PROVE  Book'
  <1> USE DEF IndexInv, Book, sessVars, indexVars, fanVars, routeVars, statusVars
  <1>1. ASSUME NEW t \in Session, NEW k \in {"joined", "left"},
               NEW at \in {"joinSend", "leftSend"}, SendOne(s, t, at, k)
        PROVE  Book'
    <2> DEFINE m == [kind |-> k, id |-> id[s], vip |-> vip[s]]
    <2>1. m \in Entry
      BY <1>1 DEF SendOne, Announced, Entry
    <2>2. fanq' \in [Session -> Seq(Entry)]
      <3>1. fanq[t] \in Seq(Entry) /\ Append(fanq[t], m) \in Seq(Entry)
        BY <2>1 DEF TypeOK
      <3>2. fanq' = fanq \/ fanq' = [fanq EXCEPT ![t] = Append(fanq[t], m)]
        BY <1>1 DEF SendOne
      <3> QED BY <3>1, <3>2 DEF TypeOK
    <2>3. sends' \in [Session -> SUBSET Session]
      BY <1>1 DEF SendOne, TypeOK
    <2>4. TypeOK'
      BY <1>1, <2>2, <2>3 DEF SendOne, TypeOK
    <2> QED BY <1>1, <2>4, IdleKeeps DEF SendOne
  <1>2. ASSUME NEW from, NEW to \in {"joinSend", "leftSend"},
               <<from, to>> \in {<<"joinCollect", "joinSend">>, <<"leftCollect", "leftSend">>},
               Collect(s, from, to)
        PROVE  Book'
    <2>1. {fans[p] : p \in Peer} \ {None} \in SUBSET Session
      BY DEF TypeOK
    <2>2. sends' \in [Session -> SUBSET Session]
      BY <1>2, <2>1 DEF Collect, TypeOK
    <2>3. to \in Phase /\ to # "idle" /\ to # "vips" /\ pc[s] = from /\ from \notin {"idle", "vips", "done"}
          /\ (from \in Holding => to \in Holding) /\ pc' = [pc EXCEPT ![s] = to]
      BY <1>2 DEF Collect, Goto, Phase, Joining, Leaving, Holding
    <2>4. pc' \in [Session -> Phase] /\ Fresh' /\ Announced' /\ IndexSound'
      BY <1>2, <2>3, MoveKeeps DEF Collect
    <2> QED BY <1>2, <2>2, <2>4 DEF Collect, TypeOK
  <1>3. ASSUME NEW from \in {"joinSend", "leftSend"}, NEW to,
               from = "joinSend" => to \in {"refreshUp", "storeUp"},
               from = "leftSend" => to \in {"refreshDown", "unroute"},
               SendDone(s, from, to)
        PROVE  Book'
    <2>1. to \in Phase /\ to # "idle" /\ to # "vips" /\ pc[s] = from /\ from \notin {"idle", "vips", "done"}
          /\ (from \in Holding => to \in Holding) /\ pc' = [pc EXCEPT ![s] = to]
      BY <1>3 DEF SendDone, Goto, Phase, Joining, Leaving, Holding
    <2>2. pc' \in [Session -> Phase] /\ Fresh' /\ Announced' /\ IndexSound'
      BY <1>3, <2>1, MoveKeeps DEF SendDone
    <2> QED BY <1>3, <2>2 DEF SendDone, TypeOK
  <1>4. CASE BroadcastJoined(s)
    BY <1>4, <1>1, <1>2, <1>3 DEF BroadcastJoined, JoinTail
  <1>5. CASE BroadcastLeft(s)
    BY <1>5, <1>1, <1>2, <1>3 DEF BroadcastLeft, LeaveTail
  <1> QED BY <1>4, <1>5

(* The fan-out task. *)
LEMMA FanKeeps ==
  ASSUME NEW s \in Session, IndexInv, FanStep(s)
  PROVE  Book'
  <1> USE DEF IndexInv, Book, sessVars, indexVars, fanVars, routeVars, statusVars
  <1>1. CASE Deliver(s)
    <2> DEFINE m == Head(fanq[s])
    <2>1. fanq[s] \in Seq(Entry) /\ fanq[s] # <<>>
      BY <1>1 DEF Deliver, TypeOK
    <2>2. m \in Entry /\ Tail(fanq[s]) \in Seq(Entry)
      BY <2>1
    <2>3. m.kind \in {"joined", "left"} /\ m.id \in Peer /\ m.vip \in Pair
      BY <2>2 DEF Entry
    <2>4. view[s] \in [Peer -> Pair \cup {NoVip}]
      BY DEF TypeOK
    <2>5. Apply(view[s], id[s], m) \in [Peer -> Pair \cup {NoVip}]
      <3>1. [view[s] EXCEPT ![m.id] = NoVip] \in [Peer -> Pair \cup {NoVip}]
        BY <2>3, <2>4
      <3>2. [view[s] EXCEPT ![m.id] = m.vip] \in [Peer -> Pair \cup {NoVip}]
        BY <2>3, <2>4
      <3>3. \/ Apply(view[s], id[s], m) = [view[s] EXCEPT ![m.id] = NoVip]
            \/ Apply(view[s], id[s], m) = [view[s] EXCEPT ![m.id] = m.vip]
            \/ Apply(view[s], id[s], m) = view[s]
        BY DEF Apply
      <3> QED BY <3>1, <3>2, <3>3, <2>4
    <2>6. view' \in [Session -> [Peer -> Pair \cup {NoVip}]]
      BY <1>1, <2>5 DEF Deliver, TypeOK
    <2>7. fanq' \in [Session -> Seq(Entry)]
      BY <1>1, <2>2 DEF Deliver, TypeOK
    <2>8. TypeOK'
      BY <1>1, <2>6, <2>7 DEF Deliver, TypeOK
    <2> QED BY <1>1, <2>8, IdleKeeps DEF Deliver
  <1>2. CASE FanWriteFails(s)
    <2>1. /\ fanq' \in [Session -> Seq(Entry)]
          /\ fanTask' \in [Session -> {"none", "running", "ended"}]
      BY <1>2 DEF FanWriteFails, TypeOK
    <2>2. TypeOK'
      BY <1>2, <2>1 DEF FanWriteFails, TypeOK
    <2> QED BY <1>2, <2>2, IdleKeeps DEF FanWriteFails
  <1> QED BY <1>1, <1>2 DEF FanStep

(* The steps that give the slots back: a failed route and a teardown. *)
LEMMA ReleaseKeeps ==
  ASSUME NEW s \in Session, IndexInv, AddPeerRouteFails(s) \/ RemovePeer(s)
  PROVE  Book'
  <1> USE DEF IndexInv, Book, sessVars, fanVars, routeVars, statusVars, Goto
  <1>1. CASE AddPeerRouteFails(s)
    <2>1. vip[s][1] \in Vip4
      BY <1>1 DEF AddPeerRouteFails, Announced, Pair
    <2>2. /\ pc' \in [Session -> Phase]
          /\ by_v4' \in [Vip4 -> Session \cup {None}]
          /\ by_v6' \in [Vip6 -> Session \cup {None}]
          /\ Fresh' /\ Announced' /\ IndexSound'
      BY <1>1, RemoveKeeps DEF AddPeerRouteFails
    <2>3. route4' \subseteq Vip4
      BY <1>1, <2>1 DEF AddPeerRouteFails, TypeOK
    <2> QED BY <1>1, <2>2, <2>3 DEF AddPeerRouteFails, TypeOK
  <1>2. CASE RemovePeer(s)
    <2>1. /\ pc' \in [Session -> Phase]
          /\ by_v4' \in [Vip4 -> Session \cup {None}]
          /\ by_v6' \in [Vip6 -> Session \cup {None}]
          /\ Fresh' /\ Announced' /\ IndexSound'
      BY <1>2, RemoveKeeps DEF RemovePeer
    <2> QED BY <1>2, <2>1 DEF RemovePeer, TypeOK
  <1> QED BY <1>1, <1>2

(* The other steps of a teardown, and the spoke going away. *)
LEMMA LeaveKeeps ==
  ASSUME NEW s \in Session, IndexInv,
         \/ SpokeCloses(s) \/ SeeClose(s) \/ JudgeRemoved(s) \/ RemoveFan(s)
         \/ RefreshDown(s) \/ DelPeerRoute(s)
  PROVE  Book'
  <1> USE DEF IndexInv, Book, sessVars, indexVars, fanVars, routeVars, statusVars
  <1>1. CASE SpokeCloses(s)
    <2>1. TypeOK'
      BY <1>1 DEF SpokeCloses, TypeOK
    <2> QED BY <1>1, <2>1, IdleKeeps DEF SpokeCloses
  <1>2. CASE SeeClose(s)
    <2>1. pc' \in [Session -> Phase] /\ Fresh' /\ Announced' /\ IndexSound'
      BY <1>2, MoveKeeps DEF SeeClose, Goto, Phase, Holding
    <2>2. /\ fanq' \in [Session -> Seq(Entry)]
          /\ fanTask' \in [Session -> {"none", "running", "ended"}]
      BY <1>2 DEF SeeClose, TypeOK
    <2> QED BY <1>2, <2>1, <2>2 DEF SeeClose, TypeOK
  <1>3. CASE RemoveFan(s)
    <2>1. PICK q \in {"leftCollect", "refreshDown", "unroute"} : pc' = [pc EXCEPT ![s] = q]
      BY <1>3 DEF RemoveFan, Goto, LeaveTail
    <2>2. q \in Phase /\ pc[s] = "unfan" /\ pc[s] \notin Holding /\ q # "idle" /\ q # "vips"
      BY <1>3 DEF RemoveFan, Phase, Leaving, Holding, Joining
    <2>3. pc' \in [Session -> Phase] /\ Fresh' /\ Announced' /\ IndexSound'
      BY <1>3, <2>1, <2>2, MoveKeeps DEF RemoveFan
    <2>4. fans' \in [Peer -> Session \cup {None}]
      BY <1>3 DEF RemoveFan, DropFan, TypeOK
    <2> QED BY <1>3, <2>3, <2>4 DEF RemoveFan, TypeOK
  <1>4. CASE RefreshDown(s)
    <2>1. CASE RefreshLoad(s, "refreshDown", "storeDown")
      <3>1. pc' \in [Session -> Phase] /\ Fresh' /\ Announced' /\ IndexSound'
        BY <2>1, MoveKeeps DEF RefreshLoad, Goto, Phase, Leaving, Holding, Joining
      <3>2. loaded' \in [Session -> SUBSET Session]
        BY <2>1 DEF RefreshLoad, TypeOK
      <3> QED BY <2>1, <3>1, <3>2 DEF RefreshLoad, TypeOK
    <2>2. CASE RefreshStore(s, "storeDown") /\ Goto(s, "unroute") /\ UNCHANGED fanTask
      <3>1. pc' \in [Session -> Phase] /\ Fresh' /\ Announced' /\ IndexSound'
        BY <2>2, MoveKeeps DEF RefreshStore, Goto, Phase, Leaving, Holding, Joining
      <3>2. status' \subseteq Session
        BY <2>2 DEF RefreshStore, TypeOK
      <3>3. loaded' \in [Session -> SUBSET Session]
        BY <2>2 DEF RefreshStore, TypeOK
      <3> QED BY <2>2, <3>1, <3>2, <3>3 DEF RefreshStore, TypeOK
    <2> QED BY <1>4, <2>1, <2>2 DEF RefreshDown
  <1>5. CASE DelPeerRoute(s)
    <2>1. pc' \in [Session -> Phase] /\ Fresh' /\ Announced' /\ IndexSound'
      BY <1>5, MoveKeeps DEF DelPeerRoute, Goto, Phase, Leaving, Holding, Joining
    <2>2. route4' \subseteq Vip4 /\ route6' \subseteq Vip6
      BY <1>5 DEF DelPeerRoute, Deleted, TypeOK
    <2> QED BY <1>5, <2>1, <2>2 DEF DelPeerRoute, TypeOK
  <1>6. CASE JudgeRemoved(s)
    <2>1. pc' \in [Session -> Phase] /\ Fresh' /\ Announced' /\ IndexSound'
      BY <1>6, MoveKeeps DEF JudgeRemoved, Goto, Phase, Leaving, Holding, Joining
    <2>2. removed' \in [Session -> BOOLEAN]
      BY <1>6 DEF JudgeRemoved, SlotsEmpty, TypeOK
    <2> QED BY <1>6, <2>1, <2>2 DEF JudgeRemoved, TypeOK
  <1> QED BY <1>1, <1>2, <1>3, <1>4, <1>5, <1>6

-----------------------------------------------------------------------------
(* What one step may do to a session                                        *)

(* The way of a hub_run_spoke task through its program points.              *)
Flow(s) ==
    \/ pc'[s] = pc[s]
    \/ pc[s] \in Handshake /\ pc'[s] \in {"hello", "claimed", "done"}
    \/ pc[s] = "claimed" /\ pc'[s] \in {"fan", "done"}
    \/ pc[s] \in Joining /\ pc'[s] \in (Joining \ {"claimed", "fan"}) \cup {"up", "done"}
    \/ pc[s] = "up" /\ pc'[s] = "remove"
    \/ pc[s] = "remove" /\ pc'[s] = "judge"
    \/ pc[s] \in Leaving /\ pc'[s] \in Leaving \cup {"done"}

(* A task's step leaves the other sessions' records alone, and its own      *)
(* addresses and flag once they are known.                                  *)
LEMMA StepFlow ==
  ASSUME IndexInv, NEW s \in Session, SpokeCloses(s) \/ Step(s) \/ FanStep(s)
  PROVE  /\ UNCHANGED <<session_seq, id>>
         /\ \A t \in Session \ {s} :
               pc'[t] = pc[t] /\ vip'[t] = vip[t] /\ hidden'[t] = hidden[t]
         /\ Flow(s)
         /\ pc[s] # "vips" => vip' = vip
         /\ pc[s] # "hello" => hidden' = hidden
         /\ pc'[s] = "claimed" => pc[s] = "claimed" \/ ClaimPeer(s)
  <1> USE DEF IndexInv, TypeOK, Flow, sessVars, Handshake, Joining, Leaving, Goto
  <1>1. CASE SpokeCloses(s) \/ FanStep(s)
    BY <1>1 DEF SpokeCloses, FanStep, Deliver, FanWriteFails
  <1>2. CASE HandshakeFails(s) \/ ExchangeVips(s) \/ ClaimPeer(s) \/ VerifyClaim(s)
    BY <1>2 DEF HandshakeFails, ExchangeVips, ClaimPeer, VerifyClaim
  <1>3. CASE InsertFan(s) \/ AddPeerRoute(s) \/ AddPeerRouteFails(s) \/ AbandonJoin(s)
    BY <1>3 DEF InsertFan, AddPeerRoute, AddPeerRouteFails, AbandonJoin
  <1>4. CASE WriteSnapshot(s) \/ RefreshUp(s) \/ JoinDone(s)
    <2>1. CASE WriteSnapshot(s)
      BY <2>1 DEF WriteSnapshot, JoinTail
    <2>2. CASE RefreshUp(s)
      BY <2>2 DEF RefreshUp, RefreshLoad
    <2>3. CASE JoinDone(s)
      BY <2>3 DEF JoinDone, RefreshStore
    <2> QED BY <1>4, <2>1, <2>2, <2>3
  <1>5. CASE BroadcastJoined(s) \/ BroadcastLeft(s)
    BY <1>5 DEF BroadcastJoined, BroadcastLeft, Collect, SendOne, SendDone, JoinTail, LeaveTail
  <1>6. CASE \/ SeeClose(s) \/ RemovePeer(s) \/ JudgeRemoved(s) \/ RemoveFan(s)
             \/ RefreshDown(s) \/ DelPeerRoute(s)
    BY <1>6 DEF SeeClose, RemovePeer, JudgeRemoved, RemoveFan, RefreshDown, DelPeerRoute, RefreshLoad,
       RefreshStore, LeaveTail
  <1> QED BY <1>1, <1>2, <1>3, <1>4, <1>5, <1>6 DEF Step

(* An accepted connection takes the next number, and touches no other.      *)
LEMMA AcceptFlow ==
  ASSUME IndexInv, NEW p \in Peer, Accept(p)
  PROVE  /\ session_seq + 1 \in Session /\ pc[session_seq + 1] = "idle"
         /\ id'[session_seq + 1] = p /\ pc'[session_seq + 1] \in {"vips", "done"}
         /\ \A t \in Session : t # session_seq + 1 => pc'[t] = pc[t] /\ id'[t] = id[t]
         /\ \A t \in Session : t > session_seq => pc[t] = "idle"
         /\ UNCHANGED <<vip, hidden, by_v4, by_v6, fans, fanq, fanTask, sends, view,
                        removed, route4, route6>>
  <1> USE DEF IndexInv, TypeOK
  <1>1. session_seq + 1 \in Session /\ pc[session_seq + 1] = "idle"
    BY HubConstants DEF Accept, MayDial, Session, Fresh
  <1>2. \A t \in Session : t > session_seq => pc[t] = "idle"
    BY DEF Fresh
  <1>3. /\ id'[session_seq + 1] = p /\ pc'[session_seq + 1] \in {"vips", "done"}
        /\ \A t \in Session : t # session_seq + 1 => pc'[t] = pc[t] /\ id'[t] = id[t]
    BY <1>1 DEF Accept, Goto
  <1> QED BY <1>1, <1>2, <1>3 DEF Accept, indexVars, fanVars, routeVars

(* Only a claim and a removal touch the index.                              *)
LEMMA IndexFrame ==
  ASSUME NEW s \in Session, SpokeCloses(s) \/ Step(s) \/ FanStep(s),
         ~ClaimPeer(s), ~AddPeerRouteFails(s), ~RemovePeer(s)
  PROVE  UNCHANGED <<by_v4, by_v6>>
  <1> USE DEF indexVars
  <1>1. CASE SpokeCloses(s) \/ FanStep(s)
    BY <1>1 DEF SpokeCloses, FanStep, Deliver, FanWriteFails
  <1>2. CASE \/ HandshakeFails(s) \/ ExchangeVips(s) \/ InsertFan(s) \/ AddPeerRoute(s)
             \/ AbandonJoin(s) \/ VerifyClaim(s)
    BY <1>2 DEF HandshakeFails, ExchangeVips, InsertFan, AddPeerRoute, AbandonJoin, VerifyClaim
  <1>3. CASE WriteSnapshot(s) \/ RefreshUp(s) \/ JoinDone(s) \/ RefreshDown(s)
    BY <1>3 DEF WriteSnapshot, RefreshUp, JoinDone, RefreshDown, RefreshLoad, RefreshStore
  <1>4. CASE BroadcastJoined(s) \/ BroadcastLeft(s)
    BY <1>4 DEF BroadcastJoined, BroadcastLeft, Collect, SendOne, SendDone
  <1>5. CASE SeeClose(s) \/ JudgeRemoved(s) \/ RemoveFan(s) \/ DelPeerRoute(s)
    BY <1>5 DEF SeeClose, JudgeRemoved, RemoveFan, DelPeerRoute
  <1> QED BY <1>1, <1>2, <1>3, <1>4, <1>5 DEF Step

(* Program points only move forward: what is past its join stays past it.   *)
LEMMA OrderKeeps ==
  ASSUME IndexInv, Orderly, NEW s \in Session, SpokeCloses(s) \/ Step(s) \/ FanStep(s)
  PROVE  Orderly' /\ \A t \in Session : (pc'[t] = "idle") <=> (pc[t] = "idle")
  <1>1. /\ UNCHANGED <<session_seq, id>>
        /\ \A t \in Session \ {s} : pc'[t] = pc[t]
        /\ Flow(s)
    BY StepFlow
  <1>2. (pc'[s] = "idle") <=> (pc[s] = "idle")
    BY <1>1 DEF Flow, Handshake, Joining, Leaving
  <1>3. pc[s] \notin Handshake \cup Joining => pc'[s] \notin Handshake \cup Joining
    BY <1>1 DEF Flow, Handshake, Joining, Leaving
  <1>4. pc[s] = "done" => pc'[s] = "done"
    BY <1>1 DEF Flow, Handshake, Joining, Leaving
  <1> QED BY <1>1, <1>2, <1>3, <1>4 DEF Orderly

LEMMA AcceptOrder ==
  ASSUME IndexInv, NEW p \in Peer, Accept(p)
  PROVE  Orderly' /\ WholeClaim'
  <1> DEFINE n == session_seq + 1
  <1>1. /\ n \in Session /\ pc[n] = "idle" /\ id'[n] = p /\ pc'[n] \in {"vips", "done"}
        /\ \A t \in Session : t # n => pc'[t] = pc[t] /\ id'[t] = id[t]
        /\ \A t \in Session : t > session_seq => pc[t] = "idle"
        /\ UNCHANGED <<vip, by_v4, by_v6>>
    BY AcceptFlow
  <1>2. \A t \in Session : id[t] = p =>
           pc[t] \notin Handshake \cup Joining /\ (Redial = "after" => pc[t] = "done")
    BY HubConstants DEF Accept, MayDial, Handshake, Joining
  <1>3. Orderly'
    <2> SUFFICES ASSUME NEW s \in Session, NEW t \in Session,
                        t < s, id'[t] = id'[s], pc'[s] # "idle"
                 PROVE  /\ pc'[t] \notin Handshake \cup Joining
                        /\ Redial = "after" => pc'[t] = "done"
      BY DEF Orderly
    <2>1. session_seq \in Nat
      BY DEF IndexInv, TypeOK
    <2>2. s <= n
      BY <1>1, <2>1, SessionFacts
    <2>3. CASE s = n
      BY <1>1, <1>2, <2>3, SessionFacts
    <2>4. CASE s # n
      BY <1>1, <2>1, <2>2, <2>4, SessionFacts DEF IndexInv, Orderly
    <2> QED BY <2>3, <2>4
  <1>4. WholeClaim'
    BY <1>1 DEF IndexInv, WholeClaim
  <1> QED BY <1>3, <1>4

(* No other session of the peer claims between a claim and its reading.     *)
LEMMA WholeKeeps ==
  ASSUME IndexInv, NEW t \in Session, SpokeCloses(t) \/ Step(t) \/ FanStep(t)
  PROVE  WholeClaim'
  <1> USE DEF IndexInv
  <1> SUFFICES ASSUME NEW s \in Session, pc'[s] = "claimed", by_v6'[vip'[s][2]] = s
               PROVE  by_v4'[vip'[s][1]] = s
    BY DEF WholeClaim
  <1>1. /\ UNCHANGED id
        /\ \A u \in Session \ {t} : pc'[u] = pc[u] /\ vip'[u] = vip[u]
        /\ pc[t] # "vips" => vip' = vip
        /\ pc'[t] = "claimed" => pc[t] = "claimed" \/ ClaimPeer(t)
    BY StepFlow
  <1>2. CASE ClaimPeer(t)
    <2>1. /\ pc[t] = "hello" /\ UNCHANGED <<id, vip>>
          /\ vip[t][1] \in Vip4 /\ vip[t][2] \in Vip6
      BY <1>2 DEF ClaimPeer, Announced, Pair
    <2>2. CASE t = s
      <3>1. by_v6[vip[s][2]] # s
        BY <2>1, <2>2, HoldsNothing DEF Holding, Joining
      <3>2. Claimable(s)
        BY <1>2, <2>1, <2>2, <3>1 DEF ClaimPeer, indexVars
      <3> QED BY <1>2, <2>1, <2>2, <3>2 DEF ClaimPeer, TypeOK
    <2>3. CASE t # s
      <3>1. pc[s] = "claimed" /\ vip[s][1] \in Vip4 /\ vip[s][2] \in Vip6
        BY <1>1, <2>3 DEF Announced, Pair
      <3>2. id[t] # id[s]
        <4> SUFFICES ASSUME id[t] = id[s] PROVE FALSE
          OBVIOUS
        <4>1. s < t \/ t < s
          BY <2>3, SessionFacts
        <4> QED BY <4>1, <2>1, <3>1 DEF Orderly, Handshake, Joining
      <3>3. by_v6[vip[s][2]] = s
        BY <1>2, <2>1, <2>3, <3>1 DEF ClaimPeer, indexVars, TypeOK
      <3>4. by_v4[vip[s][1]] = s
        BY <3>1, <3>3 DEF WholeClaim
      <3>5. CASE Claimable(t)
        <4>1. vip[t][1] # vip[s][1]
          BY <3>2, <3>4, <3>5, SessionFacts DEF Claimable, Foreign
        <4> QED BY <1>2, <2>1, <3>1, <3>4, <3>5, <4>1 DEF ClaimPeer, TypeOK
      <3>6. CASE ~Claimable(t)
        BY <1>2, <2>1, <3>4, <3>6 DEF ClaimPeer, indexVars
      <3> QED BY <3>5, <3>6
    <2> QED BY <2>2, <2>3
  <1>3. CASE ~ClaimPeer(t)
    <2>1. pc[s] = "claimed" /\ vip'[s] = vip[s]
      BY <1>1, <1>3
    <2>2. vip[s][1] \in Vip4 /\ vip[s][2] \in Vip6
      BY <2>1 DEF Announced, Pair
    <2>3. CASE AddPeerRouteFails(t) \/ RemovePeer(t)
      <3>1. RemoveIfOwned(t) /\ pc[t] \in {"route", "remove"}
        BY <2>3 DEF AddPeerRouteFails, RemovePeer
      <3>2. by_v6[vip[s][2]] = s
        BY <2>1, <2>2, <3>1, SessionFacts DEF RemoveIfOwned
      <3>3. by_v4[vip[s][1]] = s /\ t # s
        BY <2>1, <3>1, <3>2 DEF WholeClaim
      <3> QED BY <2>1, <2>2, <3>1, <3>3 DEF RemoveIfOwned
    <2>4. CASE ~AddPeerRouteFails(t) /\ ~RemovePeer(t)
      <3>1. UNCHANGED <<by_v4, by_v6>>
        BY <1>3, <2>4, IndexFrame
      <3> QED BY <2>1, <3>1 DEF WholeClaim
    <2> QED BY <2>3, <2>4
  <1> QED BY <1>2, <1>3

-----------------------------------------------------------------------------
(* The index                                                                *)

LEMMA StepIndexInv == IndexInv /\ [Next]_vars => IndexInv'
  <1> SUFFICES ASSUME IndexInv, [Next]_vars PROVE IndexInv'
    OBVIOUS
  <1>1. CASE \E p \in Peer : Accept(p)
    BY <1>1, AcceptKeeps, AcceptOrder DEF Book, IndexInv
  <1>2. ASSUME NEW s \in Session, SpokeCloses(s) \/ Step(s) \/ FanStep(s)
        PROVE  IndexInv'
    <2>1. Book'
      BY <1>2, HandshakeKeeps, ClaimKeeps, VerifyKeeps, JoinKeeps, SnapshotKeeps,
         BroadcastKeeps, ReleaseKeeps, LeaveKeeps, FanKeeps DEF Step
    <2>2. Orderly
      BY DEF IndexInv
    <2>3. Orderly' /\ WholeClaim'
      BY <1>2, <2>2, OrderKeeps, WholeKeeps
    <2> QED BY <2>1, <2>3 DEF Book, IndexInv
  <1>3. CASE UNCHANGED vars
    BY <1>3 DEF vars, sessVars, indexVars, fanVars, routeVars, statusVars,
       IndexInv, TypeOK, Fresh, Announced, IndexSound, Orderly, WholeClaim
  <1> QED BY <1>1, <1>2, <1>3 DEF Next

(* Every reachable state is well typed. *)
THEOREM TypeCorrect == Spec => []TypeOK
  <1>1. Spec => []IndexInv
    BY InitIndexInv, StepIndexInv, PTL DEF Spec
  <1>2. IndexInv => TypeOK
    BY DEF IndexInv
  <1> QED BY <1>1, <1>2, PTL

(* peers_remove_if_owned and try_claim_peer, for any number of reconnects   *)
(* and any interleaving: an index entry belongs to a session between its    *)
(* claim and its removal and sits under that session's own addresses.       *)
THEOREM IndexIsSound == Spec => []IndexSound
  <1>1. Spec => []IndexInv
    BY InitIndexInv, StepIndexInv, PTL DEF Spec
  <1>2. IndexInv => IndexSound
    BY DEF IndexInv
  <1> QED BY <1>1, <1>2, PTL

-----------------------------------------------------------------------------
(* The index and its leases                                                 *)

(* What one step may do to the two families of the index. *)
SameOwner ==
    /\ \A v \in Vip4 : by_v4[v] # None /\ by_v4'[v] # None => id'[by_v4'[v]] = id[by_v4[v]]
    /\ \A v \in Vip6 : by_v6[v] # None /\ by_v6'[v] # None => id'[by_v6'[v]] = id[by_v6[v]]

LEMMA StepSameOwner == IndexInv /\ [Next]_vars => SameOwner
  <1> SUFFICES ASSUME IndexInv, [Next]_vars PROVE SameOwner
    OBVIOUS
  <1> USE DEF IndexInv
  <1>1. CASE UNCHANGED <<id, by_v4, by_v6>>
    BY <1>1 DEF SameOwner
  <1>2. ASSUME NEW p \in Peer, Accept(p) PROVE SameOwner
    <2> DEFINE s == session_seq + 1
    <2>1. s \in Session /\ pc[s] = "idle"
      BY <1>2, HubConstants DEF Accept, MayDial, TypeOK, Session, Fresh
    <2>2. /\ \A v \in Vip4 : by_v4[v] # s
          /\ \A v \in Vip6 : by_v6[v] # s
      BY <2>1, HoldsNothing DEF Holding, Joining
    <2>3. id' = [id EXCEPT ![s] = p] /\ UNCHANGED <<by_v4, by_v6>>
      BY <1>2 DEF Accept, indexVars
    <2> QED BY <2>1, <2>2, <2>3 DEF SameOwner, TypeOK
  <1>3. ASSUME NEW s \in Session, ClaimPeer(s) PROVE SameOwner
    <2>1. CASE ~Claimable(s)
      BY <1>3, <2>1, <1>1 DEF ClaimPeer, indexVars
    <2>2. CASE Claimable(s)
      <3>1. /\ by_v4' = [by_v4 EXCEPT ![vip[s][1]] = s]
            /\ by_v6' = [by_v6 EXCEPT ![vip[s][2]] = s]
            /\ id' = id
        BY <1>3, <2>2 DEF ClaimPeer
      <3> QED BY <3>1, <2>2 DEF SameOwner, Claimable, Foreign, TypeOK
    <2> QED BY <2>1, <2>2
  <1>4. ASSUME NEW s \in Session, RemoveIfOwned(s), id' = id PROVE SameOwner
    BY <1>4 DEF RemoveIfOwned, SameOwner, TypeOK
  <1>5. ASSUME NEW s \in Session, SpokeCloses(s) \/ Step(s) \/ FanStep(s)
        PROVE  SameOwner
    <2>1. CASE ClaimPeer(s)
      BY <2>1, <1>3
    <2>2. CASE AddPeerRouteFails(s) \/ RemovePeer(s)
      BY <2>2, <1>4 DEF AddPeerRouteFails, RemovePeer, sessVars
    <2>3. CASE ~ClaimPeer(s) /\ ~AddPeerRouteFails(s) /\ ~RemovePeer(s)
      <3>1. UNCHANGED <<by_v4, by_v6>>
        BY <1>5, <2>3, IndexFrame
      <3>2. UNCHANGED id
        BY <1>5, StepFlow
      <3> QED BY <3>1, <3>2, <1>1
    <2> QED BY <2>1, <2>2, <2>3
  <1>6. CASE UNCHANGED vars
    BY <1>6, <1>1 DEF vars, sessVars, indexVars
  <1> QED BY <1>2, <1>5, <1>6 DEF Next

(* "Reject duplicate VIP on second join", for every interleaving: no step   *)
(* moves an occupied slot of either family from one EndpointId to another.  *)
THEOREM NoSlotTakeover == Spec => NoTakeover
  <1>1. Spec => []IndexInv
    BY InitIndexInv, StepIndexInv, PTL DEF Spec
  <1>2. IndexInv /\ [Next]_vars => [SameOwner]_vars
    BY StepSameOwner
  <1>3. Spec => [][SameOwner]_vars
    BY <1>1, <1>2, PTL DEF Spec
  <1> QED BY <1>3 DEF NoTakeover, SameOwner

-----------------------------------------------------------------------------
(* Hidden peers                                                             *)

(* From the claim on the hub's flag is the peer's wish, and only visible    *)
(* sessions reach the broadcasts.                                           *)
Telling == {"joinCollect", "joinSend", "leftCollect", "leftSend"}
Flagged ==
    \A s \in Session :
        /\ pc[s] \notin {"idle", "done"} \cup Handshake => (hidden[s] <=> id[s] \in HiddenPeer)
        /\ pc[s] \in Telling => ~hidden[s]

HideInv == IndexInv /\ Flagged /\ HiddenUnseen

LEMMA InitHideInv == Init => HideInv
  <1> SUFFICES ASSUME Init PROVE HideInv
    OBVIOUS
  <1>1. Flagged
    BY DEF Init, Flagged, Telling
  <1>2. HiddenUnseen
    BY HubConstants DEF Init, HiddenUnseen
  <1> QED BY <1>1, <1>2, InitIndexInv DEF HideInv

(* The flag is read from the HELLO once and followed to the end.            *)
LEMMA FlagKeeps ==
  ASSUME ~HelloLost, IndexInv, Flagged, NEW s \in Session,
         SpokeCloses(s) \/ Step(s) \/ FanStep(s)
  PROVE  Flagged'
  <1> USE DEF IndexInv, TypeOK, Flagged, Telling, Handshake, sessVars, Goto
  <1>1. CASE SpokeCloses(s) \/ FanStep(s)
    BY <1>1 DEF SpokeCloses, FanStep, Deliver, FanWriteFails
  <1>2. CASE HandshakeFails(s) \/ ExchangeVips(s)
    BY <1>2 DEF HandshakeFails, ExchangeVips
  <1>3. CASE ClaimPeer(s) \/ VerifyClaim(s)
    BY <1>3 DEF ClaimPeer, VerifyClaim
  <1>4. CASE InsertFan(s) \/ AddPeerRoute(s)
    BY <1>4 DEF InsertFan, AddPeerRoute
  <1>8. CASE AddPeerRouteFails(s) \/ AbandonJoin(s)
    BY <1>8 DEF AddPeerRouteFails, AbandonJoin
  <1>5. CASE WriteSnapshot(s) \/ RefreshUp(s) \/ JoinDone(s)
    BY <1>5 DEF WriteSnapshot, RefreshUp, JoinDone, RefreshLoad, RefreshStore, JoinTail
  <1>6. CASE BroadcastJoined(s) \/ BroadcastLeft(s)
    BY <1>6 DEF BroadcastJoined, BroadcastLeft, Collect, SendOne, SendDone, JoinTail, LeaveTail
  <1>7. CASE \/ SeeClose(s) \/ RemovePeer(s) \/ JudgeRemoved(s) \/ RemoveFan(s)
             \/ RefreshDown(s) \/ DelPeerRoute(s)
    BY <1>7 DEF SeeClose, RemovePeer, JudgeRemoved, RemoveFan, RefreshDown, DelPeerRoute, RefreshLoad,
       RefreshStore, LeaveTail
  <1> QED BY <1>1, <1>2, <1>3, <1>4, <1>5, <1>6, <1>7, <1>8 DEF Step

(* Appending a visible peer's entry, and taking the first entry off. *)
LEMMA VeiledQueue ==
  ASSUME NEW q \in Seq(Entry), NEW m \in Entry, \A i \in DOMAIN q : q[i].id \notin HiddenPeer
  PROVE  /\ m.id \notin HiddenPeer =>
              \A i \in DOMAIN Append(q, m) : Append(q, m)[i].id \notin HiddenPeer
         /\ q # <<>> => /\ Head(q).id \notin HiddenPeer
                        /\ \A i \in DOMAIN Tail(q) : Tail(q)[i].id \notin HiddenPeer
  OBVIOUS

LEMMA UnseenKeeps ==
  ASSUME HideInv, NEW s \in Session, SpokeCloses(s) \/ Step(s) \/ FanStep(s)
  PROVE  HiddenUnseen'
  <1> USE DEF HideInv, IndexInv, fanVars
  <1>1. CASE UNCHANGED <<fanq, view>>
    BY <1>1 DEF HiddenUnseen
  <1>2. ASSUME fanq' = [fanq EXCEPT ![s] = <<>>], view' = view
        PROVE  HiddenUnseen'
    BY <1>2 DEF HiddenUnseen, TypeOK
  <1>3. CASE WriteSnapshot(s)
    <2>1. PICK pick \in [Peer -> Session \cup {None}] :
             /\ \A p \in Peer : IF Visible(s, p) = {} THEN pick[p] = None
                                ELSE pick[p] \in Visible(s, p)
             /\ view' = [view EXCEPT ![s] =
                   [p \in Peer |-> IF pick[p] = None THEN NoVip ELSE vip[pick[p]]]]
      BY <1>3 DEF WriteSnapshot
    <2>2. ASSUME NEW p \in HiddenPeer PROVE Visible(s, p) = {}
      <3>1. ASSUME NEW t \in Visible(s, p) PROVE FALSE
        <4>1. t \in Session /\ id[t] = p /\ ~hidden[t] /\ \E v \in Vip4 : by_v4[v] = t
          BY <3>1 DEF Visible
        <4>2. pc[t] \in Holding
          BY <4>1, SessionFacts DEF IndexSound
        <4>3. pc[t] \notin {"idle", "done"} \cup Handshake
          BY <4>2 DEF Holding, Joining, Handshake
        <4> QED BY <4>1, <4>3, <2>2 DEF Flagged
      <3> QED BY <3>1
    <2>3. ASSUME NEW p \in HiddenPeer PROVE view'[s][p] = NoVip
      BY <2>1, <2>2, <2>3, HubConstants DEF TypeOK
    <2>4. fanq' = fanq /\ \A t \in Session \ {s} : view'[t] = view[t]
      BY <1>3, <2>1 DEF WriteSnapshot, TypeOK
    <2> QED BY <2>3, <2>4 DEF HiddenUnseen
  <1>4. ASSUME NEW t \in Session, NEW k \in {"joined", "left"},
               NEW at \in {"joinSend", "leftSend"}, SendOne(s, t, at, k)
        PROVE  HiddenUnseen'
    <2> DEFINE m == [kind |-> k, id |-> id[s], vip |-> vip[s]]
    <2>1. m \in Entry /\ m.id \notin HiddenPeer
      BY <1>4 DEF SendOne, Announced, Entry, Flagged, Telling, Handshake
    <2>2. fanq' = fanq \/ fanq' = [fanq EXCEPT ![t] = Append(fanq[t], m)]
      BY <1>4 DEF SendOne
    <2>3. fanq[t] \in Seq(Entry)
      BY DEF TypeOK
    <2>4. \A i \in DOMAIN Append(fanq[t], m) : Append(fanq[t], m)[i].id \notin HiddenPeer
      BY <2>1, <2>3, VeiledQueue DEF HiddenUnseen
    <2> QED BY <1>4, <2>2, <2>4 DEF SendOne, HiddenUnseen, TypeOK
  <1>5. CASE Deliver(s)
    <2> DEFINE m == Head(fanq[s])
    <2>1. fanq[s] \in Seq(Entry) /\ fanq[s] # <<>> /\ m \in Entry
      BY <1>5 DEF Deliver, TypeOK
    <2>2. m.id \notin HiddenPeer
          /\ \A i \in DOMAIN Tail(fanq[s]) : Tail(fanq[s])[i].id \notin HiddenPeer
      BY <2>1, VeiledQueue DEF HiddenUnseen
    <2>3. ASSUME NEW p \in HiddenPeer
          PROVE  Apply(view[s], id[s], m)[p] = view[s][p]
      <3>1. view[s] \in [Peer -> Pair \cup {NoVip}] /\ p \in Peer /\ p # m.id
        BY <2>2, HubConstants DEF TypeOK
      <3> QED BY <3>1 DEF Apply
    <2> QED BY <1>5, <2>2, <2>3 DEF Deliver, HiddenUnseen, TypeOK
  <1>6. CASE FanWriteFails(s) \/ AbandonJoin(s) \/ SeeClose(s)
    BY <1>6, <1>2 DEF FanWriteFails, AbandonJoin, SeeClose
  <1>7. CASE BroadcastJoined(s) \/ BroadcastLeft(s)
    BY <1>7, <1>1, <1>4 DEF BroadcastJoined, BroadcastLeft, Collect, SendDone
  <1>8. CASE \/ SpokeCloses(s) \/ HandshakeFails(s) \/ ExchangeVips(s) \/ ClaimPeer(s)
             \/ VerifyClaim(s) \/ InsertFan(s) \/ AddPeerRoute(s) \/ AddPeerRouteFails(s)
             \/ RemovePeer(s) \/ JudgeRemoved(s) \/ RemoveFan(s) \/ DelPeerRoute(s)
    BY <1>8, <1>1 DEF SpokeCloses, HandshakeFails, ExchangeVips, ClaimPeer, VerifyClaim,
       InsertFan, AddPeerRoute, AddPeerRouteFails, RemovePeer, JudgeRemoved, RemoveFan,
       DelPeerRoute
  <1>9. CASE RefreshUp(s) \/ JoinDone(s) \/ RefreshDown(s)
    BY <1>9, <1>1 DEF RefreshUp, JoinDone, RefreshDown, RefreshLoad, RefreshStore
  <1> QED BY <1>3, <1>5, <1>6, <1>7, <1>8, <1>9 DEF Step, FanStep

LEMMA StepHideInv == ~HelloLost /\ HideInv /\ [Next]_vars => HideInv'
  <1> SUFFICES ASSUME ~HelloLost, HideInv, [Next]_vars PROVE HideInv'
    OBVIOUS
  <1>1. IndexInv /\ IndexInv'
    BY StepIndexInv DEF HideInv
  <1>2. ASSUME NEW p \in Peer, Accept(p) PROVE HideInv'
    <2>1. Flagged'
      BY <1>1, <1>2, AcceptFlow DEF HideInv, Flagged, Telling, Handshake
    <2>2. HiddenUnseen'
      BY <1>1, <1>2, AcceptFlow DEF HideInv, HiddenUnseen
    <2> QED BY <1>1, <2>1, <2>2 DEF HideInv
  <1>3. ASSUME NEW s \in Session, SpokeCloses(s) \/ Step(s) \/ FanStep(s) PROVE HideInv'
    BY <1>1, <1>3, FlagKeeps, UnseenKeeps DEF HideInv
  <1>4. CASE UNCHANGED vars
    BY <1>1, <1>4 DEF vars, sessVars, fanVars, HideInv, Flagged, HiddenUnseen
  <1> QED BY <1>2, <1>3, <1>4 DEF Next

(* --hidden, for any number of peers and sessions and every interleaving of *)
(* joins, teardowns, reconnects and route failures: while every HELLO is    *)
(* read within its 800 ms, no control stream is told of a hidden peer.      *)
THEOREM HiddenStaysUnseen == ~HelloLost => (Spec => []HiddenUnseen)
  <1> SUFFICES ASSUME ~HelloLost PROVE Spec => []HiddenUnseen
    OBVIOUS
  <1>1. Spec => []HideInv
    <2>1. HideInv /\ [Next]_vars => HideInv'
      BY StepHideInv
    <2> QED BY InitHideInv, <2>1, PTL DEF Spec
  <1>2. HideInv => HiddenUnseen
    BY DEF HideInv
  <1> QED BY <1>1, <1>2, PTL

-----------------------------------------------------------------------------
(* The newest session keeps its slots                                       *)

(* A peer's usable announcements differ in both families or in none: it may *)
(* come back under another pair, never with one address changed.            *)
Paired ==
    \A p \in Peer : \A a, b \in Announce[p] :
        Usable(a) /\ Usable(b) => (a[1] = b[1] <=> a[2] = b[2])

(* Enough for the newest session of a peer to be the one that claimed last. *)
LateRedial == Redial = "after" \/ Paired

Bound ==
    \A s \in Session : pc[s] \notin {"idle", "vips", "done"} =>
        vip[s] \in Announce[id[s]] /\ Usable(vip[s])

(* Both families change hands together. *)
PairedSlots ==
    /\ \A v \in Vip4 : by_v4[v] # None => by_v6[vip[by_v4[v]][2]] = by_v4[v]
    /\ \A v \in Vip6 : by_v6[v] # None => by_v4[vip[by_v6[v]][1]] = by_v6[v]

Latest(s) == \A t \in Session : id[t] = id[s] /\ pc[t] # "idle" => t <= s

(* A session whose claim has been granted, or will be when it is read back. *)
Claims(s) == pc[s] \in Holding /\ (pc[s] = "claimed" => ClaimHeld(s))
LatestHolds ==
    \A s \in Session : Claims(s) /\ Latest(s) =>
        by_v4[vip[s][1]] = s /\ by_v6[vip[s][2]] = s

SlotInv == IndexInv /\ Bound /\ PairedSlots /\ LatestHolds

LEMMA InitSlotInv == Init => SlotInv
  <1> SUFFICES ASSUME Init PROVE SlotInv
    OBVIOUS
  <1>1. Bound /\ PairedSlots /\ LatestHolds
    BY DEF Init, Bound, PairedSlots, LatestHolds, Claims, Holding, Joining
  <1> QED BY <1>1, InitIndexInv DEF SlotInv

LEMMA BoundKeeps ==
  ASSUME IndexInv, Bound, NEW s \in Session, SpokeCloses(s) \/ Step(s) \/ FanStep(s)
  PROVE  Bound'
  <1>1. /\ UNCHANGED id
        /\ \A t \in Session \ {s} : pc'[t] = pc[t] /\ vip'[t] = vip[t]
        /\ Flow(s)
        /\ pc[s] # "vips" => vip' = vip
    BY StepFlow
  <1>2. CASE pc[s] = "vips"
    <2>1. pc'[s] \in {"idle", "vips", "done"} \/ (vip'[s] \in Announce[id[s]] /\ Usable(vip'[s]))
      <3>1. CASE SpokeCloses(s) \/ FanStep(s)
        BY <3>1, <1>2 DEF SpokeCloses, FanStep, Deliver, FanWriteFails
      <3>2. CASE ExchangeVips(s)
        BY <3>2 DEF ExchangeVips, Goto, IndexInv, TypeOK
      <3>3. CASE HandshakeFails(s)
        BY <3>3 DEF HandshakeFails, Goto, IndexInv, TypeOK
      <3>4. CASE Step(s) /\ ~ExchangeVips(s) /\ ~HandshakeFails(s)
        BY <3>4, <1>2 DEF Step, ClaimPeer, VerifyClaim, InsertFan, AddPeerRoute, AddPeerRouteFails,
           AbandonJoin, WriteSnapshot, BroadcastJoined, BroadcastLeft, Collect, SendOne,
           SendDone, RefreshUp, RefreshLoad, JoinDone, RefreshStore, SeeClose, RemovePeer,
           JudgeRemoved, RemoveFan, RefreshDown, DelPeerRoute
      <3> QED BY <3>1, <3>2, <3>3, <3>4
    <2> QED BY <1>1, <2>1 DEF Bound
  <1>3. CASE pc[s] # "vips"
    <2>1. pc[s] \in {"idle", "done"} => pc'[s] = pc[s]
      BY <1>1 DEF Flow, Handshake, Joining, Leaving
    <2> QED BY <1>1, <1>3, <2>1 DEF Bound
  <1> QED BY <1>2, <1>3

(* The two indexes, as leases, after a step that leaves them alone.         *)
LEMMA LeaseFrame ==
  ASSUME UNCHANGED <<by_v4, by_v6>>, IndexInv,
         \A s \in Session : pc[s] \in Holding => id'[s] = id[s]
  PROVE  Leased4' = Leased4 /\ Leased6' = Leased6
  <1>1. \A v \in Vip4 : by_v4[v] # None => id'[by_v4[v]] = id[by_v4[v]]
    BY DEF IndexInv, IndexSound, TypeOK
  <1>2. \A v \in Vip6 : by_v6[v] # None => id'[by_v6[v]] = id[by_v6[v]]
    BY DEF IndexInv, IndexSound, TypeOK
  <1>3. Leased4' = Leased4
    BY <1>1 DEF Leased4
  <1>4. Leased6' = Leased6
    BY <1>2 DEF Leased6
  <1> QED BY <1>3, <1>4

(* A claim that goes through takes a lease on both addresses.               *)
LEMMA ClaimLeases ==
  ASSUME IndexInv, Bound, NEW s \in Session, ClaimPeer(s)
  PROVE  Leases!Next \/ UNCHANGED Leases!vars
  <1> USE DEF IndexInv
  <1>1. /\ pc[s] = "hello" /\ UNCHANGED id /\ id[s] \in Peer
        /\ vip[s] \in Pair /\ vip[s][1] \in Vip4 /\ vip[s][2] \in Vip6
    BY DEF ClaimPeer, Announced, Pair
  <1>2. Usable(vip[s])
    BY <1>1 DEF Bound
  <1>3. CASE ~Claimable(s)
    <2>1. UNCHANGED <<by_v4, by_v6>>
      BY <1>3 DEF ClaimPeer, indexVars
    <2> QED BY <1>1, <2>1, LeaseFrame DEF Leases!vars
  <1>4. CASE Claimable(s)
    <2>1. /\ by_v4' = [by_v4 EXCEPT ![vip[s][1]] = s]
          /\ by_v6' = [by_v6 EXCEPT ![vip[s][2]] = s]
      BY <1>4 DEF ClaimPeer
    <2>2. /\ Leases!FreeFor(id[s], vip[s][1], Leased4)
          /\ Leases!FreeFor(id[s], vip[s][2], Leased6)
      BY <1>1, <1>4 DEF Leases!FreeFor, Leased4, Leased6, Claimable, Foreign
    <2>3. Leased4' = Leased4 \cup {<<vip[s][1], id[s]>>}
      <3>1. \A v \in Vip4 : by_v4'[v] = IF v = vip[s][1] THEN s ELSE by_v4[v]
        BY <1>1, <2>1 DEF TypeOK
      <3>2. by_v4[vip[s][1]] # None => id[by_v4[vip[s][1]]] = id[s]
        BY <1>4 DEF Claimable, Foreign
      <3> QED BY <1>1, <3>1, <3>2, SessionFacts DEF Leased4
    <2>4. Leased6' = Leased6 \cup {<<vip[s][2], id[s]>>}
      <3>1. \A v \in Vip6 : by_v6'[v] = IF v = vip[s][2] THEN s ELSE by_v6[v]
        BY <1>1, <2>1 DEF TypeOK
      <3>2. by_v6[vip[s][2]] # None => id[by_v6[vip[s][2]]] = id[s]
        BY <1>4 DEF Claimable, Foreign
      <3> QED BY <1>1, <3>1, <3>2, SessionFacts DEF Leased6
    <2>5. Leases!Claim(id[s], vip[s][1], vip[s][2])
      BY <2>2, <2>3, <2>4 DEF Leases!Claim
    <2>6. vip[s][1] \in Vip4 \ ({OwnV4} \cup OffMesh) /\ vip[s][2] \in Vip6 \ ({OwnV6} \cup OffMesh)
      BY <1>1, <1>2 DEF Usable
    <2> QED BY <1>1, <2>5, <2>6 DEF Leases!Next
  <1> QED BY <1>3, <1>4

(* A removal gives up leases of the session's own peer.                     *)
LEMMA RemoveReleases ==
  ASSUME IndexInv, NEW s \in Session, RemoveIfOwned(s), UNCHANGED id, id[s] \in Peer
  PROVE  Leases!Next
  <1>1. \A v \in Vip4 : by_v4'[v] = by_v4[v] \/ (by_v4[v] = s /\ by_v4'[v] = None)
    BY DEF RemoveIfOwned
  <1>2. \A v \in Vip6 : by_v6'[v] = by_v6[v] \/ (by_v6[v] = s /\ by_v6'[v] = None)
    BY DEF RemoveIfOwned
  <1>3. Leases!GivesUp(id[s], Leased4, Leased4')
    <2>1. Leased4' \subseteq Leased4
      BY <1>1 DEF Leased4
    <2>2. ASSUME NEW l \in Leased4, l \notin Leased4' PROVE l = <<l[1], id[s]>>
      <3>1. PICK v \in Vip4 : by_v4[v] # None /\ l = <<v, id[by_v4[v]]>>
        BY <2>2 DEF Leased4
      <3>2. by_v4[v] = s
        BY <1>1, <2>2, <3>1 DEF Leased4
      <3> QED BY <3>1, <3>2
    <2> QED BY <2>1, <2>2 DEF Leases!GivesUp
  <1>4. Leases!GivesUp(id[s], Leased6, Leased6')
    <2>1. Leased6' \subseteq Leased6
      BY <1>2 DEF Leased6
    <2>2. ASSUME NEW l \in Leased6, l \notin Leased6' PROVE l = <<l[1], id[s]>>
      <3>1. PICK v \in Vip6 : by_v6[v] # None /\ l = <<v, id[by_v6[v]]>>
        BY <2>2 DEF Leased6
      <3>2. by_v6[v] = s
        BY <1>2, <2>2, <3>1 DEF Leased6
      <3> QED BY <3>1, <3>2
    <2> QED BY <2>1, <2>2 DEF Leases!GivesUp
  <1> QED BY <1>3, <1>4 DEF Leases!Next, Leases!Release

(* try_claim_peer and peers_remove_if_owned implement AddressLeases, with   *)
(* and without the faults, whether spokes redial after an old session's     *)
(* task returned or as soon as that was established.                        *)
THEOREM IndexKeepsLeases == Spec => IndexLeases
  <1> DEFINE I == IndexInv /\ Bound
  <1>1. Init => I /\ Leases!Init
    <2> SUFFICES ASSUME Init PROVE I /\ Leases!Init
      OBVIOUS
    <2>1. Bound
      BY DEF Init, Bound
    <2>2. Leases!Init
      BY DEF Init, Leases!Init, Leased4, Leased6
    <2> QED BY <2>1, <2>2, InitIndexInv
  <1>2. I /\ [Next]_vars => I' /\ [Leases!Next]_(Leases!vars)
    <2> SUFFICES ASSUME IndexInv, Bound, [Next]_vars
                 PROVE  IndexInv' /\ Bound' /\ (Leases!Next \/ UNCHANGED Leases!vars)
      OBVIOUS
    <2>1. IndexInv'
      BY StepIndexInv
    <2>2. ASSUME NEW p \in Peer, Accept(p) PROVE Bound' /\ UNCHANGED Leases!vars
      <3> DEFINE n == session_seq + 1
      <3>1. /\ n \in Session /\ pc[n] = "idle" /\ pc'[n] \in {"vips", "done"}
            /\ \A t \in Session : t # n => pc'[t] = pc[t] /\ id'[t] = id[t]
            /\ UNCHANGED <<vip, by_v4, by_v6>>
        BY <2>2, AcceptFlow
      <3>2. Bound'
        BY <3>1 DEF Bound
      <3>3. \A t \in Session : pc[t] \in Holding => id'[t] = id[t]
        BY <3>1 DEF Holding, Joining
      <3>4. Leased4' = Leased4 /\ Leased6' = Leased6
        BY <3>1, <3>3, LeaseFrame
      <3> QED BY <3>2, <3>4 DEF Leases!vars
    <2>3. ASSUME NEW s \in Session, SpokeCloses(s) \/ Step(s) \/ FanStep(s)
          PROVE  Bound' /\ (Leases!Next \/ UNCHANGED Leases!vars)
      <3>1. Bound' /\ UNCHANGED id
        BY <2>3, BoundKeeps, StepFlow
      <3>2. CASE ClaimPeer(s)
        BY <3>1, <3>2, ClaimLeases
      <3>3. CASE AddPeerRouteFails(s) \/ RemovePeer(s)
        <4>1. RemoveIfOwned(s) /\ id[s] \in Peer
          BY <3>3 DEF AddPeerRouteFails, RemovePeer, IndexInv, Announced
        <4> QED BY <3>1, <4>1, RemoveReleases
      <3>4. CASE ~ClaimPeer(s) /\ ~AddPeerRouteFails(s) /\ ~RemovePeer(s)
        <4>1. UNCHANGED <<by_v4, by_v6>>
          BY <2>3, <3>4, IndexFrame
        <4>2. Leased4' = Leased4 /\ Leased6' = Leased6
          BY <3>1, <4>1, LeaseFrame
        <4> QED BY <3>1, <4>2 DEF Leases!vars
      <3> QED BY <3>2, <3>3, <3>4, <3>1
    <2>4. CASE UNCHANGED vars
      <3>1. UNCHANGED <<id, vip, pc, by_v4, by_v6>>
        BY <2>4 DEF vars, sessVars, indexVars
      <3>2. Bound'
        BY <3>1 DEF Bound
      <3>3. Leased4' = Leased4 /\ Leased6' = Leased6
        BY <3>1, LeaseFrame
      <3> QED BY <2>1, <3>2, <3>3 DEF Leases!vars
    <2> QED BY <2>1, <2>2, <2>3, <2>4 DEF Next
  <1> HIDE DEF I
  <1> QED BY <1>1, <1>2, PTL DEF Spec, IndexLeases, Leases!Spec

(* A session that reaches its claim while another of the same peer still    *)
(* holds slots is the newer one.                                            *)
LEMMA ClaimTwin ==
  ASSUME Orderly, NEW s \in Session, NEW t \in Session, pc[s] = "hello",
         pc[t] \in Holding, id[t] = id[s]
  PROVE  Redial # "after" /\ t < s
  <1>1. t # s /\ pc[t] \notin {"idle", "done"}
    BY DEF Holding, Joining
  <1>2. ~(s < t)
    BY <1>1 DEF Orderly, Handshake
  <1>3. t < s
    BY <1>1, <1>2, SessionFacts
  <1> QED BY <1>1, <1>3 DEF Orderly

(* Under LateRedial a claim that reads success did insert both entries.     *)
LEMMA ClaimRefused ==
  ASSUME LateRedial, SlotInv, NEW s \in Session, pc[s] = "hello", ~Claimable(s)
  PROVE  ~ClaimHeld(s)
  <1> USE DEF SlotInv, IndexInv
  <1> SUFFICES ASSUME ClaimHeld(s) PROVE FALSE
    OBVIOUS
  <1>1. vip[s][1] \in Vip4 /\ vip[s][2] \in Vip6 /\ id[s] \in Peer
        /\ vip[s] \in Announce[id[s]] /\ Usable(vip[s])
    BY DEF Announced, Bound, Pair
  <1> DEFINE t == by_v4[vip[s][1]]
  <1>2. t \in Session /\ t # None /\ id[t] = id[s] /\ pc[t] \in Holding /\ vip[t][1] = vip[s][1]
    BY <1>1 DEF ClaimHeld, IndexSound, TypeOK
  <1>3. Redial # "after"
    BY <1>2, ClaimTwin
  <1>4. vip[t] \in Announce[id[s]] /\ Usable(vip[t])
    BY <1>2 DEF Bound, Holding, Joining
  <1>5. vip[t][2] = vip[s][2]
    BY <1>1, <1>2, <1>3, <1>4 DEF LateRedial, Paired
  <1>6. by_v6[vip[s][2]] = t
    BY <1>1, <1>2, <1>5 DEF PairedSlots
  <1> QED BY <1>2, <1>6 DEF Claimable, Foreign

LEMMA ClaimKeepsSlots ==
  ASSUME LateRedial, SlotInv, NEW s \in Session, ClaimPeer(s)
  PROVE  PairedSlots' /\ LatestHolds'
  <1> USE DEF SlotInv, IndexInv
  <1>a. TypeOK'
    BY ClaimKeeps DEF Book
  <1>1. /\ pc[s] = "hello" /\ UNCHANGED <<id, vip>> /\ s # None
        /\ pc' \in [Session -> Phase] /\ \A t \in Session \ {s} : pc'[t] = pc[t]
    BY <1>a, SessionFacts DEF ClaimPeer, Goto, TypeOK
  <1>2. vip[s][1] \in Vip4 /\ vip[s][2] \in Vip6 /\ id[s] \in Peer
        /\ vip[s] \in Announce[id[s]] /\ Usable(vip[s])
    BY <1>1 DEF Announced, Bound, Pair
  <1>3. CASE ~Claimable(s)
    <2>1. UNCHANGED <<by_v4, by_v6>>
      BY <1>3 DEF ClaimPeer, indexVars
    <2>2. ~ClaimHeld(s)
      BY <1>1, <1>3, ClaimRefused
    <2>3. pc'[s] = "claimed" /\ \A t \in Session : ClaimHeld(t)' <=> ClaimHeld(t)
      BY <1>1, <2>1 DEF ClaimPeer, Goto, TypeOK, ClaimHeld
    <2>4. LatestHolds'
      <3> SUFFICES ASSUME NEW t \in Session, Claims(t)', Latest(t)'
                   PROVE  by_v4'[vip'[t][1]] = t /\ by_v6'[vip'[t][2]] = t
        BY DEF LatestHolds
      <3>1. t # s /\ Claims(t) /\ pc[t] \in Holding
        BY <1>1, <2>2, <2>3 DEF Claims
      <3>2. CASE id[s] # id[t]
        <4>1. Latest(t)
          BY <1>1, <3>2 DEF Latest
        <4> QED BY <1>1, <2>1, <3>1, <4>1 DEF LatestHolds
      <3>3. CASE id[s] = id[t]
        <4>1. s <= t
          BY <1>1, <2>3, <3>3 DEF Latest
        <4>2. t < s
          BY <1>1, <3>1, <3>3, ClaimTwin
        <4> QED BY <4>1, <4>2, SessionFacts
      <3> QED BY <3>2, <3>3
    <2> QED BY <1>1, <2>1, <2>4 DEF PairedSlots
  <1>4. CASE Claimable(s)
    <2>1. /\ by_v4' = [by_v4 EXCEPT ![vip[s][1]] = s]
          /\ by_v6' = [by_v6 EXCEPT ![vip[s][2]] = s]
      BY <1>4 DEF ClaimPeer
    <2>2. by_v4'[vip[s][1]] = s /\ by_v6'[vip[s][2]] = s
      BY <1>2, <2>1 DEF TypeOK
    <2>3. ASSUME NEW t \in Session, pc[t] \in Holding, id[t] = id[s]
          PROVE  (vip[t][1] = vip[s][1] <=> vip[t][2] = vip[s][2]) /\ t < s
      <3>1. Redial # "after" /\ t < s
        BY <1>1, <2>3, ClaimTwin
      <3>2. vip[t] \in Announce[id[s]] /\ Usable(vip[t])
        BY <2>3 DEF Bound, Holding, Joining
      <3> QED BY <3>1, <3>2, <1>2 DEF LateRedial, Paired
    <2>4. ASSUME NEW v \in Vip4, by_v4'[v] # None
          PROVE  by_v6'[vip[by_v4'[v]][2]] = by_v4'[v]
      <3>1. CASE v = vip[s][1]
        BY <3>1, <2>2
      <3>2. CASE v # vip[s][1]
        <4> DEFINE t == by_v4[v]
        <4>1. by_v4'[v] = t /\ t \in Session /\ t # None
          BY <3>2, <2>1, <2>4 DEF TypeOK
        <4>2. pc[t] \in Holding /\ vip[t][1] = v /\ by_v6[vip[t][2]] = t
          BY <4>1 DEF IndexSound, PairedSlots
        <4>3. vip[t][2] \in Vip6
          BY <4>1, <4>2 DEF Announced, Pair, Holding, Joining
        <4>4. vip[t][2] # vip[s][2]
          <5> SUFFICES ASSUME vip[t][2] = vip[s][2] PROVE FALSE
            OBVIOUS
          <5>1. id[t] = id[s]
            BY <1>4, <4>1, <4>2 DEF Claimable, Foreign
          <5> QED BY <4>1, <4>2, <5>1, <2>3, <3>2
        <4> QED BY <2>1, <4>1, <4>2, <4>3, <4>4 DEF TypeOK
      <3> QED BY <3>1, <3>2
    <2>5. ASSUME NEW v \in Vip6, by_v6'[v] # None
          PROVE  by_v4'[vip[by_v6'[v]][1]] = by_v6'[v]
      <3>1. CASE v = vip[s][2]
        BY <3>1, <2>2
      <3>2. CASE v # vip[s][2]
        <4> DEFINE t == by_v6[v]
        <4>1. by_v6'[v] = t /\ t \in Session /\ t # None
          BY <3>2, <2>1, <2>5 DEF TypeOK
        <4>2. pc[t] \in Holding /\ vip[t][2] = v /\ by_v4[vip[t][1]] = t
          BY <4>1 DEF IndexSound, PairedSlots
        <4>3. vip[t][1] \in Vip4
          BY <4>1, <4>2 DEF Announced, Pair, Holding, Joining
        <4>4. vip[t][1] # vip[s][1]
          <5> SUFFICES ASSUME vip[t][1] = vip[s][1] PROVE FALSE
            OBVIOUS
          <5>1. id[t] = id[s]
            BY <1>4, <4>1, <4>2 DEF Claimable, Foreign
          <5> QED BY <4>1, <4>2, <5>1, <2>3, <3>2
        <4> QED BY <2>1, <4>1, <4>2, <4>3, <4>4 DEF TypeOK
      <3> QED BY <3>1, <3>2
    <2>6. PairedSlots'
      BY <2>4, <2>5, <1>1 DEF PairedSlots
    <2>7. LatestHolds'
      <3> SUFFICES ASSUME NEW t \in Session, Claims(t)', Latest(t)'
                   PROVE  by_v4'[vip'[t][1]] = t /\ by_v6'[vip'[t][2]] = t
        BY DEF LatestHolds
      <3>0. pc'[s] = "claimed"
        BY DEF ClaimPeer, Goto, TypeOK
      <3>1. CASE t = s
        BY <3>1, <1>1, <2>2
      <3>2. CASE t # s
        <4>1. pc'[t] = pc[t] /\ pc[t] \in Holding
          BY <1>1, <3>2 DEF Claims
        <4>2. id[t] # id[s]
          <5> SUFFICES ASSUME id[t] = id[s] PROVE FALSE
            OBVIOUS
          <5>1. s <= t
            BY <1>1, <3>0 DEF Latest
          <5> QED BY <4>1, <5>1, <2>3, SessionFacts
        <4>3. Latest(t)
          BY <1>1, <4>2, <3>2 DEF Latest
        <4>6. Claims(t)
          <5>1. vip[t][1] \in Vip4 /\ (by_v4'[vip[t][1]] = by_v4[vip[t][1]] \/ by_v4'[vip[t][1]] = s)
            BY <2>1, <4>1 DEF Announced, Pair, Holding, Joining, TypeOK
          <5>2. ClaimHeld(t)' => ClaimHeld(t)
            BY <1>1, <4>2, <5>1 DEF ClaimHeld
          <5> QED BY <4>1, <5>2 DEF Claims
        <4>4. by_v4[vip[t][1]] = t /\ by_v6[vip[t][2]] = t
          BY <4>6, <4>3 DEF LatestHolds
        <4>5. vip[t][1] \in Vip4 /\ vip[t][2] \in Vip6 /\ t # None
          BY <4>1, SessionFacts DEF Announced, Pair, Holding, Joining
        <4>7. vip[t][1] # vip[s][1] /\ vip[t][2] # vip[s][2]
          BY <1>4, <4>2, <4>4, <4>5 DEF Claimable, Foreign
        <4> QED BY <1>1, <2>1, <4>4, <4>5, <4>7 DEF TypeOK
      <3> QED BY <3>1, <3>2
    <2> QED BY <2>6, <2>7
  <1> QED BY <1>3, <1>4

LEMMA RemoveKeepsSlots ==
  ASSUME SlotInv, NEW s \in Session, NEW q \in {"routeErr", "judge"},
         pc[s] \in {"route", "remove"}, RemoveIfOwned(s),
         pc' = [pc EXCEPT ![s] = q], UNCHANGED <<id, vip>>
  PROVE  PairedSlots' /\ LatestHolds'
  <1> USE DEF SlotInv, IndexInv
  <1>1. ASSUME NEW t \in Session, t # s
        PROVE  /\ \A v \in Vip4 : (by_v4'[v] = t) <=> (by_v4[v] = t)
               /\ \A v \in Vip6 : (by_v6'[v] = t) <=> (by_v6[v] = t)
    BY <1>1, SessionFacts DEF RemoveIfOwned, TypeOK
  <1>2. /\ \A v \in Vip4 : by_v4'[v] # s
        /\ \A v \in Vip6 : by_v6'[v] # s
    BY SessionFacts DEF RemoveIfOwned, IndexSound, TypeOK
  <1>3. /\ by_v4' \in [Vip4 -> Session \cup {None}]
        /\ by_v6' \in [Vip6 -> Session \cup {None}]
    BY DEF RemoveIfOwned, TypeOK
  <1>4. \A t \in Session : pc[t] \in Holding => vip[t][1] \in Vip4 /\ vip[t][2] \in Vip6
    BY DEF Announced, Pair, Holding, Joining
  <1>5. \A t \in Session \ {s} : pc'[t] = pc[t]
    BY DEF TypeOK
  <1>6. PairedSlots'
    <2>1. ASSUME NEW v \in Vip4, by_v4'[v] # None
          PROVE  by_v6'[vip[by_v4'[v]][2]] = by_v4'[v]
      <3>1. by_v4'[v] \in Session /\ by_v4'[v] # s
        BY <2>1, <1>2, <1>3
      <3>2. by_v4[v] = by_v4'[v]
        BY <3>1, <1>1
      <3> QED BY <2>1, <3>1, <3>2, <1>1, <1>4 DEF PairedSlots, IndexSound
    <2>2. ASSUME NEW v \in Vip6, by_v6'[v] # None
          PROVE  by_v4'[vip[by_v6'[v]][1]] = by_v6'[v]
      <3>1. by_v6'[v] \in Session /\ by_v6'[v] # s
        BY <2>2, <1>2, <1>3
      <3>2. by_v6[v] = by_v6'[v]
        BY <3>1, <1>1
      <3> QED BY <2>2, <3>1, <3>2, <1>1, <1>4 DEF PairedSlots, IndexSound
    <2> QED BY <2>1, <2>2 DEF PairedSlots
  <1>7. LatestHolds'
    <2> SUFFICES ASSUME NEW t \in Session, Claims(t)', Latest(t)'
                 PROVE  by_v4'[vip'[t][1]] = t /\ by_v6'[vip'[t][2]] = t
      BY DEF LatestHolds
    <2>1. t # s /\ pc'[t] = pc[t] /\ pc[t] \in Holding
      BY <1>5 DEF TypeOK, Claims, Holding, Joining, Leaving
    <2>2. Latest(t)
      BY <1>5 DEF Latest, TypeOK
    <2>3. ClaimHeld(t)' => ClaimHeld(t)
      <3>1. by_v4'[vip[t][1]] \in {None, by_v4[vip[t][1]]}
        BY <2>1, <1>4 DEF RemoveIfOwned
      <3> QED BY <3>1 DEF ClaimHeld
    <2>4. Claims(t)
      BY <2>1, <2>3 DEF Claims
    <2> QED BY <2>1, <2>2, <2>4, <1>1, <1>4 DEF LatestHolds
  <1> QED BY <1>6, <1>7

(* A step that leaves the index alone and takes nobody into Holding. *)
LEMMA SlotFrame ==
  ASSUME SlotInv, UNCHANGED <<id, by_v4, by_v6>>,
         \A t \in Session : pc[t] \in Holding => vip'[t] = vip[t],
         \A t \in Session : pc'[t] \in Holding => pc[t] \in Holding,
         \A t \in Session : pc[t] = "claimed" /\ pc'[t] \in Holding =>
                                 pc'[t] = "claimed" \/ ClaimHeld(t),
         \A t \in Session : pc'[t] = "idle" <=> pc[t] = "idle"
  PROVE  PairedSlots' /\ LatestHolds'
  <1> USE DEF SlotInv, IndexInv
  <1>1. PairedSlots'
    BY DEF PairedSlots, IndexSound, TypeOK
  <1>2. ASSUME NEW t \in Session, Claims(t)', Latest(t)'
        PROVE  by_v4'[vip'[t][1]] = t /\ by_v6'[vip'[t][2]] = t
    <2>1. Latest(t)
      BY <1>2 DEF Latest
    <2>2. pc'[t] \in Holding /\ pc[t] \in Holding /\ vip'[t] = vip[t]
      BY <1>2 DEF Claims
    <2>3. ClaimHeld(t)' => ClaimHeld(t)
      BY <2>2 DEF ClaimHeld
    <2>4. Claims(t)
      BY <1>2, <2>2, <2>3 DEF Claims
    <2> QED BY <2>1, <2>2, <2>4 DEF LatestHolds
  <1> QED BY <1>1, <1>2 DEF LatestHolds

LEMMA StepSlotInv == LateRedial /\ SlotInv /\ [Next]_vars => SlotInv'
  <1> SUFFICES ASSUME LateRedial, SlotInv, [Next]_vars PROVE SlotInv'
    OBVIOUS
  <1>1. IndexInv /\ IndexInv' /\ Orderly /\ Bound
    BY StepIndexInv DEF SlotInv, IndexInv
  <1>2. ASSUME NEW p \in Peer, Accept(p) PROVE SlotInv'
    <2> DEFINE n == session_seq + 1
    <2>1. /\ n \in Session /\ pc[n] = "idle" /\ id'[n] = p /\ pc'[n] \in {"vips", "done"}
          /\ \A t \in Session : t # n => pc'[t] = pc[t] /\ id'[t] = id[t]
          /\ \A t \in Session : t > session_seq => pc[t] = "idle"
          /\ UNCHANGED <<vip, by_v4, by_v6>>
      BY <1>1, <1>2, AcceptFlow
    <2>4. Bound'
      BY <1>1, <2>1 DEF Bound
    <2>5. PairedSlots'
      BY <2>1 DEF PairedSlots, SlotInv
    <2>6. LatestHolds'
      <3> SUFFICES ASSUME NEW t \in Session, Claims(t)', Latest(t)'
                   PROVE  by_v4'[vip'[t][1]] = t /\ by_v6'[vip'[t][2]] = t
        BY DEF LatestHolds
      <3>1. t # n /\ pc'[t] = pc[t] /\ pc[t] \in Holding
        BY <2>1 DEF Claims, Holding, Joining
      <3>2. Latest(t)
        BY <2>1, <3>1 DEF Latest
      <3>3. ClaimHeld(t)' => ClaimHeld(t)
        <4> SUFFICES ASSUME ClaimHeld(t)' PROVE ClaimHeld(t)
          OBVIOUS
        <4> DEFINE u == by_v4[vip[t][1]]
        <4>0. vip'[t] = vip[t] /\ by_v4' = by_v4
          BY <2>1
        <4>1. u # None
          BY <4>0 DEF ClaimHeld
        <4>a. pc[t] \notin {"idle", "vips", "done"}
          BY <3>1 DEF Holding, Joining
        <4>b. vip[t] \in Pair
          BY <1>1, <4>a DEF IndexInv, Announced
        <4>c. vip[t][1] \in Vip4
          BY <4>b DEF Pair
        <4>2. u \in Session /\ pc[u] \in Holding
          BY <1>1, <4>1, <4>c DEF IndexInv, IndexSound, TypeOK
        <4>d. u # n
          BY <2>1, <4>2 DEF Holding, Joining
        <4>e. id'[u] = id[u] /\ id'[t] = id[t]
          BY <2>1, <3>1, <4>2, <4>d
        <4>3. vip'[t] = vip[t] /\ by_v4' = by_v4 /\ vip'[u] = vip[u]
          BY <2>1, <3>1
        <4> QED BY <4>3, <4>e DEF ClaimHeld
      <3>4. Claims(t)
        BY <3>1, <3>3 DEF Claims
      <3> QED BY <2>1, <3>1, <3>2, <3>4 DEF SlotInv, LatestHolds
    <2> QED BY <1>1, <2>4, <2>5, <2>6 DEF SlotInv
  <1>3. ASSUME NEW s \in Session, SpokeCloses(s) \/ Step(s) \/ FanStep(s) PROVE SlotInv'
    <2>1. Orderly' /\ Bound' /\ \A t \in Session : pc'[t] = "idle" <=> pc[t] = "idle"
      BY <1>1, <1>3, OrderKeeps, BoundKeeps
    <2>2. CASE ClaimPeer(s)
      BY <1>1, <2>1, <2>2, ClaimKeepsSlots DEF SlotInv
    <2>3. CASE AddPeerRouteFails(s) \/ RemovePeer(s)
      BY <1>1, <2>1, <2>3, RemoveKeepsSlots DEF SlotInv, AddPeerRouteFails, RemovePeer, Goto, sessVars
    <2>4. CASE ~ClaimPeer(s) /\ ~AddPeerRouteFails(s) /\ ~RemovePeer(s)
      <3>1. /\ UNCHANGED <<by_v4, by_v6>> /\ (pc'[s] \in Holding => pc[s] \in Holding)
            /\ pc[s] = "claimed" /\ pc'[s] \in Holding => pc'[s] = "claimed" \/ ClaimHeld(s)
        <4>1. CASE SpokeCloses(s) \/ FanStep(s)
          BY <4>1 DEF SpokeCloses, FanStep, Deliver, FanWriteFails, indexVars
        <4>2. CASE HandshakeFails(s) \/ ExchangeVips(s)
          BY <1>1, <4>2 DEF HandshakeFails, ExchangeVips, Goto, indexVars, Holding, Joining,
             IndexInv, TypeOK
        <4>3. CASE VerifyClaim(s) \/ InsertFan(s) \/ AddPeerRoute(s) \/ AbandonJoin(s)
          BY <1>1, <4>3 DEF VerifyClaim, InsertFan, AddPeerRoute, AbandonJoin, Goto, indexVars, Holding,
             Joining, IndexInv, TypeOK
        <4>4. CASE WriteSnapshot(s) \/ RefreshUp(s) \/ JoinDone(s)
          BY <1>1, <4>4 DEF WriteSnapshot, RefreshUp, JoinDone, RefreshLoad, RefreshStore,
             JoinTail, indexVars, Holding, Joining
        <4>5. CASE BroadcastJoined(s) \/ BroadcastLeft(s)
          BY <1>1, <4>5 DEF BroadcastJoined, BroadcastLeft, Collect, SendOne, SendDone,
             LeaveTail, Goto, indexVars, Holding, Joining, IndexInv, TypeOK
        <4>6. CASE \/ SeeClose(s) \/ JudgeRemoved(s) \/ RemoveFan(s) \/ RefreshDown(s)
                   \/ DelPeerRoute(s)
          BY <1>1, <4>6 DEF SeeClose, JudgeRemoved, RemoveFan, RefreshDown, DelPeerRoute, RefreshLoad,
             RefreshStore, LeaveTail, Goto, indexVars, Holding, Joining, IndexInv, TypeOK
        <4> QED BY <1>3, <2>4, <4>1, <4>2, <4>3, <4>4, <4>5, <4>6 DEF Step
      <3>2. /\ UNCHANGED id
            /\ \A t \in Session \ {s} : pc'[t] = pc[t] /\ vip'[t] = vip[t]
            /\ pc[s] # "vips" => vip' = vip
        BY <1>1, <1>3, StepFlow
      <3>3. \A t \in Session : pc[t] \in Holding => vip'[t] = vip[t]
        BY <3>2 DEF Holding, Joining
      <3>4. PairedSlots' /\ LatestHolds'
        BY <2>1, <3>1, <3>2, <3>3, SlotFrame
      <3> QED BY <1>1, <2>1, <3>4 DEF SlotInv
    <2> QED BY <2>2, <2>3, <2>4
  <1>4. CASE UNCHANGED vars
    <2>1. UNCHANGED <<pc, id, vip, by_v4, by_v6>>
      BY <1>4 DEF vars, sessVars, indexVars
    <2>2. \A s \in Session : (Claims(s)' <=> Claims(s)) /\ (Latest(s)' <=> Latest(s))
      BY <2>1 DEF Claims, ClaimHeld, Latest
    <2>3. Bound' /\ PairedSlots'
      BY <2>1 DEF SlotInv, Bound, PairedSlots
    <2>4. LatestHolds'
      BY <2>1, <2>2 DEF SlotInv, LatestHolds
    <2> QED BY <1>1, <2>3, <2>4 DEF SlotInv
  <1> QED BY <1>2, <1>3, <1>4 DEF Next

LEMMA SlotInvImplies == SlotInv => SlotKept
  BY DEF SlotInv, SlotKept, Served, Newest, LatestHolds, Claims, Latest, Holding

(* Comment on HubPeer.session, for any number of peers, sessions, route     *)
(* failures and interleavings: if spokes redial no earlier than their old   *)
(* session was established, and never change one address of their pair, the *)
(* newest established session owns both its slots.                          *)
THEOREM NewestKeepsSlots == LateRedial => (Spec => []SlotKept)
  <1> SUFFICES ASSUME LateRedial PROVE Spec => []SlotKept
    OBVIOUS
  <1>1. SlotInv /\ [Next]_vars => SlotInv'
    BY StepSlotInv
  <1> QED BY InitSlotInv, <1>1, SlotInvImplies, PTL DEF Spec

-----------------------------------------------------------------------------
(* Host routes and sessions                                                 *)

(* No two peers announce an address in common. *)
Disjoint ==
    \A p, q \in Peer : p # q =>
        \A a \in Announce[p], b \in Announce[q] :
            Usable(a) /\ Usable(b) => a[1] # b[1] /\ a[2] # b[2]

Routed == {"snap", "joinCollect", "joinSend", "refreshUp", "storeUp", "up"}

(* A session with a route to give back: its teardown will delete it. *)
Returns(s) == pc[s] \in Routed \cup {"remove"} \cup Leaving

RouteThere ==
    \A s \in Session : pc[s] \in Routed => vip[s][1] \in route4 /\ vip[s][2] \in route6
RouteOwned ==
    /\ \A v \in route4 : \E s \in Session : Returns(s) /\ vip[s][1] = v
    /\ \A v \in route6 : \E s \in Session : Returns(s) /\ vip[s][2] = v
(* Without a successor session peers_remove_if_owned reports the slots empty. *)
Released == \A s \in Session : pc[s] \in Leaving \ {"judge"} => removed[s]

RouteInv == SlotInv /\ RouteThere /\ RouteOwned /\ Released

LEMMA InitRouteInv == Init => RouteInv
  <1> SUFFICES ASSUME Init PROVE RouteInv
    OBVIOUS
  <1>1. RouteThere /\ RouteOwned /\ Released
    BY DEF Init, RouteThere, RouteOwned, Released, Routed, Leaving
  <1> QED BY <1>1, InitSlotInv DEF RouteInv

(* With Redial = "after" a peer has one task at a time, and it is the       *)
(* peer's latest.                                                           *)
LEMMA Solo ==
  ASSUME Redial = "after", Orderly, NEW s \in Session, pc[s] \notin {"idle", "done"}
  PROVE  /\ Latest(s)
         /\ \A t \in Session : t # s /\ id[t] = id[s] => pc[t] \in {"idle", "done"}
  <1>1. ASSUME NEW t \in Session, t # s, id[t] = id[s], pc[t] # "idle"
        PROVE  t < s /\ pc[t] = "done"
    <2>1. t < s \/ s < t
      BY <1>1, SessionFacts
    <2> QED BY <1>1, <2>1 DEF Orderly
  <1>2. Latest(s)
    BY <1>1, SessionFacts DEF Latest
  <1> QED BY <1>1, <1>2

(* The steps that touch neither a route nor the result of a removal. *)
LEMMA RouteFrame ==
  ASSUME IndexInv, NEW s \in Session, SpokeCloses(s) \/ Step(s) \/ FanStep(s),
         ~AddPeerRoute(s), ~AddPeerRouteFails(s), ~RemovePeer(s), ~JudgeRemoved(s),
         ~DelPeerRoute(s)
  PROVE  /\ UNCHANGED <<route4, route6, removed>>
         /\ pc'[s] \in Routed => pc[s] \in Routed
         /\ pc[s] \in Routed \cup {"remove"} => pc'[s] \in Routed \cup {"remove"}
         /\ pc'[s] \in Leaving <=> pc[s] \in Leaving
         /\ pc'[s] = "judge" <=> pc[s] = "judge"
  <1> USE DEF IndexInv, TypeOK, Routed, Leaving, routeVars, Goto
  <1>1. CASE SpokeCloses(s) \/ FanStep(s)
    BY <1>1 DEF SpokeCloses, FanStep, Deliver, FanWriteFails
  <1>2. CASE HandshakeFails(s) \/ ExchangeVips(s) \/ ClaimPeer(s) \/ VerifyClaim(s)
    BY <1>2 DEF HandshakeFails, ExchangeVips, ClaimPeer, VerifyClaim, Handshake
  <1>3. CASE InsertFan(s) \/ AbandonJoin(s)
    BY <1>3 DEF InsertFan, AbandonJoin
  <1>4. CASE WriteSnapshot(s) \/ RefreshUp(s) \/ JoinDone(s)
    BY <1>4 DEF WriteSnapshot, RefreshUp, JoinDone, RefreshLoad, RefreshStore, JoinTail
  <1>5. CASE BroadcastJoined(s)
    BY <1>5 DEF BroadcastJoined, Collect, SendOne, SendDone, JoinTail
  <1>6. CASE BroadcastLeft(s)
    BY <1>6 DEF BroadcastLeft, Collect, SendOne, SendDone, LeaveTail
  <1>7. CASE SeeClose(s) \/ RemoveFan(s)
    BY <1>7 DEF SeeClose, RemoveFan, LeaveTail
  <1>8. CASE RefreshDown(s)
    BY <1>8 DEF RefreshDown, RefreshLoad, RefreshStore
  <1> QED BY <1>1, <1>2, <1>3, <1>4, <1>5, <1>6, <1>7, <1>8 DEF Step

LEMMA RouteStep ==
  ASSUME Redial = "after", ~RouteFaults, Disjoint, RouteInv, SlotInv',
         NEW s \in Session, SpokeCloses(s) \/ Step(s) \/ FanStep(s)
  PROVE  RouteThere' /\ RouteOwned' /\ Released'
  <1> USE DEF RouteInv, SlotInv, IndexInv
  <1>1. /\ UNCHANGED id
        /\ \A t \in Session \ {s} : pc'[t] = pc[t] /\ vip'[t] = vip[t]
        /\ pc[s] # "vips" => vip' = vip
    BY StepFlow
  <1>2. CASE AddPeerRoute(s)
    <2>1. /\ pc[s] = "route" /\ pc'[s] = "snap" /\ UNCHANGED <<vip, removed>>
          /\ route4' = route4 \cup {vip[s][1]} /\ route6' = route6 \cup {vip[s][2]}
      BY <1>1, <1>2 DEF AddPeerRoute, Goto, TypeOK
    <2>2. RouteThere' /\ Released'
      BY <1>1, <2>1 DEF RouteThere, Released, Routed, Leaving
    <2>3. RouteOwned'
      BY <1>1, <2>1 DEF RouteOwned, Returns, Routed, Leaving
    <2> QED BY <2>2, <2>3
  <1>3. CASE AddPeerRouteFails(s)
    BY <1>3 DEF AddPeerRouteFails
  <1>4. CASE RemovePeer(s)
    <2>1. /\ pc[s] = "remove" /\ pc'[s] = "judge"
          /\ UNCHANGED <<vip, route4, route6, removed>>
      BY <1>1, <1>4 DEF RemovePeer, Goto, TypeOK, routeVars
    <2>2. Released' /\ RouteThere'
      BY <1>1, <2>1 DEF Released, RouteThere, Routed, Leaving
    <2>3. RouteOwned'
      BY <1>1, <2>1 DEF RouteOwned, Returns, Routed, Leaving
    <2> QED BY <2>2, <2>3
  <1>7. CASE JudgeRemoved(s)
    <2>1. /\ pc[s] = "judge" /\ pc'[s] = "unfan" /\ UNCHANGED <<vip, route4, route6>>
          /\ removed' = [removed EXCEPT ![s] = SlotsEmpty(s)]
      BY <1>1, <1>7 DEF JudgeRemoved, Goto, TypeOK, routeVars
    <2>2. vip[s][1] \in Vip4 /\ vip[s][2] \in Vip6
      BY <2>1 DEF Announced, Pair
    <2>3. ASSUME NEW t \in Session, pc[t] \in Holding
          PROVE  vip[t][1] # vip[s][1] /\ vip[t][2] # vip[s][2]
      <3>1. t # s /\ pc[t] \notin {"idle", "vips", "done"}
        BY <2>1, <2>3 DEF Holding, Joining
      <3>2. id[t] # id[s] /\ id[t] \in Peer /\ id[s] \in Peer
        BY <2>1, <3>1, Solo DEF Announced
      <3>3. /\ vip[t] \in Announce[id[t]] /\ Usable(vip[t])
            /\ vip[s] \in Announce[id[s]] /\ Usable(vip[s])
        BY <2>1, <3>1 DEF Bound
      <3> QED BY <3>2, <3>3 DEF Disjoint
    <2>4. SlotsEmpty(s)
      <3>1. by_v4[vip[s][1]] = None
        <4> DEFINE u == by_v4[vip[s][1]]
        <4>1. u # None => u \in Session
          BY <2>2 DEF TypeOK
        <4>2. u # None => pc[u] \in Holding /\ vip[u][1] = vip[s][1]
          BY <2>2 DEF IndexSound
        <4> QED BY <2>3, <4>1, <4>2
      <3>2. by_v6[vip[s][2]] = None
        <4> DEFINE u == by_v6[vip[s][2]]
        <4>1. u # None => u \in Session
          BY <2>2 DEF TypeOK
        <4>2. u # None => pc[u] \in Holding /\ vip[u][2] = vip[s][2]
          BY <2>2 DEF IndexSound
        <4> QED BY <2>3, <4>1, <4>2
      <3> QED BY <3>1, <3>2 DEF SlotsEmpty
    <2>5. Released'
      BY <1>1, <2>1, <2>4 DEF Released, TypeOK
    <2>6. RouteThere'
      BY <1>1, <2>1 DEF RouteThere, Routed
    <2>7. RouteOwned'
      BY <1>1, <2>1 DEF RouteOwned, Returns, Routed, Leaving
    <2> QED BY <2>5, <2>6, <2>7
  <1>5. CASE DelPeerRoute(s)
    <2>1. pc[s] = "unroute" /\ pc'[s] = "done" /\ removed[s] /\ UNCHANGED <<vip, removed>>
      BY <1>1, <1>5 DEF DelPeerRoute, Goto, TypeOK, Released, Leaving
    <2>2. route4' = route4 \ {vip[s][1]} /\ route6' = route6 \ {vip[s][2]}
      BY <1>5, <2>1 DEF DelPeerRoute, Deleted
    <2>3. Released'
      BY <1>1, <2>1 DEF Released, Leaving
    <2>4. RouteOwned'
      BY <1>1, <2>1, <2>2 DEF RouteOwned, Returns
    <2>5. ASSUME NEW t \in Session, pc'[t] \in Routed
          PROVE  vip[t][1] \in route4' /\ vip[t][2] \in route6'
      <3>1. t # s /\ pc[t] \in Routed
        BY <1>1, <2>1, <2>5 DEF Routed
      <3>2. id[t] # id[s] /\ id[t] \in Peer /\ id[s] \in Peer
        BY <2>1, <3>1, Solo DEF Routed, Announced
      <3>3. /\ vip[t] \in Announce[id[t]] /\ Usable(vip[t])
            /\ vip[s] \in Announce[id[s]] /\ Usable(vip[s])
        BY <2>1, <3>1 DEF Bound, Routed
      <3>4. vip[t][1] # vip[s][1] /\ vip[t][2] # vip[s][2]
        BY <3>2, <3>3 DEF Disjoint
      <3> QED BY <2>2, <3>1, <3>4 DEF RouteThere
    <2>6. RouteThere'
      BY <2>1, <2>5 DEF RouteThere
    <2> QED BY <2>3, <2>4, <2>6
  <1>6. CASE /\ ~AddPeerRoute(s) /\ ~AddPeerRouteFails(s) /\ ~RemovePeer(s)
             /\ ~JudgeRemoved(s) /\ ~DelPeerRoute(s)
    <2>1. /\ UNCHANGED <<route4, route6, removed>>
          /\ pc'[s] \in Routed => pc[s] \in Routed
          /\ pc[s] \in Routed \cup {"remove"} => pc'[s] \in Routed \cup {"remove"}
          /\ pc'[s] \in Leaving <=> pc[s] \in Leaving
          /\ pc'[s] = "judge" <=> pc[s] = "judge"
      BY <1>6, RouteFrame
    <2>2. \A t \in Session : Returns(t) => Returns(t)' /\ vip'[t] = vip[t]
      BY <1>1, <2>1 DEF Returns, Routed, Leaving
    <2>3. RouteThere' /\ Released'
      BY <1>1, <2>1 DEF RouteThere, Released, Routed
    <2>4. RouteOwned'
      BY <2>1, <2>2 DEF RouteOwned
    <2> QED BY <2>3, <2>4
  <1> QED BY <1>2, <1>3, <1>4, <1>5, <1>6, <1>7

LEMMA StepRouteInv ==
  Redial = "after" /\ ~RouteFaults /\ Disjoint /\ RouteInv /\ [Next]_vars => RouteInv'
  <1> SUFFICES ASSUME Redial = "after", ~RouteFaults, Disjoint, RouteInv, [Next]_vars
               PROVE  RouteInv'
    OBVIOUS
  <1>1. IndexInv /\ SlotInv'
    BY StepSlotInv DEF RouteInv, SlotInv, LateRedial
  <1>2. ASSUME NEW p \in Peer, Accept(p) PROVE RouteInv'
    <2>1. /\ session_seq + 1 \in Session /\ pc[session_seq + 1] = "idle"
          /\ pc'[session_seq + 1] \in {"vips", "done"}
          /\ \A t \in Session : t # session_seq + 1 => pc'[t] = pc[t]
          /\ UNCHANGED <<vip, removed, route4, route6>>
      BY <1>1, <1>2, AcceptFlow
    <2>2. \A t \in Session : /\ pc'[t] \in Routed => pc[t] \in Routed
                             /\ pc'[t] \in Leaving \ {"judge"} => pc[t] \in Leaving \ {"judge"}
                             /\ Returns(t) => Returns(t)'
      BY <2>1 DEF Routed, Leaving, Returns
    <2> QED BY <1>1, <2>1, <2>2 DEF RouteInv, RouteThere, RouteOwned, Released
  <1>3. ASSUME NEW s \in Session, SpokeCloses(s) \/ Step(s) \/ FanStep(s) PROVE RouteInv'
    BY <1>1, <1>3, RouteStep DEF RouteInv
  <1>4. CASE UNCHANGED vars
    BY <1>1, <1>4 DEF vars, sessVars, routeVars, RouteInv, RouteThere, RouteOwned, Released,
       Returns
  <1> QED BY <1>2, <1>3, <1>4 DEF Next

LEMMA RouteInvImplies == Redial = "after" /\ RouteInv => RoutesAgree
  <1> SUFFICES ASSUME Redial = "after", RouteInv PROVE RoutesAgree
    OBVIOUS
  <1> USE DEF RouteInv, SlotInv, IndexInv
  <1>1. RouteKept
    BY DEF RouteKept, Served, RouteThere, Routed
  <1>2. NoStaleRoute
    <2> SUFFICES ASSUME Settled
                 PROVE  /\ \A v \in route4 : v \in Vip4 /\ by_v4[v] # None
                        /\ \A v \in route6 : v \in Vip6 /\ by_v6[v] # None
      BY DEF NoStaleRoute
    <2>1. ASSUME NEW s \in Session, Returns(s)
          PROVE  by_v4[vip[s][1]] = s /\ by_v6[vip[s][2]] = s /\ s # None
      <3>1. pc[s] = "up"
        BY <2>1 DEF Settled, Returns, Routed, Leaving
      <3>2. Latest(s)
        BY <3>1, Solo
      <3> QED BY <3>1, <3>2, SessionFacts DEF LatestHolds, Claims, Holding
    <2>2. route4 \subseteq Vip4 /\ route6 \subseteq Vip6
      BY DEF TypeOK
    <2> QED BY <2>1, <2>2 DEF RouteOwned
  <1> QED BY <1>1, <1>2 DEF RoutesAgree

(* add_peer_route / del_peer_route, for any number of peers, sessions and   *)
(* interleavings: where no two peers share an address, routes install and a *)
(* spoke redials after its old session's task returned, an established      *)
(* session's routes are there and no route outlives its session.            *)
THEOREM RoutesFollowSessions ==
  Redial = "after" /\ ~RouteFaults /\ Disjoint => (Spec => []RoutesAgree)
  <1> SUFFICES ASSUME Redial = "after", ~RouteFaults, Disjoint PROVE Spec => []RoutesAgree
    OBVIOUS
  <1>1. RouteInv /\ [Next]_vars => RouteInv'
    BY StepRouteInv
  <1>2. RouteInv => RoutesAgree
    BY RouteInvImplies
  <1> QED BY InitRouteInv, <1>1, <1>2, PTL DEF Spec

(* Two usable announcements, of one peer or of two, have both addresses in  *)
(* common or neither.                                                       *)
WholePairs ==
    \A p, q \in Peer : \A a \in Announce[p], b \in Announce[q] :
        Usable(a) /\ Usable(b) => (a[1] = b[1] <=> a[2] = b[2])

(* Every route is still needed, or a teardown that knows it must go, or has *)
(* yet to look, will delete it: the duty passes with the slot from session  *)
(* to session.                                                              *)
MayDelete(s) == pc[s] = "judge" \/ (pc[s] \in Leaving /\ removed[s])
RouteDue ==
    /\ \A v \in route4 : by_v4[v] # None \/ \E s \in Session : MayDelete(s) /\ vip[s][1] = v
    /\ \A v \in route6 : by_v6[v] # None \/ \E s \in Session : MayDelete(s) /\ vip[s][2] = v

(* A step that leaves routes and removal results alone, and slots occupied. *)
LEMMA DueFrame ==
  ASSUME RouteDue, UNCHANGED <<route4, route6, removed>>,
         \A v \in route4 : by_v4[v] # None => by_v4'[v] # None,
         \A v \in route6 : by_v6[v] # None => by_v6'[v] # None,
         \A s \in Session : MayDelete(s) => MayDelete(s)' /\ vip'[s] = vip[s]
  PROVE  RouteDue'
  BY DEF RouteDue

LEMMA StepRouteDue ==
  ASSUME LateRedial, WholePairs, ~RouteFaults, SlotInv, RouteDue,
         NEW s \in Session, SpokeCloses(s) \/ Step(s) \/ FanStep(s)
  PROVE  RouteDue'
  <1> USE DEF SlotInv, IndexInv
  <1>1. /\ \A t \in Session \ {s} : pc'[t] = pc[t] /\ vip'[t] = vip[t]
        /\ pc[s] # "vips" => vip' = vip
    BY StepFlow
  <1>2. CASE AddPeerRoute(s)
    <2>1. /\ pc[s] = "route" /\ UNCHANGED <<vip, removed, by_v4, by_v6>>
          /\ pc' = [pc EXCEPT ![s] = "snap"]
          /\ route4' = route4 \cup {vip[s][1]} /\ route6' = route6 \cup {vip[s][2]}
      BY <1>1, <1>2 DEF AddPeerRoute, Goto, indexVars
    <2>2. Latest(s)
      <3>1. ASSUME NEW t \in Session, id[t] = id[s], pc[t] # "idle", s < t PROVE FALSE
        BY <2>1, <3>1 DEF Orderly, Joining
      <3> QED BY <3>1, SessionFacts DEF Latest
    <2>3. by_v4[vip[s][1]] # None /\ by_v6[vip[s][2]] # None
      BY <2>1, <2>2, SessionFacts DEF LatestHolds, Claims, Holding, Joining
    <2>4. \A t \in Session : MayDelete(t) => MayDelete(t)'
      BY <2>1 DEF MayDelete, Leaving, TypeOK
    <2> QED BY <2>1, <2>3, <2>4 DEF RouteDue
  <1>3. CASE AddPeerRouteFails(s)
    BY <1>3 DEF AddPeerRouteFails
  <1>4. CASE RemovePeer(s)
    <2>1. /\ pc[s] = "remove" /\ pc'[s] = "judge" /\ UNCHANGED <<vip, removed, route4, route6>>
          /\ RemoveIfOwned(s)
      BY <1>1, <1>4 DEF RemovePeer, Goto, TypeOK, routeVars
    <2>2. \A t \in Session : MayDelete(t) => MayDelete(t)'
      BY <1>1, <2>1 DEF MayDelete, Leaving
    <2>3. MayDelete(s)'
      BY <2>1 DEF MayDelete
    <2>4. /\ \A v \in Vip4 : by_v4[v] # None => by_v4'[v] # None \/ v = vip[s][1]
          /\ \A v \in Vip6 : by_v6[v] # None => by_v6'[v] # None \/ v = vip[s][2]
      BY <2>1 DEF RemoveIfOwned
    <2> QED BY <2>1, <2>2, <2>3, <2>4 DEF RouteDue, TypeOK
  <1>7. CASE JudgeRemoved(s)
    <2>1. /\ pc[s] = "judge" /\ pc'[s] = "unfan" /\ UNCHANGED <<vip, by_v4, by_v6, route4, route6>>
          /\ removed' = [removed EXCEPT ![s] = SlotsEmpty(s)]
      BY <1>1, <1>7 DEF JudgeRemoved, Goto, TypeOK, routeVars, indexVars
    <2>2. \A t \in Session \ {s} : MayDelete(t) => MayDelete(t)'
      BY <1>1, <2>1 DEF MayDelete, TypeOK
    <2>3. CASE SlotsEmpty(s)
      <3>1. MayDelete(s)'
        BY <2>1, <2>3 DEF MayDelete, Leaving, TypeOK
      <3> QED BY <2>1, <2>2, <3>1 DEF RouteDue
    <2>4. CASE ~SlotsEmpty(s)
      <3>1. /\ vip[s][1] \in Vip4 /\ vip[s][2] \in Vip6 /\ id[s] \in Peer
            /\ vip[s] \in Announce[id[s]] /\ Usable(vip[s])
        BY <2>1 DEF Announced, Pair, Bound
      <3>2. ASSUME NEW t \in Session, pc[t] \in Holding
            PROVE  vip[t][1] = vip[s][1] <=> vip[t][2] = vip[s][2]
        <4>1. id[t] \in Peer /\ vip[t] \in Announce[id[t]] /\ Usable(vip[t])
          BY <3>2 DEF Announced, Bound, Holding, Joining
        <4> QED BY <3>1, <4>1 DEF WholePairs
      <3>3. by_v4[vip[s][1]] # None => by_v6[vip[s][2]] # None
        <4> DEFINE t == by_v4[vip[s][1]]
        <4> SUFFICES ASSUME t # None PROVE by_v6[vip[s][2]] # None
          OBVIOUS
        <4>1. t \in Session /\ pc[t] \in Holding /\ vip[t][1] = vip[s][1] /\ by_v6[vip[t][2]] = t
          BY <3>1 DEF IndexSound, PairedSlots, TypeOK
        <4>2. vip[t][2] = vip[s][2]
          BY <3>2, <4>1
        <4> QED BY <4>1, <4>2
      <3>4. by_v6[vip[s][2]] # None => by_v4[vip[s][1]] # None
        <4> DEFINE t == by_v6[vip[s][2]]
        <4> SUFFICES ASSUME t # None PROVE by_v4[vip[s][1]] # None
          OBVIOUS
        <4>1. t \in Session /\ pc[t] \in Holding /\ vip[t][2] = vip[s][2] /\ by_v4[vip[t][1]] = t
          BY <3>1 DEF IndexSound, PairedSlots, TypeOK
        <4>2. vip[t][1] = vip[s][1]
          BY <3>2, <4>1
        <4> QED BY <4>1, <4>2
      <3>5. by_v4[vip[s][1]] # None /\ by_v6[vip[s][2]] # None
        BY <2>4, <3>3, <3>4 DEF SlotsEmpty
      <3> QED BY <2>1, <2>2, <3>5 DEF RouteDue
    <2> QED BY <2>3, <2>4
  <1>5. CASE DelPeerRoute(s)
    <2>1. /\ pc[s] = "unroute" /\ UNCHANGED <<vip, removed, by_v4, by_v6>>
          /\ route4' = IF removed[s] THEN route4 \ {vip[s][1]} ELSE route4
          /\ route6' = IF removed[s] THEN route6 \ {vip[s][2]} ELSE route6
      BY <1>1, <1>5 DEF DelPeerRoute, Deleted, indexVars
    <2>2. \A t \in Session : MayDelete(t) /\ t # s => MayDelete(t)'
      BY <1>1, <2>1 DEF MayDelete
    <2>3. MayDelete(s) => removed[s]
      BY <2>1 DEF MayDelete
    <2> QED BY <2>1, <2>2, <2>3 DEF RouteDue
  <1>6. CASE /\ ~AddPeerRoute(s) /\ ~AddPeerRouteFails(s) /\ ~RemovePeer(s)
             /\ ~JudgeRemoved(s) /\ ~DelPeerRoute(s)
    <2>1. /\ UNCHANGED <<route4, route6, removed>>
          /\ pc'[s] \in Leaving <=> pc[s] \in Leaving
          /\ pc'[s] = "judge" <=> pc[s] = "judge"
      BY <1>6, RouteFrame
    <2>2. \A t \in Session : MayDelete(t) => MayDelete(t)' /\ vip'[t] = vip[t]
      BY <1>1, <2>1 DEF MayDelete, Leaving
    <2>3. /\ \A v \in Vip4 : by_v4[v] # None => by_v4'[v] # None
          /\ \A v \in Vip6 : by_v6[v] # None => by_v6'[v] # None
      <3>1. CASE ClaimPeer(s)
        <4>1. UNCHANGED indexVars \/ (/\ by_v4' = [by_v4 EXCEPT ![vip[s][1]] = s]
                                      /\ by_v6' = [by_v6 EXCEPT ![vip[s][2]] = s])
          BY <3>1 DEF ClaimPeer
        <4> QED BY <4>1, SessionFacts DEF indexVars, TypeOK
      <3>2. CASE ~ClaimPeer(s)
        <4>1. UNCHANGED <<by_v4, by_v6>>
          BY <1>6, <3>2, IndexFrame
        <4> QED BY <4>1
      <3> QED BY <3>1, <3>2
    <2> QED BY <2>1, <2>2, <2>3, DueFrame DEF TypeOK
  <1> QED BY <1>2, <1>3, <1>4, <1>5, <1>6, <1>7

(* del_peer_route, whether a spoke redials after its old session's task     *)
(* returned or as soon as that was established, and whoever claims between  *)
(* a teardown's update of the index and its look at the result: where a     *)
(* pair of addresses is announced whole or not at all, by one peer or by    *)
(* several, and route commands succeed, a teardown overtaken leaves the     *)
(* routes to its successor, and the last one takes them down.               *)
THEOREM NoRouteOutlivesItsSlot ==
  WholePairs /\ ~RouteFaults => (Spec => []NoStaleRoute)
  <1> SUFFICES ASSUME WholePairs, ~RouteFaults PROVE Spec => []NoStaleRoute
    OBVIOUS
  <1> DEFINE I == SlotInv /\ RouteDue
  <1>0. LateRedial
    BY DEF WholePairs, LateRedial, Paired
  <1>1. Init => I
    BY InitSlotInv DEF Init, RouteDue
  <1>2. I /\ [Next]_vars => I'
    <2> SUFFICES ASSUME SlotInv, RouteDue, [Next]_vars PROVE SlotInv' /\ RouteDue'
      OBVIOUS
    <2>1. SlotInv'
      BY <1>0, StepSlotInv
    <2>2. ASSUME NEW p \in Peer, Accept(p) PROVE RouteDue'
      <3>1. /\ pc[session_seq + 1] = "idle"
            /\ \A t \in Session : t # session_seq + 1 => pc'[t] = pc[t]
            /\ UNCHANGED <<vip, removed, by_v4, by_v6, route4, route6>>
        BY <2>2, AcceptFlow DEF SlotInv
      <3>2. \A t \in Session : MayDelete(t) => MayDelete(t)'
        BY <3>1 DEF MayDelete, Leaving
      <3> QED BY <3>1, <3>2, DueFrame
    <2>3. ASSUME NEW s \in Session, SpokeCloses(s) \/ Step(s) \/ FanStep(s) PROVE RouteDue'
      BY <1>0, <2>3, StepRouteDue
    <2>4. CASE UNCHANGED vars
      <3>1. UNCHANGED <<pc, vip, removed, by_v4, by_v6, route4, route6>>
        BY <2>4 DEF vars, sessVars, indexVars, routeVars
      <3>2. \A t \in Session : MayDelete(t) => MayDelete(t)'
        BY <3>1 DEF MayDelete
      <3> QED BY <2>1, <3>1, <3>2, DueFrame
    <2> QED BY <2>1, <2>2, <2>3, <2>4 DEF Next
  <1>3. I => NoStaleRoute
    BY DEF NoStaleRoute, Settled, RouteDue, MayDelete, Leaving, SlotInv, IndexInv, TypeOK
  <1> HIDE DEF I
  <1> QED BY <1>1, <1>2, <1>3, PTL DEF Spec

(* Only the look after the removal tells a teardown to delete routes.       *)
LEMMA RemovedFrame ==
  ASSUME IndexInv, NEW s \in Session, SpokeCloses(s) \/ Step(s) \/ FanStep(s),
         ~JudgeRemoved(s)
  PROVE  UNCHANGED removed
  BY RouteFrame DEF AddPeerRoute, AddPeerRouteFails, RemovePeer, DelPeerRoute

(* "Do not delete the route when a newer session still holds the slots":    *)
(* peers_remove_if_owned reports the slots empty only while neither of the  *)
(* addresses is one that a newest session has been granted, however many    *)
(* peers and sessions contend for it and whatever fails.                    *)
THEOREM SuccessorIsSpared == LateRedial => (Spec => SuccessorSpared)
  <1> SUFFICES ASSUME LateRedial PROVE Spec => SuccessorSpared
    OBVIOUS
  <1> DEFINE Spared == \A t \in Session : ~removed[t] /\ removed'[t] =>
                          \A s \in Session : Granted(s) /\ Newest(s) =>
                              vip[s][1] # vip[t][1] /\ vip[s][2] # vip[t][2]
  <1>1. SlotInv /\ [Next]_vars => SlotInv'
    BY StepSlotInv
  <1>2. SlotInv /\ [Next]_vars => Spared
    <2> SUFFICES ASSUME SlotInv, [Next]_vars, NEW t \in Session, ~removed[t], removed'[t],
                        NEW s \in Session, Granted(s), Newest(s)
                 PROVE  vip[s][1] # vip[t][1] /\ vip[s][2] # vip[t][2]
      OBVIOUS
    <2>1. JudgeRemoved(t)
      <3>1. CASE UNCHANGED vars
        BY <3>1 DEF vars
      <3>2. ASSUME NEW p \in Peer, Accept(p) PROVE FALSE
        BY <3>2 DEF Accept
      <3>3. ASSUME NEW u \in Session, SpokeCloses(u) \/ Step(u) \/ FanStep(u)
            PROVE  JudgeRemoved(t)
        <4>1. JudgeRemoved(u)
          BY <3>3, RemovedFrame DEF SlotInv
        <4>2. u = t
          BY <4>1 DEF JudgeRemoved, SlotInv, IndexInv, TypeOK
        <4> QED BY <4>1, <4>2
      <3> QED BY <3>1, <3>2, <3>3 DEF Next
    <2>2. by_v4[vip[t][1]] = None /\ by_v6[vip[t][2]] = None
      BY <2>1 DEF JudgeRemoved, SlotsEmpty, SlotInv, IndexInv, TypeOK
    <2>3. Latest(s) /\ Claims(s)
      BY DEF Newest, Latest, Granted, Claims
    <2>4. by_v4[vip[s][1]] = s /\ by_v6[vip[s][2]] = s
      BY <2>3 DEF SlotInv, LatestHolds
    <2> QED BY <2>2, <2>4, SessionFacts
  <1>3. Spared => [Spared]_vars
    OBVIOUS
  <1>4. Spec => [][Spared]_vars
    BY InitSlotInv, <1>1, <1>2, <1>3, PTL DEF Spec
  <1> QED BY <1>4 DEF SuccessorSpared

-----------------------------------------------------------------------------
(* Fan channels: who is registered, who may be sent to                      *)

(* Before fans.insert nobody can reach the session's channel; from then to  *)
(* fans.remove the map leads to it.                                         *)
Unlisted == {"idle", "claimed", "fan"} \cup Handshake
Fanned == {"route"} \cup Routed \cup {"remove", "judge", "unfan"}

NoRouteError == \A s \in Session : pc[s] # "routeErr"
TellVisible == \A s \in Session : pc[s] \in Telling => ~hidden[s]
(* The channel is empty until it is listed; its task runs while the session *)
(* is established, for as long as the spoke is there.                       *)
TaskPhases ==
    \A s \in Session :
        /\ pc[s] \in Unlisted => fanq[s] = <<>>
        /\ pc[s] \in Unlisted \cup Joining => fanTask[s] = "none"
        /\ fanTask[s] = "running" => pc[s] = "up"
        /\ s \in open /\ pc[s] = "up" => fanTask[s] = "running"
FanListed == \A s \in Session : pc[s] \in Fanned => fans[id[s]] = s
FanReal == \A p \in Peer : fans[p] # None => id[fans[p]] = p /\ pc[fans[p]] \in Fanned
SendsListed ==
    \A s \in Session : pc[s] \in {"joinSend", "leftSend"} =>
        \A t \in sends[s] : pc[t] \notin Unlisted

FanInv == /\ NoRouteError /\ TellVisible /\ TaskPhases
          /\ FanListed /\ FanReal /\ SendsListed

LEMMA InitFanInv == Init => FanInv
  <1> SUFFICES ASSUME Init PROVE FanInv
    OBVIOUS
  <1> QED BY DEF Init, FanInv, NoRouteError, TellVisible, TaskPhases, FanListed, FanReal,
          SendsListed, Unlisted, Fanned, Routed, Telling

(* The session's own program points, its flag and its fan-out task. *)
LEMMA TaskKeeps ==
  ASSUME ~RouteFaults, IndexInv, FanInv, NEW s \in Session,
         SpokeCloses(s) \/ Step(s) \/ FanStep(s)
  PROVE  NoRouteError' /\ TellVisible' /\ TaskPhases'
  <1> USE DEF IndexInv, TypeOK, FanInv, NoRouteError, TellVisible, TaskPhases, Telling,
              Unlisted, Handshake, Joining, sessVars, fanVars, Goto
  <1>1. CASE SpokeCloses(s)
    BY <1>1 DEF SpokeCloses
  <1>2. CASE Deliver(s)
    BY <1>2 DEF Deliver
  <1>3. CASE FanWriteFails(s)
    BY <1>3 DEF FanWriteFails
  <1>4. CASE HandshakeFails(s) \/ ExchangeVips(s)
    BY <1>4 DEF HandshakeFails, ExchangeVips
  <1>5. CASE ClaimPeer(s) \/ VerifyClaim(s)
    BY <1>5 DEF ClaimPeer, VerifyClaim
  <1>6. CASE InsertFan(s) \/ AddPeerRoute(s)
    BY <1>6 DEF InsertFan, AddPeerRoute
  <1>7. CASE AddPeerRouteFails(s) \/ AbandonJoin(s)
    BY <1>7 DEF AddPeerRouteFails, AbandonJoin
  <1>8. CASE WriteSnapshot(s)
    BY <1>8 DEF WriteSnapshot, JoinTail
  <1>9. CASE RefreshUp(s) \/ RefreshDown(s)
    BY <1>9 DEF RefreshUp, RefreshDown, RefreshLoad, RefreshStore
  <1>10. CASE JoinDone(s)
    BY <1>10 DEF JoinDone, RefreshStore
  <1>11. ASSUME NEW t \in Session, NEW k, NEW at \in {"joinSend", "leftSend"},
                SendOne(s, t, at, k)
         PROVE  NoRouteError' /\ TellVisible' /\ TaskPhases'
    <2>1. pc[t] \notin Unlisted
      BY <1>11 DEF SendOne, SendsListed
    <2>2. \A u \in Session \ {t} : fanq'[u] = fanq[u]
      BY <1>11 DEF SendOne
    <2> QED BY <1>11, <2>1, <2>2 DEF SendOne
  <1>12. CASE BroadcastJoined(s) \/ BroadcastLeft(s)
    BY <1>12, <1>11 DEF BroadcastJoined, BroadcastLeft, Collect, SendDone, JoinTail, LeaveTail
  <1>13. CASE SeeClose(s)
    BY <1>13 DEF SeeClose
  <1>14. CASE RemovePeer(s) \/ JudgeRemoved(s) \/ RemoveFan(s) \/ DelPeerRoute(s)
    BY <1>14 DEF RemovePeer, JudgeRemoved, RemoveFan, DelPeerRoute, LeaveTail
  <1> QED BY <1>1, <1>2, <1>3, <1>4, <1>5, <1>6, <1>7, <1>8, <1>9, <1>10, <1>12, <1>13, <1>14
          DEF Step, FanStep

(* A step that leaves the map alone and keeps the session where it is       *)
(* listed, or unlisted.                                                     *)
LEMMA FanFrame ==
  ASSUME IndexInv, FanInv, NEW s \in Session, UNCHANGED <<id, fans>>,
         \A t \in Session \ {s} : pc'[t] = pc[t],
         pc'[s] \in Fanned <=> pc[s] \in Fanned
  PROVE  FanListed' /\ FanReal'
  <1>1. FanListed'
    BY DEF FanInv, FanListed
  <1>2. ASSUME NEW p \in Peer, fans[p] # None
        PROVE  id[fans[p]] = p /\ pc'[fans[p]] \in Fanned
    <2>1. fans[p] \in Session /\ id[fans[p]] = p /\ pc[fans[p]] \in Fanned
      BY <1>2 DEF FanInv, FanReal, IndexInv, TypeOK
    <2> QED BY <2>1
  <1> QED BY <1>1, <1>2 DEF FanReal

LEMMA MapKeeps ==
  ASSUME Redial = "after", ~RouteFaults, IndexInv, Orderly, FanInv, NEW s \in Session,
         SpokeCloses(s) \/ Step(s) \/ FanStep(s)
  PROVE  FanListed' /\ FanReal'
  <1> USE DEF IndexInv, FanInv
  <1>1. UNCHANGED id /\ \A t \in Session \ {s} : pc'[t] = pc[t]
    BY StepFlow
  <1>2. CASE InsertFan(s)
    <2>1. pc[s] = "fan" /\ pc'[s] = "route" /\ fans' = [fans EXCEPT ![id[s]] = s]
          /\ id[s] \in Peer
      BY <1>2 DEF InsertFan, Goto, TypeOK, Announced
    <2>2. \A t \in Session \ {s} : pc[t] \in Fanned => id[t] # id[s]
      BY <2>1, Solo DEF Fanned, Routed
    <2>3. \A t \in Session : pc[t] \in Fanned => id[t] \in Peer
      BY DEF Announced, Fanned, Routed
    <2>4. FanListed'
      BY <1>1, <2>1, <2>2, <2>3 DEF FanListed, TypeOK
    <2>5. ASSUME NEW p \in Peer, fans'[p] # None
          PROVE  id[fans'[p]] = p /\ pc'[fans'[p]] \in Fanned
      <3>1. CASE p = id[s]
        BY <2>1, <3>1 DEF Fanned, TypeOK
      <3>2. CASE p # id[s]
        <4>1. fans'[p] = fans[p] /\ fans[p] \in Session
          BY <2>1, <2>5, <3>2 DEF TypeOK
        <4>2. id[fans[p]] = p /\ pc[fans[p]] \in Fanned
          BY <2>5, <4>1 DEF FanReal
        <4> QED BY <1>1, <3>2, <4>1, <4>2
      <3> QED BY <3>1, <3>2
    <2> QED BY <1>1, <2>4, <2>5 DEF FanReal
  <1>3. CASE RemoveFan(s)
    <2>1. pc[s] = "unfan" /\ pc'[s] \notin Fanned /\ fans' = [fans EXCEPT ![id[s]] = None]
          /\ id[s] \in Peer
      BY <1>3 DEF RemoveFan, DropFan, Goto, LeaveTail, TypeOK, Announced, Fanned, Routed
    <2>2. \A t \in Session \ {s} : pc[t] \in Fanned => id[t] # id[s]
      BY <2>1, Solo DEF Fanned, Routed
    <2>3. \A t \in Session : pc[t] \in Fanned => id[t] \in Peer
      BY DEF Announced, Fanned, Routed
    <2>4. FanListed'
      BY <1>1, <2>1, <2>2, <2>3 DEF FanListed, TypeOK
    <2>5. ASSUME NEW p \in Peer, fans'[p] # None
          PROVE  id[fans'[p]] = p /\ pc'[fans'[p]] \in Fanned
      <3>1. p # id[s]
        BY <2>1, <2>5 DEF TypeOK
      <3>2. fans'[p] = fans[p] /\ fans[p] \in Session
        BY <2>1, <2>5, <3>1 DEF TypeOK
      <3>3. id[fans[p]] = p /\ pc[fans[p]] \in Fanned
        BY <2>5, <3>2 DEF FanReal
      <3> QED BY <1>1, <3>1, <3>2, <3>3
    <2> QED BY <1>1, <2>4, <2>5 DEF FanReal
  <1>4. CASE AddPeerRouteFails(s) \/ AbandonJoin(s)
    BY <1>4 DEF AddPeerRouteFails, AbandonJoin, NoRouteError
  <1>5. CASE ~InsertFan(s) /\ ~RemoveFan(s) /\ ~AddPeerRouteFails(s) /\ ~AbandonJoin(s)
    <2>1. UNCHANGED fans /\ (pc'[s] \in Fanned <=> pc[s] \in Fanned)
      <3> USE DEF TypeOK, Fanned, Routed, fanVars, Goto
      <3>1. CASE SpokeCloses(s) \/ FanStep(s)
        BY <3>1 DEF SpokeCloses, FanStep, Deliver, FanWriteFails
      <3>2. CASE HandshakeFails(s) \/ ExchangeVips(s) \/ ClaimPeer(s) \/ VerifyClaim(s)
        BY <3>2 DEF HandshakeFails, ExchangeVips, ClaimPeer, VerifyClaim, Handshake
      <3>3. CASE AddPeerRoute(s) \/ WriteSnapshot(s)
        BY <3>3 DEF AddPeerRoute, WriteSnapshot, JoinTail
      <3>4. CASE RefreshUp(s) \/ JoinDone(s) \/ RefreshDown(s)
        BY <3>4 DEF RefreshUp, JoinDone, RefreshDown, RefreshLoad, RefreshStore
      <3>5. CASE BroadcastJoined(s)
        BY <3>5 DEF BroadcastJoined, Collect, SendOne, SendDone, JoinTail
      <3>6. CASE BroadcastLeft(s)
        BY <3>6 DEF BroadcastLeft, Collect, SendOne, SendDone, LeaveTail
      <3>7. CASE SeeClose(s) \/ RemovePeer(s) \/ JudgeRemoved(s) \/ DelPeerRoute(s)
        BY <3>7 DEF SeeClose, RemovePeer, JudgeRemoved, DelPeerRoute
      <3> QED BY <1>5, <3>1, <3>2, <3>3, <3>4, <3>5, <3>6, <3>7 DEF Step
    <2> QED BY <1>1, <2>1, FanFrame
  <1> QED BY <1>2, <1>3, <1>4, <1>5

LEMMA SendsKeep ==
  ASSUME IndexInv, FanInv, NEW s \in Session, SpokeCloses(s) \/ Step(s) \/ FanStep(s)
  PROVE  SendsListed'
  <1> USE DEF IndexInv, FanInv
  <1>1. /\ \A t \in Session \ {s} : pc'[t] = pc[t]
        /\ Flow(s)
    BY StepFlow
  <1>2. \A t \in Session : pc[t] \notin Unlisted => pc'[t] \notin Unlisted
    BY <1>1 DEF Unlisted, Handshake, Flow, Joining, Leaving
  <1>3. ASSUME NEW t \in Session, NEW q, SendOne(s, t, q, "joined") \/ SendOne(s, t, q, "left")
        PROVE  SendsListed'
    <2>0. pc' = pc /\ sends' = [sends EXCEPT ![s] = sends[s] \ {t}]
      BY <1>3 DEF SendOne
    <2>1. pc' = pc /\ \A u \in Session : sends'[u] \subseteq sends[u]
      BY <2>0 DEF TypeOK
    <2> QED BY <2>1, <1>2 DEF SendsListed, TypeOK
  <1>4. ASSUME NEW from, NEW to, Collect(s, from, to)
        PROVE  SendsListed'
    <2>1. \A t \in Session : pc[t] \in Fanned => pc[t] \notin Unlisted
      BY DEF Fanned, Routed, Unlisted, Handshake
    <2>2. \A t \in {fans[p] : p \in Peer} \ {None} : t \in Session /\ pc[t] \notin Unlisted
      BY <2>1 DEF FanReal, TypeOK
    <2> QED BY <1>1, <1>2, <1>4, <2>2 DEF Collect, SendsListed, TypeOK
  <1>5. ASSUME UNCHANGED sends, pc'[s] \in {"joinSend", "leftSend"} => pc[s] = pc'[s]
        PROVE  SendsListed'
    BY <1>1, <1>2, <1>5 DEF SendsListed, TypeOK
  <1> USE DEF fanVars, Goto
  <1>6. CASE SpokeCloses(s) \/ FanStep(s)
    BY <1>5, <1>6 DEF SpokeCloses, FanStep, Deliver, FanWriteFails
  <1>7. CASE HandshakeFails(s) \/ ExchangeVips(s) \/ ClaimPeer(s) \/ VerifyClaim(s)
    BY <1>5, <1>7 DEF HandshakeFails, ExchangeVips, ClaimPeer, VerifyClaim, TypeOK
  <1>8. CASE InsertFan(s) \/ AddPeerRoute(s) \/ AddPeerRouteFails(s) \/ AbandonJoin(s)
    BY <1>5, <1>8 DEF InsertFan, AddPeerRoute, AddPeerRouteFails, AbandonJoin, TypeOK
  <1>9. CASE WriteSnapshot(s) \/ RefreshUp(s) \/ JoinDone(s) \/ RefreshDown(s)
    BY <1>5, <1>9 DEF WriteSnapshot, RefreshUp, JoinDone, RefreshDown, RefreshLoad,
       RefreshStore, JoinTail, TypeOK
  <1>10. CASE BroadcastJoined(s) \/ BroadcastLeft(s)
    BY <1>3, <1>4, <1>5, <1>10 DEF BroadcastJoined, BroadcastLeft, SendDone, JoinTail, LeaveTail, TypeOK
  <1>11. CASE \/ SeeClose(s) \/ RemovePeer(s) \/ JudgeRemoved(s) \/ RemoveFan(s)
              \/ DelPeerRoute(s)
    BY <1>5, <1>11 DEF SeeClose, RemovePeer, JudgeRemoved, RemoveFan, DelPeerRoute,
       LeaveTail, TypeOK
  <1> QED BY <1>6, <1>7, <1>8, <1>9, <1>10, <1>11 DEF Step

LEMMA StepFanInv ==
  ASSUME Redial = "after", ~RouteFaults, SlotInv, FanInv, [Next]_vars
  PROVE  FanInv'
  <1>1. IndexInv /\ Orderly
    BY DEF SlotInv, IndexInv
  <1>2. ASSUME NEW p \in Peer, Accept(p) PROVE FanInv'
    <2> DEFINE n == session_seq + 1
    <2>1. /\ n \in Session /\ pc[n] = "idle" /\ pc'[n] \in {"vips", "done"}
          /\ \A t \in Session : t # n => pc'[t] = pc[t] /\ id'[t] = id[t]
          /\ UNCHANGED <<hidden, fans, fanq, fanTask, sends>>
      BY <1>1, <1>2, AcceptFlow
    <2>2. open' \in {open, open \cup {n}}
      BY <1>2 DEF Accept
    <2>3. NoRouteError' /\ TellVisible' /\ TaskPhases'
      BY <2>1, <2>2 DEF FanInv, NoRouteError, TellVisible, TaskPhases, Telling, Unlisted,
         Handshake, Joining
    <2>4. FanListed'
      BY <2>1 DEF FanInv, FanListed, Fanned, Routed
    <2>6. ASSUME NEW q \in Peer, fans[q] # None
          PROVE  id'[fans[q]] = q /\ pc'[fans[q]] \in Fanned
      <3>1. fans[q] \in Session /\ id[fans[q]] = q /\ pc[fans[q]] \in Fanned
        BY <1>1, <2>6 DEF FanInv, FanReal, IndexInv, TypeOK
      <3>2. fans[q] # n
        BY <2>1, <3>1 DEF Fanned, Routed
      <3> QED BY <2>1, <3>1, <3>2
    <2>7. FanReal'
      BY <2>1, <2>6 DEF FanReal
    <2>5. SendsListed'
      BY <1>1, <2>1 DEF FanInv, SendsListed, Unlisted, Handshake, IndexInv, TypeOK
    <2> QED BY <2>3, <2>4, <2>5, <2>7 DEF FanInv
  <1>3. ASSUME NEW s \in Session, SpokeCloses(s) \/ Step(s) \/ FanStep(s) PROVE FanInv'
    BY <1>1, <1>3, TaskKeeps, MapKeeps, SendsKeep DEF FanInv
  <1>4. CASE UNCHANGED vars
    BY <1>4 DEF vars, sessVars, fanVars, FanInv, NoRouteError, TellVisible, TaskPhases,
       FanListed, FanReal, SendsListed
  <1> QED BY <1>2, <1>3, <1>4 DEF Next

-----------------------------------------------------------------------------
(* Rosters and sessions                                                     *)

(* What a queue will make of the spoke's knowledge of peer p: the last      *)
(* entry about p decides, and without one nothing changes.                  *)
Says(m) == IF m.kind = "joined" THEN m.vip ELSE NoVip
NoneAbout(q, p) == \A i \in DOMAIN q : q[i].id # p
LastSays(q, p, v) ==
    \E i \in DOMAIN q : /\ q[i].id = p /\ Says(q[i]) = v
                        /\ \A j \in DOMAIN q : j > i => q[j].id # p

LEMMA SaysAfterAppend ==
  ASSUME NEW q \in Seq(Entry), NEW m \in Entry, NEW p, NEW v
  PROVE  /\ NoneAbout(q, p) /\ m.id # p => NoneAbout(Append(q, m), p)
         /\ LastSays(q, p, v) /\ m.id # p => LastSays(Append(q, m), p, v)
         /\ LastSays(Append(q, m), m.id, Says(m))
  <1>1. /\ DOMAIN Append(q, m) = 1..(Len(q) + 1) /\ DOMAIN q = 1..Len(q) /\ Len(q) \in Nat
        /\ \A i \in 1..Len(q) : Append(q, m)[i] = q[i]
        /\ Append(q, m)[Len(q) + 1] = m
    OBVIOUS
  <1>2. NoneAbout(q, p) /\ m.id # p => NoneAbout(Append(q, m), p)
    BY <1>1 DEF NoneAbout
  <1>3. ASSUME LastSays(q, p, v), m.id # p PROVE LastSays(Append(q, m), p, v)
    <2>1. PICK i \in DOMAIN q : /\ q[i].id = p /\ Says(q[i]) = v
                                /\ \A j \in DOMAIN q : j > i => q[j].id # p
      BY <1>3 DEF LastSays
    <2>2. \A j \in DOMAIN Append(q, m) : j > i => Append(q, m)[j].id # p
      BY <1>1, <1>3, <2>1
    <2> QED BY <1>1, <2>1, <2>2 DEF LastSays
  <1>4. LastSays(Append(q, m), m.id, Says(m))
    BY <1>1 DEF LastSays
  <1> QED BY <1>2, <1>3, <1>4

LEMMA SaysAfterTail ==
  ASSUME NEW q \in Seq(Entry), q # <<>>, NEW p, NEW v
  PROVE  /\ NoneAbout(q, p) => NoneAbout(Tail(q), p) /\ Head(q).id # p
         /\ LastSays(q, p, v) =>
              \/ LastSays(Tail(q), p, v)
              \/ NoneAbout(Tail(q), p) /\ Head(q).id = p /\ Says(Head(q)) = v
  <1>1. /\ DOMAIN q = 1..Len(q) /\ Len(q) \in Nat /\ Len(q) > 0 /\ Head(q) = q[1]
        /\ DOMAIN Tail(q) = 1..(Len(q) - 1)
        /\ \A i \in 1..(Len(q) - 1) : Tail(q)[i] = q[i + 1]
    OBVIOUS
  <1>2. NoneAbout(q, p) => NoneAbout(Tail(q), p) /\ Head(q).id # p
    BY <1>1 DEF NoneAbout
  <1>3. ASSUME LastSays(q, p, v), ~LastSays(Tail(q), p, v)
        PROVE  NoneAbout(Tail(q), p) /\ Head(q).id = p /\ Says(Head(q)) = v
    <2>1. PICK i \in DOMAIN q : /\ q[i].id = p /\ Says(q[i]) = v
                                /\ \A j \in DOMAIN q : j > i => q[j].id # p
      BY <1>3 DEF LastSays
    <2>2. i = 1
      <3> SUFFICES ASSUME i # 1 PROVE FALSE
        OBVIOUS
      <3>1. i - 1 \in DOMAIN Tail(q) /\ Tail(q)[i - 1] = q[i]
        BY <1>1, <2>1
      <3>2. \A j \in DOMAIN Tail(q) : j > i - 1 => Tail(q)[j].id # p
        BY <1>1, <2>1
      <3> QED BY <1>3, <2>1, <3>1, <3>2 DEF LastSays
    <2> QED BY <1>1, <2>1, <2>2 DEF NoneAbout
  <1> QED BY <1>2, <1>3

(* Session s's channel is listed and read; its snapshot is written. *)
Listening(s) == pc[s] \in {"route"} \cup Routed /\ fanTask[s] # "ended"
Told(s) == pc[s] \in Routed \ {"snap"}

(* Once everything queued is written, and its snapshot before that, the     *)
(* spoke of session s knows v about peer p.                                 *)
Knows(s, p, v) ==
    \/ LastSays(fanq[s], p, v)
    \/ NoneAbout(fanq[s], p) /\ (Told(s) => view[s][p] = v)

(* t's Joined is in s's queue or behind it; t has a Left for s to come. *)
JoinSent(t, s) ==
    \/ pc[t] \in {"refreshUp", "storeUp", "up"}
    \/ pc[t] = "joinSend" /\ s \notin sends[t]
OwesLeft(t, s) ==
    \/ Claims(t) \/ pc[t] \in {"judge", "unfan", "leftCollect"}
    \/ pc[t] = "leftSend" /\ s \in sends[t]

Speaks(t, p) == id[t] = p /\ ~hidden[t]
Informed(s, p) ==
    /\ \A t \in Session : Speaks(t, p) /\ JoinSent(t, s) => Knows(s, p, vip[t])
    /\ Knows(s, p, NoVip) \/ \E t \in Session : Speaks(t, p) /\ OwesLeft(t, s)
Rosters == \A s \in Session : Listening(s) => \A p \in Peer \ {id[s]} : Informed(s, p)

RosterInv == SlotInv /\ FanInv /\ Rosters

LEMMA InitRosterInv == Init => RosterInv
  <1> SUFFICES ASSUME Init PROVE RosterInv
    OBVIOUS
  <1>1. Rosters
    BY DEF Init, Rosters, Listening, Routed
  <1> QED BY <1>1, InitSlotInv, InitFanInv DEF RosterInv

(* What s knows survives as long as its queue and view stand still, no new  *)
(* Joined counts as sent and no Left is dropped.                            *)
LEMMA InformedFrame ==
  ASSUME NEW s \in Session, NEW p, Informed(s, p),
         fanq'[s] = fanq[s], view'[s] = view[s], Told(s)' <=> Told(s),
         \A t \in Session : Speaks(t, p)' /\ JoinSent(t, s)' =>
                               Speaks(t, p) /\ JoinSent(t, s) /\ vip'[t] = vip[t],
         \A t \in Session : Speaks(t, p) /\ OwesLeft(t, s) => Speaks(t, p)' /\ OwesLeft(t, s)'
  PROVE  Informed(s, p)'
  <1>1. \A v : Knows(s, p, v) => Knows(s, p, v)'
    BY DEF Knows
  <1> QED BY <1>1 DEF Informed

(* The same for a step of session a that moves its program counter alone. *)
LEMMA MoveInforms ==
  ASSUME NEW a \in Session, NEW s \in Session, NEW p, Informed(s, p),
         UNCHANGED <<id, hidden, vip, sends>>, fanq'[s] = fanq[s], view'[s] = view[s],
         \A t \in Session \ {a} : pc'[t] = pc[t], Told(s)' <=> Told(s),
         pc'[a] = "joinSend" => pc[a] = "joinSend",
         pc'[a] \in {"refreshUp", "storeUp", "up"} =>
            \/ pc[a] \in {"refreshUp", "storeUp", "up"}
            \/ pc[a] = "joinSend" /\ sends[a] = {}
            \/ hidden[a],
         \A t \in Session \ {a} : Claims(t) => Claims(t)',
         Claims(a) \/ pc[a] \in {"judge", "unfan", "leftCollect"} =>
            Claims(a)' \/ pc'[a] \in {"judge", "unfan", "leftCollect"} \/ hidden[a],
         pc[a] = "leftSend" => sends[a] = {} \/ pc'[a] = "leftSend"
  PROVE  Informed(s, p)'
  <1>1. \A t \in Session : Speaks(t, p)' <=> Speaks(t, p)
    BY DEF Speaks
  <1>2. ASSUME NEW t \in Session, Speaks(t, p), JoinSent(t, s)'
        PROVE  JoinSent(t, s)
    BY <1>2 DEF JoinSent, Speaks
  <1>3. ASSUME NEW t \in Session, Speaks(t, p), OwesLeft(t, s)
        PROVE  OwesLeft(t, s)'
    BY <1>3 DEF OwesLeft, Speaks
  <1> QED BY <1>1, <1>2, <1>3, InformedFrame

(* No other session's step disturbs a claim that holds. *)
LEMMA OthersClaim ==
  ASSUME Redial = "after", SlotInv, NEW a \in Session, SpokeCloses(a) \/ Step(a) \/ FanStep(a),
         NEW t \in Session \ {a}, Claims(t)
  PROVE  Claims(t)'
  <1> USE DEF SlotInv, IndexInv
  <1>1. UNCHANGED id /\ pc'[t] = pc[t] /\ vip'[t] = vip[t]
    BY StepFlow
  <1>2. CASE pc[t] # "claimed"
    BY <1>1, <1>2 DEF Claims
  <1>3. CASE pc[t] = "claimed"
    <2>1. vip[t][1] \in Vip4 /\ ClaimHeld(t)
      BY <1>3 DEF Announced, Pair, Claims
    <2>2. by_v4[vip[t][1]] = t
      <3> DEFINE u == by_v4[vip[t][1]]
      <3>1. u \in Session /\ id[u] = id[t] /\ pc[u] \in Holding
        BY <2>1 DEF ClaimHeld, IndexSound, TypeOK
      <3>2. pc[u] \notin {"idle", "done"}
        BY <3>1 DEF Holding, Joining
      <3> QED BY <1>3, <3>1, <3>2, Solo
    <2>3. by_v4'[vip[t][1]] = t
      <3>1. CASE ClaimPeer(a)
        <4>1. pc[a] = "hello" /\ vip[a][1] \in Vip4
          BY <3>1 DEF ClaimPeer, Announced, Pair
        <4>2. id[a] # id[t]
          BY <1>3, <4>1, Solo
        <4>3. Claimable(a) => vip[a][1] # vip[t][1]
          BY <2>2, <4>2, SessionFacts DEF Claimable, Foreign
        <4> QED BY <2>1, <2>2, <3>1, <4>1, <4>3 DEF ClaimPeer, indexVars, TypeOK
      <3>2. CASE AddPeerRouteFails(a) \/ RemovePeer(a)
        BY <2>1, <2>2, <3>2 DEF AddPeerRouteFails, RemovePeer, RemoveIfOwned
      <3>3. CASE ~ClaimPeer(a) /\ ~AddPeerRouteFails(a) /\ ~RemovePeer(a)
        BY <2>2, <3>3, IndexFrame
      <3> QED BY <3>1, <3>2, <3>3
    <2> QED BY <1>1, <1>3, <2>3, SessionFacts DEF Claims, ClaimHeld, Holding, Joining
  <1> QED BY <1>2, <1>3

LEMMA HandshakeInforms ==
  ASSUME Redial = "after", RosterInv, NEW a \in Session, NEW s \in Session,
         HandshakeFails(a) \/ ExchangeVips(a) \/ ClaimPeer(a),
         Listening(s)', NEW p \in Peer \ {id[s]}
  PROVE  Informed(s, p)'
  <1> USE DEF RosterInv, SlotInv, IndexInv
  <1>1. /\ UNCHANGED <<id, fanq, view, sends, fanTask>>
        /\ \A t \in Session \ {a} : pc'[t] = pc[t] /\ vip'[t] = vip[t] /\ hidden'[t] = hidden[t]
        /\ pc[a] \in Handshake /\ pc'[a] \in {"hello", "claimed", "done"}
        /\ \A t \in Session \ {a} : Claims(t) => Claims(t)'
    <2>1. Step(a)
      BY DEF Step
    <2>2. UNCHANGED <<id, fanq, view, sends, fanTask>> /\ pc[a] \in Handshake
      BY DEF HandshakeFails, ExchangeVips, ClaimPeer, sessVars, fanVars, Handshake
    <2>3. pc'[a] \in {"hello", "claimed", "done"}
      BY DEF HandshakeFails, ExchangeVips, ClaimPeer, Goto, TypeOK
    <2>4. \A t \in Session \ {a} : Claims(t) => Claims(t)'
      BY <2>1, OthersClaim
    <2> QED BY <2>1, <2>2, <2>3, <2>4, StepFlow
  <1>2. s # a
    BY <1>1 DEF Listening, Routed
  <1>3. Informed(s, p)
    BY <1>1, <1>2 DEF Rosters, Listening
  <1>4. ASSUME NEW t \in Session, Speaks(t, p)', JoinSent(t, s)'
        PROVE  Speaks(t, p) /\ JoinSent(t, s) /\ vip'[t] = vip[t]
    BY <1>1, <1>4 DEF Speaks, JoinSent
  <1>5. ASSUME NEW t \in Session, Speaks(t, p), OwesLeft(t, s)
        PROVE  Speaks(t, p)' /\ OwesLeft(t, s)'
    <2>1. t # a
      BY <1>1, <1>5 DEF OwesLeft, Claims, Holding, Joining, Handshake
    <2> QED BY <1>1, <1>5, <2>1 DEF Speaks, OwesLeft
  <1>6. Told(s)' <=> Told(s)
    BY <1>1, <1>2 DEF Told
  <1> QED BY <1>1, <1>3, <1>4, <1>5, <1>6, InformedFrame

(* A session just listed has an empty queue and its snapshot to come. *)
LEMMA InsertInforms ==
  ASSUME Redial = "after", RosterInv, NEW a \in Session, NEW s \in Session, InsertFan(a),
         Listening(s)', NEW p \in Peer \ {id[s]}
  PROVE  Informed(s, p)'
  <1> USE DEF RosterInv, SlotInv, IndexInv
  <1>1. /\ UNCHANGED <<id, hidden, vip, sends, fanq, view, fanTask>>
        /\ pc[a] = "fan" /\ pc'[a] = "route" /\ \A t \in Session \ {a} : pc'[t] = pc[t]
    BY DEF InsertFan, Goto, TypeOK, sessVars
  <1>2. CASE s = a
    <2>1. fanq'[s] = <<>> /\ ~Told(s)'
      BY <1>1, <1>2 DEF FanInv, TaskPhases, Unlisted, Told, Routed
    <2>2. \A v : Knows(s, p, v)'
      BY <2>1 DEF Knows, NoneAbout
    <2> QED BY <2>2 DEF Informed
  <1>3. CASE s # a
    <2>1. Informed(s, p) /\ (Told(s)' <=> Told(s))
      BY <1>1, <1>3 DEF Rosters, Listening, Told
    <2>2. \A t \in Session \ {a} : Claims(t) => Claims(t)'
      BY OthersClaim DEF Step
    <2>3. Claims(a)'
      BY <1>1 DEF Claims, Holding, Joining
    <2> QED BY <1>1, <1>3, <2>1, <2>2, <2>3, MoveInforms
  <1> QED BY <1>2, <1>3

(* Steps that move a session through its points and send nothing. *)
LEMMA QuietInforms ==
  ASSUME Redial = "after", RosterInv, NEW a \in Session, NEW s \in Session,
         \/ SpokeCloses(a) \/ VerifyClaim(a) \/ AddPeerRoute(a) \/ RefreshUp(a) \/ JoinDone(a)
         \/ SeeClose(a) \/ RemovePeer(a) \/ JudgeRemoved(a) \/ RemoveFan(a) \/ RefreshDown(a)
         \/ DelPeerRoute(a) \/ FanWriteFails(a)
         \/ SendDone(a, "joinSend", JoinTail) \/ SendDone(a, "leftSend", LeaveTail),
         Listening(s)', NEW p \in Peer \ {id[s]}
  PROVE  Informed(s, p)'
  <1> USE DEF RosterInv, SlotInv, IndexInv
  <1>1. /\ UNCHANGED <<id, hidden, vip, sends, view>>
        /\ \A t \in Session \ {a} : pc'[t] = pc[t] /\ fanq'[t] = fanq[t] /\ fanTask'[t] = fanTask[t]
    <2> USE DEF TypeOK, sessVars, fanVars, Goto
    <2>1. CASE SpokeCloses(a) \/ VerifyClaim(a) \/ AddPeerRoute(a) \/ RefreshUp(a) \/ JoinDone(a)
      BY <2>1 DEF SpokeCloses, VerifyClaim, AddPeerRoute, RefreshUp, RefreshLoad, JoinDone, RefreshStore
    <2>2. CASE SeeClose(a) \/ RemovePeer(a) \/ JudgeRemoved(a) \/ RemoveFan(a) \/ FanWriteFails(a)
      BY <2>2 DEF SeeClose, RemovePeer, JudgeRemoved, RemoveFan, FanWriteFails
    <2>3. CASE RefreshDown(a) \/ DelPeerRoute(a) \/ SendDone(a, "joinSend", JoinTail)
               \/ SendDone(a, "leftSend", LeaveTail)
      BY <2>3 DEF RefreshDown, RefreshLoad, RefreshStore, DelPeerRoute, SendDone
    <2> QED BY <2>1, <2>2, <2>3
  <1>2. /\ pc'[a] = "joinSend" => pc[a] = "joinSend"
        /\ pc'[a] \in {"refreshUp", "storeUp", "up"} =>
              \/ pc[a] \in {"refreshUp", "storeUp", "up"}
              \/ pc[a] = "joinSend" /\ sends[a] = {}
        /\ Claims(a) \/ pc[a] \in {"judge", "unfan", "leftCollect"} =>
              Claims(a)' \/ pc'[a] \in {"judge", "unfan", "leftCollect"} \/ hidden[a]
        /\ pc[a] = "leftSend" => sends[a] = {} \/ pc'[a] = "leftSend"
    <2> USE DEF TypeOK, Goto, Claims, Holding, Joining
    <2>0. CASE SpokeCloses(a) \/ FanWriteFails(a)
      <3>1. UNCHANGED <<pc, id, vip, by_v4>>
        BY <2>0 DEF SpokeCloses, FanWriteFails, sessVars, indexVars
      <3>2. Claims(a)' <=> Claims(a)
        BY <3>1 DEF ClaimHeld
      <3> QED BY <3>1, <3>2
    <2>1. CASE VerifyClaim(a) \/ AddPeerRoute(a) \/ RefreshUp(a) \/ JoinDone(a)
      BY <2>1 DEF VerifyClaim, AddPeerRoute, RefreshUp, RefreshLoad, JoinDone, RefreshStore
    <2>2. CASE SeeClose(a) \/ RemovePeer(a) \/ JudgeRemoved(a) \/ RemoveFan(a)
      BY <2>2 DEF SeeClose, RemovePeer, JudgeRemoved, RemoveFan, LeaveTail
    <2>3. CASE RefreshDown(a) \/ DelPeerRoute(a) \/ SendDone(a, "joinSend", JoinTail)
               \/ SendDone(a, "leftSend", LeaveTail)
      BY <2>3 DEF RefreshDown, RefreshLoad, RefreshStore, DelPeerRoute, SendDone, JoinTail, LeaveTail
    <2> QED BY <2>0, <2>1, <2>2, <2>3
  <1>3. s = a => /\ fanq'[s] = fanq[s] /\ Listening(s)
                 /\ Told(s)' <=> Told(s)
    <2> USE DEF TypeOK, Listening, Told, Routed, sessVars, fanVars, Goto
    <2>1. CASE SpokeCloses(a) \/ VerifyClaim(a) \/ AddPeerRoute(a) \/ RefreshUp(a)
      BY <2>1 DEF SpokeCloses, VerifyClaim, AddPeerRoute, RefreshUp, RefreshLoad
    <2>2. CASE JoinDone(a)
      BY <2>2 DEF JoinDone, RefreshStore, FanInv, TaskPhases, Joining
    <2>3. CASE SeeClose(a) \/ RemovePeer(a) \/ JudgeRemoved(a) \/ RemoveFan(a) \/ FanWriteFails(a)
      BY <2>3 DEF SeeClose, RemovePeer, JudgeRemoved, RemoveFan, FanWriteFails, LeaveTail
    <2>4. CASE RefreshDown(a) \/ DelPeerRoute(a) \/ SendDone(a, "joinSend", JoinTail)
               \/ SendDone(a, "leftSend", LeaveTail)
      BY <2>4 DEF RefreshDown, RefreshLoad, RefreshStore, DelPeerRoute, SendDone, JoinTail, LeaveTail
    <2> QED BY <2>1, <2>2, <2>3, <2>4
  <1>4. fanq'[s] = fanq[s] /\ Listening(s) /\ (Told(s)' <=> Told(s))
    BY <1>1, <1>3 DEF Listening, Told
  <1>5. Informed(s, p)
    BY <1>4 DEF Rosters
  <1>6. \A t \in Session \ {a} : Claims(t) => Claims(t)'
    BY OthersClaim DEF Step, FanStep, BroadcastJoined, BroadcastLeft
  <1> QED BY <1>1, <1>2, <1>4, <1>5, <1>6, MoveInforms

(* hub_roster_snapshot: whoever has sent its Joined is in the index, and    *)
(* whoever is in the index will send a Left.                                *)
LEMMA SnapshotInforms ==
  ASSUME Redial = "after", RosterInv, NEW a \in Session, NEW s \in Session, WriteSnapshot(a),
         Listening(s)', NEW p \in Peer \ {id[s]}
  PROVE  Informed(s, p)'
  <1> USE DEF RosterInv, SlotInv, IndexInv
  <1>1. /\ UNCHANGED <<id, hidden, vip, sends, fanq, fanTask>>
        /\ pc[a] = "snap" /\ \A t \in Session \ {a} : pc'[t] = pc[t]
        /\ pc'[a] \in {"joinCollect", "refreshUp", "storeUp"}
        /\ pc'[a] # "joinCollect" => hidden[a]
    BY DEF WriteSnapshot, Goto, JoinTail, TypeOK, sessVars
  <1>9. /\ \A t \in Session \ {a} : Claims(t)' <=> Claims(t)
        /\ Claims(a) /\ Claims(a)'
    BY <1>1 DEF WriteSnapshot, indexVars, Claims, ClaimHeld, Holding, Joining
  <1>2. PICK pick \in [Peer -> Session \cup {None}] :
           /\ \A q \in Peer : IF Visible(a, q) = {} THEN pick[q] = None
                              ELSE pick[q] \in Visible(a, q)
           /\ view' = [view EXCEPT ![a] =
                 [q \in Peer |-> IF pick[q] = None THEN NoVip ELSE vip[pick[q]]]]
    BY DEF WriteSnapshot
  <1>3. CASE s # a
    <2>1. Informed(s, p) /\ (Told(s)' <=> Told(s)) /\ view'[s] = view[s]
      BY <1>1, <1>2, <1>3 DEF Rosters, Listening, Told, TypeOK
    <2> QED BY <1>1, <1>3, <1>9, <2>1, MoveInforms
  <1>4. CASE s = a
    <2>1. Informed(s, p) /\ ~Told(s) /\ Told(s)'
      BY <1>1, <1>4 DEF Rosters, Listening, Told, Routed
    <2>2. view'[s][p] = IF pick[p] = None THEN NoVip ELSE vip[pick[p]]
      BY <1>2, <1>4 DEF TypeOK
    <2>3. ASSUME NEW t \in Visible(a, p)
          PROVE  t \in Session /\ id[t] = p /\ ~hidden[t] /\ pc[t] \in Holding /\ Claims(t)
      BY <2>3, SessionFacts DEF Visible, IndexSound, Claims, ClaimHeld
    <2>4. ASSUME NEW t \in Session, Speaks(t, p), JoinSent(t, s)
          PROVE  view'[s][p] = vip[t]
      <3>1. pc[t] \in Holding /\ id[t] = p /\ ~hidden[t] /\ t # None
        BY <2>4, SessionFacts DEF Speaks, JoinSent, Holding, Joining
      <3>2. pc[t] \notin {"idle", "done"}
        BY <3>1 DEF Holding, Joining
      <3>3. by_v4[vip[t][1]] = t /\ vip[t][1] \in Vip4
        BY <2>4, <3>1, <3>2, Solo DEF LatestHolds, Claims, JoinSent, Announced, Pair, Holding, Joining
      <3>4. t \in Visible(a, p)
        BY <3>1, <3>3, <1>4 DEF Visible
      <3>5. pick[p] \in Visible(a, p)
        BY <1>2, <3>4
      <3>6. pick[p] = t
        <4>1. pick[p] \in Session /\ id[pick[p]] = p /\ pc[pick[p]] \notin {"idle", "done"}
          BY <3>5, <2>3 DEF Holding, Joining
        <4> QED BY <4>1, <3>1, <3>2, Solo
      <3> QED BY <2>2, <3>1, <3>6
    <2>5. ASSUME NEW t \in Session
          PROVE  /\ Speaks(t, p)' <=> Speaks(t, p)
                 /\ Speaks(t, p) => (JoinSent(t, s)' <=> JoinSent(t, s))
                 /\ Speaks(t, p) => (OwesLeft(t, s)' <=> OwesLeft(t, s))
      <3>1. Speaks(t, p)' <=> Speaks(t, p)
        BY <1>1 DEF Speaks
      <3>2. Speaks(t, p) => t # a
        BY <1>4 DEF Speaks
      <3> QED BY <1>1, <1>9, <3>1, <3>2 DEF JoinSent, OwesLeft
    <2>7. ASSUME NEW t \in Session, Speaks(t, p)', JoinSent(t, s)'
          PROVE  Knows(s, p, vip[t])'
      <3>1. Knows(s, p, vip[t]) /\ view'[s][p] = vip[t]
        BY <2>1, <2>4, <2>5, <2>7 DEF Informed
      <3> QED BY <1>1, <3>1 DEF Knows
    <2>8. Knows(s, p, NoVip)' \/ \E t \in Session : Speaks(t, p)' /\ OwesLeft(t, s)'
      <3>1. CASE Knows(s, p, NoVip)
        <4>1. CASE view'[s][p] = NoVip
          BY <1>1, <3>1, <4>1 DEF Knows
        <4>2. CASE view'[s][p] # NoVip
          <5>1. pick[p] \in Visible(a, p)
            BY <1>2, <2>2, <4>2
          <5>2. pick[p] \in Session /\ Speaks(pick[p], p) /\ OwesLeft(pick[p], s)
            BY <2>3, <5>1 DEF Speaks, OwesLeft
          <5> QED BY <2>5, <5>2
        <4> QED BY <4>1, <4>2
      <3>2. CASE \E t \in Session : Speaks(t, p) /\ OwesLeft(t, s)
        BY <2>5, <3>2
      <3> QED BY <2>1, <3>1, <3>2 DEF Informed
    <2> QED BY <2>7, <2>8 DEF Informed
  <1> QED BY <1>3, <1>4

(* broadcast_roster clones every listed sender: no listening session is     *)
(* left out of a Joined or a Left.                                          *)
LEMMA CollectInforms ==
  ASSUME RosterInv, NEW a \in Session, NEW s \in Session,
         Collect(a, "joinCollect", "joinSend") \/ Collect(a, "leftCollect", "leftSend"),
         Listening(s)', NEW p \in Peer \ {id[s]}
  PROVE  Informed(s, p)'
  <1> USE DEF RosterInv, SlotInv, IndexInv
  <1>1. /\ UNCHANGED <<id, hidden, vip, fanq, view, fanTask>>
        /\ \A t \in Session \ {a} : pc'[t] = pc[t] /\ sends'[t] = sends[t]
        /\ sends'[a] = {fans[q] : q \in Peer} \ {None}
        /\ \/ pc[a] = "joinCollect" /\ pc'[a] = "joinSend"
           \/ pc[a] = "leftCollect" /\ pc'[a] = "leftSend"
        /\ UNCHANGED by_v4
    BY DEF Collect, Goto, TypeOK, sessVars, indexVars
  <1>2. Listening(s) /\ (Told(s)' <=> Told(s))
    BY <1>1 DEF Listening, Told, Routed
  <1>3. s \in sends'[a]
    <2>1. fans[id[s]] = s /\ id[s] \in Peer /\ s # None
      BY <1>2, SessionFacts DEF Listening, FanInv, FanListed, Fanned, Routed, Announced
    <2> QED BY <1>1, <2>1
  <1>4. ASSUME NEW t \in Session, Speaks(t, p)', JoinSent(t, s)'
        PROVE  Speaks(t, p) /\ JoinSent(t, s) /\ vip'[t] = vip[t]
    BY <1>1, <1>3, <1>4 DEF Speaks, JoinSent
  <1>5. ASSUME NEW t \in Session, Speaks(t, p), OwesLeft(t, s)
        PROVE  Speaks(t, p)' /\ OwesLeft(t, s)'
    BY <1>1, <1>3, <1>5 DEF Speaks, OwesLeft, Claims, ClaimHeld, Holding, Joining
  <1>6. Informed(s, p)
    BY <1>2 DEF Rosters
  <1> QED BY <1>1, <1>2, <1>4, <1>5, <1>6, InformedFrame

(* One message into the channel of session u. *)
LEMMA SendInforms ==
  ASSUME Redial = "after", RosterInv, NEW a \in Session, NEW s \in Session, NEW u \in Session,
         SendOne(a, u, "joinSend", "joined") \/ SendOne(a, u, "leftSend", "left"),
         Listening(s)', NEW p \in Peer \ {id[s]}
  PROVE  Informed(s, p)'
  <1> USE DEF RosterInv, SlotInv, IndexInv
  <1> DEFINE m(k) == [kind |-> k, id |-> id[a], vip |-> vip[a]]
  <1>1. /\ UNCHANGED <<pc, id, hidden, vip, view, fanTask>> /\ u \in sends[a]
        /\ sends'[a] = sends[a] \ {u} /\ \A t \in Session \ {a} : sends'[t] = sends[t]
        /\ \A t \in Session \ {u} : fanq'[t] = fanq[t]
        /\ pc[a] \in {"joinSend", "leftSend"} /\ ~hidden[a]
        /\ UNCHANGED by_v4
    BY DEF SendOne, TypeOK, sessVars, indexVars, FanInv, TellVisible, Telling
  <1>9. \A t \in Session : Claims(t)' <=> Claims(t)
    BY <1>1 DEF Claims, ClaimHeld
  <1>2. Listening(s) /\ (Told(s)' <=> Told(s)) /\ Informed(s, p)
    BY <1>1 DEF Listening, Told, Rosters
  <1>3. \A t \in Session : Speaks(t, p)' <=> Speaks(t, p)
    BY <1>1 DEF Speaks
  <1>4. CASE s # u
    <2>1. \A t \in Session : /\ JoinSent(t, s)' <=> JoinSent(t, s)
                             /\ OwesLeft(t, s)' <=> OwesLeft(t, s)
      BY <1>1, <1>4, <1>9 DEF JoinSent, OwesLeft
    <2> QED BY <1>1, <1>2, <1>3, <1>4, <2>1, InformedFrame
  <1>5. CASE s = u
    <2>1. PICK k \in {"joined", "left"} :
             /\ fanq'[s] = Append(fanq[s], m(k))
             /\ pc[a] = IF k = "joined" THEN "joinSend" ELSE "leftSend"
      BY <1>2, <1>5 DEF SendOne, Closed, Listening, TypeOK
    <2>2. m(k) \in Entry /\ fanq[s] \in Seq(Entry) /\ m(k).id = id[a]
      BY <1>1 DEF Announced, Entry, TypeOK
    <2>3. CASE p # id[a]
      <3>1. \A v : Knows(s, p, v) => Knows(s, p, v)'
        BY <1>1, <1>2, <2>1, <2>2, <2>3, SaysAfterAppend DEF Knows
      <3>2. \A t \in Session : Speaks(t, p) => t # a
        BY <2>3 DEF Speaks
      <3>3. \A t \in Session : Speaks(t, p) => /\ JoinSent(t, s)' <=> JoinSent(t, s)
                                               /\ OwesLeft(t, s)' <=> OwesLeft(t, s)
        BY <1>1, <1>9, <3>2 DEF JoinSent, OwesLeft
      <3>4. ASSUME NEW t \in Session, Speaks(t, p)', JoinSent(t, s)'
            PROVE  Knows(s, p, vip[t])'
        <4>1. Knows(s, p, vip[t])
          BY <1>2, <1>3, <3>3, <3>4 DEF Informed
        <4> QED BY <1>1, <3>1, <4>1
      <3>5. Knows(s, p, NoVip)' \/ \E t \in Session : Speaks(t, p)' /\ OwesLeft(t, s)'
        BY <1>2, <1>3, <3>1, <3>3 DEF Informed
      <3> QED BY <3>4, <3>5 DEF Informed
    <2>4. CASE p = id[a]
      <3>1. LastSays(fanq'[s], p, Says(m(k)))
        BY <2>1, <2>2, <2>4, SaysAfterAppend
      <3>2. ASSUME NEW t \in Session, Speaks(t, p)', JoinSent(t, s)' PROVE t = a /\ k = "joined"
        <4>1. t = a
          BY <1>1, <2>4, <3>2, Solo DEF Speaks, JoinSent
        <4> QED BY <1>1, <2>1, <3>2, <4>1 DEF JoinSent
      <3>3. ASSUME NEW t \in Session, Speaks(t, p)', JoinSent(t, s)'
            PROVE  Knows(s, p, vip[t])'
        <4>1. Says(m(k)) = vip[t] /\ vip' = vip
          BY <1>1, <3>2, <3>3 DEF Says
        <4> QED BY <3>1, <4>1 DEF Knows
      <3>4. CASE k = "joined"
        <4>1. Speaks(a, p)' /\ OwesLeft(a, s)'
          BY <1>1, <2>1, <2>4, <3>4 DEF Speaks, OwesLeft, Claims, Holding, Joining
        <4> QED BY <3>3, <4>1 DEF Informed
      <3>5. CASE k = "left"
        <4>1. Says(m(k)) = NoVip
          BY <3>5 DEF Says
        <4>2. Knows(s, p, NoVip)'
          BY <3>1, <4>1 DEF Knows
        <4> QED BY <3>3, <4>2 DEF Informed
      <3> QED BY <2>1, <3>4, <3>5
    <2> QED BY <2>3, <2>4
  <1> QED BY <1>4, <1>5

(* One message from the channel to the spoke. *)
LEMMA DeliverInforms ==
  ASSUME RosterInv, NEW a \in Session, NEW s \in Session, Deliver(a),
         Listening(s)', NEW p \in Peer \ {id[s]}
  PROVE  Informed(s, p)'
  <1> USE DEF RosterInv, SlotInv, IndexInv
  <1>1. /\ UNCHANGED <<pc, id, hidden, vip, sends, fanTask>>
        /\ \A t \in Session \ {a} : fanq'[t] = fanq[t] /\ view'[t] = view[t]
    BY DEF Deliver, TypeOK, sessVars
  <1>9. \A t \in Session : Claims(t)' <=> Claims(t)
    BY <1>1 DEF Deliver, indexVars, Claims, ClaimHeld
  <1>2. Listening(s) /\ (Told(s)' <=> Told(s)) /\ Informed(s, p)
    BY <1>1 DEF Listening, Told, Rosters
  <1>3. \A t \in Session : /\ Speaks(t, p)' <=> Speaks(t, p)
                           /\ JoinSent(t, s)' <=> JoinSent(t, s)
                           /\ OwesLeft(t, s)' <=> OwesLeft(t, s)
    BY <1>1, <1>9 DEF Speaks, JoinSent, OwesLeft
  <1>4. CASE s # a
    BY <1>1, <1>2, <1>3, <1>4, InformedFrame
  <1>5. CASE s = a
    <2> DEFINE m == Head(fanq[s])
    <2>1. /\ fanq[s] \in Seq(Entry) /\ fanq[s] # <<>> /\ m \in Entry
          /\ view[s] \in [Peer -> Pair \cup {NoVip}]
          /\ fanq'[s] = Tail(fanq[s]) /\ view'[s] = Apply(view[s], id[s], m)
          /\ Told(s)
      BY <1>5 DEF Deliver, TypeOK, FanInv, TaskPhases, Told, Routed
    <2>2. m.kind \in {"joined", "left"}
      BY <2>1 DEF Entry
    <2>3. view'[s][p] = IF m.id = p THEN Says(m) ELSE view[s][p]
      BY <2>1, <2>2 DEF Apply, Says
    <2>4. ASSUME NEW v, Knows(s, p, v) PROVE Knows(s, p, v)'
      <3>1. CASE NoneAbout(fanq[s], p) /\ view[s][p] = v
        <4>0. NoneAbout(Tail(fanq[s]), p) /\ Head(fanq[s]).id # p
          BY <2>1, <3>1, SaysAfterTail, Zenon
        <4>1. NoneAbout(fanq'[s], p) /\ m.id # p
          BY <2>1, <4>0
        <4> QED BY <2>3, <3>1, <4>1 DEF Knows
      <3>2. CASE LastSays(fanq[s], p, v)
        <4>1. \/ LastSays(fanq'[s], p, v)
              \/ NoneAbout(fanq'[s], p) /\ m.id = p /\ Says(m) = v
          BY <2>1, <3>2, SaysAfterTail
        <4> QED BY <2>3, <4>1 DEF Knows
      <3> QED BY <2>1, <2>4, <3>1, <3>2 DEF Knows
    <2>5. ASSUME NEW t \in Session, Speaks(t, p)', JoinSent(t, s)'
          PROVE  Knows(s, p, vip[t])'
      <3>1. Knows(s, p, vip[t])
        BY <1>2, <1>3, <2>5 DEF Informed
      <3> QED BY <1>1, <2>4, <3>1
    <2>6. Knows(s, p, NoVip)' \/ \E t \in Session : Speaks(t, p)' /\ OwesLeft(t, s)'
      BY <1>2, <1>3, <2>4 DEF Informed
    <2> QED BY <2>5, <2>6 DEF Informed
  <1> QED BY <1>4, <1>5

LEMMA StepRosterInv ==
  Redial = "after" /\ ~RouteFaults /\ RosterInv /\ [Next]_vars => RosterInv'
  <1> SUFFICES ASSUME Redial = "after", ~RouteFaults, RosterInv, [Next]_vars
               PROVE  RosterInv'
    OBVIOUS
  <1>1. IndexInv /\ SlotInv' /\ FanInv'
    BY StepSlotInv, StepFanInv DEF RosterInv, SlotInv, LateRedial
  <1>2. ASSUME NEW q \in Peer, Accept(q) PROVE Rosters'
    <2> DEFINE n == session_seq + 1
    <2> SUFFICES ASSUME NEW s \in Session, Listening(s)', NEW p \in Peer \ {id'[s]}
                 PROVE  Informed(s, p)'
      BY DEF Rosters
    <2>1. /\ n \in Session /\ pc[n] = "idle" /\ pc'[n] \in {"vips", "done"}
          /\ \A t \in Session : t # n => pc'[t] = pc[t] /\ id'[t] = id[t]
          /\ UNCHANGED <<vip, hidden, fanq, fanTask, sends, view>>
      BY <1>1, <1>2, AcceptFlow
    <2>2. s # n
      BY <2>1 DEF Listening, Routed
    <2>3. Informed(s, p) /\ (Told(s)' <=> Told(s))
      BY <2>1, <2>2 DEF RosterInv, Rosters, Listening, Told
    <2>4. \A t \in Session : Speaks(t, p)' /\ JoinSent(t, s)' =>
             Speaks(t, p) /\ JoinSent(t, s) /\ vip'[t] = vip[t]
      BY <2>1 DEF Speaks, JoinSent
    <2>6. ASSUME NEW t \in Session, Claims(t) PROVE Claims(t)'
      <3>1. t # n /\ pc'[t] = pc[t] /\ id'[t] = id[t]
        BY <2>1, <2>6 DEF Claims, Holding, Joining
      <3>2. ClaimHeld(t) => ClaimHeld(t)'
        <4> SUFFICES ASSUME ClaimHeld(t) PROVE ClaimHeld(t)'
          OBVIOUS
        <4>1. vip[t][1] \in Vip4
          BY <1>1, <2>1, <2>6 DEF Claims, IndexInv, Announced, Pair, Holding, Joining
        <4> DEFINE u == by_v4[vip[t][1]]
        <4>2. u \in Session /\ pc[u] \in Holding
          BY <1>1, <4>1 DEF ClaimHeld, IndexInv, IndexSound, TypeOK
        <4>3. u # n /\ id'[u] = id[u] /\ UNCHANGED by_v4
          BY <1>1, <1>2, <2>1, <4>2, AcceptFlow DEF Holding, Joining
        <4> QED BY <2>1, <3>1, <4>3 DEF ClaimHeld
      <3> QED BY <2>6, <3>1, <3>2 DEF Claims
    <2>5. \A t \in Session : Speaks(t, p) /\ OwesLeft(t, s) => Speaks(t, p)' /\ OwesLeft(t, s)'
      BY <2>1, <2>6 DEF Speaks, OwesLeft, Claims, Holding, Joining
    <2> QED BY <2>1, <2>3, <2>4, <2>5, InformedFrame
  <1>3. ASSUME NEW a \in Session, SpokeCloses(a) \/ Step(a) \/ FanStep(a) PROVE Rosters'
    <2>1. UNCHANGED id
      BY <1>1, <1>3, StepFlow
    <2> SUFFICES ASSUME NEW s \in Session, Listening(s)', NEW p \in Peer \ {id[s]}
                 PROVE  Informed(s, p)'
      BY <2>1 DEF Rosters
    <2>2. CASE HandshakeFails(a) \/ ExchangeVips(a) \/ ClaimPeer(a)
      BY <2>2, HandshakeInforms
    <2>3. CASE InsertFan(a)
      BY <2>3, InsertInforms
    <2>4. CASE WriteSnapshot(a)
      BY <2>4, SnapshotInforms
    <2>5. CASE Deliver(a)
      BY <2>5, DeliverInforms
    <2>6. CASE BroadcastJoined(a) \/ BroadcastLeft(a)
      BY <2>6, CollectInforms, SendInforms, QuietInforms DEF BroadcastJoined, BroadcastLeft
    <2>7. CASE AddPeerRouteFails(a) \/ AbandonJoin(a)
      BY <2>7 DEF AddPeerRouteFails, AbandonJoin, RosterInv, FanInv, NoRouteError
    <2>8. CASE \/ SpokeCloses(a) \/ VerifyClaim(a) \/ AddPeerRoute(a) \/ RefreshUp(a)
               \/ JoinDone(a) \/ SeeClose(a) \/ RemovePeer(a) \/ JudgeRemoved(a)
               \/ RemoveFan(a) \/ RefreshDown(a) \/ DelPeerRoute(a) \/ FanWriteFails(a)
      BY <2>8, QuietInforms
    <2> QED BY <1>3, <2>2, <2>3, <2>4, <2>5, <2>6, <2>7, <2>8 DEF Step, FanStep
  <1>4. CASE UNCHANGED vars
    <2>1. UNCHANGED <<pc, id, vip, hidden, by_v4, fanq, view, sends, fanTask>>
      BY <1>4 DEF vars, sessVars, indexVars, fanVars
    <2>2. ASSUME NEW s \in Session, Listening(s)', NEW p \in Peer \ {id'[s]}
          PROVE  Informed(s, p)'
      <3>1. Informed(s, p) /\ (Told(s)' <=> Told(s))
        BY <2>1, <2>2 DEF RosterInv, Rosters, Listening, Told
      <3>2. \A t \in Session : /\ Speaks(t, p)' <=> Speaks(t, p)
                               /\ JoinSent(t, s)' <=> JoinSent(t, s)
                               /\ OwesLeft(t, s)' <=> OwesLeft(t, s)
        BY <2>1 DEF Speaks, JoinSent, OwesLeft, Claims, ClaimHeld
      <3> QED BY <2>1, <3>1, <3>2, InformedFrame
    <2>3. Rosters'
      BY <2>2 DEF Rosters
    <2> QED BY <1>1, <2>3 DEF RosterInv
  <1> QED BY <1>1, <1>2, <1>3, <1>4 DEF Next, RosterInv

LEMMA RosterInvImplies == RosterInv => RostersAgree
  <1> SUFFICES ASSUME RosterInv PROVE RostersAgree
    OBVIOUS
  <1>1. FanKept
    BY DEF RosterInv, FanInv, FanListed, FanKept, Served, Fanned, Routed
  <1>2. ASSUME NEW s \in Session, Served(s), Settled, fanq[s] = <<>>, NEW p \in Peer \ {id[s]}
        PROVE  view[s][p] \in IF Present(p) = {} THEN {NoVip} ELSE {vip[t] : t \in Present(p)}
    <2>1. Told(s) /\ Informed(s, p)
      BY <1>2 DEF Served, Told, Routed, RosterInv, Rosters, Listening, FanInv, TaskPhases
    <2>2. ASSUME NEW v, Knows(s, p, v) PROVE view[s][p] = v
      BY <1>2, <2>1, <2>2 DEF Knows, LastSays
    <2>3. ASSUME NEW t \in Present(p) PROVE view[s][p] = vip[t]
      BY <2>1, <2>2, <2>3 DEF Present, Informed, Speaks, JoinSent
    <2>4. CASE Present(p) = {}
      <3>1. \A t \in Session : ~(Speaks(t, p) /\ OwesLeft(t, s))
        BY <1>2, <2>4 DEF Present, Speaks, OwesLeft, Claims, Settled, Holding, Joining
      <3> QED BY <2>1, <2>2, <2>4, <3>1 DEF Informed
    <2> QED BY <2>3, <2>4
  <1> QED BY <1>1, <1>2 DEF RostersAgree, RosterAgrees

(* Snapshot, Joined and Left, for any number of spokes and sessions, any    *)
(* channel capacity and any interleaving of joins, teardowns, broadcasts    *)
(* and deliveries: where routes install and a spoke redials after its old   *)
(* session's task returned, no spoke misses or keeps a peer for good.       *)
THEOREM RostersFollowSessions ==
  Redial = "after" /\ ~RouteFaults => (Spec => []RostersAgree)
  <1> SUFFICES ASSUME Redial = "after", ~RouteFaults PROVE Spec => []RostersAgree
    OBVIOUS
  <1>1. RosterInv /\ [Next]_vars => RosterInv'
    BY StepRosterInv
  <1> QED BY InitRosterInv, <1>1, RosterInvImplies, PTL DEF Spec

-----------------------------------------------------------------------------
(* Full channels                                                            *)

(* The broadcasts session s has sent, or skipped, past session t.           *)
SaidTo(s, t, kind) ==
    IF kind = "joined"
    THEN \/ pc[s] = "joinSend" /\ t \notin sends[s]
         \/ pc[s] \in {"refreshUp", "storeUp", "up", "remove", "done"} \cup Leaving
    ELSE \/ pc[s] = "leftSend" /\ t \notin sends[s]
         \/ pc[s] \in {"refreshDown", "storeDown", "unroute", "done"}

(* What may wait in a channel nobody drains yet: of every session one       *)
(* Joined and one Left, but not the owner's own Left.                       *)
Possible(t) == (Session \X {"joined", "left"}) \ {<<t, "left">>}
Spoken(t) == {m \in Possible(t) : SaidTo(m[1], t, m[2])}

TaskSpawned ==
    \A s \in Session : pc[s] \in {"up", "remove"} \cup Leaving => fanTask[s] # "none"
QueueBound ==
    \A t \in Session : fanTask[t] = "none" => Len(fanq[t]) <= Cardinality(Spoken(t))
RoomInv == IndexInv /\ TaskSpawned /\ QueueBound

LEMMA PossibleSize ==
  ASSUME NEW t \in Session
  PROVE  IsFiniteSet(Possible(t)) /\ Cardinality(Possible(t)) = 2 * MaxSession - 1
  <1> DEFINE Kinds == {"joined", "left"}
  <1>1. IsFiniteSet(Session) /\ Cardinality(Session) = MaxSession
    <2>1. 1 \in Int /\ MaxSession \in Int /\ MaxSession >= 1
      BY HubConstants DEF Session
    <2> QED BY <2>1, FS_Interval DEF Session
  <1>2. IsFiniteSet(Kinds) /\ Cardinality(Kinds) = 2
    <2>1. IsFiniteSet({"joined"}) /\ Cardinality({"joined"}) = 1
      BY FS_EmptySet, FS_AddElement
    <2>2. Kinds = {"joined"} \cup {"left"} /\ "left" \notin {"joined"}
      OBVIOUS
    <2> QED BY <2>1, <2>2, FS_AddElement
  <1>3. IsFiniteSet(Session \X Kinds) /\ Cardinality(Session \X Kinds) = 2 * MaxSession
    <2>1. /\ IsFiniteSet(Session \X Kinds)
          /\ Cardinality(Session \X Kinds) = Cardinality(Session) * Cardinality(Kinds)
      BY <1>1, <1>2, FS_Product
    <2> QED BY <1>1, <1>2, <2>1, HubConstants
  <1>4. <<t, "left">> \in Session \X Kinds
    OBVIOUS
  <1> QED BY <1>3, <1>4, FS_RemoveElement DEF Possible

LEMMA SpokenSize ==
  ASSUME NEW t \in Session
  PROVE  IsFiniteSet(Spoken(t)) /\ Cardinality(Spoken(t)) \in Nat
  BY PossibleSize, FS_Subset, FS_CardinalityType DEF Spoken

LEMMA InitRoomInv == Init => RoomInv
  <1> SUFFICES ASSUME Init PROVE RoomInv
    OBVIOUS
  <1>1. IndexInv
    BY InitIndexInv
  <1>2. TaskSpawned
    BY DEF Init, TaskSpawned, Leaving
  <1>3. ASSUME NEW t \in Session PROVE Len(fanq[t]) <= Cardinality(Spoken(t))
    BY SpokenSize DEF Init
  <1> QED BY <1>1, <1>2, <1>3 DEF RoomInv, QueueBound

(* The fan-out task is spawned once, before the session counts as up.       *)
LEMMA SpawnKeeps ==
  ASSUME IndexInv, TaskSpawned, NEW s \in Session, SpokeCloses(s) \/ Step(s) \/ FanStep(s)
  PROVE  /\ TaskSpawned'
         /\ \A t \in Session : fanTask'[t] = "none" => fanTask[t] = "none"
  <1> USE DEF IndexInv, TypeOK, TaskSpawned, Handshake, Leaving, sessVars, fanVars, Goto
  <1>1. CASE SpokeCloses(s) \/ FanStep(s)
    BY <1>1 DEF SpokeCloses, FanStep, Deliver, FanWriteFails
  <1>2. CASE HandshakeFails(s) \/ ExchangeVips(s) \/ ClaimPeer(s) \/ VerifyClaim(s)
    BY <1>2 DEF HandshakeFails, ExchangeVips, ClaimPeer, VerifyClaim
  <1>3. CASE InsertFan(s) \/ AddPeerRoute(s) \/ AddPeerRouteFails(s) \/ AbandonJoin(s)
    BY <1>3 DEF InsertFan, AddPeerRoute, AddPeerRouteFails, AbandonJoin
  <1>4. CASE WriteSnapshot(s) \/ RefreshUp(s) \/ JoinDone(s)
    <2>1. CASE WriteSnapshot(s)
      BY <2>1 DEF WriteSnapshot, JoinTail
    <2>2. CASE RefreshUp(s)
      BY <2>2 DEF RefreshUp, RefreshLoad
    <2>3. CASE JoinDone(s)
      BY <2>3 DEF JoinDone, RefreshStore
    <2> QED BY <1>4, <2>1, <2>2, <2>3
  <1>5. CASE BroadcastJoined(s) \/ BroadcastLeft(s)
    BY <1>5 DEF BroadcastJoined, BroadcastLeft, Collect, SendOne, SendDone, JoinTail, LeaveTail
  <1>6. CASE SeeClose(s) \/ RemovePeer(s) \/ JudgeRemoved(s)
    BY <1>6 DEF SeeClose, RemovePeer, JudgeRemoved
  <1>7. CASE RemoveFan(s) \/ RefreshDown(s) \/ DelPeerRoute(s)
    BY <1>7 DEF RemoveFan, RefreshDown, DelPeerRoute, RefreshLoad, RefreshStore, LeaveTail
  <1> QED BY <1>1, <1>2, <1>3, <1>4, <1>5, <1>6, <1>7 DEF Step

(* No step takes a broadcast back.                                          *)
LEMMA SpokenGrows ==
  ASSUME IndexInv, NEW s \in Session, SpokeCloses(s) \/ Step(s) \/ FanStep(s),
         NEW t \in Session
  PROVE  Spoken(t) \subseteq Spoken(t)'
  <1>1. SUFFICES ASSUME NEW u \in Session, NEW kind \in {"joined", "left"}, SaidTo(u, t, kind)
                 PROVE  SaidTo(u, t, kind)'
    BY DEF Spoken, Possible
  <1>2. CASE u # s
    <2>1. pc'[u] = pc[u]
      BY <1>2, StepFlow
    <2>2. sends'[u] = sends[u]
      <3> USE <1>2 DEF IndexInv, TypeOK, fanVars
      <3>1. CASE SpokeCloses(s) \/ FanStep(s)
        BY <3>1 DEF SpokeCloses, FanStep, Deliver, FanWriteFails
      <3>2. CASE HandshakeFails(s) \/ ExchangeVips(s) \/ ClaimPeer(s) \/ VerifyClaim(s)
        BY <3>2 DEF HandshakeFails, ExchangeVips, ClaimPeer, VerifyClaim
      <3>3. CASE InsertFan(s) \/ AddPeerRoute(s) \/ AddPeerRouteFails(s) \/ AbandonJoin(s)
        BY <3>3 DEF InsertFan, AddPeerRoute, AddPeerRouteFails, AbandonJoin
      <3>4. CASE WriteSnapshot(s) \/ RefreshUp(s) \/ JoinDone(s)
        BY <3>4 DEF WriteSnapshot, RefreshUp, JoinDone, RefreshLoad, RefreshStore
      <3>5. CASE BroadcastJoined(s) \/ BroadcastLeft(s)
        BY <3>5 DEF BroadcastJoined, BroadcastLeft, Collect, SendOne, SendDone
      <3>6. CASE \/ SeeClose(s) \/ RemovePeer(s) \/ JudgeRemoved(s) \/ RemoveFan(s)
                 \/ RefreshDown(s) \/ DelPeerRoute(s)
        BY <3>6 DEF SeeClose, RemovePeer, JudgeRemoved, RemoveFan, RefreshDown, DelPeerRoute, RefreshLoad,
           RefreshStore
      <3> QED BY <3>1, <3>2, <3>3, <3>4, <3>5, <3>6 DEF Step
    <2> QED BY <1>1, <2>1, <2>2 DEF SaidTo
  <1>3. CASE u = s
    <2> USE <1>1, <1>3 DEF SaidTo, IndexInv, TypeOK, Leaving, Handshake, fanVars, Goto
    <2>1. CASE SpokeCloses(s) \/ FanStep(s)
      BY <2>1 DEF SpokeCloses, FanStep, Deliver, FanWriteFails
    <2>2. CASE HandshakeFails(s) \/ ExchangeVips(s) \/ ClaimPeer(s) \/ VerifyClaim(s)
      BY <2>2 DEF HandshakeFails, ExchangeVips, ClaimPeer, VerifyClaim
    <2>3. CASE InsertFan(s) \/ AddPeerRoute(s) \/ AddPeerRouteFails(s) \/ AbandonJoin(s)
      BY <2>3 DEF InsertFan, AddPeerRoute, AddPeerRouteFails, AbandonJoin
    <2>4. CASE WriteSnapshot(s) \/ RefreshUp(s) \/ JoinDone(s)
      BY <2>4 DEF WriteSnapshot, RefreshUp, JoinDone, RefreshLoad, RefreshStore, JoinTail
    <2>5. CASE BroadcastJoined(s)
      BY <2>5 DEF BroadcastJoined, Collect, SendOne, SendDone, JoinTail
    <2>6. CASE BroadcastLeft(s)
      BY <2>6 DEF BroadcastLeft, Collect, SendOne, SendDone, LeaveTail
    <2>7. CASE SeeClose(s) \/ RemovePeer(s) \/ JudgeRemoved(s)
      BY <2>7 DEF SeeClose, RemovePeer, JudgeRemoved
    <2>8. CASE RemoveFan(s) \/ RefreshDown(s) \/ DelPeerRoute(s)
      BY <2>8 DEF RemoveFan, RefreshDown, DelPeerRoute, RefreshLoad, RefreshStore, LeaveTail
    <2> QED BY <2>1, <2>2, <2>3, <2>4, <2>5, <2>6, <2>7, <2>8 DEF Step
  <1> QED BY <1>2, <1>3

(* One more message in a channel is one more broadcast spoken.              *)
LEMMA SendCounts ==
  ASSUME RoomInv, NEW s \in Session, NEW t \in Session,
         NEW kind \in {"joined", "left"},
         SendOne(s, t, IF kind = "joined" THEN "joinSend" ELSE "leftSend", kind),
         fanTask[t] = "none", Spoken(t) \subseteq Spoken(t)'
  PROVE  Len(fanq'[t]) <= Cardinality(Spoken(t)')
  <1> DEFINE at == IF kind = "joined" THEN "joinSend" ELSE "leftSend"
             m == <<s, kind>>
  <1> USE DEF RoomInv, IndexInv, TypeOK
  <1>1. /\ pc[s] = at /\ pc' = pc /\ t \in sends[s]
        /\ sends' = [sends EXCEPT ![s] = sends[s] \ {t}]
        /\ Len(fanq'[t]) = Len(fanq[t]) + 1
    BY DEF SendOne, Closed
  <1>2. m # <<t, "left">>
    BY <1>1 DEF TaskSpawned, Leaving
  <1>3. m \notin Spoken(t)
    BY <1>1 DEF Spoken, SaidTo, Leaving
  <1>4. m \in Spoken(t)'
    BY <1>1, <1>2 DEF Spoken, Possible, SaidTo
  <1>5. /\ IsFiniteSet(Spoken(t)) /\ IsFiniteSet(Spoken(t)')
        /\ Cardinality(Spoken(t)) \in Nat /\ Cardinality(Spoken(t)') \in Nat
    <2>1. Spoken(t)' \subseteq Possible(t)
      BY DEF Spoken, Possible
    <2> QED BY <2>1, SpokenSize, PossibleSize, FS_Subset, FS_CardinalityType
  <1>6. Cardinality(Spoken(t)) + 1 <= Cardinality(Spoken(t)')
    <2>1. Cardinality(Spoken(t) \cup {m}) = Cardinality(Spoken(t)) + 1
      BY <1>3, <1>5, FS_AddElement
    <2>2. (Spoken(t) \cup {m}) \subseteq Spoken(t)'
      BY <1>4
    <2>3. Cardinality(Spoken(t) \cup {m}) <= Cardinality(Spoken(t)')
      BY <1>5, <2>2, FS_Subset
    <2> QED BY <2>1, <2>3
  <1>7. Len(fanq[t]) <= Cardinality(Spoken(t)) /\ Len(fanq[t]) \in Nat
    BY DEF QueueBound
  <1> QED BY <1>1, <1>5, <1>6, <1>7

(* Nothing else fills a channel whose task does not run.                    *)
LEMMA QueueStill ==
  ASSUME IndexInv, NEW s \in Session, SpokeCloses(s) \/ Step(s) \/ FanStep(s),
         NEW t \in Session, fanTask[t] = "none",
         ~SendOne(s, t, "joinSend", "joined"), ~SendOne(s, t, "leftSend", "left")
  PROVE  Len(fanq'[t]) <= Len(fanq[t]) /\ Len(fanq'[t]) \in Nat /\ Len(fanq[t]) \in Nat
  <1> USE DEF IndexInv, TypeOK, fanVars
  <1>0. Len(fanq[t]) \in Nat /\ Len(<<>>) = 0
    OBVIOUS
  <1>1. SUFFICES fanq'[t] = fanq[t] \/ fanq'[t] = <<>>
    BY <1>0
  <1>2. CASE SpokeCloses(s) \/ FanStep(s)
    BY <1>2 DEF SpokeCloses, FanStep, Deliver, FanWriteFails
  <1>3. CASE HandshakeFails(s) \/ ExchangeVips(s) \/ ClaimPeer(s) \/ VerifyClaim(s)
    BY <1>3 DEF HandshakeFails, ExchangeVips, ClaimPeer, VerifyClaim
  <1>4. CASE InsertFan(s) \/ AddPeerRoute(s) \/ AddPeerRouteFails(s) \/ AbandonJoin(s)
    BY <1>4 DEF InsertFan, AddPeerRoute, AddPeerRouteFails, AbandonJoin
  <1>5. CASE WriteSnapshot(s) \/ RefreshUp(s) \/ JoinDone(s)
    BY <1>5 DEF WriteSnapshot, RefreshUp, JoinDone, RefreshLoad, RefreshStore
  <1>6. ASSUME NEW u \in Session, u # t, NEW k, NEW at, SendOne(s, u, at, k)
        PROVE  fanq'[t] = fanq[t]
    BY <1>6 DEF SendOne
  <1>7. CASE BroadcastJoined(s) \/ BroadcastLeft(s)
    BY <1>6, <1>7 DEF BroadcastJoined, BroadcastLeft, Collect, SendDone
  <1>8. CASE \/ SeeClose(s) \/ RemovePeer(s) \/ JudgeRemoved(s) \/ RemoveFan(s)
             \/ RefreshDown(s) \/ DelPeerRoute(s)
    BY <1>8 DEF SeeClose, RemovePeer, JudgeRemoved, RemoveFan, RefreshDown, DelPeerRoute, RefreshLoad,
       RefreshStore
  <1> QED BY <1>2, <1>3, <1>4, <1>5, <1>7, <1>8 DEF Step

LEMMA StepRoomInv == RoomInv /\ [Next]_vars => RoomInv'
  <1> SUFFICES ASSUME RoomInv, [Next]_vars PROVE RoomInv'
    OBVIOUS
  <1>1. IndexInv'
    BY StepIndexInv DEF RoomInv
  <1>2. ASSUME NEW p \in Peer, Accept(p) PROVE TaskSpawned' /\ QueueBound'
    <2> DEFINE n == session_seq + 1
    <2>1. /\ n \in Session /\ pc[n] = "idle" /\ pc'[n] \in {"vips", "done"}
          /\ \A t \in Session : t # n => pc'[t] = pc[t]
          /\ UNCHANGED <<fanq, fanTask, sends>>
      BY <1>2, AcceptFlow DEF RoomInv
    <2>2. TaskSpawned'
      BY <2>1 DEF RoomInv, TaskSpawned, Leaving
    <2>3. ASSUME NEW t \in Session PROVE Cardinality(Spoken(t)) <= Cardinality(Spoken(t)')
      <3>1. Spoken(t) \subseteq Spoken(t)'
        BY <2>1 DEF Spoken, Possible, SaidTo, Leaving
      <3>2. Spoken(t)' \subseteq Possible(t)
        BY DEF Spoken, Possible
      <3>3. IsFiniteSet(Spoken(t)')
        BY <3>2, PossibleSize, FS_Subset
      <3> QED BY <3>1, <3>3, FS_Subset
    <2>4. ASSUME NEW t \in Session, fanTask'[t] = "none"
          PROVE  Len(fanq'[t]) <= Cardinality(Spoken(t)')
      <3>1. Len(fanq'[t]) <= Cardinality(Spoken(t)) /\ Len(fanq'[t]) \in Nat
        BY <2>1, <2>4 DEF RoomInv, QueueBound, IndexInv, TypeOK
      <3>2. Cardinality(Spoken(t)) \in Nat /\ Cardinality(Spoken(t)') \in Nat
        <4>1. Spoken(t)' \subseteq Possible(t)
          BY DEF Spoken, Possible
        <4> QED BY <4>1, SpokenSize, PossibleSize, FS_Subset, FS_CardinalityType
      <3> QED BY <2>3, <3>1, <3>2
    <2> QED BY <2>2, <2>4 DEF QueueBound
  <1>3. ASSUME NEW s \in Session, SpokeCloses(s) \/ Step(s) \/ FanStep(s)
        PROVE  TaskSpawned' /\ QueueBound'
    <2>1. TaskSpawned' /\ \A t \in Session : fanTask'[t] = "none" => fanTask[t] = "none"
      BY <1>3, SpawnKeeps DEF RoomInv
    <2>2. ASSUME NEW t \in Session, fanTask'[t] = "none"
          PROVE  Len(fanq'[t]) <= Cardinality(Spoken(t)')
      <3>1. fanTask[t] = "none"
        BY <2>1, <2>2
      <3>2. Spoken(t) \subseteq Spoken(t)'
        BY <1>3, SpokenGrows DEF RoomInv
      <3>3. CASE SendOne(s, t, "joinSend", "joined")
        BY <3>1, <3>2, <3>3, SendCounts
      <3>4. CASE SendOne(s, t, "leftSend", "left")
        BY <3>1, <3>2, <3>4, SendCounts
      <3>5. CASE ~SendOne(s, t, "joinSend", "joined") /\ ~SendOne(s, t, "leftSend", "left")
        <4>1. Len(fanq'[t]) <= Len(fanq[t]) /\ Len(fanq'[t]) \in Nat /\ Len(fanq[t]) \in Nat
          BY <1>3, <3>1, <3>5, QueueStill DEF RoomInv
        <4>2. Len(fanq[t]) <= Cardinality(Spoken(t))
          BY <3>1 DEF RoomInv, QueueBound
        <4>3. Spoken(t)' \subseteq Possible(t)
          BY DEF Spoken, Possible
        <4>4. IsFiniteSet(Spoken(t)')
          BY <4>3, PossibleSize, FS_Subset
        <4>5. /\ Cardinality(Spoken(t)) <= Cardinality(Spoken(t)')
              /\ Cardinality(Spoken(t)) \in Nat /\ Cardinality(Spoken(t)') \in Nat
          BY <3>2, <4>4, FS_Subset, SpokenSize, FS_CardinalityType
        <4> QED BY <4>1, <4>2, <4>5
      <3> QED BY <3>3, <3>4, <3>5
    <2> QED BY <2>1, <2>2 DEF QueueBound
  <1>4. CASE UNCHANGED vars
    <2>1. UNCHANGED <<pc, fanTask, fanq, sends>>
      BY <1>4 DEF vars, fanVars
    <2>2. \A t \in Session : Spoken(t)' = Spoken(t)
      BY <2>1 DEF Spoken, Possible, SaidTo
    <2>3. ASSUME NEW t \in Session, fanTask'[t] = "none"
          PROVE  Len(fanq'[t]) <= Cardinality(Spoken(t)')
      <3>1. Cardinality(Spoken(t)') = Cardinality(Spoken(t))
        BY <2>2
      <3> QED BY <2>1, <2>3, <3>1 DEF RoomInv, QueueBound
    <2>4. TaskSpawned' /\ QueueBound'
      <3>1. TaskSpawned'
        BY <2>1 DEF RoomInv, TaskSpawned
      <3>2. QueueBound'
        BY <2>3 DEF QueueBound
      <3> QED BY <3>1, <3>2
    <2> QED BY <1>1, <2>4 DEF RoomInv
  <1> QED BY <1>1, <1>2, <1>3, <1>4 DEF Next, RoomInv

LEMMA RoomInvImplies == FanCap >= 2 * MaxSession - 1 /\ RoomInv => JoinsNeverWait
  <1> SUFFICES ASSUME FanCap >= 2 * MaxSession - 1, RoomInv,
                      NEW s \in Session, NEW t \in Session,
                      pc[s] \in {"joinSend", "leftSend"}, t \in sends[s], fanTask[t] = "none"
               PROVE  Len(fanq[t]) < FanCap
    BY DEF JoinsNeverWait
  <1> DEFINE m == <<s, IF pc[s] = "joinSend" THEN "joined" ELSE "left">>
  <1>1. m \in Possible(t)
    BY DEF Possible, RoomInv, TaskSpawned, Leaving
  <1>2. m \notin Spoken(t)
    BY DEF Spoken, SaidTo, Leaving
  <1>3. Spoken(t) \subseteq Possible(t) \ {m}
    BY <1>2 DEF Spoken
  <1>4. IsFiniteSet(Possible(t)) /\ Cardinality(Possible(t)) = 2 * MaxSession - 1
    BY PossibleSize
  <1>5. /\ IsFiniteSet(Possible(t) \ {m})
        /\ Cardinality(Possible(t) \ {m}) = 2 * MaxSession - 2
    <2>1. /\ IsFiniteSet(Possible(t) \ {m})
          /\ Cardinality(Possible(t) \ {m}) = Cardinality(Possible(t)) - 1
      BY <1>1, <1>4, FS_RemoveElement
    <2> QED BY <1>4, <2>1, HubConstants
  <1>6. Cardinality(Spoken(t)) <= 2 * MaxSession - 2 /\ Cardinality(Spoken(t)) \in Nat
    BY <1>3, <1>5, FS_Subset, SpokenSize
  <1>7. Len(fanq[t]) <= Cardinality(Spoken(t)) /\ Len(fanq[t]) \in Nat
    BY DEF RoomInv, QueueBound, IndexInv, TypeOK
  <1> QED BY <1>6, <1>7, HubConstants

(* broadcast_roster, with and without the faults and whenever spokes       *)
(* redial: where a fan-out channel holds two messages per connection that   *)
(* the hub accepts, but one (32 do for the first 16), no broadcast ever     *)
(* finds the channel of a session that is still joining full.               *)
THEOREM JoiningNeverBlocks ==
  FanCap >= 2 * MaxSession - 1 => (Spec => []JoinsNeverWait)
  <1> SUFFICES ASSUME FanCap >= 2 * MaxSession - 1 PROVE Spec => []JoinsNeverWait
    OBVIOUS
  <1>1. RoomInv => JoinsNeverWait
    BY RoomInvImplies
  <1> QED BY InitRoomInv, StepRoomInv, <1>1, PTL DEF Spec
=============================================================================
