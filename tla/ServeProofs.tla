---------------------------- MODULE ServeProofs ----------------------------
(***************************************************************************)
(* `serve` neither loses nor makes permits, and its pipes keep half-closes  *)
(* apart from failures towards the target, for any number of connections,  *)
(* streams and permits.                                                    *)
(***************************************************************************)
EXTENDS Serve, FiniteSetTheorems, TLAPS

Waiting == {c \in Conn : conn[c] = "accept"}
Counted == {c \in Conn : conn[c] \in {"permit", "accept", "leaving"}}

(* A finite set that gains an element.                                     *)
LEMMA Gains ==
    ASSUME NEW S, IsFiniteSet(S), NEW x, x \notin S
    PROVE  Cardinality(S \cup {x}) = Cardinality(S) + 1
BY FS_AddElement

(* The same for one that loses an element.                                 *)
LEMMA Loses ==
    ASSUME NEW S, IsFiniteSet(S), NEW x \in S
    PROVE  Cardinality(S \ {x}) = Cardinality(S) - 1
BY FS_RemoveElement

(* The three sets that permits are counted by are finite.                  *)
CountsFinite ==
    /\ IsFiniteSet(Waiting) /\ IsFiniteSet(Counted) /\ IsFiniteSet(Forwarding)
    /\ Cardinality(Waiting) \in Nat /\ Cardinality(Counted) \in Nat
    /\ Cardinality(Forwarding) \in Nat

(* They are sets of connections and of streams.                            *)
LEMMA CountsAreNat == CountsFinite
<1>1. IsFiniteSet(Waiting) /\ IsFiniteSet(Counted) /\ IsFiniteSet(Forwarding)
  BY ServeConstants, FS_Subset DEF Waiting, Counted, Forwarding
<1> QED
  BY <1>1, FS_CardinalityType DEF CountsFinite

(* The permits in use, written with the three sets.                        *)
Balanced ==
    /\ strFree + Cardinality(Waiting) + Cardinality(Forwarding) = MaxConns
    /\ connFree + Cardinality(Counted) = MaxConns

(* That is PermitsConserved.                                               *)
LEMMA BalancedIsConserved == Balanced <=> PermitsConserved
BY DEF Balanced, PermitsConserved, Waiting, Counted

(* A forwarder that ends gives its permit back.                            *)
LEMMA OverBalances ==
    ASSUME TypeOK, Balanced, NEW s \in Forwarding, Over(s), UNCHANGED <<conn, connFree>>
    PROVE  Balanced' /\ strFree' \in Nat /\ connFree' \in Nat
<1> USE ServeConstants DEF TypeOK
<1>1. Forwarding' = Forwarding \ {s}
  BY DEF Over, StreamTo, Forwarding
<1>2. Waiting' = Waiting /\ Counted' = Counted
  BY DEF Waiting, Counted
<1>3. strFree' = strFree + 1
  BY DEF Over
<1> QED
  BY <1>1, <1>2, <1>3, Loses, CountsAreNat DEF Balanced, CountsFinite

(* Every step keeps the balance of both semaphores.                        *)
LEMMA BalancePreserved ==
    ASSUME TypeOK, Balanced, [Next]_vars
    PROVE  Balanced' /\ strFree' \in Nat /\ connFree' \in Nat
<1> USE ServeConstants DEF TypeOK
<1>a. strFree \in Nat /\ connFree \in Nat /\ MaxConns \in Nat
  OBVIOUS
<1>1. CASE Shutdown
  <2>1. Waiting' = {} /\ Counted' = {} /\ Forwarding' = Forwarding
    BY <1>1 DEF Shutdown, Waiting, Counted, Forwarding
  <2>2. strFree' = strFree + Cardinality(Waiting) /\ connFree' = MaxConns
    BY <1>1 DEF Shutdown, Waiting
  <2> QED
    BY <1>a, <2>1, <2>2, CountsAreNat, FS_EmptySet DEF Balanced, CountsFinite
<1>2. ASSUME NEW c \in Conn, Accept(c)
      PROVE  Balanced' /\ strFree' \in Nat /\ connFree' \in Nat
  <2>1. Waiting' = Waiting /\ Counted' = Counted /\ Forwarding' = Forwarding
    BY <1>2 DEF Accept, ConnTo, Waiting, Counted, Forwarding
  <2> QED
    BY <1>2, <1>a, <2>1 DEF Accept, permits, Balanced
<1>3. ASSUME NEW c \in Conn, ConnPermit(c)
      PROVE  Balanced' /\ strFree' \in Nat /\ connFree' \in Nat
  <2>1. /\ Waiting' = Waiting /\ Forwarding' = Forwarding
        /\ Counted' = Counted \cup {c} /\ c \notin Counted
    BY <1>3 DEF ConnPermit, ConnTo, Waiting, Counted, Forwarding
  <2>2. connFree > 0 /\ connFree' = connFree - 1 /\ strFree' = strFree
    BY <1>3 DEF ConnPermit
  <2> QED
    BY <1>a, <2>1, <2>2, Gains, CountsAreNat DEF Balanced, CountsFinite
<1>4. ASSUME NEW c \in Conn, StreamPermit(c)
      PROVE  Balanced' /\ strFree' \in Nat /\ connFree' \in Nat
  <2>1. /\ Counted' = Counted /\ Forwarding' = Forwarding
        /\ Waiting' = Waiting \cup {c} /\ c \notin Waiting
    BY <1>4 DEF StreamPermit, ConnTo, Waiting, Counted, Forwarding
  <2>2. strFree > 0 /\ strFree' = strFree - 1 /\ connFree' = connFree
    BY <1>4 DEF StreamPermit
  <2> QED
    BY <1>a, <2>1, <2>2, Gains, CountsAreNat DEF Balanced, CountsFinite
<1>5. ASSUME NEW c \in Conn, AcceptBiFails(c)
      PROVE  Balanced' /\ strFree' \in Nat /\ connFree' \in Nat
  <2>1. /\ Counted' = Counted /\ Forwarding' = Forwarding
        /\ Waiting' = Waiting \ {c} /\ c \in Waiting
    BY <1>5 DEF AcceptBiFails, ConnTo, Waiting, Counted, Forwarding
  <2>2. strFree' = strFree + 1 /\ connFree' = connFree
    BY <1>5 DEF AcceptBiFails
  <2>3. Cardinality(Waiting') = Cardinality(Waiting) - 1
    BY <2>1, Loses, CountsAreNat DEF CountsFinite
  <2> QED
    BY <1>a, <2>1, <2>2, <2>3, CountsAreNat DEF Balanced, CountsFinite
<1>6. ASSUME NEW c \in Conn, Leave(c)
      PROVE  Balanced' /\ strFree' \in Nat /\ connFree' \in Nat
  <2>1. /\ Waiting' = Waiting /\ Forwarding' = Forwarding
        /\ Counted' = Counted \ {c} /\ c \in Counted
    BY <1>6 DEF Leave, ConnTo, Waiting, Counted, Forwarding
  <2>2. strFree' = strFree /\ connFree' = connFree + 1
    BY <1>6 DEF Leave
  <2> QED
    BY <1>a, <2>1, <2>2, Loses, CountsAreNat DEF Balanced, CountsFinite
<1>7. ASSUME NEW s \in Stream, AcceptBi(s)
      PROVE  Balanced' /\ strFree' \in Nat /\ connFree' \in Nat
  <2>1. /\ Waiting' = Waiting \ {ConnOf[s]} /\ ConnOf[s] \in Waiting
        /\ Forwarding' = Forwarding \cup {s} /\ s \notin Forwarding
        /\ Counted' = Counted
    BY <1>7 DEF AcceptBi, ConnTo, StreamTo, Waiting, Counted, Forwarding
  <2>2. strFree' = strFree /\ connFree' = connFree
    BY <1>7 DEF AcceptBi, permits
  <2> QED
    BY <1>a, <2>1, <2>2, Gains, Loses, CountsAreNat DEF Balanced, CountsFinite
<1>8. ASSUME NEW s \in Forwarding, Over(s), UNCHANGED <<conn, connFree>>
      PROVE  Balanced' /\ strFree' \in Nat /\ connFree' \in Nat
  BY <1>8, OverBalances
<1>9. ASSUME NEW s \in Stream, ReadHead(s) \/ BadHead(s) \/ DialFails(s) \/ Dial(s)
      PROVE  Balanced' /\ strFree' \in Nat /\ connFree' \in Nat
  <2>1. s \in Forwarding /\ UNCHANGED <<conn, connFree>>
    BY <1>9 DEF ReadHead, BadHead, DialFails, Dial, Forwarding, permits
  <2>2. CASE Over(s)
    BY <1>8, <2>1, <2>2
  <2>3. CASE strFree' = strFree /\ (StreamTo(s, "dial") \/ StreamTo(s, "pipe"))
    <3>1. Waiting' = Waiting /\ Counted' = Counted /\ Forwarding' = Forwarding
      BY <2>1, <2>3 DEF StreamTo, Waiting, Counted, Forwarding
    <3> QED
      BY <1>a, <2>1, <2>3, <3>1 DEF Balanced
  <2> QED
    BY <1>9, <2>2, <2>3 DEF ReadHead, BadHead, DialFails, Dial, permits
<1>10. ASSUME NEW s \in Stream, LocalStep(s) \/ RemoteStep(s)
       PROVE  Balanced' /\ strFree' \in Nat /\ connFree' \in Nat
  <2>1. s \in Forwarding /\ UNCHANGED <<conn, connFree>>
    <3>1. CASE LocalStep(s)
      BY <3>1 DEF LocalStep, LocalReads, LocalEof, LocalFails, Forwarding, others
    <3>2. CASE RemoteStep(s)
      BY <3>2 DEF RemoteStep, RemoteReads, RemoteEof, RemoteFails, RemoteBroken,
                  Forwarding, others
    <3> QED
      BY <1>10, <3>1, <3>2
  <2>2. Over(s) \/ UNCHANGED <<stream, strFree>>
    BY <1>10 DEF LocalStep, RemoteStep, LocalReads, RemoteReads, LocalEof, RemoteEof,
                 LocalFails, RemoteFails, EndsWell
  <2>3. CASE UNCHANGED <<stream, strFree>>
    BY <1>a, <2>1, <2>3 DEF Balanced, Waiting, Counted, Forwarding
  <2> QED
    BY <1>8, <2>1, <2>2, <2>3
<1>11. CASE UNCHANGED <<conn, permits, stream>>
  BY <1>11, <1>a DEF permits, Balanced, Waiting, Counted, Forwarding
<1>12. ASSUME NEW s \in Stream, OpenStream(s)
       PROVE  Balanced' /\ strFree' \in Nat /\ connFree' \in Nat
  <2>1. Waiting' = Waiting /\ Counted' = Counted /\ Forwarding' = Forwarding
    BY <1>12 DEF OpenStream, StreamTo, Waiting, Counted, Forwarding
  <2> QED
    BY <1>12, <1>a, <2>1 DEF OpenStream, permits, Balanced
<1>13. ASSUME NEW s \in Stream, NEW how,
              \/ PeerEnds(s, how) \/ TargetEnds(s, how)
              \/ PeerStops(s) \/ PeerTakes(s) \/ TargetTakes(s)
       PROVE  UNCHANGED <<conn, permits, stream>>
  BY <1>13 DEF PeerEnds, TargetEnds, PeerStops, PeerTakes, TargetTakes
<1>14. ASSUME NEW c \in Conn, ConnDies(c)
       PROVE  UNCHANGED <<conn, permits, stream>>
  BY <1>14 DEF ConnDies
<1>15. DrainTasks \/ UNCHANGED vars => UNCHANGED <<conn, permits, stream>>
  BY DEF DrainTasks, vars
<1> QED
  BY <1>1, <1>2, <1>3, <1>4, <1>5, <1>6, <1>7, <1>9, <1>10, <1>11, <1>12, <1>13,
     <1>14, <1>15 DEF Next, ConnStep, StreamStep

(* Every step keeps the types; that no semaphore overflows follows from    *)
(* the balance.                                                            *)
LEMMA TypePreserved ==
    ASSUME TypeOK, Balanced, [Next]_vars
    PROVE  TypeOK'
<1> USE ServeConstants DEF TypeOK
<1>1. connFree' \in 0..MaxConns /\ strFree' \in 0..MaxConns
  <2>1. /\ strFree' + Cardinality(Waiting') + Cardinality(Forwarding') = MaxConns
        /\ connFree' + Cardinality(Counted') = MaxConns
        /\ strFree' \in Nat /\ connFree' \in Nat
    BY BalancePreserved DEF Balanced
  <2>2. CountsFinite'
    BY CountsAreNat, PTL
  <2> QED
    BY <2>1, <2>2 DEF CountsFinite
<1>2. CASE Shutdown \/ DrainTasks
  BY <1>1, <1>2 DEF Shutdown, DrainTasks, Cut, permits, pipeVars
<1>3. CASE \E c \in Conn : Accept(c)
  BY <1>1, <1>3 DEF Accept, ConnTo, permits, pipeVars
<1>4. CASE \E c \in Conn : ConnStep(c)
  BY <1>1, <1>4 DEF ConnStep, ConnPermit, StreamPermit, AcceptBiFails, Leave, ConnTo, pipeVars
<1>5. CASE \E c \in Conn : ConnDies(c)
  BY <1>1, <1>5 DEF ConnDies, Cut, permits
<1>6. CASE \E s \in Stream : AcceptBi(s) \/ OpenStream(s)
  BY <1>1, <1>6 DEF AcceptBi, OpenStream, ConnTo, StreamTo, permits, pipeVars
<1>7. CASE \E s \in Stream : ReadHead(s)
  BY <1>1, <1>7 DEF ReadHead, Over, StreamTo, pipeVars
<1>8. CASE \E s \in Stream : BadHead(s) \/ DialFails(s)
  BY <1>1, <1>8 DEF BadHead, DialFails, Over, StreamTo, pipeVars
<1>9. CASE \E s \in Stream : Dial(s)
  BY <1>1, <1>9 DEF Dial, StreamTo, permits, Copy, Running
<1>a. Running \subseteq Copy /\ {"read", "write", "full"} \subseteq Copy
      /\ {"ok", "err", "dropped"} \subseteq Copy
  BY DEF Running, Copy
<1>10. CASE \E s \in Stream : LocalReads(s) \/ RemoteReads(s) \/ LocalEof(s) \/ RemoteEof(s)
  BY <1>1, <1>a, <1>10 DEF LocalReads, RemoteReads, LocalEof, RemoteEof, EndsWell, Over,
                           StreamTo, PeerSees, others
<1>11. CASE \E s \in Stream : LocalFails(s) \/ RemoteFails(s)
  BY <1>1, <1>a, <1>11 DEF LocalFails, RemoteFails, Over, StreamTo, PeerSees, others
<1>12. CASE \E s \in Stream : \/ \E how \in {"fin", "gone"} : PeerEnds(s, how)
                              \/ \E how \in {"fin", "failed"} : TargetEnds(s, how)
  BY <1>1, <1>12 DEF PeerEnds, TargetEnds, permits
<1>14. CASE \E s \in Stream : PeerStops(s) \/ PeerTakes(s) \/ TargetTakes(s)
  BY <1>1, <1>a, <1>14 DEF PeerStops, PeerTakes, TargetTakes, permits
<1>13. CASE UNCHANGED vars
  BY <1>13 DEF vars, permits, pipeVars
<1> QED
  BY <1>2, <1>3, <1>4, <1>5, <1>6, <1>7, <1>8, <1>9, <1>10, <1>11, <1>12, <1>13,
     <1>14 DEF Next, StreamStep, LocalStep, RemoteStep

(* Init: nothing is in use.                                                *)
LEMMA ServeInit == Init => TypeOK /\ Balanced
<1> SUFFICES ASSUME Init PROVE TypeOK /\ Balanced
  OBVIOUS
<1>1. TypeOK
  BY ServeConstants DEF Init, TypeOK, Copy
<1>2. Waiting = {} /\ Counted = {} /\ Forwarding = {}
  BY DEF Init, Waiting, Counted, Forwarding
<1> QED
  BY <1>1, <1>2, FS_EmptySet, ServeConstants DEF Init, Balanced

(* Types and balance hold throughout.                                      *)
LEMMA ServeTypes == Spec => [](TypeOK /\ Balanced)
<1>1. TypeOK /\ Balanced /\ [Next]_vars => (TypeOK /\ Balanced)'
  BY TypePreserved, BalancePreserved
<1> QED
  BY <1>1, ServeInit, PTL DEF Spec

(* Semaphores of ForwardHandler: no permit is lost or made up, on any way  *)
(* out of a connection, a stream or the server.                            *)
THEOREM ServePermits == Spec => []PermitsSound
<1>1. TypeOK /\ Balanced => PermitsSound
  BY BalancedIsConserved DEF PermitsSound
<1> QED
  BY <1>1, ServeTypes, PTL

(* The shape of a pipe.  Before it starts, nobody has seen anything; while *)
(* it runs, each copy goes on or ended well, and the peer has seen nothing *)
(* of a copy that goes on; and what was open on a connection that died is  *)
(* gone.                                                                   *)
Shape(s) ==
    /\ stream[s] \in {"none", "open", "head", "dial"} =>
         l2r[s] = "off" /\ r2l[s] = "off" /\ toPeer[s] = "open" /\ toTarget[s] = "open"
    /\ stream[s] = "pipe" =>
         /\ l2r[s] \in Running \cup {"ok"} /\ r2l[s] \in Running \cup {"ok"}
         /\ l2r[s] # "ok" => toPeer[s] = "open"
    /\ stream[s] \notin {"none", "over"} /\ ConnOf[s] \notin alive => fromPeer[s] # "open"

(* HalfCloseKept and AbortIsSeen of one stream.                            *)
Faithful(s) ==
    /\ fromPeer[s] # "gone" /\ fromTarget[s] # "failed" /\ s \notin stopped =>
         /\ toTarget[s] = "fin" => fromPeer[s] = "fin"
         /\ toPeer[s] # "open" => fromTarget[s] = "fin"
    /\ r2l[s] = "err" => toPeer[s] # "fin" \/ l2r[s] = "ok"

PipeInv == \A s \in Stream : Shape(s) /\ Faithful(s)

(* Every step keeps it, seen from an arbitrary stream s.                   *)
LEMMA PipePreserved ==
    ASSUME TypeOK, PipeInv, [Next]_vars
    PROVE  PipeInv'
<1> SUFFICES ASSUME NEW s \in Stream PROVE Shape(s)' /\ Faithful(s)'
  BY DEF PipeInv
<1> USE ServeConstants DEF TypeOK, PipeInv, Shape, Faithful
<1>1. CASE Shutdown
  BY <1>1 DEF Shutdown, Cut
<1>2. CASE \E c \in Conn : ConnDies(c)
  BY <1>2 DEF ConnDies, Cut
<1>3. CASE \E c \in Conn : Accept(c)
  BY <1>3 DEF Accept, pipeVars
<1>4. CASE DrainTasks \/ \E c \in Conn : ConnStep(c)
  BY <1>4 DEF DrainTasks, ConnStep, ConnPermit, StreamPermit, AcceptBiFails, Leave, pipeVars
<1>5. CASE \E r \in Stream : AcceptBi(r) \/ OpenStream(r)
  BY <1>5 DEF AcceptBi, OpenStream, StreamTo, pipeVars
<1>6. CASE \E r \in Stream : ReadHead(r) \/ BadHead(r) \/ DialFails(r)
  BY <1>6 DEF ReadHead, BadHead, DialFails, Over, StreamTo, pipeVars
<1>7. CASE \E r \in Stream : Dial(r)
  BY <1>7 DEF Dial, StreamTo, Running
<1>8. CASE \E r \in Stream : LocalEof(r)
  BY <1>8 DEF LocalEof, EndsWell, Over, StreamTo, PeerSees, others, Running
<1>9. CASE \E r \in Stream : RemoteEof(r)
  BY <1>9 DEF RemoteEof, EndsWell, Over, StreamTo, others, Running
<1>10. CASE \E r \in Stream : LocalFails(r)
  BY <1>10 DEF LocalFails, Over, StreamTo, PeerSees, others, Running
<1>11. CASE \E r \in Stream : RemoteFails(r)
  BY <1>11 DEF RemoteFails, RemoteBroken, Over, StreamTo, PeerSees, others, Running
<1>14. CASE \E r \in Stream : LocalReads(r) \/ RemoteReads(r)
  BY <1>14 DEF LocalReads, RemoteReads, others, Running
<1>15. CASE \E r \in Stream : PeerStops(r) \/ PeerTakes(r) \/ TargetTakes(r)
  BY <1>15 DEF PeerStops, PeerTakes, TargetTakes, Running
<1>12. CASE \E r \in Stream : \/ \E how \in {"fin", "gone"} : PeerEnds(r, how)
                              \/ \E how \in {"fin", "failed"} : TargetEnds(r, how)
  BY <1>12 DEF PeerEnds, TargetEnds
<1>13. CASE UNCHANGED vars
  BY <1>13 DEF vars, pipeVars
<1> QED
  BY <1>1, <1>2, <1>3, <1>4, <1>5, <1>6, <1>7, <1>8, <1>9, <1>10, <1>11, <1>12, <1>13,
     <1>14, <1>15 DEF Next, StreamStep, LocalStep, RemoteStep

(* pipe_halves: a clean half-close leaves the other direction open and is  *)
(* seen as one, whatever room the ends make, and when the copy to the      *)
(* target fails the peer never takes the answer for complete.              *)
THEOREM ServePipes == Spec => []PipesFaithful
<1>1. Init => PipeInv
  BY ServeConstants DEF Init, PipeInv, Shape, Faithful
<1>2. PipeInv => PipesFaithful
  BY DEF PipeInv, Faithful, PipesFaithful, HalfCloseKept, AbortIsSeen
<1> QED
  BY <1>1, <1>2, PipePreserved, ServeTypes, PTL DEF Spec
=============================================================================
