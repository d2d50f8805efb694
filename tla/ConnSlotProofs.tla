--------------------------- MODULE ConnSlotProofs ---------------------------
(* Safety of the connection slot, for any number of clients and any delays, *)
(* provided a ready task runs before a dial, a timeout or a sleep ends.     *)
EXTENDS ConnSlot, TLAPS

(* The connection the watcher is about to wait for, or waits for. *)
Watched ==
    IF watcher = "watch" THEN wconn
    ELSE IF watcher = "read" THEN slot ELSE None

Opening(f) == fpc[f] \in {"open", "timedout"}

(* Nobody else's connection lives beside the watched one, and as long as it *)
(* lives it is in the slot.                                                 *)
OneLive ==
    /\ slot \in alive => slot = Watched
    /\ \A f \in Forwarder : Opening(f) /\ fconn[f] \in alive => fconn[f] = Watched
    /\ watcher = "watch" /\ wconn \in alive => slot = wconn

(* A forwarder about to empty the slot means the connection it hung on. *)
HungOnWatched ==
    \A f \in Forwarder : fpc[f] = "timedout" =>
        watcher # "read" /\ (watcher = "watch" => fconn[f] = wconn)

(* An empty slot has somebody who keeps a receiver until it is filled. *)
Waits(f) == \/ fpc[f] \in {"try", "timedout", "wait"}
            \/ fpc[f] = "open" /\ fconn[f] \notin alive
Awaited == slot = None => \E f \in Forwarder : Waits(f)

(* The watcher dials, or is about to, only after a rest. *)
RestsFirst ==
    /\ watcher = "dial" => rested
    /\ watcher = "read" /\ slot = None => rested

(* The inductive strengthening of EmptyMeansDown and NoSpin. *)
SlotInv == TypeOK /\ OneLive /\ HungOnWatched /\ Awaited /\ RestsFirst

(* Backoff::next stays between its bounds. *)
LEMMA DelayBounds == \A d \in Base..Cap : Base \in Base..Cap /\ Doubled(d) \in Base..Cap
BY ConnSlotConstants DEF Doubled

(* Init establishes SlotInv. *)
LEMMA SlotInvInit == Init => SlotInv
<1> SUFFICES ASSUME Init PROVE SlotInv
  OBVIOUS
<1> PICK c \in Conn : slot = c /\ alive = {c} /\ wconn = None
  BY DEF Init
<1>1. TypeOK
  BY ConnSlotConstants DEF Init, TypeOK
<1>2. OneLive /\ HungOnWatched /\ Awaited /\ RestsFirst
  BY NoneIsNoConn DEF Init, OneLive, HungOnWatched, Awaited, RestsFirst, Watched, Opening
<1> QED
  BY <1>1, <1>2 DEF SlotInv

(* Every step keeps the types. *)
LEMMA TypePreserved == TypeOK /\ [Next]_vars => TypeOK'
<1> SUFFICES ASSUME TypeOK, [Next]_vars PROVE TypeOK'
  OBVIOUS
<1> USE ConnSlotConstants, DelayBounds DEF TypeOK, Replace, Receivers, Goto, Ends, watchVars, fwdVars
<1>1. CASE WatcherReads
  BY <1>1 DEF WatcherReads
<1>2. CASE WatcherSeesEnd
  BY <1>2 DEF WatcherSeesEnd
<1>3. CASE SleepEnds
  BY <1>3 DEF SleepEnds
<1>4. CASE Ages
  BY <1>4 DEF Ages
<1>5. CASE DialFails
  BY <1>5 DEF DialFails
<1>6. ASSUME NEW c \in Conn, ConnDies(c) PROVE TypeOK'
  BY <1>6 DEF ConnDies
<1>7. ASSUME NEW c \in Conn, DialConnects(c) PROVE TypeOK'
  BY <1>7 DEF DialConnects
<1>8. ASSUME NEW g \in Forwarder, ClientArrives(g) PROVE TypeOK'
  BY <1>8 DEF ClientArrives
<1>9. ASSUME NEW g \in Forwarder, AcquirePermit(g) PROVE TypeOK'
  BY <1>9 DEF AcquirePermit
<1>10. ASSUME NEW g \in Forwarder, Subscribe(g) PROVE TypeOK'
  BY <1>10 DEF Subscribe
<1>11. ASSUME NEW g \in Forwarder, OpenLost(g) PROVE TypeOK'
  BY <1>11 DEF OpenLost
<1>12. ASSUME NEW g \in Forwarder, AbandonConn(g) PROVE TypeOK'
  BY <1>12 DEF AbandonConn
<1>13. ASSUME NEW g \in Forwarder, Wakes(g) PROVE TypeOK'
  BY <1>13 DEF Wakes
<1>14. ASSUME NEW g \in Forwarder, OpenStream(g) PROVE TypeOK'
  BY <1>14 DEF OpenStream
<1>15. ASSUME NEW g \in Forwarder, OpenTimesOut(g) PROVE TypeOK'
  BY <1>15 DEF OpenTimesOut
<1>16. ASSUME NEW g \in Forwarder, StreamEnds(g) PROVE TypeOK'
  BY <1>16 DEF StreamEnds
<1>17. CASE UNCHANGED vars
  BY <1>17 DEF vars
<1> QED
  BY <1>1, <1>2, <1>3, <1>4, <1>5, <1>6, <1>7, <1>8, <1>9, <1>10, <1>11, <1>12, <1>13, <1>14,
     <1>15, <1>16, <1>17 DEF Next, WatcherStep, ForwarderStep

(* Every step keeps to one live connection. *)
LEMMA OneLivePreserved == Prompt /\ SlotInv /\ [Next]_vars => OneLive'
<1> SUFFICES ASSUME Prompt, SlotInv, [Next]_vars PROVE OneLive'
  OBVIOUS
<1> USE NoneIsNoConn DEF SlotInv, TypeOK, OneLive, Watched, Opening, Replace, Receivers, Goto, Ends, watchVars, fwdVars
<1>1. CASE WatcherReads
  BY <1>1 DEF WatcherReads
<1>2. CASE WatcherSeesEnd
  BY <1>2 DEF WatcherSeesEnd
<1>3. CASE SleepEnds
  BY <1>3 DEF SleepEnds
<1>4. CASE Ages
  BY <1>4 DEF Ages
<1>5. CASE DialFails
  BY <1>5 DEF DialFails
<1>6. ASSUME NEW c \in Conn, ConnDies(c) PROVE OneLive'
  BY <1>6 DEF ConnDies
<1>7. ASSUME NEW c \in Conn, DialConnects(c) PROVE OneLive'
  BY <1>7 DEF DialConnects
<1>8. ASSUME NEW g \in Forwarder, ClientArrives(g) PROVE OneLive'
  BY <1>8 DEF ClientArrives
<1>9. ASSUME NEW g \in Forwarder, AcquirePermit(g) PROVE OneLive'
  BY <1>9 DEF AcquirePermit
<1>10. ASSUME NEW g \in Forwarder, Subscribe(g) PROVE OneLive'
  BY <1>10 DEF Subscribe
<1>11. ASSUME NEW g \in Forwarder, OpenLost(g) PROVE OneLive'
  BY <1>11 DEF OpenLost
<1>12. ASSUME NEW g \in Forwarder, AbandonConn(g) PROVE OneLive'
  BY <1>12 DEF AbandonConn, HungOnWatched
<1>13. ASSUME NEW g \in Forwarder, Wakes(g) PROVE OneLive'
  BY <1>13 DEF Wakes
<1>14. ASSUME NEW g \in Forwarder, OpenStream(g) PROVE OneLive'
  BY <1>14 DEF OpenStream
<1>15. ASSUME NEW g \in Forwarder, OpenTimesOut(g) PROVE OneLive'
  BY <1>15 DEF OpenTimesOut
<1>16. ASSUME NEW g \in Forwarder, StreamEnds(g) PROVE OneLive'
  BY <1>16 DEF StreamEnds
<1>17. CASE UNCHANGED vars
  BY <1>17 DEF vars
<1> QED
  BY <1>1, <1>2, <1>3, <1>4, <1>5, <1>6, <1>7, <1>8, <1>9, <1>10, <1>11, <1>12, <1>13, <1>14,
     <1>15, <1>16, <1>17 DEF Next, WatcherStep, ForwarderStep

(* Only a forwarder that hung on the watched connection empties the slot. *)
LEMMA HungPreserved == Prompt /\ SlotInv /\ [Next]_vars => HungOnWatched'
<1> SUFFICES ASSUME Prompt, SlotInv, [Next]_vars PROVE HungOnWatched'
  OBVIOUS
<1> USE NoneIsNoConn DEF SlotInv, TypeOK, HungOnWatched, Goto, Ends, watchVars, fwdVars
<1>1. CASE WatcherReads
  BY <1>1 DEF WatcherReads
<1>2. CASE WatcherSeesEnd
  BY <1>2 DEF WatcherSeesEnd
<1>3. CASE SleepEnds
  BY <1>3 DEF SleepEnds, Lengthy, Busy
<1>4. CASE Ages
  BY <1>4 DEF Ages
<1>5. CASE DialFails
  BY <1>5 DEF DialFails
<1>6. ASSUME NEW c \in Conn, ConnDies(c) PROVE HungOnWatched'
  BY <1>6 DEF ConnDies
<1>7. ASSUME NEW c \in Conn, DialConnects(c) PROVE HungOnWatched'
  BY <1>7 DEF DialConnects, Lengthy, Busy
<1>8. ASSUME NEW g \in Forwarder, ClientArrives(g) PROVE HungOnWatched'
  BY <1>8 DEF ClientArrives
<1>9. ASSUME NEW g \in Forwarder, AcquirePermit(g) PROVE HungOnWatched'
  BY <1>9 DEF AcquirePermit
<1>10. ASSUME NEW g \in Forwarder, Subscribe(g) PROVE HungOnWatched'
  BY <1>10 DEF Subscribe
<1>11. ASSUME NEW g \in Forwarder, OpenLost(g) PROVE HungOnWatched'
  BY <1>11 DEF OpenLost
<1>12. ASSUME NEW g \in Forwarder, AbandonConn(g) PROVE HungOnWatched'
  BY <1>12 DEF AbandonConn
<1>13. ASSUME NEW g \in Forwarder, Wakes(g) PROVE HungOnWatched'
  BY <1>13 DEF Wakes
<1>14. ASSUME NEW g \in Forwarder, OpenStream(g) PROVE HungOnWatched'
  BY <1>14 DEF OpenStream
<1>15. ASSUME NEW g \in Forwarder, OpenTimesOut(g) PROVE HungOnWatched'
  BY <1>15 DEF OpenTimesOut, Lengthy, Busy, OneLive, Opening, Watched
<1>16. ASSUME NEW g \in Forwarder, StreamEnds(g) PROVE HungOnWatched'
  BY <1>16 DEF StreamEnds
<1>17. CASE UNCHANGED vars
  BY <1>17 DEF vars
<1> QED
  BY <1>1, <1>2, <1>3, <1>4, <1>5, <1>6, <1>7, <1>8, <1>9, <1>10, <1>11, <1>12, <1>13, <1>14,
     <1>15, <1>16, <1>17 DEF Next, WatcherStep, ForwarderStep

(* Every step leaves somebody with a receiver while the slot is empty. *)
LEMMA AwaitedPreserved == Prompt /\ SlotInv /\ [Next]_vars => Awaited'
<1> SUFFICES ASSUME Prompt, SlotInv, [Next]_vars PROVE Awaited'
  OBVIOUS
<1> USE NoneIsNoConn DEF SlotInv, TypeOK, Awaited, Waits, Replace, Receivers, Goto, Ends, watchVars, fwdVars
<1>1. CASE WatcherReads
  BY <1>1 DEF WatcherReads
<1>2. CASE WatcherSeesEnd
  BY <1>2 DEF WatcherSeesEnd, OneLive, Opening, Watched
<1>3. CASE SleepEnds
  BY <1>3 DEF SleepEnds
<1>4. CASE Ages
  BY <1>4 DEF Ages
<1>5. CASE DialFails
  BY <1>5 DEF DialFails
<1>6. ASSUME NEW c \in Conn, ConnDies(c) PROVE Awaited'
  BY <1>6 DEF ConnDies
<1>7. ASSUME NEW c \in Conn, DialConnects(c) PROVE Awaited'
  BY <1>7 DEF DialConnects
<1>8. ASSUME NEW g \in Forwarder, ClientArrives(g) PROVE Awaited'
  BY <1>8 DEF ClientArrives
<1>9. ASSUME NEW g \in Forwarder, AcquirePermit(g) PROVE Awaited'
  BY <1>9 DEF AcquirePermit
<1>10. ASSUME NEW g \in Forwarder, Subscribe(g) PROVE Awaited'
  BY <1>10 DEF Subscribe
<1>11. ASSUME NEW g \in Forwarder, OpenLost(g) PROVE Awaited'
  BY <1>11 DEF OpenLost
<1>12. ASSUME NEW g \in Forwarder, AbandonConn(g) PROVE Awaited'
  BY <1>12 DEF AbandonConn
<1>13. ASSUME NEW g \in Forwarder, Wakes(g) PROVE Awaited'
  BY <1>13 DEF Wakes
<1>14. ASSUME NEW g \in Forwarder, OpenStream(g) PROVE Awaited'
  BY <1>14 DEF OpenStream
<1>15. ASSUME NEW g \in Forwarder, OpenTimesOut(g) PROVE Awaited'
  BY <1>15 DEF OpenTimesOut
<1>16. ASSUME NEW g \in Forwarder, StreamEnds(g) PROVE Awaited'
  BY <1>16 DEF StreamEnds
<1>17. CASE UNCHANGED vars
  BY <1>17 DEF vars
<1> QED
  BY <1>1, <1>2, <1>3, <1>4, <1>5, <1>6, <1>7, <1>8, <1>9, <1>10, <1>11, <1>12, <1>13, <1>14,
     <1>15, <1>16, <1>17 DEF Next, WatcherStep, ForwarderStep

(* Every step keeps the watcher from dialling without a rest. *)
LEMMA RestsPreserved == Prompt /\ SlotInv /\ [Next]_vars => RestsFirst'
<1> SUFFICES ASSUME Prompt, SlotInv, [Next]_vars PROVE RestsFirst'
  OBVIOUS
<1> USE NoneIsNoConn DEF SlotInv, TypeOK, RestsFirst, Goto, Ends, watchVars, fwdVars
<1>1. CASE WatcherReads
  BY <1>1 DEF WatcherReads
<1>2. CASE WatcherSeesEnd
  BY <1>2 DEF WatcherSeesEnd, Stable
<1>3. CASE SleepEnds
  BY <1>3 DEF SleepEnds
<1>4. CASE Ages
  BY <1>4 DEF Ages
<1>5. CASE DialFails
  BY <1>5 DEF DialFails
<1>6. ASSUME NEW c \in Conn, ConnDies(c) PROVE RestsFirst'
  BY <1>6 DEF ConnDies
<1>7. ASSUME NEW c \in Conn, DialConnects(c) PROVE RestsFirst'
  BY <1>7 DEF DialConnects, Replace, Receivers, Lengthy, Busy, Awaited, Waits
<1>8. ASSUME NEW g \in Forwarder, ClientArrives(g) PROVE RestsFirst'
  BY <1>8 DEF ClientArrives
<1>9. ASSUME NEW g \in Forwarder, AcquirePermit(g) PROVE RestsFirst'
  BY <1>9 DEF AcquirePermit
<1>10. ASSUME NEW g \in Forwarder, Subscribe(g) PROVE RestsFirst'
  BY <1>10 DEF Subscribe
<1>11. ASSUME NEW g \in Forwarder, OpenLost(g) PROVE RestsFirst'
  BY <1>11 DEF OpenLost
<1>12. ASSUME NEW g \in Forwarder, AbandonConn(g) PROVE RestsFirst'
  BY <1>12 DEF AbandonConn, HungOnWatched
<1>13. ASSUME NEW g \in Forwarder, Wakes(g) PROVE RestsFirst'
  BY <1>13 DEF Wakes
<1>14. ASSUME NEW g \in Forwarder, OpenStream(g) PROVE RestsFirst'
  BY <1>14 DEF OpenStream
<1>15. ASSUME NEW g \in Forwarder, OpenTimesOut(g) PROVE RestsFirst'
  BY <1>15 DEF OpenTimesOut
<1>16. ASSUME NEW g \in Forwarder, StreamEnds(g) PROVE RestsFirst'
  BY <1>16 DEF StreamEnds
<1>17. CASE UNCHANGED vars
  BY <1>17 DEF vars
<1> QED
  BY <1>1, <1>2, <1>3, <1>4, <1>5, <1>6, <1>7, <1>8, <1>9, <1>10, <1>11, <1>12, <1>13, <1>14,
     <1>15, <1>16, <1>17 DEF Next, WatcherStep, ForwarderStep

(* The slot's invariant, for every client count, permit count and backoff. *)
LEMMA SlotInvariant == ASSUME Prompt PROVE Spec => []SlotInv
<1>1. SlotInv /\ [Next]_vars => SlotInv'
  BY TypePreserved, OneLivePreserved, HungPreserved, AwaitedPreserved, RestsPreserved DEF SlotInv
<1> QED
  BY SlotInvInit, <1>1, PTL DEF Spec

(* The variables of the slot, the watcher and the forwarders keep their     *)
(* types, and the reconnect delay its bounds, whatever the scheduling.      *)
THEOREM SlotTypes == Spec => []TypeOK
<1>1. Init => TypeOK
  BY SlotInvInit DEF SlotInv
<1> QED
  BY <1>1, TypePreserved, PTL DEF Spec

(* ConnSlot: an empty slot means that the connection is down; no forwarder  *)
(* is left waiting on a watcher that waits for a live connection to end.    *)
THEOREM SlotIsRefilled == ASSUME Prompt PROVE Spec => []EmptyMeansDown
<1>1. SlotInv => EmptyMeansDown
  BY NoneIsNoConn DEF SlotInv, TypeOK, OneLive, EmptyMeansDown
<1> QED
  BY <1>1, SlotInvariant, PTL

(* Backoff and MIN_STABLE_CONN: the watcher never dials twice without a     *)
(* sleep or a stable session in between.                                    *)
THEOREM WatcherRests == ASSUME Prompt PROVE Spec => []NoSpin
<1>1. SlotInv => NoSpin
  BY DEF SlotInv, RestsFirst, NoSpin
<1> QED
  BY <1>1, SlotInvariant, PTL
=============================================================================
