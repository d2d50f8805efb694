------------------------- MODULE StreamDaemonProofs -------------------------
(***************************************************************************)
(* The stream phone daemon implements the promise of its lock, and its     *)
(* files are sound, for any number of workers and clients; and the plane   *)
(* inside it keeps its rings and calls in order, for any number of them.   *)
(***************************************************************************)
EXTENDS StreamDaemon, StreamPhone, TLAPS

(* A worker between try_acquire_lock and drop(lock) holds the lock.        *)
LockHeld == \A w \in Worker : wpc[w] \in Holding => lock = w

(* A plane runs only in a worker that waits for it, under the lock.        *)
PlaneHeld == \A w \in Worker : w \in Running => wpc[w] \in {"ready", "serve"}

(* A command that has not probed yet has no worker.                        *)
UnspawnedIdle == \A w \in Worker : cpc[w] = "idle" => wpc[w] = "none"

(* From bind to the end of the plane the socket path names the worker that *)
(* holds the lock, unless a predecessor unlinked it late; and only such a  *)
(* worker serves.                                                          *)
NamedWhileUp ==
    \A w \in Worker :
        /\ ~late /\ wpc[w] \in {"pid", "ready", "serve"} => sock = w
        /\ ctl[w] = "serving" => wpc[w] = "serve"

StreamInv ==
    TypeOK /\ LockHeld /\ PlaneHeld /\ UnspawnedIdle /\ NamedWhileUp /\ BindClear

(* Init establishes the invariant.                                         *)
LEMMA StreamInvInit == Init => StreamInv
<1> SUFFICES ASSUME Init PROVE StreamInv
  OBVIOUS
<1> USE StreamDaemonConstants DEF Init
<1>1. stop \in [Worker -> BOOLEAN] /\ late \in BOOLEAN
  BY Zenon
<1>2. TypeOK
  BY <1>1 DEF TypeOK, Holding, Done
<1> QED
  BY <1>2 DEF StreamInv, LockHeld, PlaneHeld, UnspawnedIdle, NamedWhileUp, BindClear,
              Running, Holding

(* Every step keeps the types.                                             *)
LEMMA TypePreserved ==
    ASSUME TypeOK, [Next]_vars
    PROVE  TypeOK'
<1> USE StreamDaemonConstants DEF TypeOK, files, work, Holding, Done
<1>1. CASE \E w \in Worker : UpProbes(w) \/ Foreground(w)
  BY <1>1 DEF UpProbes, Foreground, Starts, Answers, Goto, Step
<1>2. CASE \E w \in Worker : UpReady(w)
  BY <1>2 DEF UpReady, Step
<1>3. CASE \E w \in Worker : UpKills(w)
  BY <1>3 DEF UpKills, Dies, Step
<1>4. CASE \E w \in Worker : UpConfirms(w)
  BY <1>4 DEF UpConfirms, Answers, Step
<1>5. CASE \E w \in Worker : TryAcquireLock(w)
  BY <1>5 DEF TryAcquireLock, Goto
<1>6. CASE \E w \in Worker : UnlinkStale(w)
  BY <1>6 DEF UnlinkStale, Goto
<1>7. CASE \E w \in Worker : Bind(w)
  BY <1>7 DEF Bind, Goto
<1>8. CASE \E w \in Worker : WritePid(w)
  BY <1>8 DEF WritePid, Goto
<1>9. CASE \E w \in Worker : WritePidFails(w)
  BY <1>9 DEF WritePidFails, Goto
<1>10. CASE \E w \in Worker : Ready(w)
  BY <1>10 DEF Ready, Sends, Goto
<1>11. CASE \E w \in Worker : NotReady(w)
  BY <1>11 DEF NotReady, Goto
<1>12. CASE \E w \in Worker : PlaneJoined(w)
  BY <1>12 DEF PlaneJoined, Goto
<1>13. CASE \E w \in Worker : DropLock(w)
  BY <1>13 DEF DropLock, Goto
<1>14. CASE \E w \in Worker : UnlinkSock(w)
  BY <1>14 DEF UnlinkSock, Goto
<1>15. CASE \E w \in Worker : UnlinkPid(w)
  BY <1>15 DEF UnlinkPid, Goto
<1>16. CASE \E w \in Worker : Exit(w)
  BY <1>16 DEF Exit, Dies
<1>17. CASE \E w \in Worker : Killed(w)
  BY <1>17 DEF Killed, Dies
<1>18. CASE \E w \in Worker : PlaneUp(w) \/ PlaneFails(w) \/ PlaneStops(w)
  BY <1>18 DEF PlaneUp, PlaneFails, PlaneStops
<1>19. CASE \E c \in Client : DownProbes(c) \/ DownPolls(c)
  BY <1>19 DEF DownProbes, DownPolls, Answers, Step
<1>20. ASSUME NEW c \in Client, DownSends(c)
       PROVE  TypeOK'
  <2>1. UNCHANGED <<files, wpc, ctl, plane, line, late>>
    BY <1>20 DEF DownSends
  <2>2. cpc' \in [Worker \cup Client -> {"idle", "wait", "confirm", "send", "poll"} \cup Done]
    BY <1>20 DEF DownSends, Step
  <2>3. stop' \in [Worker -> BOOLEAN]
    <3>1. PICK v \in Answers : IF v = None THEN UNCHANGED stop
                               ELSE stop' = [stop EXCEPT ![v] = TRUE]
      BY <1>20 DEF DownSends
    <3>2. CASE v = None
      BY <3>1, <3>2
    <3>3. CASE v # None
      <4>1. v \in Worker
        BY <3>3 DEF Answers
      <4> QED
        BY <3>1, <3>3, <4>1, Zenon
    <3> QED
      BY <3>2, <3>3
  <2> QED
    BY <2>1, <2>2, <2>3
<1>21. CASE UNCHANGED vars
  BY <1>21 DEF vars
<1> QED
  BY <1>1, <1>2, <1>3, <1>4, <1>5, <1>6, <1>7, <1>8, <1>9, <1>10, <1>11, <1>12,
     <1>13, <1>14, <1>15, <1>16, <1>17, <1>18, <1>19, <1>20, <1>21
     DEF Next, UpSteps, WorkerSteps, PlaneSteps

(* Every step keeps the invariant: what a step of w does is seen from an   *)
(* arbitrary worker v.                                                     *)
LEMMA StreamInvPreserved ==
    ASSUME StreamInv, [Next]_vars
    PROVE  StreamInv'
<1> USE StreamDaemonConstants
    DEF StreamInv, TypeOK, files, work, Holding, Done
<1>0. TypeOK'
  BY TypePreserved
<1> SUFFICES ASSUME NEW v \in Worker
             PROVE  /\ (wpc[v] \in Holding => lock = v)'
                    /\ (plane[v] \in {"setup", "up"} => wpc[v] \in {"ready", "serve"})'
                    /\ (cpc[v] = "idle" => wpc[v] = "none")'
                    /\ (~late /\ wpc[v] \in {"pid", "ready", "serve"} => sock = v)'
                    /\ (ctl[v] = "serving" => wpc[v] = "serve")'
                    /\ (wpc[v] = "bind" => sock = None)'
  BY <1>0 DEF LockHeld, PlaneHeld, UnspawnedIdle, NamedWhileUp, BindClear, Running
<1> USE DEF LockHeld, PlaneHeld, UnspawnedIdle, NamedWhileUp, BindClear, Running
<1>1. CASE \E w \in Worker : UpProbes(w) \/ Foreground(w)
  BY <1>1 DEF UpProbes, Foreground, Starts, Answers, Goto, Step
<1>2. CASE \E w \in Worker : UpReady(w)
  BY <1>2 DEF UpReady, Step
<1>3. CASE \E w \in Worker : UpKills(w)
  BY <1>3 DEF UpKills, Dies, Step
<1>4. CASE \E w \in Worker : UpConfirms(w)
  BY <1>4 DEF UpConfirms, Answers, Step
<1>5. CASE \E w \in Worker : TryAcquireLock(w)
  BY <1>5 DEF TryAcquireLock, Goto
<1>6. CASE \E w \in Worker : UnlinkStale(w)
  BY <1>6 DEF UnlinkStale, Goto
<1>7. CASE \E w \in Worker : Bind(w)
  BY <1>7 DEF Bind, Goto
<1>8. CASE \E w \in Worker : WritePid(w)
  BY <1>8 DEF WritePid, Goto
<1>9. CASE \E w \in Worker : WritePidFails(w)
  BY <1>9 DEF WritePidFails, Goto
<1>10. CASE \E w \in Worker : Ready(w)
  BY <1>10 DEF Ready, Sends, Goto
<1>11. CASE \E w \in Worker : NotReady(w)
  BY <1>11 DEF NotReady, Goto
<1>12. CASE \E w \in Worker : PlaneJoined(w)
  BY <1>12 DEF PlaneJoined, Goto
<1>13. CASE \E w \in Worker : DropLock(w)
  BY <1>13 DEF DropLock, Goto
<1>14. ASSUME NEW w \in Worker, UnlinkSock(w)
       PROVE  /\ (wpc[v] \in Holding => lock = v)'
              /\ (plane[v] \in {"setup", "up"} => wpc[v] \in {"ready", "serve"})'
              /\ (cpc[v] = "idle" => wpc[v] = "none")'
              /\ (~late /\ wpc[v] \in {"pid", "ready", "serve"} => sock = v)'
              /\ (ctl[v] = "serving" => wpc[v] = "serve")'
              /\ (wpc[v] = "bind" => sock = None)'
  <2>1. late' \/ lock = None
    BY <1>14, Zenon DEF UnlinkSock
  <2>2. wpc'[v] \in {"pid", "ready", "serve"} => lock = v
    BY <1>14 DEF UnlinkSock, Goto
  <2>3. ~late' => wpc'[v] \notin {"pid", "ready", "serve"}
    BY <2>1, <2>2
  <2> QED
    BY <1>14, <2>3 DEF UnlinkSock, Goto
<1>15. CASE \E w \in Worker : UnlinkPid(w)
  BY <1>15 DEF UnlinkPid, Goto
<1>16. CASE \E w \in Worker : Exit(w)
  BY <1>16 DEF Exit, Dies
<1>17. CASE \E w \in Worker : Killed(w)
  BY <1>17 DEF Killed, Dies
<1>18. CASE \E w \in Worker : PlaneUp(w) \/ PlaneFails(w) \/ PlaneStops(w)
  BY <1>18 DEF PlaneUp, PlaneFails, PlaneStops
<1>19. CASE \E c \in Client : DownProbes(c) \/ DownSends(c) \/ DownPolls(c)
  BY <1>19 DEF DownProbes, DownSends, DownPolls, Answers, Step
<1>20. CASE UNCHANGED vars
  BY <1>20 DEF vars
<1> QED
  BY <1>1, <1>2, <1>3, <1>4, <1>5, <1>6, <1>7, <1>8, <1>9, <1>10, <1>11, <1>12,
     <1>13, <1>14, <1>15, <1>16, <1>17, <1>18, <1>19, <1>20
     DEF Next, UpSteps, WorkerSteps, PlaneSteps

(* The invariant holds throughout.                                         *)
LEMMA StreamInvHolds == Spec => []StreamInv
BY StreamInvInit, StreamInvPreserved, PTL DEF Spec

(* The files of run_daemon_inner: a daemon that serves is found behind its *)
(* socket path unless a predecessor unlinked it late, and no socket file   *)
(* of a killed daemon keeps the next one from binding.                     *)
THEOREM StreamFilesSound == Spec => []FilesSound
<1>1. StreamInv => FilesSound
  BY DEF StreamInv, FilesSound, Reachable, NamedWhileUp
<1> QED
  BY <1>1, StreamInvHolds, PTL

(* run_daemon_inner implements SingleOwner: of all workers one at a time   *)
(* owns the daemon, only the owner runs run_phone_plane, and the lock is   *)
(* given up only with the plane stopped, or by dying.                      *)
THEOREM StreamOneDaemon == Spec => OneDaemon
<1> USE StreamDaemonConstants DEF Running
<1>1. Init => Owner!Init
  BY DEF Init, Owner!Init
<1>2. StreamInv /\ [Next]_vars => [Owner!Next]_(Owner!vars)
  <2> SUFFICES ASSUME StreamInv, [Next]_vars
               PROVE  Owner!Next \/ UNCHANGED <<lock, Running>>
    BY DEF Owner!vars
  <2> USE DEF StreamInv, TypeOK, LockHeld, PlaneHeld, UnspawnedIdle, Holding, files, work
  <2>1. ASSUME NEW w \in Worker, Dies(w)
        PROVE  Owner!Next \/ UNCHANGED <<lock, Running>>
    <3>1. Running' = Running \ {w}
      BY <2>1 DEF Dies
    <3>2. CASE lock = w
      BY <2>1, <3>1, <3>2 DEF Dies, Owner!Next, Owner!Die
    <3>3. CASE lock # w
      BY <2>1, <3>1, <3>3 DEF Dies
    <3> QED
      BY <3>2, <3>3
  <2>2. ASSUME NEW w \in Worker, UpKills(w) \/ Exit(w) \/ Killed(w)
        PROVE  Owner!Next \/ UNCHANGED <<lock, Running>>
    BY <2>1, <2>2 DEF UpKills, Exit, Killed
  <2>3. ASSUME NEW w \in Worker, TryAcquireLock(w)
        PROVE  Owner!Next \/ UNCHANGED <<lock, Running>>
    BY <2>3 DEF TryAcquireLock, Owner!Next, Owner!Take
  <2>4. ASSUME NEW w \in Worker, WritePid(w)
        PROVE  Owner!Next \/ UNCHANGED <<lock, Running>>
    <3>1. w \notin Running /\ lock = w /\ lock' = lock
      BY <2>4 DEF WritePid
    <3>2. Running' = Running \cup {w}
      BY <2>4 DEF WritePid
    <3> QED
      BY <3>1, <3>2 DEF Owner!Next, Owner!Start
  <2>5. ASSUME NEW w \in Worker, NotReady(w) \/ DropLock(w)
        PROVE  Owner!Next \/ UNCHANGED <<lock, Running>>
    <3>1. w \notin Running /\ lock = w /\ lock' = None /\ Running' = Running
      BY <2>5 DEF NotReady, DropLock
    <3> QED
      BY <3>1 DEF Owner!Next, Owner!Give
  <2>6. ASSUME NEW w \in Worker, PlaneUp(w)
        PROVE  UNCHANGED <<lock, Running>>
    BY <2>6 DEF PlaneUp
  <2>7. ASSUME NEW w \in Worker, PlaneFails(w) \/ PlaneStops(w)
        PROVE  Owner!Next \/ UNCHANGED <<lock, Running>>
    <3>1. w \in Running /\ Running' = Running \ {w} /\ lock' = lock
      BY <2>7 DEF PlaneFails, PlaneStops
    <3> QED
      BY <3>1 DEF Owner!Next, Owner!Stop
  <2>8. ASSUME NEW w \in Worker,
               \/ UpProbes(w) \/ Foreground(w) \/ UpReady(w) \/ UpConfirms(w)
               \/ UnlinkStale(w) \/ Bind(w) \/ WritePidFails(w) \/ Ready(w)
               \/ PlaneJoined(w) \/ UnlinkSock(w) \/ UnlinkPid(w)
        PROVE  UNCHANGED <<lock, Running>>
    BY <2>8 DEF UpProbes, Foreground, Starts, UpReady, UpConfirms, UnlinkStale, Bind,
                WritePidFails, Ready, PlaneJoined, UnlinkSock, UnlinkPid
  <2>9. ASSUME NEW c \in Client, DownProbes(c) \/ DownSends(c) \/ DownPolls(c)
        PROVE  UNCHANGED <<lock, Running>>
    BY <2>9 DEF DownProbes, DownSends, DownPolls
  <2>10. CASE UNCHANGED vars
    BY <2>10 DEF vars
  <2> QED
    BY <2>2, <2>3, <2>4, <2>5, <2>6, <2>7, <2>8, <2>9, <2>10
       DEF Next, UpSteps, WorkerSteps, PlaneSteps
<1> QED
  BY <1>1, <1>2, StreamInvHolds, PTL DEF Spec, OneDaemon, Owner!Spec

(* What the lock is for: only the worker that holds `call.lock` has a     *)
(* plane running. It is shown of SingleOwner, whose steps are all that is  *)
(* used, and holds of the daemon because the daemon implements it.         *)
THEOREM OnlyLockHolderRuns == Spec => []Owner!OnlyOwnerRuns
<1> DEFINE Sole == Owner!OnlyOwnerRuns /\ None \notin Running
<1>1. Owner!Init => Sole
  BY DEF Owner!Init, Owner!OnlyOwnerRuns
<1>2. Sole /\ [Owner!Next]_(Owner!vars) => Sole'
  BY StreamDaemonConstants
     DEF Owner!Next, Owner!vars, Owner!OnlyOwnerRuns,
         Owner!Take, Owner!Start, Owner!Stop, Owner!Give, Owner!Die
<1>3. Sole => Owner!OnlyOwnerRuns
  OBVIOUS
<1> QED
  BY <1>1, <1>2, <1>3, StreamOneDaemon, PTL DEF OneDaemon, Owner!Spec

-----------------------------------------------------------------------------
(* The plane of a daemon that is up.                                        *)
(* A task that is about to ring, answer or follow a connection has one.     *)
InHand ==
    /\ acc.at # "wait" => acc.conn \in 1..made
    /\ loop.at \in {"answered", "answer", "session"} => loop.conn \in 1..made

PhoneInv == PhoneSound /\ InHand

(* RemoveAt takes one ring out and keeps every other one.                   *)
LEMMA RingTaken ==
  ASSUME NEW S, NEW s \in Seq(S), NEW i \in 1..Len(s)
  PROVE  LET t == RemoveAt(s, i)
         IN  /\ t \in Seq(S) /\ Len(t) = Len(s) - 1
             /\ \A j \in 1..Len(s) : s[j] # s[i] => \E k \in 1..Len(t) : t[k] = s[j]
  <1> DEFINE t == RemoveAt(s, i)
             a == SubSeq(s, 1, i - 1)
             b == SubSeq(s, i + 1, Len(s))
  <1>0. Len(s) \in Nat /\ i \in Nat /\ 1 <= i /\ i <= Len(s)
    OBVIOUS
  <1>1. /\ a \in Seq(S) /\ Len(a) = i - 1 /\ \A k \in 1..(i - 1) : a[k] = s[k]
    BY <1>0
  <1>2. /\ b \in Seq(S) /\ Len(b) = Len(s) - i /\ \A k \in 1..(Len(s) - i) : b[k] = s[i + k]
    BY <1>0
  <1>3. t = a \o b
    BY DEF RemoveAt
  <1> HIDE DEF a, b, t
  <1>4. /\ t \in Seq(S) /\ Len(t) = Len(a) + Len(b)
        /\ \A k \in 1..Len(a) : t[k] = a[k]
        /\ \A k \in 1..Len(b) : t[Len(a) + k] = b[k]
    <2>1. a \in Seq(S) /\ b \in Seq(S)
      BY <1>1, <1>2
    <2> QED BY <1>3, <2>1
  <1>5. Len(t) = Len(s) - 1
    BY <1>0, <1>1, <1>2, <1>4
  <1>6. ASSUME NEW j \in 1..Len(s), s[j] # s[i] PROVE \E k \in 1..Len(t) : t[k] = s[j]
    <2>1. CASE j < i
      <3>1. j \in 1..(i - 1) /\ j \in 1..Len(t)
        BY <1>0, <1>5, <2>1
      <3> QED BY <1>1, <1>4, <3>1
    <2>2. CASE j > i
      <3> DEFINE k == j - i
      <3>1. k \in 1..(Len(s) - i) /\ i + k = j /\ Len(a) + k = j - 1 /\ j - 1 \in 1..Len(t)
        BY <1>0, <1>1, <1>5, <2>2
      <3>2. t[j - 1] = s[j]
        BY <1>2, <1>4, <3>1
      <3> QED BY <3>1, <3>2
    <2>3. j # i
      BY <1>6
    <2> QED BY <1>0, <2>1, <2>2, <2>3
  <1> QED BY <1>4, <1>5, <1>6 DEF t

(* Dropping the timed-out rings at the front keeps the others.              *)
LEMMA RingsDropped ==
  ASSUME NEW S, NEW s \in Seq(S), NEW n \in 0..Len(s)
  PROVE  LET t == SubSeq(s, n + 1, Len(s))
         IN  /\ t \in Seq(S) /\ Len(t) \in Nat
             /\ \A j \in 1..Len(s) : (\A i \in 1..n : s[j] # s[i]) => \E k \in 1..Len(t) : t[k] = s[j]
  <1> DEFINE t == SubSeq(s, n + 1, Len(s))
  <1>0. Len(s) \in Nat /\ n \in Nat /\ n <= Len(s)
    OBVIOUS
  <1>1. t \in Seq(S) /\ Len(t) = Len(s) - n /\ \A k \in 1..(Len(s) - n) : t[k] = s[n + k]
    BY <1>0
  <1> HIDE DEF t
  <1>2. ASSUME NEW j \in 1..Len(s), \A i \in 1..n : s[j] # s[i] PROVE \E k \in 1..Len(t) : t[k] = s[j]
    <2>1. ~(j \in 1..n)
      BY <1>2
    <2>2. j - n \in 1..(Len(s) - n) /\ n + (j - n) = j
      BY <1>0, <2>1
    <2> QED BY <1>1, <2>2
  <1>3. Len(t) \in Nat
    BY <1>0, <1>1
  <1> QED BY <1>1, <1>2, <1>3 DEF t

(* Init establishes the invariant.                                          *)
LEMMA InitPhoneInv == PhoneInit => PhoneInv
  <1> SUFFICES ASSUME PhoneInit PROVE PhoneInv
    OBVIOUS
  <1> USE PhoneConstants DEF PhoneInit, NoConn, Nobody, Waiting, Conn
  <1>1. PhoneTypeOK
    <2>1. /\ <<>> \in Seq(1..made) /\ <<>> \in Seq(Cmd) /\ Len(<<>>) = 0
          /\ MaxConn \in Nat /\ MaxCmd \in Nat /\ QueueCap \in Nat
      OBVIOUS
    <2>2. 0 \in 0..MaxConn /\ 0 \in 0..MaxCmd /\ 0 <= QueueCap /\ 0 \in 0..0
      BY <2>1
    <2> QED BY <2>1, <2>2 DEF PhoneTypeOK
  <1>2. PendingAgrees /\ NoOrphanCall /\ InHand
    BY DEF PendingAgrees, NoOrphanCall, InHand
  <1>3. BusyIsLive
    BY DEF BusyIsLive
  <1> QED BY <1>1, <1>2, <1>3 DEF PhoneInv, PhoneSound

(* The types, one line per variable. *)
LEMMA PlaneTypes ==
  ASSUME PhoneInv
  PROVE  /\ MaxConn \in Nat /\ MaxCmd \in Nat /\ QueueCap \in Nat /\ made \in Nat /\ made <= MaxConn
         /\ Conn = 1..MaxConn /\ 1..made \subseteq Conn
         /\ ringing \in Seq(1..made) /\ pending \in Seq(1..made) /\ Len(ringing) \in Nat
         /\ old \in 0..Len(ringing) /\ old \in Nat
         /\ queue \in Seq(Cmd) /\ Len(queue) \in Nat
  <1>1. MaxConn \in Nat /\ MaxCmd \in Nat /\ QueueCap \in Nat
    BY PhoneConstants
  <1>2. made \in Nat /\ made <= MaxConn
    BY <1>1 DEF PhoneInv, PhoneSound, PhoneTypeOK
  <1>3. /\ ringing \in Seq(1..made) /\ pending \in Seq(1..made)
        /\ old \in 0..Len(ringing) /\ queue \in Seq(Cmd)
    BY DEF PhoneInv, PhoneSound, PhoneTypeOK
  <1>4. Len(ringing) \in Nat /\ Len(queue) \in Nat
    BY <1>3
  <1>5. old \in Nat
    BY <1>3, <1>4
  <1>6. Conn = 1..MaxConn /\ 1..made \subseteq Conn
    BY <1>1, <1>2 DEF Conn
  <1> QED BY <1>1, <1>2, <1>3, <1>4, <1>5, <1>6

(* The accept task preserves the invariant.                                 *)
LEMMA AcceptKeeps ==
  ASSUME PhoneInv, AcceptStep
  PROVE  PhoneInv'
  <1> USE DEF PhoneInv, PhoneSound
  <1> USE DEF AccTo, LoopTo, Waiting, NoConn, Nobody, connVars,
              ringVars, live, cmdVars, sessVars
  <1> USE PlaneTypes
  <1>1. CASE AnswerContact
    <2> USE <1>1 DEF AnswerContact
    <2>1. PhoneTypeOK'
      BY DEF PhoneTypeOK
    <2>2. PendingAgrees'
      BY DEF PhoneTypeOK, PendingAgrees, Publishing, PhoneRuns
    <2>3. NoOrphanCall'
      BY DEF PhoneTypeOK, NoOrphanCall, InHand, Range
    <2>4. BusyIsLive'
      BY DEF PhoneTypeOK, BusyIsLive, InHand
    <2>5. InHand'
      BY DEF PhoneTypeOK, InHand
    <2> QED BY <2>1, <2>2, <2>3, <2>4, <2>5
  <1>2. CASE ContactSession
    <2> USE <1>2 DEF ContactSession
    <2>1. PhoneTypeOK'
      <3>1. acc.conn \in 1..made /\ acc.conn \in 0..made
        BY DEF InHand
      <3>2. /\ sess' \in [Conn -> {"none", "live", "peers", "phase", "over"}]
            /\ setter' \in [Conn -> {"none", "todo", "done"}]
        BY DEF PhoneTypeOK, SpawnStreamSession
      <3>3. active' \in 0..made /\ listener' \in 0..made /\ crossed' \in BOOLEAN
        BY <3>1 DEF PhoneTypeOK, SpawnStreamSession
      <3> QED BY <3>2, <3>3 DEF PhoneTypeOK
    <2>2. PendingAgrees'
      BY DEF PhoneTypeOK, PendingAgrees, Publishing, PhoneRuns,
             SpawnStreamSession
    <2>3. NoOrphanCall'
      BY DEF PhoneTypeOK, NoOrphanCall, InHand, Range, SpawnStreamSession
    <2>4. BusyIsLive'
      BY DEF PhoneTypeOK, BusyIsLive, InHand, SpawnStreamSession
    <2>5. InHand'
      BY DEF PhoneTypeOK, InHand, SpawnStreamSession
    <2> QED BY <2>1, <2>2, <2>3, <2>4, <2>5
  <1>3. CASE PushRing
    <2> USE <1>3 DEF PushRing
    <2>1. PhoneTypeOK'
      <3>1. acc.conn \in 1..made
        BY DEF InHand
      <3>2. ringing' \in Seq(1..made) /\ Len(ringing') = Len(ringing) + 1
        BY <3>1
      <3>3. old \in 0..Len(ringing')
        BY <3>2
      <3> QED BY <3>2, <3>3 DEF PhoneTypeOK
    <2>2. PendingAgrees'
      BY DEF PhoneTypeOK, PendingAgrees, Publishing, PhoneRuns
    <2>3. NoOrphanCall'
      <3>1. \A c \in Range(ringing) \cup {acc.conn} : c \in Range(ringing')
        <4>1. acc.conn \in 1..made
          BY DEF InHand
        <4>2. /\ ringing' \in Seq(1..made) /\ Len(ringing') = Len(ringing) + 1
              /\ ringing'[Len(ringing) + 1] = acc.conn
              /\ \A k \in 1..Len(ringing) : ringing'[k] = ringing[k]
          BY <4>1
        <4>3. /\ Len(ringing) + 1 \in 1..Len(ringing')
              /\ \A k \in 1..Len(ringing) : k \in 1..Len(ringing')
          BY <4>2
        <4>4. DOMAIN ringing = 1..Len(ringing) /\ DOMAIN ringing' = 1..Len(ringing')
          BY <4>2
        <4> QED BY <4>2, <4>3, <4>4 DEF Range
      <3> QED BY <3>1 DEF PhoneTypeOK, NoOrphanCall, InHand
    <2>4. BusyIsLive'
      BY DEF PhoneTypeOK, BusyIsLive, InHand
    <2>5. InHand'
      BY DEF PhoneTypeOK, InHand
    <2> QED BY <2>1, <2>2, <2>3, <2>4, <2>5
  <1>4. CASE MarkRinging
    <2> USE <1>4 DEF MarkRinging
    <2>1. PhoneTypeOK'
      BY DEF PhoneTypeOK
    <2>2. PendingAgrees'
      BY DEF PhoneTypeOK, PendingAgrees, Publishing, PhoneRuns
    <2>3. NoOrphanCall'
      BY DEF PhoneTypeOK, NoOrphanCall, InHand, Range
    <2>4. BusyIsLive'
      BY DEF PhoneTypeOK, BusyIsLive, InHand
    <2>5. InHand'
      BY DEF PhoneTypeOK, InHand
    <2> QED BY <2>1, <2>2, <2>3, <2>4, <2>5
  <1>5. CASE PublishRing
    <2> USE <1>5 DEF PublishRing
    <2>1. PhoneTypeOK'
      BY DEF PhoneTypeOK, PublishPending
    <2>2. PendingAgrees'
      BY DEF PhoneTypeOK, PendingAgrees, Publishing, PhoneRuns,
             PublishPending
    <2>3. NoOrphanCall'
      BY DEF PhoneTypeOK, NoOrphanCall, InHand, Range, PublishPending
    <2>4. BusyIsLive'
      BY DEF PhoneTypeOK, BusyIsLive, InHand, PublishPending
    <2>5. InHand'
      BY DEF PhoneTypeOK, InHand, PublishPending
    <2> QED BY <2>1, <2>2, <2>3, <2>4, <2>5
  <1> QED BY <1>1, <1>2, <1>3, <1>4, <1>5 DEF AcceptStep

(* So does the main loop when it takes a command,                           *)
LEMMA TakeCmdKeeps ==
  ASSUME PhoneInv, TakeCmd
  PROVE  PhoneInv'
  <1> USE DEF PhoneInv, PhoneSound
  <1> USE PlaneTypes
  <1>1. /\ UNCHANGED <<phase, pending, peers, sent, active, sess, setter, listener, crossed>>
        /\ loop.at = "wait" /\ queue # <<>> /\ queue' = Tail(queue)
    BY DEF TakeCmd, live, sessVars
  <1>2. queue' \in Seq(Cmd) /\ Len(queue') <= QueueCap
    <2>1. queue' \in Seq(Cmd) /\ Len(queue') = Len(queue) - 1
      BY <1>1
    <2>2. Len(queue) <= QueueCap
      BY DEF PhoneTypeOK
    <2> QED BY <2>1, <2>2
  <1>3. BusyIsLive'
    BY <1>1 DEF BusyIsLive
  <1>4. \/ TakeShutdown \/ TakeDial
        \/ UNCHANGED <<made, peer, alive, ringing, old, acc, loop>>
        \/ \E i \in 1..Len(ringing) :
              TakeRing(i, "answered", FALSE) \/ TakeRing(i, "rejected", TRUE)
    <2>1. DOMAIN ringing = 1..Len(ringing)
      OBVIOUS
    <2> QED BY <2>1 DEF TakeCmd, RingOf, connVars, ringVars
  <1>5. CASE TakeShutdown
    <2>1. /\ UNCHANGED <<made, peer, ringing, old>> /\ alive' = {}
          /\ acc' = [at |-> "wait", conn |-> 0] /\ loop' = [at |-> "stopped", conn |-> 0]
      BY <1>5 DEF TakeShutdown, LoopTo, Waiting, NoConn, connVars,
                  ringVars, live, cmdVars, sessVars
    <2>2. PhoneTypeOK'
      <3>1. /\ acc' \in [at : {"wait", "answer", "session", "ring", "mark", "publish"}, conn : 0..made]
            /\ loop' \in [at : {"wait", "dial", "connect", "answer", "session",
                                "answered", "rejected", "expired", "idle", "stopped"}, conn : 0..made]
        BY <2>1
      <3>2. alive' \subseteq 1..made
        BY <2>1
      <3> QED BY <1>1, <1>2, <2>1, <3>1, <3>2 DEF PhoneTypeOK
    <2>3. PendingAgrees' /\ NoOrphanCall' /\ InHand'
      BY <2>1 DEF PendingAgrees, PhoneRuns, NoOrphanCall, InHand
    <2> QED BY <1>3, <2>2, <2>3
  <1>6. CASE TakeDial \/ UNCHANGED <<made, peer, alive, ringing, old, acc, loop>>
    <2>1. /\ UNCHANGED <<made, peer, alive, ringing, old, acc>>
          /\ loop' = loop \/ loop' = [at |-> "dial", conn |-> 0]
      BY <1>6 DEF TakeDial, LoopTo, Waiting, NoConn, connVars,
                  ringVars, live, cmdVars, sessVars
    <2>2. PhoneTypeOK'
      <3>1. loop' \in [at : {"wait", "dial", "connect", "answer", "session",
                             "answered", "rejected", "expired", "idle", "stopped"}, conn : 0..made]
        BY <2>1 DEF PhoneTypeOK
      <3> QED BY <1>1, <1>2, <2>1, <3>1 DEF PhoneTypeOK
    <2>3. loop'.at \in {"wait", "dial"}
      BY <1>1, <2>1
    <2>4. PendingAgrees'
      BY <1>1, <2>1, <2>3 DEF PendingAgrees, PhoneRuns, Publishing
    <2>5. NoOrphanCall'
      BY <1>1, <2>1 DEF NoOrphanCall, Range
    <2>6. InHand'
      BY <2>1, <2>3 DEF InHand
    <2> QED BY <1>3, <2>2, <2>4, <2>5, <2>6
  <1>7. ASSUME NEW i \in 1..Len(ringing),
               TakeRing(i, "answered", FALSE) \/ TakeRing(i, "rejected", TRUE)
        PROVE  PhoneInv'
    <2> DEFINE c == ringing[i]
               t == RemoveAt(ringing, i)
    <2>1. /\ UNCHANGED <<made, peer, acc>> /\ ringing' = t
          /\ old' = IF i <= old THEN old - 1 ELSE old
          /\ \/ loop' = [at |-> "answered", conn |-> c] /\ alive' = alive
             \/ loop' = [at |-> "rejected", conn |-> c] /\ alive' = alive \ {c}
      BY <1>7 DEF TakeRing, LoopTo
    <2>2. /\ t \in Seq(1..made) /\ Len(t) = Len(ringing) - 1
          /\ \A j \in 1..Len(ringing) : ringing[j] # c => \E k \in 1..Len(t) : t[k] = ringing[j]
      BY RingTaken
    <2>3. c \in 1..made /\ c \in 0..made
      OBVIOUS
    <2> HIDE DEF c, t
    <2>4. DOMAIN ringing = 1..Len(ringing) /\ DOMAIN t = 1..Len(t)
      BY <2>2
    <2>5. \A d \in Range(ringing) \ {c} : d \in Range(ringing')
      BY <2>1, <2>2, <2>4 DEF Range
    <2>6. old' \in 0..Len(ringing')
      <3>1. old \in Nat /\ i \in Nat /\ old <= Len(ringing) /\ 1 <= i /\ i <= Len(ringing)
        OBVIOUS
      <3> QED BY <2>1, <2>2, <3>1
    <2>7. PhoneTypeOK'
      <3>1. loop' \in [at : {"wait", "dial", "connect", "answer", "session",
                             "answered", "rejected", "expired", "idle", "stopped"}, conn : 0..made]
        BY <2>1, <2>3
      <3>2. alive' \subseteq 1..made
        BY <2>1 DEF PhoneTypeOK
      <3>3. ringing' \in Seq(1..made)
        BY <2>1, <2>2
      <3> QED BY <1>1, <1>2, <2>1, <2>6, <3>1, <3>2, <3>3 DEF PhoneTypeOK
    <2>8. PendingAgrees'
      BY <2>1 DEF PendingAgrees, Publishing
    <2>9. NoOrphanCall'
      BY <1>1, <2>1, <2>5 DEF NoOrphanCall
    <2>10. InHand'
      BY <2>1, <2>3 DEF InHand
    <2> QED BY <1>3, <2>7, <2>8, <2>9, <2>10
  <1> QED BY <1>4, <1>5, <1>6, <1>7

(* and with every other step.                                               *)
LEMMA LoopKeeps ==
  ASSUME PhoneInv, LoopStep
  PROVE  PhoneInv'
  <1> USE DEF PhoneInv, PhoneSound
  <1> USE DEF AccTo, LoopTo, Waiting, NoConn, Nobody, connVars,
              ringVars, live, cmdVars, sessVars
  <1> USE PlaneTypes
  <1>1. CASE TakeCmd
    BY <1>1, TakeCmdKeeps
  <1>2. CASE DialMarks
    <2> USE <1>2 DEF DialMarks
    <2>1. PhoneTypeOK'
      BY DEF PhoneTypeOK
    <2>2. PendingAgrees'
      BY DEF PhoneTypeOK, PendingAgrees, Publishing, PhoneRuns
    <2>3. NoOrphanCall'
      BY DEF PhoneTypeOK, NoOrphanCall, InHand, Range
    <2>4. BusyIsLive'
      BY DEF PhoneTypeOK, BusyIsLive, InHand
    <2>5. InHand'
      BY DEF PhoneTypeOK, InHand
    <2> QED BY <2>1, <2>2, <2>3, <2>4, <2>5
  <1>3. CASE DialConnects
    <2> USE <1>3 DEF DialConnects
    <2>1. PhoneTypeOK'
      <3>1. PICK p \in Peer : Establish(p)
        OBVIOUS
      <3>2. /\ made < MaxConn /\ made' = made + 1 /\ made' \in 0..MaxConn
            /\ made + 1 \in 0..made' /\ 0 \in 0..made'
            /\ 1..made \subseteq 1..made' /\ 0..made \subseteq 0..made' /\ made + 1 \in 1..made'
        BY <3>1 DEF Establish
      <3>3. peer' \in [Conn -> Peer \cup {Nobody}]
        BY <3>1 DEF Establish, PhoneTypeOK
      <3>4. ringing \in Seq(1..made') /\ pending \in Seq(1..made')
        BY <3>2
      <3>5. alive' \subseteq 1..made'
        BY <3>2 DEF PhoneTypeOK
      <3>6. active \in 0..made' /\ listener \in 0..made'
        BY <3>2 DEF PhoneTypeOK
      <3>7. loop' \in [at : {"wait", "dial", "connect", "answer", "session",
                             "answered", "rejected", "expired", "idle", "stopped"},
                       conn : 0..made']
        BY <3>2
      <3>8. acc \in [at : {"wait", "answer", "session", "ring", "mark", "publish"}, conn : 0..made']
        BY <3>2 DEF PhoneTypeOK
      <3> QED BY <3>2, <3>3, <3>4, <3>5, <3>6, <3>7, <3>8 DEF PhoneTypeOK
    <2>2. PendingAgrees'
      BY DEF PhoneTypeOK, PendingAgrees, Publishing, PhoneRuns, Establish
    <2>3. NoOrphanCall'
      BY DEF PhoneTypeOK, NoOrphanCall, InHand, Range, Establish
    <2>4. BusyIsLive'
      BY DEF PhoneTypeOK, BusyIsLive, InHand, Establish
    <2>5. InHand'
      BY DEF PhoneTypeOK, InHand, Establish
    <2> QED BY <2>1, <2>2, <2>3, <2>4, <2>5
  <1>4. CASE DialFails
    <2> USE <1>4 DEF DialFails
    <2>1. PhoneTypeOK'
      BY DEF PhoneTypeOK
    <2>2. PendingAgrees'
      BY DEF PhoneTypeOK, PendingAgrees, Publishing, PhoneRuns
    <2>3. NoOrphanCall'
      BY DEF PhoneTypeOK, NoOrphanCall, InHand, Range
    <2>4. BusyIsLive'
      BY DEF PhoneTypeOK, BusyIsLive, InHand
    <2>5. InHand'
      BY DEF PhoneTypeOK, InHand
    <2> QED BY <2>1, <2>2, <2>3, <2>4, <2>5
  <1>5. CASE PublishTaken
    <2> USE <1>5 DEF PublishTaken
    <2>1. PhoneTypeOK'
      BY DEF PhoneTypeOK, PublishPending
    <2>2. PendingAgrees'
      BY DEF PhoneTypeOK, PendingAgrees, Publishing, PhoneRuns,
             PublishPending
    <2>3. NoOrphanCall'
      <3>1. loop.at = "answered" => loop'.at = "answer" /\ loop'.conn = loop.conn
        OBVIOUS
      <3>2. loop.at \notin {"answer", "session"} /\ UNCHANGED <<alive, ringing, acc, sess>>
        OBVIOUS
      <3> QED BY <3>1, <3>2 DEF NoOrphanCall, Range
    <2>4. BusyIsLive'
      BY DEF PhoneTypeOK, BusyIsLive, InHand, PublishPending
    <2>5. InHand'
      BY DEF PhoneTypeOK, InHand, PublishPending
    <2> QED BY <2>1, <2>2, <2>3, <2>4, <2>5
  <1>6. CASE Answer
    <2> USE <1>6 DEF Answer
    <2>1. PhoneTypeOK'
      BY DEF PhoneTypeOK
    <2>2. PendingAgrees'
      BY DEF PhoneTypeOK, PendingAgrees, Publishing, PhoneRuns
    <2>3. NoOrphanCall'
      BY DEF PhoneTypeOK, NoOrphanCall, InHand, Range
    <2>4. BusyIsLive'
      BY DEF PhoneTypeOK, BusyIsLive, InHand
    <2>5. InHand'
      BY DEF PhoneTypeOK, InHand
    <2> QED BY <2>1, <2>2, <2>3, <2>4, <2>5
  <1>7. CASE Session
    <2> USE <1>7 DEF Session
    <2>1. PhoneTypeOK'
      <3>1. loop.conn \in 1..made /\ loop.conn \in 0..made
        BY DEF InHand
      <3>2. /\ sess' \in [Conn -> {"none", "live", "peers", "phase", "over"}]
            /\ setter' \in [Conn -> {"none", "todo", "done"}]
        BY DEF PhoneTypeOK, SpawnStreamSession
      <3>3. active' \in 0..made /\ listener' \in 0..made /\ crossed' \in BOOLEAN
        BY <3>1 DEF PhoneTypeOK, SpawnStreamSession
      <3> QED BY <3>2, <3>3 DEF PhoneTypeOK
    <2>2. PendingAgrees'
      BY DEF PhoneTypeOK, PendingAgrees, Publishing, PhoneRuns,
             SpawnStreamSession
    <2>3. NoOrphanCall'
      BY DEF PhoneTypeOK, NoOrphanCall, InHand, Range, SpawnStreamSession
    <2>4. BusyIsLive'
      BY DEF PhoneTypeOK, BusyIsLive, InHand, SpawnStreamSession
    <2>5. InHand'
      BY DEF PhoneTypeOK, InHand, SpawnStreamSession
    <2> QED BY <2>1, <2>2, <2>3, <2>4, <2>5
  <1>8. CASE MarkIdle
    <2> USE <1>8 DEF MarkIdle
    <2>1. PhoneTypeOK'
      BY DEF PhoneTypeOK
    <2>2. PendingAgrees'
      BY DEF PhoneTypeOK, PendingAgrees, Publishing, PhoneRuns
    <2>3. NoOrphanCall'
      BY DEF PhoneTypeOK, NoOrphanCall, InHand, Range
    <2>4. BusyIsLive'
      BY DEF PhoneTypeOK, BusyIsLive, InHand
    <2>5. InHand'
      BY DEF PhoneTypeOK, InHand
    <2> QED BY <2>1, <2>2, <2>3, <2>4, <2>5
  <1>9. CASE Tick
    <2> USE <1>9 DEF Tick
    <2>1. PhoneTypeOK'
      <3>1. ringing' \in Seq(1..made) /\ Len(ringing') \in Nat
        BY RingsDropped
      <3>2. 0 \in 0..Len(ringing') /\ 0 \in 0..made
        BY <3>1
      <3> QED BY <3>1, <3>2 DEF PhoneTypeOK
    <2>2. PendingAgrees'
      BY DEF PhoneTypeOK, PendingAgrees, Publishing, PhoneRuns
    <2>3. NoOrphanCall'
      <3> DEFINE t == SubSeq(ringing, old + 1, Len(ringing))
      <3>1. /\ t \in Seq(1..made) /\ ringing' = t
            /\ \A j \in 1..Len(ringing) :
                  (\A i \in 1..old : ringing[j] # ringing[i]) => \E k \in 1..Len(t) : t[k] = ringing[j]
        BY RingsDropped
      <3> HIDE DEF t
      <3>2. DOMAIN ringing = 1..Len(ringing) /\ DOMAIN t = 1..Len(t)
        BY <3>1
      <3>3. \A c \in Range(ringing) \ Expired : c \in Range(ringing')
        BY <3>1, <3>2 DEF Range, Expired
      <3> QED BY <3>3 DEF NoOrphanCall
    <2>4. BusyIsLive'
      BY DEF PhoneTypeOK, BusyIsLive, InHand
    <2>5. InHand'
      BY DEF PhoneTypeOK, InHand
    <2> QED BY <2>1, <2>2, <2>3, <2>4, <2>5
  <1> QED BY <1>1, <1>2, <1>3, <1>4, <1>5, <1>6, <1>7, <1>8, <1>9 DEF LoopStep

(* A connection comes in. *)
LEMMA IncomingKeeps ==
  ASSUME PhoneInv, NEW p \in Peer, Incoming(p)
  PROVE  PhoneInv'
  <1> USE DEF PhoneInv, PhoneSound
  <1> USE PlaneTypes
  <1>1. /\ UNCHANGED <<ringing, old, phase, pending, peers, loop, queue, sent,
                        active, sess, setter, listener, crossed>>
        /\ made < MaxConn /\ made' = made + 1 /\ acc.at = "wait"
        /\ peer' = [peer EXCEPT ![made + 1] = p]
        /\ \/ alive' = alive /\ acc' = acc
           \/ alive' = alive \cup {made + 1}
              /\ \/ acc' = [at |-> "answer", conn |-> made + 1]
                 \/ acc' = [at |-> "ring", conn |-> made + 1]
    BY DEF Incoming, Establish, AccTo, NoConn, Nobody,
           connVars, ringVars, live, cmdVars, sessVars
  <1>2. /\ made' \in 0..MaxConn /\ made + 1 \in 0..made' /\ 0 \in 0..made'
        /\ 1..made \subseteq 1..made' /\ 0..made \subseteq 0..made' /\ made + 1 \in 1..made'
    BY <1>1
  <1>3. PhoneTypeOK'
    <2>1. peer' \in [Conn -> Peer \cup {Nobody}]
      BY <1>1 DEF PhoneTypeOK
    <2>2. ringing \in Seq(1..made') /\ pending \in Seq(1..made')
      BY <1>2
    <2>3. alive' \subseteq 1..made' /\ active \in 0..made' /\ listener \in 0..made'
      BY <1>1, <1>2 DEF PhoneTypeOK
    <2>4. acc' \in [at : {"wait", "answer", "session", "ring", "mark", "publish"}, conn : 0..made']
      BY <1>1, <1>2 DEF PhoneTypeOK
    <2>5. loop \in [at : {"wait", "dial", "connect", "answer", "session",
                          "answered", "rejected", "expired", "idle", "stopped"}, conn : 0..made']
      BY <1>2 DEF PhoneTypeOK
    <2> QED BY <1>1, <1>2, <2>1, <2>2, <2>3, <2>4, <2>5 DEF PhoneTypeOK
  <1>4. acc' = acc \/ (acc'.at \in {"answer", "ring"} /\ acc'.conn = made + 1)
    <2>1. CASE acc' = [at |-> "answer", conn |-> made + 1]
      BY <2>1
    <2>2. CASE acc' = [at |-> "ring", conn |-> made + 1]
      BY <2>2
    <2>3. CASE alive' = alive /\ acc' = acc
      BY <2>3
    <2> QED BY <1>1, <2>1, <2>2, <2>3
  <1>5. PendingAgrees'
    BY <1>1, <1>4 DEF PendingAgrees, Publishing, PhoneRuns
  <1>6. NoOrphanCall'
    BY <1>1, <1>4 DEF NoOrphanCall, Range
  <1>7. BusyIsLive'
    BY <1>1 DEF BusyIsLive
  <1>8. InHand'
    BY <1>1, <1>2, <1>4 DEF InHand
  <1> QED BY <1>3, <1>5, <1>6, <1>7, <1>8

(* The tasks of a call, a control request, a hang-up, and time. *)
LEMMA OthersKeep ==
  ASSUME PhoneInv,
         \/ \E c \in Conn : CallStep(c) \/ HangUp(c)
         \/ \E cmd \in Cmd : Control(cmd)
         \/ RingAges
  PROVE  PhoneInv'
  <1> USE DEF PhoneInv, PhoneSound
  <1> USE PlaneTypes
  <1>1. /\ UNCHANGED <<made, peer, ringing, pending, acc, loop, listener, crossed>>
        /\ alive' \subseteq alive
    BY DEF CallStep, SetPeers, ClearActive, ClearPeers, ClearPhase,
           HangUp, Control, RingAges,
           connVars, ringVars, live, cmdVars, sessVars
  <1>2. PendingAgrees' /\ InHand'
    BY <1>1 DEF PendingAgrees, Publishing, PhoneRuns, InHand
  <1>3. ASSUME UNCHANGED <<active, sess, setter>> PROVE NoOrphanCall' /\ BusyIsLive'
    BY <1>1, <1>3 DEF NoOrphanCall, BusyIsLive, Range
  <1>4. ASSUME NEW c \in Conn, HangUp(c) PROVE PhoneInv'
    <2>1. UNCHANGED <<old, phase, peers, queue, sent, active, sess, setter>>
      BY <1>4 DEF HangUp, AccTo, NoConn, Nobody, connVars,
                  ringVars, live, cmdVars, sessVars
    <2>2. PhoneTypeOK'
      BY <1>1, <2>1 DEF PhoneTypeOK
    <2> QED BY <1>2, <1>3, <2>1, <2>2
  <1>5. ASSUME NEW cmd \in Cmd, Control(cmd) PROVE PhoneInv'
    <2>1. /\ UNCHANGED <<old, phase, peers, alive, active, sess, setter>>
          /\ sent < MaxCmd /\ Len(queue) < QueueCap /\ queue' = Append(queue, cmd) /\ sent' = sent + 1
      BY <1>5 DEF Control, AccTo, NoConn, Nobody, connVars,
                  ringVars, live, cmdVars, sessVars
    <2>2. queue' \in Seq(Cmd) /\ Len(queue') <= QueueCap
      <3>1. queue' \in Seq(Cmd) /\ Len(queue') = Len(queue) + 1
        BY <2>1
      <3> QED BY <2>1, <3>1
    <2>3. sent' \in 0..MaxCmd
      BY <2>1 DEF PhoneTypeOK
    <2>4. PhoneTypeOK'
      BY <1>1, <2>1, <2>2, <2>3 DEF PhoneTypeOK
    <2> QED BY <1>2, <1>3, <2>1, <2>4
  <1>6. CASE RingAges
    <2>1. /\ UNCHANGED <<phase, peers, alive, queue, sent, active, sess, setter>>
          /\ old < Len(ringing) /\ old' = old + 1
      BY <1>6 DEF RingAges, AccTo, NoConn, Nobody, connVars,
                  ringVars, live, cmdVars, sessVars
    <2>2. old' \in 0..Len(ringing)
      BY <2>1
    <2>3. PhoneTypeOK'
      BY <1>1, <2>1, <2>2 DEF PhoneTypeOK
    <2> QED BY <1>2, <1>3, <2>1, <2>3
  <1>7. ASSUME NEW c \in Conn, SetPeers(c) PROVE PhoneInv'
    <2>1. /\ UNCHANGED <<old, phase, alive, queue, sent, active, sess>>
          /\ peers' = peer[c] /\ setter' = [setter EXCEPT ![c] = "done"]
      BY <1>7 DEF SetPeers, AccTo, NoConn, Nobody, connVars,
                  ringVars, live, cmdVars, sessVars
    <2>2. PhoneTypeOK'
      BY <1>1, <2>1 DEF PhoneTypeOK
    <2>3. NoOrphanCall' /\ BusyIsLive'
      BY <1>1, <2>1 DEF NoOrphanCall, BusyIsLive, Range
    <2> QED BY <1>2, <2>2, <2>3
  <1>8. ASSUME NEW c \in Conn, ClearActive(c) PROVE PhoneInv'
    <2>1. /\ UNCHANGED <<old, phase, peers, alive, queue, sent, setter>>
          /\ active' = 0 /\ c \notin alive /\ sess[c] = "live" /\ sess' = [sess EXCEPT ![c] = "peers"]
      BY <1>8 DEF ClearActive, WatcherTo, AccTo, NoConn, Nobody,
                  connVars, ringVars, live, cmdVars, sessVars
    <2>2. /\ sess' \in [Conn -> {"none", "live", "peers", "phase", "over"}] /\ sess'[c] = "peers"
          /\ \A d \in Conn \ {c} : sess'[d] = sess[d]
      BY <2>1 DEF PhoneTypeOK
    <2>3. PhoneTypeOK'
      BY <1>1, <2>1, <2>2 DEF PhoneTypeOK
    <2>4. NoOrphanCall'
      <3>1. alive \subseteq Conn
        BY DEF PhoneTypeOK
      <3> QED BY <1>1, <2>1, <2>2, <3>1 DEF NoOrphanCall, Range
    <2>5. BusyIsLive'
      <3>1. 0 \notin Conn
        OBVIOUS
      <3> QED BY <1>1, <2>1, <2>2, <3>1 DEF BusyIsLive
    <2> QED BY <1>2, <2>3, <2>4, <2>5
  <1>9. ASSUME NEW c \in Conn, ClearPeers(c) \/ ClearPhase(c) PROVE PhoneInv'
    <2>1. /\ UNCHANGED <<old, alive, queue, sent, active, setter>>
          /\ sess[c] # "live" /\ \E s \in {"phase", "over"} : sess' = [sess EXCEPT ![c] = s]
          /\ peers' = peers \/ peers' = Nobody
          /\ phase' = phase \/ phase' = "idle"
      BY <1>9 DEF ClearPeers, ClearPhase, WatcherTo, connVars,
                  ringVars, cmdVars
    <2>2. /\ sess' \in [Conn -> {"none", "live", "peers", "phase", "over"}] /\ sess'[c] # "live"
          /\ \A d \in Conn \ {c} : sess'[d] = sess[d]
      BY <2>1 DEF PhoneTypeOK
    <2>3. PhoneTypeOK'
      BY <1>1, <2>1, <2>2 DEF PhoneTypeOK
    <2>4. NoOrphanCall'
      <3>1. alive \subseteq Conn
        BY DEF PhoneTypeOK
      <3> QED BY <1>1, <2>1, <2>2, <3>1 DEF NoOrphanCall, Range
    <2>5. BusyIsLive'
      BY <1>1, <2>1, <2>2 DEF BusyIsLive
    <2> QED BY <1>2, <2>3, <2>4, <2>5
  <1> QED BY <1>4, <1>5, <1>6, <1>7, <1>8, <1>9 DEF CallStep

(* run_phone_plane_inner and spawn_stream_session, for any number of         *)
(* connections and commands and in every order of the tasks' steps: `call    *)
(* ring` lists the calls that ring, every open connection is in the hands of *)
(* a task, and a phone that is busy has a live call, unless calls crossed.   *)
THEOREM PhoneStaysSound == PhoneSpec => []PhoneSound
  <1>1. PhoneInit => PhoneInv
    BY InitPhoneInv
  <1>2. PhoneInv /\ [PhoneNext]_phoneVars => PhoneInv'
    <2> SUFFICES ASSUME PhoneInv, [PhoneNext]_phoneVars PROVE PhoneInv'
      OBVIOUS
    <2>1. CASE UNCHANGED phoneVars
      BY <2>1 DEF connVars, ringVars, live, cmdVars, sessVars,
                  phoneVars, PhoneInv, InHand,
                  PhoneSound, PhoneTypeOK, PendingAgrees, Publishing, PhoneRuns,
                  NoOrphanCall, BusyIsLive, Range
    <2>2. CASE PhoneNext
      BY <2>2, AcceptKeeps, LoopKeeps, IncomingKeeps, OthersKeep DEF PhoneNext
    <2> QED BY <2>1, <2>2
  <1>3. PhoneInv => PhoneSound
    BY DEF PhoneInv
  <1> QED BY <1>1, <1>2, <1>3, PTL DEF PhoneSpec
=============================================================================
