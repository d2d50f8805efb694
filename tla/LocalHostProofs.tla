-------------------------- MODULE LocalHostProofs --------------------------
(* Proofs about the parts that work on one host's own state, for every set  *)
(* of commands, daemons, addresses and prefixes and for every pace of the   *)
(* path monitor.                                                            *)
EXTENDS LocalHost, FiniteSetTheorems, SequenceTheorems, WellFoundedInduction, TLAPS

-----------------------------------------------------------------------------
(* The path monitor                                                         *)

(* The pace the running wait was set up with. *)
Pace == IF slowed THEN SlowDelay ELSE Monitor!UpgradeDelay

(* The inductive strengthening of MonitorSound: what is left of the wait and *)
(* the time already gone never exceed the pace, and a direct path owes       *)
(* nothing.                                                                  *)
PaceInv ==
    /\ Monitor!TypeOK
    /\ slowed \in BOOLEAN
    /\ ~RelayOnly => since + nudgeIn <= Pace
    /\ Monitor!IsDirect => since = 0

LEMMA MonitorTimes ==
  /\ Monitor!UpgradeDelay \in 2..6 /\ Monitor!PermStreak \in 2..6
  /\ StatsEvery \in Nat /\ SlowDelay \in Nat /\ SlowDelay >= 6 /\ RelayOnly \in BOOLEAN
  /\ Monitor!Delay \in 0..SlowDelay /\ Pace \in 0..SlowDelay
  <1>1. StatsEvery \in Nat /\ SlowDelay \in Nat /\ SlowDelay >= 6 /\ RelayOnly \in BOOLEAN
    BY HostConstants
  <1>2. Monitor!UpgradeDelay \in 2..6
    BY DEF Monitor!UpgradeDelay
  <1>3. Monitor!PermStreak \in 2..6
    BY DEF Monitor!PermStreak
  <1> QED BY <1>1, <1>2, <1>3 DEF Monitor!Delay, Pace

LEMMA MinOfTwo ==
  ASSUME NEW a \in Nat, NEW b \in Nat
  PROVE  Monitor!Min({a, b}) = IF a <= b THEN a ELSE b
  BY DEF Monitor!Min

LEMMA MonitorInit == Monitor!Init => PaceInv
  <1> SUFFICES ASSUME Monitor!Init PROVE PaceInv
    OBVIOUS
  <1> DEFINE relay == [ip |-> FALSE, selected |-> TRUE]
  <1>1. paths \in Monitor!Snapshot
    <2>1. paths = {relay} /\ relay \in Monitor!Path
      BY DEF Monitor!Init, Monitor!Path
    <2> QED BY <2>1 DEF Monitor!Snapshot
  <1>2. Monitor!TypeOK
    BY <1>1, MonitorTimes DEF Monitor!Init, Monitor!TypeOK
  <1>3. slowed = FALSE /\ since = 0 /\ nudgeIn = Monitor!UpgradeDelay
    BY DEF Monitor!Init
  <1>4. Pace = Monitor!UpgradeDelay
    BY <1>3 DEF Pace
  <1>5. since + nudgeIn <= Pace
    BY <1>3, <1>4, MonitorTimes
  <1> QED BY <1>2, <1>3, <1>5 DEF PaceInv

LEMMA SampledTyped ==
  ASSUME Monitor!TypeOK, NEW kind, NEW bps
  PROVE  /\ Monitor!Sampled(kind, bps).noIp \in 0..Monitor!PermStreak
         /\ Monitor!Sampled(kind, bps).slow \in 0..2
  <1>1. Monitor!PermStreak \in 2..6 /\ seen.noIp \in 0..Monitor!PermStreak /\ seen.slow \in 0..2
    BY MonitorTimes DEF Monitor!TypeOK
  <1>2. \A n, top \in Nat : Monitor!Count(n, top) \in 0..top
    BY MinOfTwo DEF Monitor!Count
  <1>3. /\ Monitor!Count(seen.noIp, Monitor!PermStreak) \in 0..Monitor!PermStreak
        /\ Monitor!Count(seen.slow, 2) \in 0..2
    <2>1. seen.noIp \in Nat /\ Monitor!PermStreak \in Nat /\ seen.slow \in Nat /\ 2 \in Nat
      BY <1>1
    <2> QED BY <1>2, <2>1, Zenon
  <1> QED BY <1>1, <1>3 DEF Monitor!Sampled

LEMMA MonitorStepKeeps ==
  ASSUME PaceInv, Monitor!Next
  PROVE  PaceInv'
  <1> USE DEF PaceInv
  <1>1. /\ nudgeIn \in 0..SlowDelay /\ since \in 0..(SlowDelay + 1)
        /\ SlowDelay \in Nat /\ SlowDelay >= 6 /\ Pace \in 0..SlowDelay
    BY MonitorTimes DEF Monitor!TypeOK
  <1>2. CASE Monitor!StatsTick
    <2>1. /\ UNCHANGED <<paths, nudgeIn, since, slowed>> /\ statsIn' = StatsEvery
          /\ \E bps : seen' = Monitor!Sampled(Monitor!PathKind(paths), bps)
      BY <1>2 DEF Monitor!StatsTick
    <2>2. seen'.noIp \in 0..Monitor!PermStreak /\ seen'.slow \in 0..2
      BY <2>1, SampledTyped
    <2>3. Monitor!TypeOK'
      BY <2>1, <2>2, MonitorTimes DEF Monitor!TypeOK
    <2> QED BY <2>1, <2>3 DEF Pace, Monitor!IsDirect
  <1>3. CASE Monitor!Nudge
    <2>1. /\ UNCHANGED <<paths, statsIn, seen>> /\ nudgeIn' = Monitor!Delay
          /\ since' = 0 /\ slowed' = Monitor!Permanent
      BY <1>3 DEF Monitor!Nudge
    <2>2. Monitor!TypeOK'
      BY <2>1, MonitorTimes DEF Monitor!TypeOK
    <2>3. Monitor!Permanent \in BOOLEAN
      BY DEF Monitor!Permanent
    <2>4. nudgeIn' <= Pace'
      BY <2>1, <2>3, MonitorTimes DEF Pace, Monitor!Delay
    <2> QED BY <2>1, <2>2, <2>3, <2>4, MonitorTimes
  <1>4. CASE Monitor!Closed
    <2>1. UNCHANGED <<paths, statsIn, seen, nudgeIn, since, slowed>>
      BY <1>4 DEF Monitor!Closed
    <2> QED BY <2>1 DEF Monitor!TypeOK, Pace, Monitor!IsDirect
  <1>5. CASE Monitor!PathsMove
    <2>1. /\ UNCHANGED <<statsIn, seen, nudgeIn, slowed>> /\ paths' \in Monitor!Snapshot
          /\ since' = IF Monitor!PathKind(paths') = "direct" THEN 0 ELSE since
      BY <1>5 DEF Monitor!PathsMove
    <2>2. Monitor!TypeOK'
      BY <1>1, <2>1 DEF Monitor!TypeOK
    <2>3. Pace' = Pace
      BY <2>1 DEF Pace
    <2>4. ~RelayOnly => since' + nudgeIn' <= Pace'
      BY <1>1, <2>1, <2>3
    <2> QED BY <2>1, <2>2, <2>4 DEF Monitor!IsDirect
  <1>6. CASE Monitor!Elapse
    <2>1. /\ UNCHANGED <<paths, seen, slowed>> /\ statsIn > 0 /\ statsIn' = statsIn - 1
          /\ nudgeIn > 0 \/ RelayOnly
          /\ nudgeIn' = IF RelayOnly THEN nudgeIn ELSE nudgeIn - 1
          /\ since' = IF Monitor!IsDirect THEN 0 ELSE Monitor!Min({since + 1, SlowDelay + 1})
      BY <1>6 DEF Monitor!Elapse
    <2>2. since' = IF Monitor!IsDirect THEN 0
                   ELSE IF since + 1 <= SlowDelay + 1 THEN since + 1 ELSE SlowDelay + 1
      BY <1>1, <2>1, MinOfTwo
    <2>3. since' \in 0..(SlowDelay + 1) /\ nudgeIn' \in 0..SlowDelay
      BY <1>1, <2>1, <2>2
    <2>4. Monitor!TypeOK'
      BY <2>1, <2>3, MonitorTimes DEF Monitor!TypeOK
    <2>5. Pace' = Pace
      BY <2>1 DEF Pace
    <2>6. ~RelayOnly => since' + nudgeIn' <= Pace'
      BY <1>1, <2>1, <2>2, <2>5
    <2> QED BY <2>1, <2>4, <2>6 DEF Monitor!IsDirect
  <1> QED BY <1>2, <1>3, <1>4, <1>5, <1>6 DEF Monitor!Next

(* spawn_path_monitor: whatever paths come and go and however the samples    *)
(* fall between the nudges, a connection without a direct path is nudged     *)
(* within the pace its history set.                                          *)
THEOREM NudgesComeInTime == Spec => []MonitorSound
  <1>1. Init => PaceInv
    BY MonitorInit DEF Init
  <1>2. PaceInv /\ [Next]_vars => PaceInv'
    <2> SUFFICES ASSUME PaceInv, [Next]_vars PROVE PaceInv'
      OBVIOUS
    <2>1. CASE MonitorStep
      BY <2>1, MonitorStepKeeps DEF MonitorStep
    <2>2. CASE UNCHANGED pmVars
      BY <2>2 DEF pmVars, PaceInv, Pace, Monitor!TypeOK, Monitor!IsDirect
    <2> QED BY <2>1, <2>2 DEF Next, vars, IdentityStep, ContactsStep, PathLogStep, CtlStep, DeviceStep
  <1>3. PaceInv => MonitorSound
    <2> SUFFICES ASSUME PaceInv PROVE Monitor!NudgedInTime
      BY DEF PaceInv, MonitorSound, Monitor!MonitorSound
    <2>1. nudgeIn \in Nat /\ since \in Nat /\ Pace \in Nat
      BY MonitorTimes DEF PaceInv, Monitor!TypeOK
    <2> QED BY <2>1 DEF PaceInv, Pace, Monitor!NudgedInTime
  <1> QED BY <1>1, <1>2, <1>3, PTL DEF Spec

-----------------------------------------------------------------------------
(* The control socket                                                       *)

Reply == {"-", "Status", "Peers", "NoPeers", "Ok", "Err", "Denied"}
Conn == [at : {"none", "backlog", "read", "reply", "answered", "gone"},
         req : Ctl!Request, resp : Reply]
Said == Reply \cup {"shown", "usage", "waiting", "spawns", "stopped", "notrunning", "connected"}
Run == [step : {"off", "probe", "request", "poll", "pollpeers", "done"},
        said : Said, polls : 0..MaxPolls]

(* Commands that go straight to their request, without a probe. *)
Direct == {"accept", "reject", "stall"}

CtlTyped ==
    /\ sockFile \in BOOLEAN /\ listening \in BOOLEAN /\ quit \in BOOLEAN
    /\ cancelled \in BOOLEAN /\ peered \in BOOLEAN /\ hurt \in BOOLEAN
    /\ serving \in {"accept", "drain", "ended"} /\ data \in {"run", "ended"}
    /\ calls \in Seq(Ctl!Request) /\ Len(calls) <= CallQueue
    /\ op \in Ops
    /\ conn \in [Client -> Conn] /\ cli \in [Client -> Run]

(* A connection belongs to a command under way, asks what that command      *)
(* wants, and is given up under a probe only by a loop that has ended.      *)
Linked(c) ==
    /\ conn[c].at # "none" => cli[c].step \notin {"off", "done"}
    /\ conn[c].at # "none" /\ Ctl!Probing(c) => conn[c].req = "Status"
    /\ conn[c].at = "gone" /\ Ctl!Probing(c) => serving = "ended"
    /\ op[c] \in Direct => cli[c].step \in {"off", "request", "done"}
    /\ conn[c].resp # "-" => conn[c].at \in {"reply", "answered"}

(* The inductive strengthening of CtlSound. *)
CtlInv ==
    /\ CtlTyped
    /\ serving # "ended" => listening
    /\ \A c \in Client : Linked(c)
    /\ ~hurt

(* No command of another protocol version probes the socket. *)
OthersDirect == \A o \in Ops : \A c \in Client : c \in Other => o[c] \in Direct

LEMMA CtlConstants ==
  CallQueue \in Nat /\ MaxPolls \in Nat /\ Ops \subseteq [Client -> Ctl!Command]
  BY HostConstants

LEMMA CtlInit == Ctl!Init => CtlInv
  <1> SUFFICES ASSUME Ctl!Init PROVE CtlInv
    OBVIOUS
  <1>1. CtlTyped
    <2>1. conn \in [Client -> Conn]
      BY DEF Ctl!Init, Conn, Reply, Ctl!NoConn, Ctl!Request
    <2>2. cli \in [Client -> Run]
      BY CtlConstants DEF Ctl!Init, Run, Said, Reply
    <2>3. calls \in Seq(Ctl!Request) /\ Len(calls) <= CallQueue
      BY CtlConstants DEF Ctl!Init
    <2> QED BY <2>1, <2>2, <2>3 DEF Ctl!Init, CtlTyped
  <1>2. \A c \in Client : Linked(c)
    BY DEF Ctl!Init, Linked, Ctl!NoConn
  <1> QED BY <1>1, <1>2 DEF Ctl!Init, CtlInv

(* The steps of a command. *)
LEMMA ClientKeeps ==
  ASSUME CtlInv, NEW c \in Client, Ctl!ClientStep(c)
  PROVE  CtlInv'
  <1> USE CtlConstants
  <1>1. /\ UNCHANGED <<op, serving, quit, cancelled, data, peered, calls, listening>>
    BY DEF Ctl!ClientStep, Ctl!Begin, Ctl!Connect, Ctl!Unanswered, Ctl!Answered, Ctl!Server
  <1>2. conn[c] \in Conn /\ cli[c] \in Run /\ op[c] \in Ctl!Command /\ Linked(c)
    BY DEF CtlInv, CtlTyped
  <1>3. ASSUME NEW s \in {"off", "probe", "request", "poll", "pollpeers", "done"}, Ctl!To(c, s)
        PROVE  /\ cli' \in [Client -> Run] /\ cli'[c].step = s
               /\ \A d \in Client \ {c} : cli'[d] = cli[d]
    BY <1>2, <1>3 DEF Ctl!To, CtlInv, CtlTyped, Run
  <1>4. ASSUME NEW w \in Said, Ctl!Says(c, w)
        PROVE  /\ cli' \in [Client -> Run] /\ cli'[c].step = "done"
               /\ \A d \in Client \ {c} : cli'[d] = cli[d]
    BY <1>2, <1>4 DEF Ctl!Says, CtlInv, CtlTyped, Run
  <1>5. ASSUME Ctl!PollAgain(c)
        PROVE  /\ cli' \in [Client -> Run] /\ cli'[c].step \in {"poll", "done"}
               /\ \A d \in Client \ {c} : cli'[d] = cli[d]
    <2>0. cli[c].polls \in 0..MaxPolls /\ cli[c].said \in Said /\ cli \in [Client -> Run]
      BY <1>2 DEF CtlInv, CtlTyped, Run
    <2>1. CASE cli[c].polls < MaxPolls
      <3> DEFINE more == [step |-> "poll", said |-> cli[c].said, polls |-> cli[c].polls + 1]
      <3>1. cli' = [cli EXCEPT ![c] = more]
        BY <1>5, <2>1 DEF Ctl!PollAgain
      <3>2. cli[c].polls + 1 \in 0..MaxPolls
        BY <2>0, <2>1
      <3>3. more \in Run
        BY <2>0, <3>2 DEF Run
      <3> QED BY <2>0, <3>1, <3>3
    <2>2. CASE ~(cli[c].polls < MaxPolls)
      <3>1. Ctl!Says(c, "waiting") /\ "waiting" \in Said
        BY <1>5, <2>2 DEF Ctl!PollAgain, Said
      <3> QED BY <1>4, <3>1
    <2> QED BY <2>1, <2>2
  <1>6. ASSUME conn' \in [Client -> Conn], \A d \in Client \ {c} : conn'[d] = conn[d],
               cli' \in [Client -> Run], \A d \in Client \ {c} : cli'[d] = cli[d],
               sockFile' \in BOOLEAN, hurt' = FALSE, Linked(c)'
        PROVE  CtlInv'
    <2>1. CtlTyped'
      BY <1>1, <1>6 DEF CtlInv, CtlTyped
    <2>2. \A d \in Client \ {c} : Linked(d)'
      BY <1>1, <1>6 DEF CtlInv, Linked, Ctl!Probing
    <2> QED BY <1>1, <1>6, <2>1, <2>2 DEF CtlInv
  <1>7. ASSUME conn' = [conn EXCEPT ![c] = Ctl!NoConn]
        PROVE  /\ conn' \in [Client -> Conn] /\ conn'[c] = Ctl!NoConn
               /\ \A d \in Client \ {c} : conn'[d] = conn[d]
    BY <1>7 DEF CtlInv, CtlTyped, Conn, Ctl!NoConn, Ctl!Request, Reply
  <1>8. CASE Ctl!Begin(c)
    <2>1. UNCHANGED <<sockFile, conn, hurt>> /\ cli[c].step = "off"
      BY <1>8 DEF Ctl!Begin
    <2>2. Ctl!To(c, IF op[c] \in Direct THEN "request" ELSE "probe")
      BY <1>8 DEF Ctl!Begin, Direct
    <2>3. /\ cli' \in [Client -> Run] /\ \A d \in Client \ {c} : cli'[d] = cli[d]
          /\ cli'[c].step = IF op[c] \in Direct THEN "request" ELSE "probe"
      BY <1>3, <2>2
    <2>4. conn[c].at = "none"
      BY <1>2, <2>1 DEF Linked
    <2>5. Linked(c)'
      BY <1>1, <1>2, <2>1, <2>3, <2>4 DEF Linked, Ctl!Probing
    <2> QED BY <1>6, <2>1, <2>3, <2>5 DEF CtlInv, CtlTyped
  <1>9. CASE Ctl!Connect(c)
    <2>1. /\ UNCHANGED <<sockFile, cli, hurt>> /\ cli[c].step \notin {"off", "done"}
          /\ conn' = [conn EXCEPT ![c] = [at |-> "backlog", req |-> Ctl!Wanted(c), resp |-> "-"]]
      BY <1>9 DEF Ctl!Connect
    <2>2. Ctl!Wanted(c) \in Ctl!Request
      BY DEF Ctl!Wanted, Ctl!Request
    <2>3. conn' \in [Client -> Conn] /\ \A d \in Client \ {c} : conn'[d] = conn[d]
      BY <2>1, <2>2 DEF CtlInv, CtlTyped, Conn, Reply
    <2>4. conn'[c] = [at |-> "backlog", req |-> Ctl!Wanted(c), resp |-> "-"]
      BY <2>1 DEF CtlInv, CtlTyped
    <2>5. Ctl!Probing(c) => Ctl!Wanted(c) = "Status"
      BY DEF Ctl!Wanted, Ctl!Probing
    <2>6. Linked(c)'
      BY <1>1, <1>2, <2>1, <2>4, <2>5 DEF Linked, Ctl!Probing
    <2> QED BY <1>6, <2>1, <2>3, <2>6 DEF CtlInv, CtlTyped
  <1>10. CASE Ctl!Unanswered(c)
    <2>1. conn' = [conn EXCEPT ![c] = Ctl!NoConn]
      BY <1>10 DEF Ctl!Unanswered
    <2>2. cli[c].step \notin {"off", "done"}
      BY <1>2, <1>10 DEF Ctl!Unanswered, Linked
    <2>3. Ctl!Probing(c) => ~(sockFile /\ Ctl!InService)
      BY <1>2, <1>10 DEF Ctl!Unanswered, Ctl!CanAccept, Ctl!InService, Linked, CtlInv
    <2>4. sockFile' \in BOOLEAN /\ hurt' = FALSE
      BY <1>10, <2>3 DEF Ctl!Unanswered, CtlInv, CtlTyped
    <2>5. /\ cli' \in [Client -> Run] /\ \A d \in Client \ {c} : cli'[d] = cli[d]
          /\ \/ cli'[c].step = "done"
             \/ cli'[c].step = "poll" /\ cli[c].step \in {"poll", "pollpeers"}
      <3>1. \/ \E w \in Said : Ctl!Says(c, w)
            \/ cli[c].step \in {"poll", "pollpeers"} /\ Ctl!PollAgain(c)
        BY <1>10 DEF Ctl!Unanswered, Said
      <3> QED BY <1>4, <1>5, <3>1
    <2>6. Linked(c)'
      BY <1>1, <1>2, <1>7, <2>1, <2>2, <2>5 DEF Linked, Ctl!NoConn, Ctl!Probing
    <2> QED BY <1>6, <1>7, <2>1, <2>4, <2>5, <2>6
  <1>11. CASE Ctl!Answered(c)
    <2>1. /\ conn' = [conn EXCEPT ![c] = Ctl!NoConn] /\ UNCHANGED <<sockFile, hurt>>
          /\ conn[c].at = "answered" /\ conn[c].resp \in Reply
      BY <1>2, <1>11 DEF Ctl!Answered, Conn
    <2>2. /\ cli' \in [Client -> Run] /\ \A d \in Client \ {c} : cli'[d] = cli[d]
          /\ op[c] \in Direct => cli'[c].step = "done"
      <3>1. cli[c].step \in {"probe", "request", "poll", "pollpeers"}
        BY <1>2, <2>1 DEF Linked, Run
      <3>2. \/ \E w \in Said : Ctl!Says(c, w)
            \/ op[c] \notin Direct /\ \E s \in {"request", "poll", "pollpeers"} : Ctl!To(c, s)
            \/ op[c] \notin Direct /\ Ctl!PollAgain(c)
        <4>1. op[c] \in Direct => cli[c].step = "request"
          BY <1>2, <3>1 DEF Linked
        <4>2. CASE cli[c].step = "probe"
          BY <1>11, <4>1, <4>2 DEF Ctl!Answered, Said
        <4>3. CASE cli[c].step = "request"
          BY <1>11, <2>1, <4>3 DEF Ctl!Answered, Direct, Said
        <4>4. CASE cli[c].step \in {"poll", "pollpeers"}
          BY <1>11, <4>1, <4>4 DEF Ctl!Answered, Said
        <4> QED BY <3>1, <4>2, <4>3, <4>4
      <3> QED BY <1>3, <1>4, <1>5, <3>2
    <2>3. Linked(c)'
      BY <1>1, <1>7, <2>1, <2>2 DEF Linked, Ctl!NoConn
    <2> QED BY <1>6, <1>7, <2>1, <2>2, <2>3 DEF CtlInv, CtlTyped
  <1> QED BY <1>8, <1>9, <1>10, <1>11 DEF Ctl!ClientStep

(* The steps of the task that serves a connection. *)
LEMMA ServerKeeps ==
  ASSUME OthersDirect, CtlInv, NEW c \in Client, Ctl!ServerStep(c)
  PROVE  CtlInv'
  <1> USE CtlConstants
  <1>1. UNCHANGED <<op, sockFile, listening, serving, data, peered, cli, hurt>>
    BY DEF Ctl!ServerStep, Ctl!AcceptConn, Ctl!DropConn, Ctl!HandleCtlRequest, Ctl!WriteResponse,
           Ctl!Server
  <1>2. /\ conn[c] \in Conn /\ cli[c] \in Run /\ op[c] \in Ctl!Command /\ Linked(c)
        /\ conn[c].req \in Ctl!Request
    BY DEF CtlInv, CtlTyped, Conn
  <1>3. ASSUME NEW s \in {"read", "answered", "gone"}, Ctl!Conn(c, s)
        PROVE  /\ conn' \in [Client -> Conn] /\ conn'[c].at = s
               /\ conn'[c].req = conn[c].req /\ conn'[c].resp = conn[c].resp
               /\ \A d \in Client \ {c} : conn'[d] = conn[d]
    BY <1>2, <1>3 DEF Ctl!Conn, CtlInv, CtlTyped, Conn
  <1>4. ASSUME NEW r \in Reply, Ctl!Answer(c, r)
        PROVE  /\ conn' \in [Client -> Conn] /\ conn'[c].at = "reply"
               /\ conn'[c].req = conn[c].req
               /\ \A d \in Client \ {c} : conn'[d] = conn[d]
    BY <1>2, <1>4 DEF Ctl!Answer, CtlInv, CtlTyped, Conn
  <1>5. ASSUME conn' \in [Client -> Conn], \A d \in Client \ {c} : conn'[d] = conn[d],
               quit' \in BOOLEAN, cancelled' \in BOOLEAN,
               calls' \in Seq(Ctl!Request), Len(calls') <= CallQueue, Linked(c)'
        PROVE  CtlInv'
    <2>1. CtlTyped'
      BY <1>1, <1>5 DEF CtlInv, CtlTyped
    <2>2. \A d \in Client \ {c} : Linked(d)'
      BY <1>1, <1>5 DEF CtlInv, Linked, Ctl!Probing
    <2> QED BY <1>1, <1>5, <2>1, <2>2 DEF CtlInv
  <1>6. CASE Ctl!AcceptConn(c)
    <2>1. UNCHANGED <<quit, cancelled, calls>> /\ conn[c].at = "backlog" /\ Ctl!Conn(c, "read")
      BY <1>6 DEF Ctl!AcceptConn, Ctl!CanAccept, Ctl!Server
    <2>2. Linked(c)'
      BY <1>1, <1>2, <1>3, <2>1 DEF Linked, Ctl!Probing
    <2> QED BY <1>3, <1>5, <2>1, <2>2 DEF CtlInv, CtlTyped
  <1>7. CASE Ctl!DropConn(c)
    <2>1. /\ UNCHANGED <<quit, cancelled, calls>> /\ conn[c].at = "read" /\ Ctl!Conn(c, "gone")
          /\ conn[c].req = "-" \/ c \in Other
      BY <1>7 DEF Ctl!DropConn, Ctl!Stuck, Ctl!Compatible, Ctl!Server
    <2>2. ~Ctl!Probing(c)
      <3>1. CASE conn[c].req = "-"
        BY <1>2, <2>1, <3>1 DEF Linked
      <3>2. CASE c \in Other
        <4>1. op[c] \in Direct
          BY <3>2 DEF OthersDirect, CtlInv, CtlTyped
        <4> QED BY <1>2, <4>1 DEF Linked, Ctl!Probing
      <3> QED BY <2>1, <3>1, <3>2
    <2>3. Linked(c)'
      BY <1>1, <1>2, <1>3, <2>1, <2>2 DEF Linked, Ctl!Probing
    <2> QED BY <1>3, <1>5, <2>1, <2>3 DEF CtlInv, CtlTyped
  <1>8. CASE Ctl!HandleCtlRequest(c)
    <2>1. conn[c].at = "read"
      BY <1>8 DEF Ctl!HandleCtlRequest
    <2>2. ASSUME Ctl!TrySend(c)
          PROVE  /\ calls' \in Seq(Ctl!Request) /\ Len(calls') <= CallQueue
                 /\ \E r \in Reply : Ctl!Answer(c, r)
      <3>1. CASE PhoneMode /\ data = "run" /\ Len(calls) < CallQueue
        <4>1. calls' = Append(calls, conn[c].req) /\ Ctl!Answer(c, "Ok")
          BY <2>2, <3>1 DEF Ctl!TrySend
        <4>2. calls \in Seq(Ctl!Request) /\ Len(calls) \in Nat
          BY DEF CtlInv, CtlTyped
        <4>3. calls' \in Seq(Ctl!Request) /\ Len(calls') = Len(calls) + 1
          BY <1>2, <4>1, <4>2
        <4> QED BY <3>1, <4>1, <4>2, <4>3 DEF Reply
      <3>2. CASE ~(PhoneMode /\ data = "run" /\ Len(calls) < CallQueue)
        BY <2>2, <3>2 DEF Ctl!TrySend, Reply, CtlInv, CtlTyped
      <3> QED BY <3>1, <3>2
    <2>3. /\ quit' \in BOOLEAN /\ cancelled' \in BOOLEAN
          /\ calls' \in Seq(Ctl!Request) /\ Len(calls') <= CallQueue
          /\ \E r \in Reply : Ctl!Answer(c, r)
      <3>1. /\ quit \in BOOLEAN /\ cancelled \in BOOLEAN
            /\ calls \in Seq(Ctl!Request) /\ Len(calls) <= CallQueue
        BY DEF CtlInv, CtlTyped
      <3>2. CASE conn[c].req \in {"Status", "Peers"}
        BY <1>8, <3>1, <3>2 DEF Ctl!HandleCtlRequest, Reply
      <3>3. CASE conn[c].req = "Call"
        BY <1>8, <2>2, <3>1, <3>3 DEF Ctl!HandleCtlRequest
      <3>4. CASE conn[c].req \in {"Accept", "Reject"}
        BY <1>8, <2>2, <3>1, <3>4 DEF Ctl!HandleCtlRequest, Reply
      <3>5. CASE conn[c].req = "Shutdown"
        BY <1>8, <3>1, <3>5 DEF Ctl!HandleCtlRequest, Ctl!ShutdownOp, Reply
      <3> QED BY <1>2, <1>8, <3>2, <3>3, <3>4, <3>5 DEF Ctl!HandleCtlRequest, Ctl!Request
    <2>4. Linked(c)'
      BY <1>1, <1>2, <1>4, <2>1, <2>3 DEF Linked, Ctl!Probing
    <2> QED BY <1>4, <1>5, <2>3, <2>4
  <1>9. CASE Ctl!WriteResponse(c)
    <2>1. UNCHANGED <<quit, cancelled, calls>> /\ conn[c].at = "reply" /\ Ctl!Conn(c, "answered")
      BY <1>9 DEF Ctl!WriteResponse, Ctl!Server
    <2>2. Linked(c)'
      BY <1>1, <1>2, <1>3, <2>1 DEF Linked, Ctl!Probing
    <2> QED BY <1>3, <1>5, <2>1, <2>2 DEF CtlInv, CtlTyped
  <1> QED BY <1>6, <1>7, <1>8, <1>9 DEF Ctl!ServerStep

(* The accept loop, its drain, the worker's end and the data plane. *)
LEMMA LoopKeeps ==
  ASSUME CtlInv, Ctl!LoopStep \/ Ctl!PhoneTakes \/ Ctl!DataEnds
  PROVE  CtlInv'
  <1> USE CtlConstants
  <1>1. CASE Ctl!StopAccept
    BY <1>1 DEF Ctl!StopAccept, CtlInv, CtlTyped, Linked, Ctl!Probing
  <1>2. CASE Ctl!EndDrain
    <2>1. /\ serving' = "ended" /\ listening' = FALSE
          /\ UNCHANGED <<op, sockFile, quit, cancelled, data, peered, calls, cli, hurt>>
          /\ Ctl!Drained
          /\ conn' = [c \in Client |->
                        IF Ctl!Task(c) \/ conn[c].at = "backlog"
                          THEN [conn[c] EXCEPT !.at = "gone"] ELSE conn[c]]
      BY <1>2 DEF Ctl!EndDrain
    <2>2. ASSUME NEW c \in Client
          PROVE  conn'[c] \in Conn /\ Linked(c)'
      <3>1. conn[c] \in Conn /\ Linked(c)
        BY DEF CtlInv, CtlTyped
      <3>2. CASE Ctl!Task(c) \/ conn[c].at = "backlog"
        <4>1. conn'[c] = [conn[c] EXCEPT !.at = "gone"]
          BY <2>1, <3>2
        <4>2. conn[c].at \in {"read", "backlog"}
          BY <2>1, <3>2 DEF Ctl!Drained, Ctl!Stuck
        <4>3. conn[c].resp = "-"
          BY <3>1, <4>2 DEF Linked
        <4>4. /\ conn'[c].at = "gone" /\ conn'[c].req = conn[c].req /\ conn'[c].resp = "-"
              /\ conn'[c] \in Conn
          BY <3>1, <4>1, <4>3 DEF Conn
        <4> QED BY <2>1, <3>1, <4>2, <4>4 DEF Linked, Ctl!Probing
      <3>3. CASE ~(Ctl!Task(c) \/ conn[c].at = "backlog")
        BY <2>1, <3>1, <3>3 DEF Linked, Ctl!Probing
      <3> QED BY <3>2, <3>3
    <2>3. conn' \in [Client -> Conn]
      BY <2>1, <2>2
    <2> QED BY <2>1, <2>2, <2>3 DEF CtlInv, CtlTyped
  <1>3. CASE Ctl!WorkerExits
    BY <1>3 DEF Ctl!WorkerExits, Ctl!Server, CtlInv, CtlTyped, Linked, Ctl!Probing
  <1>4. CASE Ctl!PhoneTakes
    <2>1. /\ UNCHANGED <<op, sockFile, listening, serving, quit, cancelled, data, conn, cli, hurt>>
          /\ calls # <<>> /\ calls' = Tail(calls) /\ peered' \in {peered, TRUE}
      BY <1>4 DEF Ctl!PhoneTakes
    <2>2. calls' \in Seq(Ctl!Request) /\ Len(calls') <= CallQueue
      <3>1. calls \in Seq(Ctl!Request) /\ Len(calls) \in Nat /\ Len(calls) <= CallQueue
        BY DEF CtlInv, CtlTyped
      <3>2. calls' \in Seq(Ctl!Request) /\ Len(calls') = Len(calls) - 1
        BY <2>1, <3>1
      <3> QED BY <3>1, <3>2
    <2> QED BY <2>1, <2>2 DEF CtlInv, CtlTyped, Linked, Ctl!Probing
  <1>5. CASE Ctl!DataEnds
    <2>1. /\ UNCHANGED <<op, sockFile, listening, serving, quit, cancelled, peered, conn, cli, hurt>>
          /\ data' = "ended" /\ calls' = <<>>
      BY <1>5 DEF Ctl!DataEnds
    <2>2. calls' \in Seq(Ctl!Request) /\ Len(calls') <= CallQueue
      BY <2>1
    <2> QED BY <2>1, <2>2 DEF CtlInv, CtlTyped, Linked, Ctl!Probing
  <1> QED BY <1>1, <1>2, <1>3, <1>4, <1>5 DEF Ctl!LoopStep

(* serve_ctl_until_shutdown and probe: whichever clients stall, ask twice    *)
(* or are cut off by the drain, no probe takes the socket of a daemon in     *)
(* service away and the command that stopped the daemon hears so, provided   *)
(* that no command of another protocol version probes.                       *)
THEOREM LiveSocketStays == OthersDirect => (Spec => []CtlSound)
  <1> SUFFICES ASSUME OthersDirect PROVE Spec => []CtlSound
    OBVIOUS
  <1>1. Init => CtlInv
    BY CtlInit DEF Init
  <1>2. CtlInv /\ [Next]_vars => CtlInv'
    <2> SUFFICES ASSUME CtlInv, [Next]_vars PROVE CtlInv'
      OBVIOUS
    <2>1. CASE CtlStep
      <3>1. Ctl!Next
        BY <2>1 DEF CtlStep
      <3>2. CASE \E c \in Client : Ctl!ClientStep(c) \/ Ctl!ServerStep(c)
        BY <3>2, ClientKeeps, ServerKeeps
      <3>3. CASE Ctl!LoopStep \/ Ctl!PhoneTakes \/ Ctl!DataEnds
        BY <3>3, LoopKeeps
      <3> QED BY <3>1, <3>2, <3>3 DEF Ctl!Next
    <2>2. CASE UNCHANGED ctlVars
      BY <2>2 DEF ctlVars, CtlInv, CtlTyped, Linked, Ctl!Probing
    <2> QED BY <2>1, <2>2 DEF Next, vars, IdentityStep, ContactsStep, PathLogStep, MonitorStep, DeviceStep
  <1>3. CtlInv => CtlSound
    <2> SUFFICES ASSUME CtlInv PROVE Ctl!CtlSound
      BY DEF CtlSound
    <2>1. Ctl!ShutdownAnswered /\ Ctl!LiveSocketKept
      BY DEF CtlInv, Linked, Ctl!ShutdownAnswered, Ctl!LiveSocketKept
    <2>2. \A c \in Client : /\ conn[c].req \in Ctl!Request /\ cli[c].polls <= MaxPolls
                            /\ conn[c].at \in {"none", "backlog", "read", "reply", "answered", "gone"}
      BY CtlConstants DEF CtlInv, CtlTyped, Conn, Run
    <2>3. op \in [Client -> Ctl!Command]
      BY CtlConstants DEF CtlInv, CtlTyped
    <2>4. Ctl!TypeOK
      BY <2>2, <2>3 DEF CtlInv, CtlTyped, Ctl!TypeOK
    <2> QED BY <2>1, <2>4 DEF Ctl!CtlSound
  <1> QED BY <1>1, <1>2, <1>3, PTL DEF Spec

-----------------------------------------------------------------------------
(* Devices, addresses and routes                                            *)

Stage == {"off", "alloc4", "alloc6", "create", "addr4", "addr6", "link", "ready", "ended"}
Session == {"none", "add6", "up", "up6less", "del6"}

(* Where a daemon has chosen its address of a family but not yet put it on   *)
(* its device, and where it may have done so.                                *)
Chosen(f) == IF f = 4 THEN {"alloc6", "create", "addr4"} ELSE {"create", "addr4", "addr6"}
OnDevice(f) == IF f = 4 THEN {"addr6", "link", "ready"} ELSE {"link", "ready"}

(* The inductive strengthening of VipsDistinct: an address on a device is    *)
(* the one its daemon chose, and while daemons set up one at a time the      *)
(* address one of them has chosen is still free, unless it was never.        *)
AddrInv ==
    /\ proc \in [Proc -> Stage] /\ calm \in BOOLEAN
    /\ vip \in [Proc -> [Device!Family -> Device!Vip \cup {"-"}]]
    /\ addr \subseteq (Device!Family \X Device!Vip \X Proc)
    /\ calm => \A p, q \in Proc : Device!SettingUp(p) /\ Device!SettingUp(q) => p = q
    /\ \A p \in Proc, f \in Device!Family :
         proc[p] \in Chosen(f) \cup OnDevice(f) => vip[p][f] \in Device!Vip
    /\ \A a \in addr : a[2] = vip[a[3]][a[1]] /\ proc[a[3]] \in OnDevice(a[1])
    /\ calm => \A p \in Proc, f \in Device!Family :
                 proc[p] \in Chosen(f) /\ <<f, p>> \notin blind => Device!Free(f, vip[p][f])
    /\ blind \subseteq (Device!Family \X Proc)
    /\ Device!VipsDistinct

(* The inductive strengthening of LastClaimKept: the IPv4 route is there     *)
(* from the moment it is added, before the session is up.                    *)
Holds(f, x, p) ==
    /\ last[f][x] = p /\ ~(os = "windows" /\ f = 6)
    /\ claim[p][x] = "up" \/ (claim[p][x] = "add6" /\ f = 4)

RouteInv ==
    /\ claim \in [Proc -> [Prefix -> Session]]
    /\ last \in [Device!Family -> [Prefix -> Proc \cup {"-"}]]
    /\ route \subseteq (Device!Family \X Prefix \X Proc)
    /\ os # "macos" => \A f \in Device!Family, x \in Prefix, p \in Proc :
                         Holds(f, x, p) => <<f, x, p>> \in route

LEMMA DeviceInit == Device!Init => AddrInv /\ RouteInv
  <1> SUFFICES ASSUME Device!Init PROVE AddrInv /\ RouteInv
    OBVIOUS
  <1>1. AddrInv
    BY DEF Device!Init, AddrInv, Stage, Device!Family, Chosen, OnDevice, Device!SettingUp,
           Device!Free, Device!VipsDistinct
  <1>2. RouteInv
    BY DEF Device!Init, RouteInv, Session, Holds
  <1> QED BY <1>1, <1>2

(* `allocate_vip` gives an address the daemon's salts derive. *)
LEMMA TriesDerived ==
  ASSUME NEW p \in Proc
  PROVE  1 \in DOMAIN Device!Tries(p) /\ \A i \in DOMAIN Device!Tries(p) : Device!Tries(p)[i] \in Device!Vip
  <1>1. DOMAIN Derived[p] = 1..Len(Derived[p]) /\ Len(Derived[p]) \in Nat \ {0}
    BY HostConstants
  <1>2. \A i \in DOMAIN Derived[p] : Derived[p][i] \in Device!Vip
    BY DEF Device!Vip, Device!Range
  <1>3. 1 \in DOMAIN Derived[p]
    BY <1>1
  <1> QED BY <1>2, <1>3 DEF Device!Tries

(* A step of setting up that puts the addresses of the families F on the     *)
(* device, all of them chosen before.                                        *)
LEMMA SetUpGoesOn ==
  ASSUME AddrInv, NEW p \in Proc, NEW s \in Stage, NEW F \in SUBSET Device!Family,
         Device!SettingUp(p), Device!Goto(p, s), UNCHANGED <<vip, calm, blind>>,
         addr' = addr \cup {<<f, vip[p][f], p>> : f \in F},
         \A f \in Device!Family :
           /\ f \in F => proc[p] \in Chosen(f) /\ s \in OnDevice(f)
           /\ proc[p] \in OnDevice(f) => s \in OnDevice(f)
           /\ s \in Chosen(f) => proc[p] \in Chosen(f) /\ f \notin F
           /\ s \in OnDevice(f) => proc[p] \in Chosen(f) \cup OnDevice(f)
  PROVE  AddrInv'
  <1>1. proc' \in [Proc -> Stage] /\ proc'[p] = s /\ \A q \in Proc \ {p} : proc'[q] = proc[q]
    BY DEF AddrInv, Device!Goto
  <1>2. \A f \in F : vip[p][f] \in Device!Vip /\ f \in Device!Family
    BY DEF AddrInv
  <1>3. addr' \subseteq (Device!Family \X Device!Vip \X Proc)
    BY <1>2 DEF AddrInv
  <1>4. calm' => \A q \in Proc : Device!SettingUp(q) => p = q
    BY DEF AddrInv
  <1>5. calm' => \A q, r \in Proc : Device!SettingUp(q)' /\ Device!SettingUp(r)' => q = r
    BY <1>1, <1>4 DEF Device!SettingUp
  <1>6. \A q \in Proc, f \in Device!Family :
          proc'[q] \in Chosen(f) \cup OnDevice(f) => vip'[q][f] \in Device!Vip
    BY <1>1 DEF AddrInv
  <1>7. ASSUME NEW a \in addr'
        PROVE  a[2] = vip'[a[3]][a[1]] /\ proc'[a[3]] \in OnDevice(a[1])
    <2>1. CASE a \in addr
      <3>1. a[1] \in Device!Family /\ a[3] \in Proc /\ proc[a[3]] \in OnDevice(a[1])
            /\ a[2] = vip[a[3]][a[1]]
        BY <2>1 DEF AddrInv
      <3> QED BY <1>1, <3>1
    <2>2. CASE \E f \in F : a = <<f, vip[p][f], p>>
      BY <1>1, <2>2
    <2> QED BY <2>1, <2>2
  <1>8. ASSUME calm', NEW q \in Proc, NEW f \in Device!Family, proc'[q] \in Chosen(f),
               <<f, q>> \notin blind'
        PROVE  Device!Free(f, vip[q][f])'
    <2>1. q = p
      <3>1. Device!SettingUp(q)'
        BY <1>8 DEF Chosen, Device!SettingUp
      <3> QED BY <1>1, <1>4, <1>8, <3>1 DEF Device!SettingUp
    <2>2. proc[p] \in Chosen(f) /\ f \notin F
      BY <1>1, <1>8, <2>1
    <2>3. Device!Free(f, vip[p][f])
      BY <1>8, <2>1, <2>2 DEF AddrInv
    <2> QED BY <2>1, <2>2, <2>3 DEF Device!Free
  <1>9. Device!VipsDistinct'
    <2> SUFFICES ASSUME calm', NEW a \in addr', NEW b \in addr', a[1] = b[1], a[2] = b[2], a[3] # b[3],
                        <<a[1], a[3]>> \notin blind', <<b[1], b[3]>> \notin blind'
                 PROVE  FALSE
      BY DEF Device!VipsDistinct
    <2>1. \A f \in F : <<f, p>> \notin blind => Device!Free(f, vip[p][f])
      BY DEF AddrInv
    <2>3. CASE a \in addr /\ b \in addr
      BY <2>3 DEF AddrInv, Device!VipsDistinct
    <2>4. CASE a \in addr /\ b \notin addr
      <3>1. PICK f \in F : b = <<f, vip[p][f], p>>
        BY <2>4
      <3>2. Device!Free(f, vip[p][f]) /\ a[1] = f /\ a[2] = vip[p][f]
        BY <2>1, <3>1
      <3> QED BY <2>4, <3>2 DEF Device!Free
    <2>5. CASE a \notin addr /\ b \in addr
      <3>1. PICK f \in F : a = <<f, vip[p][f], p>>
        BY <2>5
      <3>2. Device!Free(f, vip[p][f]) /\ b[1] = f /\ b[2] = vip[p][f]
        BY <2>1, <3>1
      <3> QED BY <2>5, <3>2 DEF Device!Free
    <2>6. CASE a \notin addr /\ b \notin addr
      BY <2>6
    <2> QED BY <2>3, <2>4, <2>5, <2>6
  <1> QED BY <1>1, <1>3, <1>5, <1>6, <1>7, <1>8, <1>9 DEF AddrInv

LEMMA AllocateKeeps ==
  ASSUME AddrInv, NEW p \in Proc, NEW f \in Device!Family, Device!AllocateVip(p, f)
  PROVE  AddrInv'
  <1>1. /\ proc[p] = (IF f = 4 THEN "alloc4" ELSE "alloc6")
        /\ UNCHANGED <<addr, calm>> /\ f \in {4, 6}
    BY DEF Device!AllocateVip, Device!At, Device!Family
  <1>2. Device!SettingUp(p)
    BY <1>1 DEF Device!SettingUp
  <1>3. \A a \in addr : a[3] # p
    BY <1>1 DEF AddrInv, OnDevice
  <1>4. CASE Device!Goto(p, "ended") /\ UNCHANGED <<vip, blind>>
    <2>1. addr' = addr \cup {<<g, vip[p][g], p>> : g \in {}} /\ {} \in SUBSET Device!Family
      BY <1>1
    <2>2. "ended" \in Stage /\ \A g \in Device!Family : "ended" \notin Chosen(g) \cup OnDevice(g)
      BY DEF Stage, Chosen, OnDevice
    <2>3. \A g \in Device!Family : proc[p] \notin OnDevice(g)
      BY <1>1 DEF OnDevice
    <2> QED BY <1>1, <1>2, <1>4, <2>1, <2>2, <2>3, SetUpGoesOn
  <1>5. CASE \E i \in DOMAIN Device!Tries(p) :
               /\ vip' = [vip EXCEPT ![p] = [@ EXCEPT ![f] = Device!Tries(p)[i]]]
               /\ blind' = IF Device!Free(f, Device!Tries(p)[i]) THEN blind ELSE blind \union {<<f, p>>}
               /\ Device!Goto(p, IF f = 4 THEN "alloc6" ELSE "create")
    <2>1. PICK v \in Device!Vip :
            /\ vip' = [vip EXCEPT ![p] = [vip[p] EXCEPT ![f] = v]]
            /\ blind' = IF Device!Free(f, v) THEN blind ELSE blind \union {<<f, p>>}
      BY <1>5, TriesDerived
    <2>2. /\ proc' \in [Proc -> Stage] /\ \A q \in Proc \ {p} : proc'[q] = proc[q]
          /\ proc'[p] = IF f = 4 THEN "alloc6" ELSE "create"
      BY <1>5 DEF AddrInv, Device!Goto, Stage
    <2>3. /\ vip' \in [Proc -> [Device!Family -> Device!Vip \cup {"-"}]]
          /\ \A q \in Proc \ {p} : vip'[q] = vip[q]
          /\ vip'[p][f] = v /\ \A g \in Device!Family \ {f} : vip'[p][g] = vip[p][g]
      BY <2>1 DEF AddrInv
    <2>4. calm' => \A q \in Proc : Device!SettingUp(q) => p = q
      BY <1>1, <1>2 DEF AddrInv
    <2>5. calm' => \A q, r \in Proc : Device!SettingUp(q)' /\ Device!SettingUp(r)' => q = r
      BY <2>2, <2>4 DEF Device!SettingUp
    <2>6. \A g \in Device!Family \ {f} : proc'[p] \in Chosen(g) \cup OnDevice(g) => proc[p] \in Chosen(g)
      BY <1>1, <2>2 DEF Chosen, OnDevice, Device!Family
    <2>7. \A q \in Proc, g \in Device!Family :
            proc'[q] \in Chosen(g) \cup OnDevice(g) => vip'[q][g] \in Device!Vip
      BY <2>2, <2>3, <2>6 DEF AddrInv
    <2>8. \A a \in addr' : a[2] = vip'[a[3]][a[1]] /\ proc'[a[3]] \in OnDevice(a[1])
      BY <1>1, <1>3, <2>2, <2>3 DEF AddrInv
    <2>9. ASSUME calm', NEW q \in Proc, NEW g \in Device!Family, proc'[q] \in Chosen(g),
                 <<g, q>> \notin blind'
          PROVE  Device!Free(g, vip[q][g])'
      <3>1. <<g, q>> \notin blind /\ blind \subseteq blind'
        BY <2>1, <2>9
      <3>2. q = p
        BY <2>2, <2>4, <2>9 DEF Chosen, Device!SettingUp
      <3>3. CASE g = f
        BY <1>1, <2>1, <2>3, <2>9, <3>2, <3>3 DEF Device!Free
      <3>4. CASE g # f
        <4>1. proc[p] \in Chosen(g)
          BY <2>6, <2>9, <3>2, <3>4
        <4>2. Device!Free(g, vip[p][g])
          BY <1>1, <2>9, <3>1, <3>2, <4>1 DEF AddrInv
        <4> QED BY <1>1, <2>3, <3>2, <3>4, <4>2 DEF Device!Free
      <3> QED BY <3>3, <3>4
    <2>10. Device!VipsDistinct' /\ blind' \subseteq (Device!Family \X Proc)
      BY <1>1, <2>1 DEF AddrInv, Device!VipsDistinct
    <2> QED BY <1>1, <2>2, <2>3, <2>5, <2>7, <2>8, <2>9, <2>10 DEF AddrInv
  <1> QED BY <1>4, <1>5 DEF Device!AllocateVip, Device!Passing

(* No step but a daemon's own set-up and end concerns the addresses. *)
LEMMA AddressesKept ==
  ASSUME AddrInv, NEW p \in Proc,
         \/ Device!StartTun(p) \/ Device!LinkUp(p) \/ Device!Ends(p) \/ Device!CreateLinux(p)
         \/ Device!CreateMacos(p) \/ Device!CreateWindows(p)
         \/ \E f \in Device!Family : Device!AddAddress(p, f)
  PROVE  AddrInv'
  <1> USE DEF Device!Family
  <1>1. CASE Device!StartTun(p)
    <2>1. /\ proc[p] = "off" /\ Device!Goto(p, "alloc4") /\ UNCHANGED <<vip, addr, blind>>
          /\ calm' = (calm /\ \A q \in Proc : ~Device!SettingUp(q))
      BY <1>1 DEF Device!StartTun, Device!At
    <2>2. /\ proc' \in [Proc -> Stage] /\ proc'[p] = "alloc4" /\ calm' \in BOOLEAN
          /\ \A q \in Proc \ {p} : proc'[q] = proc[q]
      BY <2>1 DEF AddrInv, Device!Goto, Stage
    <2>3. calm' => \A q \in Proc : Device!SettingUp(q)' => q = p
      BY <2>1, <2>2 DEF Device!SettingUp
    <2>4. \A f \in Device!Family : "alloc4" \notin Chosen(f) \cup OnDevice(f)
      BY DEF Chosen, OnDevice
    <2>5. \A q \in Proc, f \in Device!Family :
            proc'[q] \in Chosen(f) \cup OnDevice(f) => vip'[q][f] \in Device!Vip
      BY <2>1, <2>2, <2>4 DEF AddrInv
    <2>6. \A a \in addr' : a[2] = vip'[a[3]][a[1]] /\ proc'[a[3]] \in OnDevice(a[1])
      <3>1. \A a \in addr : proc[a[3]] \in OnDevice(a[1]) /\ a[3] \in Proc /\ a[1] \in Device!Family
        BY DEF AddrInv
      <3>2. \A a \in addr : a[3] # p
        BY <2>1, <3>1 DEF OnDevice
      <3> QED BY <2>1, <2>2, <3>1, <3>2 DEF AddrInv
    <2>7. calm' => \A q \in Proc, f \in Device!Family : proc'[q] \notin Chosen(f)
      BY <2>2, <2>3, <2>4 DEF Chosen, Device!SettingUp
    <2>8. Device!VipsDistinct'
      BY <2>1 DEF AddrInv, Device!VipsDistinct
    <2> QED BY <2>1, <2>2, <2>3, <2>5, <2>6, <2>7, <2>8 DEF AddrInv
  <1>2. CASE Device!Ends(p)
    <2>1. /\ Device!Goto(p, "ended") /\ UNCHANGED calm
          /\ vip' = [vip EXCEPT ![p] = [f \in Device!Family |-> "-"]]
          /\ addr' = {a \in addr : a[3] # p} /\ blind' = {b \in blind : b[2] # p}
      BY <1>2 DEF Device!Ends
    <2>2. /\ proc' \in [Proc -> Stage] /\ proc'[p] = "ended"
          /\ \A q \in Proc \ {p} : proc'[q] = proc[q]
      BY <2>1 DEF AddrInv, Device!Goto, Stage
    <2>3. calm' => \A q, r \in Proc : Device!SettingUp(q)' /\ Device!SettingUp(r)' => q = r
      BY <2>1, <2>2 DEF AddrInv, Device!SettingUp
    <2>4. \A f \in Device!Family : "ended" \notin Chosen(f) \cup OnDevice(f)
      BY DEF Chosen, OnDevice
    <2>5. \A q \in Proc, f \in Device!Family :
            proc'[q] \in Chosen(f) \cup OnDevice(f) => vip'[q][f] \in Device!Vip
      BY <2>1, <2>2, <2>4 DEF AddrInv
    <2>6. \A a \in addr' : a[2] = vip'[a[3]][a[1]] /\ proc'[a[3]] \in OnDevice(a[1])
      BY <2>1, <2>2 DEF AddrInv
    <2>7. calm' => \A q \in Proc, f \in Device!Family :
                     proc'[q] \in Chosen(f) /\ <<f, q>> \notin blind' => Device!Free(f, vip[q][f])'
      <3> SUFFICES ASSUME calm', NEW q \in Proc, NEW f \in Device!Family, proc'[q] \in Chosen(f),
                          <<f, q>> \notin blind'
                   PROVE  Device!Free(f, vip[q][f])'
        OBVIOUS
      <3>1. q # p /\ <<f, q>> \notin blind
        BY <2>1, <2>2, <2>4
      <3>2. Device!Free(f, vip[q][f]) /\ vip'[q] = vip[q]
        BY <2>1, <2>2, <3>1 DEF AddrInv
      <3> QED BY <2>1, <3>2 DEF Device!Free
    <2>8. Device!VipsDistinct'
      <3> SUFFICES ASSUME calm', NEW a \in addr', NEW b \in addr', a[1] = b[1], a[2] = b[2], a[3] # b[3],
                          <<a[1], a[3]>> \notin blind', <<b[1], b[3]>> \notin blind'
                   PROVE  FALSE
        BY DEF Device!VipsDistinct
      <3>1. <<a[1], a[3]>> \notin blind /\ <<b[1], b[3]>> \notin blind
        BY <2>1
      <3> QED BY <2>1, <3>1 DEF AddrInv, Device!VipsDistinct
    <2>9. vip' \in [Proc -> [Device!Family -> Device!Vip \cup {"-"}]]
          /\ blind' \subseteq (Device!Family \X Proc)
      BY <2>1 DEF AddrInv
    <2> QED BY <2>1, <2>2, <2>3, <2>5, <2>6, <2>7, <2>8, <2>9 DEF AddrInv
  <1>3. CASE Device!LinkUp(p)
    <2>1. proc[p] = "link" /\ Device!Goto(p, "ready") /\ UNCHANGED <<vip, calm, addr, blind>>
      BY <1>3 DEF Device!LinkUp, Device!At
    <2>2. addr' = addr \cup {<<f, vip[p][f], p>> : f \in {}} /\ {} \in SUBSET Device!Family
      BY <2>1
    <2> QED BY <2>1, <2>2, SetUpGoesOn DEF Device!SettingUp, Stage, Chosen, OnDevice
  <1>4. CASE Device!CreateLinux(p)
    <2>1. proc[p] = "create" /\ Device!Goto(p, "addr4") /\ UNCHANGED <<vip, calm, addr, blind>>
      BY <1>4 DEF Device!CreateLinux, Device!At
    <2>2. addr' = addr \cup {<<f, vip[p][f], p>> : f \in {}} /\ {} \in SUBSET Device!Family
      BY <2>1
    <2> QED BY <2>1, <2>2, SetUpGoesOn DEF Device!SettingUp, Stage, Chosen, OnDevice
  <1>5. CASE Device!CreateMacos(p)
    <2>1. /\ proc[p] = "create" /\ Device!Goto(p, "addr6") /\ UNCHANGED <<vip, calm, blind>>
          /\ addr' = addr \union {<<4, vip[p][4], p>>}
      BY <1>5 DEF Device!CreateMacos, Device!At
    <2>2. addr' = addr \cup {<<f, vip[p][f], p>> : f \in {4}} /\ {4} \in SUBSET Device!Family
      BY <2>1
    <2> QED BY <2>1, <2>2, SetUpGoesOn DEF Device!SettingUp, Stage, Chosen, OnDevice
  <1>6. CASE Device!CreateWindows(p)
    <2>1. /\ proc[p] = "create" /\ Device!Goto(p, "ready") /\ UNCHANGED <<vip, calm, blind>>
          /\ \E v6 \in SUBSET {<<6, vip[p][6], p>>} : addr' = addr \union {<<4, vip[p][4], p>>} \union v6
      BY <1>6 DEF Device!CreateWindows, Device!At
    <2>2. \E F \in SUBSET Device!Family : addr' = addr \cup {<<f, vip[p][f], p>> : f \in F}
      <3>1. CASE addr' = addr \cup {<<4, vip[p][4], p>>}
        <4>1. addr' = addr \cup {<<f, vip[p][f], p>> : f \in {4}} /\ {4} \in SUBSET Device!Family
          BY <3>1
        <4> QED BY <4>1
      <3>2. CASE addr' = addr \cup {<<4, vip[p][4], p>>} \cup {<<6, vip[p][6], p>>}
        <4>1. addr' = addr \cup {<<f, vip[p][f], p>> : f \in {4, 6}} /\ {4, 6} \in SUBSET Device!Family
          BY <3>2
        <4> QED BY <4>1
      <3> QED BY <2>1, <3>1, <3>2
    <2> QED BY <2>1, <2>2, SetUpGoesOn DEF Device!SettingUp, Stage, Chosen, OnDevice
  <1>7. ASSUME NEW g \in Device!Family, Device!AddAddress(p, g)
        PROVE  AddrInv'
    <2>1. /\ proc[p] = (IF g = 4 THEN "addr4" ELSE "addr6") /\ UNCHANGED <<vip, calm, blind>>
          /\ addr' = addr \union {<<g, vip[p][g], p>>}
          /\ \/ g = 4 /\ Device!Goto(p, "addr6")
             \/ g = 6 /\ Device!Goto(p, "link")
             \/ g = 6 /\ Device!Goto(p, "ready")
      BY <1>7 DEF Device!AddAddress, Device!At
    <2>2. addr' = addr \cup {<<f, vip[p][f], p>> : f \in {g}} /\ {g} \in SUBSET Device!Family
      BY <2>1
    <2>3. CASE g = 4 /\ Device!Goto(p, "addr6")
      BY <2>1, <2>2, <2>3, SetUpGoesOn DEF Device!SettingUp, Stage, Chosen, OnDevice
    <2>4. CASE g = 6 /\ Device!Goto(p, "link")
      BY <2>1, <2>2, <2>4, SetUpGoesOn DEF Device!SettingUp, Stage, Chosen, OnDevice
    <2>5. CASE g = 6 /\ Device!Goto(p, "ready")
      BY <2>1, <2>2, <2>5, SetUpGoesOn DEF Device!SettingUp, Stage, Chosen, OnDevice
    <2> QED BY <2>1, <2>3, <2>4, <2>5
  <1> QED BY <1>1, <1>2, <1>3, <1>4, <1>5, <1>6, <1>7

(* Claims, releases and the end of a daemon keep what the last one claimed.  *)
LEMMA RoutesKept ==
  ASSUME RouteInv, NEW p \in Proc,
         \/ Device!Ends(p)
         \/ \E x \in Prefix : \/ Device!AddRouteFails(p, x)
                              \/ \E f \in Device!Family : Device!AddRoute(p, f, x) \/ Device!DelRoute(p, f, x)
  PROVE  RouteInv'
  <1>1. CASE Device!Ends(p)
    <2>1. /\ UNCHANGED <<os, last>> /\ route' = {r \in route : r[3] # p}
          /\ claim' = [claim EXCEPT ![p] = [x \in Prefix |-> "none"]]
      BY <1>1 DEF Device!Ends
    <2>2. /\ claim' \in [Proc -> [Prefix -> Session]] /\ \A x \in Prefix : claim'[p][x] = "none"
          /\ \A q \in Proc \ {p} : claim'[q] = claim[q]
      BY <2>1 DEF RouteInv, Session
    <2>3. ASSUME os' # "macos", NEW g \in Device!Family, NEW y \in Prefix, NEW q \in Proc, Holds(g, y, q)'
          PROVE  <<g, y, q>> \in route'
      <3>1. q # p
        BY <2>2, <2>3 DEF Holds
      <3>2. Holds(g, y, q)
        BY <2>1, <2>2, <2>3, <3>1 DEF Holds
      <3>3. <<g, y, q>> \in route
        BY <2>1, <2>3, <3>2 DEF RouteInv
      <3> QED BY <2>1, <3>1, <3>3
    <2> QED BY <2>1, <2>2, <2>3 DEF RouteInv
  <1>2. ASSUME NEW x \in Prefix, NEW s \in Session, Device!Claims(p, x, s)
        PROVE  /\ claim' \in [Proc -> [Prefix -> Session]] /\ claim'[p][x] = s
               /\ \A q \in Proc, y \in Prefix : <<q, y>> # <<p, x>> => claim'[q][y] = claim[q][y]
    BY <1>2 DEF RouteInv, Device!Claims
  <1>3. ASSUME NEW x \in Prefix, Device!AddRouteFails(p, x)
        PROVE  RouteInv'
    <2>1. /\ UNCHANGED <<os, last, route>>
          /\ \E s \in {"up6less", "none"} : Device!Claims(p, x, s)
      BY <1>3 DEF Device!AddRouteFails
    <2>2. /\ claim' \in [Proc -> [Prefix -> Session]] /\ claim'[p][x] \in {"up6less", "none"}
          /\ \A q \in Proc, y \in Prefix : <<q, y>> # <<p, x>> => claim'[q][y] = claim[q][y]
      BY <1>2, <2>1 DEF Session
    <2>3. ASSUME NEW g \in Device!Family, NEW y \in Prefix, NEW q \in Proc, Holds(g, y, q)'
          PROVE  Holds(g, y, q)
      BY <2>1, <2>2, <2>3 DEF Holds
    <2> QED BY <2>1, <2>2, <2>3 DEF RouteInv
  <1>4. ASSUME NEW x \in Prefix, NEW f \in Device!Family, Device!AddRoute(p, f, x)
        PROVE  RouteInv'
    <2>1. /\ claim[p][x] = (IF f = 4 THEN "none" ELSE "add6") /\ UNCHANGED os
          /\ route' = Device!Added(f, x, p) /\ last' = [last EXCEPT ![f][x] = p]
          /\ Device!Claims(p, x, IF f = 4 /\ ~(os = "windows" /\ x = "mesh") THEN "add6" ELSE "up")
      BY <1>4 DEF Device!AddRoute
    <2>2. /\ claim' \in [Proc -> [Prefix -> Session]]
          /\ claim'[p][x] = (IF f = 4 /\ ~(os = "windows" /\ x = "mesh") THEN "add6" ELSE "up")
          /\ \A q \in Proc, y \in Prefix : <<q, y>> # <<p, x>> => claim'[q][y] = claim[q][y]
      BY <1>2, <2>1 DEF Session
    <2>3. /\ last' \in [Device!Family -> [Prefix -> Proc \cup {"-"}]] /\ last'[f][x] = p
          /\ \A g \in Device!Family, y \in Prefix : <<g, y>> # <<f, x>> => last'[g][y] = last[g][y]
      BY <2>1 DEF RouteInv
    <2>4. route' \subseteq (Device!Family \X Prefix \X Proc) /\ <<f, x, p>> \in route'
      BY <2>1 DEF RouteInv, Device!Added, Device!LinuxAdds, Device!MacosAdds, Device!WindowsAdds
    <2>5. \A g \in Device!Family, y \in Prefix, q \in Proc :
            <<g, y>> # <<f, x>> /\ <<g, y, q>> \in route => <<g, y, q>> \in route'
      BY <2>1 DEF Device!Added, Device!LinuxAdds, Device!MacosAdds, Device!WindowsAdds
    <2>6. ASSUME os' # "macos", NEW g \in Device!Family, NEW y \in Prefix, NEW q \in Proc, Holds(g, y, q)'
          PROVE  <<g, y, q>> \in route'
      <3>1. CASE <<g, y>> = <<f, x>>
        BY <2>3, <2>4, <2>6, <3>1 DEF Holds
      <3>2. CASE <<g, y>> # <<f, x>>
        <4>1. Holds(g, y, q)
          BY <2>1, <2>2, <2>3, <2>6, <3>2 DEF Holds, Device!Family
        <4> QED BY <2>1, <2>5, <2>6, <3>2, <4>1 DEF RouteInv
      <3> QED BY <3>1, <3>2
    <2> QED BY <2>2, <2>3, <2>4, <2>6 DEF RouteInv
  <1>5. ASSUME NEW x \in Prefix, NEW f \in Device!Family, Device!DelRoute(p, f, x)
        PROVE  RouteInv'
    <2>1. /\ UNCHANGED <<os, last>> /\ route' = route \ Device!Deleted(f, x, p)
          /\ \E s \in {"del6", "none"} : Device!Claims(p, x, s)
      BY <1>5 DEF Device!DelRoute
    <2>2. /\ claim' \in [Proc -> [Prefix -> Session]] /\ claim'[p][x] \in {"del6", "none"}
          /\ \A q \in Proc, y \in Prefix : <<q, y>> # <<p, x>> => claim'[q][y] = claim[q][y]
      BY <1>2, <2>1 DEF Session
    <2>3. os # "macos" => Device!Deleted(f, x, p) = {<<f, x, p>>}
      BY DEF Device!Deleted, Device!LinuxDeletes, Device!WindowsDeletes
    <2>4. ASSUME os' # "macos", NEW g \in Device!Family, NEW y \in Prefix, NEW q \in Proc, Holds(g, y, q)'
          PROVE  <<g, y, q>> \in route'
      <3>1. <<q, y>> # <<p, x>>
        BY <2>2, <2>4 DEF Holds
      <3>2. Holds(g, y, q)
        BY <2>1, <2>2, <2>4, <3>1 DEF Holds
      <3>3. <<g, y, q>> \in route
        BY <2>1, <2>4, <3>2 DEF RouteInv
      <3> QED BY <2>1, <2>3, <2>4, <3>1, <3>3
    <2> QED BY <2>1, <2>2, <2>4 DEF RouteInv
  <1> QED BY <1>1, <1>3, <1>4, <1>5

(* allocate_vip, create_device and the routes of each platform: whichever    *)
(* commands fail and daemons die, of daemons that set up one after the other *)
(* only one whose listing failed (and so passed) can share the address of    *)
(* another, and where the teardown names its device a daemon keeps the route *)
(* it claimed last.                                                          *)
THEOREM DaemonsKeepApart == Spec => []DeviceSound
  <1> DEFINE Inv == AddrInv /\ RouteInv
  <1>1. Init => Inv
    BY DeviceInit DEF Init
  <1>2. Inv /\ [Next]_vars => Inv'
    <2> SUFFICES ASSUME Inv, [Next]_vars PROVE Inv'
      OBVIOUS
    <2>1. CASE DeviceStep
      <3>1. PICK p \in Proc :
              \/ Device!StartTun(p) \/ Device!LinkUp(p) \/ Device!Ends(p)
              \/ Device!CreateLinux(p) \/ Device!CreateMacos(p) \/ Device!CreateWindows(p)
              \/ \E f \in Device!Family : Device!AllocateVip(p, f) \/ Device!AddAddress(p, f)
              \/ \E x \in Prefix :
                   \/ Device!AddRouteFails(p, x)
                   \/ \E f \in Device!Family : Device!AddRoute(p, f, x) \/ Device!DelRoute(p, f, x)
        BY <2>1 DEF DeviceStep, Device!Next
      <3>2. AddrInv'
        <4>1. CASE \/ Device!StartTun(p) \/ Device!LinkUp(p) \/ Device!Ends(p)
                   \/ Device!CreateLinux(p) \/ Device!CreateMacos(p) \/ Device!CreateWindows(p)
                   \/ \E f \in Device!Family : Device!AddAddress(p, f)
          BY <4>1, AddressesKept
        <4>2. CASE \E f \in Device!Family : Device!AllocateVip(p, f)
          BY <4>2, AllocateKeeps
        <4>3. CASE UNCHANGED <<proc, vip, addr, calm, blind>>
          BY <4>3 DEF AddrInv, Device!SettingUp, Device!Free, Device!VipsDistinct
        <4> QED BY <3>1, <4>1, <4>2, <4>3 DEF Device!AddRouteFails, Device!AddRoute, Device!DelRoute
      <3>3. RouteInv'
        <4>1. CASE \/ Device!Ends(p)
                   \/ \E x \in Prefix :
                        \/ Device!AddRouteFails(p, x)
                        \/ \E f \in Device!Family : Device!AddRoute(p, f, x) \/ Device!DelRoute(p, f, x)
          BY <4>1, RoutesKept
        <4>2. CASE UNCHANGED <<os, route, claim, last>>
          BY <4>2 DEF RouteInv, Holds
        <4> QED BY <3>1, <4>1, <4>2 DEF Device!StartTun, Device!LinkUp, Device!CreateLinux,
              Device!CreateMacos, Device!CreateWindows, Device!AllocateVip, Device!AddAddress
      <3> QED BY <3>2, <3>3
    <2>2. CASE UNCHANGED devVars
      <3>1. AddrInv'
        BY <2>2 DEF devVars, AddrInv, Device!SettingUp, Device!Free, Device!VipsDistinct
      <3>2. RouteInv'
        BY <2>2 DEF devVars, RouteInv, Holds
      <3> QED BY <3>1, <3>2
    <2> QED BY <2>1, <2>2 DEF Next, vars, IdentityStep, ContactsStep, PathLogStep, MonitorStep, CtlStep
  <1>3. Inv => DeviceSound
    <2> SUFFICES ASSUME Inv PROVE Device!DeviceSound
      BY DEF DeviceSound
    <2>1. Device!TypeOK
      BY DEF AddrInv, RouteInv, Session, Device!TypeOK
    <2>2. os # "macos" => Device!LastClaimKept
      BY DEF RouteInv, Holds, Device!LastClaimKept
    <2> QED BY <2>1, <2>2 DEF AddrInv, Device!DeviceSound
  <1> QED BY <1>1, <1>2, <1>3, PTL DEF Spec

-----------------------------------------------------------------------------
(* The contact book                                                         *)

(* The inductive strengthening of SavedNameDials: while runs come one after  *)
(* the other, the file holds what the finished runs were told, or the one    *)
(* run at work is about to write that with its own change made.              *)
BookInv ==
    /\ edit \in [Edit -> {"off", "open", "write", "done", "refused", "dead"}]
    /\ mine = [e \in Edit |-> mine[e]]
    /\ alone => \A d, e \in Edit : Contacts!Busy(d) /\ Contacts!Busy(e) => d = e
    /\ alone /\ (\A e \in Edit : edit[e] # "write") => book = told
    /\ alone => \A e \in Edit : Contacts!Busy(e) => mine[e] = Contacts!Changed(told, EditOp[e])

LEMMA BookKept ==
  ASSUME BookInv, Contacts!Next
  PROVE  BookInv'
  <1> USE DEF BookInv
  <1>0. PICK e \in Edit : \/ Contacts!LoadBook(e) \/ Contacts!SaveOpen(e)
                          \/ Contacts!SaveWrite(e) \/ Contacts!EditDies(e)
    BY DEF Contacts!Next
  <1>1. CASE Contacts!LoadBook(e)
    <2>1. /\ edit[e] = "off" /\ UNCHANGED <<book, told>>
          /\ alone' = (alone /\ \A d \in Edit : ~Contacts!Busy(d))
          /\ \/ edit' = [edit EXCEPT ![e] = "refused"] /\ mine' = mine
             \/ /\ edit' = [edit EXCEPT ![e] = "open"]
                /\ mine' = [mine EXCEPT ![e] = Contacts!Changed(book, EditOp[e])]
      BY <1>1 DEF Contacts!LoadBook
    <2>2. alone' => book = told
      BY <2>1 DEF Contacts!Busy
    <2>3. CASE edit' = [edit EXCEPT ![e] = "refused"] /\ mine' = mine
      BY <2>1, <2>2, <2>3 DEF Contacts!Busy
    <2>4. CASE /\ edit' = [edit EXCEPT ![e] = "open"]
               /\ mine' = [mine EXCEPT ![e] = Contacts!Changed(book, EditOp[e])]
      BY <2>1, <2>2, <2>4 DEF Contacts!Busy
    <2> QED BY <2>1, <2>3, <2>4
  <1>2. CASE Contacts!SaveOpen(e)
    BY <1>2 DEF Contacts!SaveOpen, Contacts!Busy
  <1>3. CASE Contacts!SaveWrite(e)
    <2>1. /\ edit[e] = "write" /\ edit' = [edit EXCEPT ![e] = "done"]
          /\ book' = mine[e] /\ told' = Contacts!Changed(told, EditOp[e])
          /\ UNCHANGED <<mine, alone>>
      BY <1>3 DEF Contacts!SaveWrite
    <2>2. alone => book' = told' /\ \A d \in Edit : ~Contacts!Busy(d)'
      BY <2>1 DEF Contacts!Busy
    <2> QED BY <2>1, <2>2
  <1>4. CASE Contacts!EditDies(e)
    BY <1>4 DEF Contacts!EditDies
  <1> QED BY <1>0, <1>1, <1>2, <1>3, <1>4

(* load, save and resolve: after runs that came one after the other, a saved *)
(* name dials the endpoint it was last saved for.                            *)
THEOREM SavedNamesDial == Spec => []Contacts!SavedNameDials
  <1>1. Init => BookInv
    BY DEF Init, Contacts!Init, BookInv, Contacts!Busy
  <1>2. BookInv /\ [Next]_vars => BookInv'
    <2> SUFFICES ASSUME BookInv, [Next]_vars PROVE BookInv'
      OBVIOUS
    <2>1. CASE ContactsStep
      BY <2>1, BookKept DEF ContactsStep
    <2>2. CASE UNCHANGED ctVars
      BY <2>2 DEF ctVars, BookInv, Contacts!Busy
    <2> QED BY <2>1, <2>2 DEF Next, vars, IdentityStep, PathLogStep, MonitorStep, CtlStep, DeviceStep
  <1>3. BookInv => Contacts!SavedNameDials
    BY DEF BookInv, Contacts!Busy, Contacts!SavedNameDials, Contacts!Resolve
  <1> QED BY <1>1, <1>2, <1>3, PTL DEF Spec

-----------------------------------------------------------------------------
(* The identity file                                                        *)

NoFile == Identity!None
Moving == {"mread", "mopen", "mwrite", "mremove"}

(* The key first saved, or that of a run whose read failed. *)
Genuine(k) == first # "nil" /\ k \in {first} \cup misread

(* A file holds such a key, or none. *)
OneKey(f) == f # NoFile => f.key = "nil" \/ Genuine(f.key)

(* Where a run is, what it has read and which files exist go together: a run *)
(* that moves the file has a copy of the older one in hand, one that loads   *)
(* finds a file once a key was saved, and one that creates a key is the      *)
(* first to do so unless its read failed.                                    *)
RunSound(c) ==
    /\ cmd[c].at \in {"off", "legacy"} \cup Moving => cmd[c].path = "xdg"
    /\ cmd[c].at = "legacy" => xdg = NoFile
    /\ cmd[c].at \in Moving => legacy # NoFile
    /\ cmd[c].at \in Moving \ {"mread"} => cmd[c].data = legacy
    /\ cmd[c].at = "mremove" => xdg = cmd[c].data
    /\ cmd[c].at \in {"load", "eopen", "ewrite"} =>
         IF cmd[c].path = "legacy" THEN legacy # NoFile ELSE first # "nil" => xdg # NoFile
    /\ cmd[c].at \in {"eopen", "ewrite"} => cmd[c].data # NoFile
    /\ cmd[c].at = "ewrite" => rewritten
    /\ OneKey(cmd[c].data)
    /\ cmd[c].at \in {"copen", "cwrite"} =>
         IF cmd[c].path = "legacy" THEN c \in misread /\ legacy # NoFile ELSE c \in misread \/ first = "nil"
    /\ cmd[c].at = "done" => Genuine(cmd[c].key)

(* What the two files hold: nothing else than such keys, the first where it  *)
(* is looked for, and nothing lost before a file is rewritten or misread.    *)
FilesSound ==
    /\ xdg \in Identity!File /\ legacy \in Identity!File
    /\ first \in Identity!Key \cup {"nil"} /\ rewritten \in BOOLEAN /\ faults \in 0..MaxFaults
    /\ misread \subseteq Cmd /\ OneKey(xdg) /\ OneKey(legacy)
    /\ first = "nil" => legacy = NoFile
    /\ first # "nil" /\ legacy = NoFile => xdg # NoFile
    /\ first # "nil" /\ ~rewritten /\ misread = {} =>
         IF legacy # NoFile THEN legacy.key = first ELSE xdg.key = first

(* The inductive strengthening of StableOrRefused and KeyOnDisk. *)
IdInv ==
    /\ FilesSound
    /\ cmd \in [Cmd -> Identity!Run]
    /\ ~Identity!Settled => \A c, d \in Cmd : Identity!Running(c) /\ Identity!Running(d) => c = d
    /\ \A c \in Cmd : RunSound(c)

LEMMA FileShape ==
  /\ NoFile \in Identity!File /\ NoFile.is = "none"
  /\ Identity!Empty \in Identity!File /\ Identity!Empty # NoFile /\ Identity!Empty.key = "nil"
  /\ \A k \in Identity!Key \cup {"nil"} :
       /\ Identity!Plain(k) \in Identity!File /\ Identity!Plain(k) # NoFile /\ Identity!Plain(k).key = k
       /\ Identity!Sealed(k) \in Identity!File /\ Identity!Sealed(k) # NoFile /\ Identity!Sealed(k).key = k
  /\ \A f \in Identity!File : f # NoFile =>
       f.is \in {"text", "sealed"} /\ f.key \in Identity!Key \cup {"nil"}
  /\ MaxFaults \in Nat /\ "nil" \notin Cmd /\ \A c \in Cmd : c \in Identity!Key
  BY HostConstants DEF NoFile, Identity!None, Identity!Empty, Identity!Plain, Identity!Sealed,
     Identity!File, Identity!Key

LEMMA IdentityInit ==
  ASSUME NEW b \in Identity!Before, Identity!InitFrom(b)
  PROVE  IdInv
  <1>1. "old" \in Identity!Key \cup {"nil"}
    BY DEF Identity!Key
  <1>2. /\ xdg \in {NoFile, Identity!Plain("old"), Identity!Sealed("old")}
        /\ legacy \in {NoFile, Identity!Plain("old")}
        /\ xdg = NoFile \/ legacy = NoFile
        /\ first = IF xdg = NoFile /\ legacy = NoFile THEN "nil" ELSE "old"
        /\ rewritten = FALSE /\ misread = {} /\ faults = MaxFaults
    BY DEF Identity!InitFrom, Identity!Before, Identity!Nothing, NoFile
  <1>3. cmd = [c \in Cmd |-> Identity!Fresh]
    BY DEF Identity!InitFrom
  <1>4. FilesSound
    <2>1. /\ Identity!Plain("old") \in Identity!File /\ Identity!Plain("old").key = "old"
          /\ Identity!Sealed("old") \in Identity!File /\ Identity!Sealed("old").key = "old"
          /\ Identity!Plain("old") # NoFile /\ Identity!Sealed("old") # NoFile /\ "old" # "nil"
      BY <1>1, FileShape
    <2>2. faults \in 0..MaxFaults /\ NoFile \in Identity!File
      BY <1>2, FileShape
    <2> QED BY <1>1, <1>2, <2>1, <2>2 DEF FilesSound, OneKey, Genuine
  <1>5. Identity!Fresh \in Identity!Run
    BY FileShape DEF Identity!Fresh, Identity!Run, Identity!Place, NoFile
  <1>6. \A c \in Cmd : RunSound(c) /\ ~Identity!Running(c)
    BY <1>3 DEF RunSound, Identity!Fresh, OneKey, Genuine, NoFile, Moving, Identity!Running
  <1> QED BY <1>3, <1>4, <1>5, <1>6 DEF IdInv

(* A step of a run at work that leaves the others alone. *)
LEMMA OneRunSteps ==
  ASSUME IdInv, NEW c \in Cmd, Identity!Running(c), FilesSound',
         cmd' \in [Cmd -> Identity!Run], \A d \in Cmd \ {c} : cmd'[d] = cmd[d],
         first' = first \/ first = "nil", rewritten => rewritten', misread \subseteq misread',
         Identity!Settled => first' = first /\ legacy' = NoFile /\ xdg' # NoFile,
         RunSound(c)'
  PROVE  IdInv'
  <1>1. ~Identity!Settled => \A d \in Cmd : Identity!Running(d) => d = c
    BY DEF IdInv
  <1>2. \A d \in Cmd : Identity!Running(d)' => Identity!Running(d)
    BY DEF Identity!Running
  <1>3. ~Identity!Settled' => \A d, e \in Cmd : Identity!Running(d)' /\ Identity!Running(e)' => d = e
    BY <1>1, <1>2 DEF Identity!Settled, NoFile
  <1>4. ASSUME NEW d \in Cmd, d # c
        PROVE  RunSound(d)'
    <2>0. \A k : Genuine(k) => Genuine(k)'
      BY DEF Genuine
    <2>1. RunSound(d) /\ cmd'[d] = cmd[d] /\ OneKey(cmd[d].data)'
      BY <1>4, <2>0 DEF IdInv, RunSound, OneKey
    <2>2. CASE Identity!Running(d)
      <3>1. Identity!Settled
        BY <1>1, <1>4, <2>2
      <3>2. legacy = NoFile /\ first # "nil" /\ xdg # NoFile
        BY <3>1 DEF Identity!Settled, NoFile, IdInv, FilesSound
      <3> QED BY <2>0, <2>1, <3>1, <3>2 DEF RunSound, Moving
    <2>3. CASE ~Identity!Running(d)
      BY <2>0, <2>1, <2>3 DEF Identity!Running, RunSound, Moving
    <2> QED BY <2>2, <2>3
  <1> QED BY <1>3, <1>4 DEF IdInv

(* A step that leaves the files as they are. *)
LEMMA FilesUntouched ==
  ASSUME IdInv, NEW c \in Cmd, UNCHANGED <<xdg, legacy, first, rewritten>>,
         misread' \in {misread, misread \cup {c}},
         faults' = faults \/ (faults > 0 /\ faults' = faults - 1)
  PROVE  FilesSound' /\ (Identity!Settled => legacy' = NoFile /\ xdg' # NoFile)
  <1>1. faults' \in 0..MaxFaults
    BY FileShape DEF IdInv, FilesSound
  <1> QED BY <1>1 DEF IdInv, FilesSound, OneKey, Genuine, Identity!Settled, NoFile

(* What the steps do to the record of a run. *)
LEMMA RunMoves ==
  ASSUME IdInv, NEW c \in Cmd
  PROVE  /\ cmd[c] \in Identity!Run /\ RunSound(c)
         /\ \A s \in Identity!Place : Identity!Goto(c, s) =>
              /\ cmd' \in [Cmd -> Identity!Run] /\ \A d \in Cmd \ {c} : cmd'[d] = cmd[d]
              /\ cmd'[c].at = s /\ cmd'[c].path = cmd[c].path
              /\ cmd'[c].data = cmd[c].data /\ cmd'[c].key = cmd[c].key
         /\ \A s \in Identity!Place, f \in Identity!File : Identity!Reads(c, s, f) =>
              /\ cmd' \in [Cmd -> Identity!Run] /\ \A d \in Cmd \ {c} : cmd'[d] = cmd[d]
              /\ cmd'[c].at = s /\ cmd'[c].path = cmd[c].path
              /\ cmd'[c].data = f /\ cmd'[c].key = cmd[c].key
         /\ \A k \in Identity!Key \cup {"nil"} : Identity!Takes(c, k) =>
              /\ cmd' \in [Cmd -> Identity!Run] /\ \A d \in Cmd \ {c} : cmd'[d] = cmd[d]
              /\ cmd'[c].at = (IF k = "nil" THEN "refused" ELSE "done")
              /\ cmd'[c].path = cmd[c].path
              /\ cmd'[c].data = cmd[c].data /\ cmd'[c].key = k
         /\ Identity!FallBack(c) =>
              /\ cmd' \in [Cmd -> Identity!Run] /\ \A d \in Cmd \ {c} : cmd'[d] = cmd[d]
              /\ cmd'[c].at = "load" /\ cmd'[c].path = "legacy"
              /\ cmd'[c].data = cmd[c].data /\ cmd'[c].key = cmd[c].key
  <1>1. cmd[c] \in Identity!Run /\ RunSound(c) /\ cmd \in [Cmd -> Identity!Run]
    BY DEF IdInv
  <1>2. ASSUME NEW s \in Identity!Place, Identity!Goto(c, s)
        PROVE  /\ cmd' \in [Cmd -> Identity!Run] /\ \A d \in Cmd \ {c} : cmd'[d] = cmd[d]
               /\ cmd'[c].at = s /\ cmd'[c].path = cmd[c].path
               /\ cmd'[c].data = cmd[c].data /\ cmd'[c].key = cmd[c].key
    BY <1>1, <1>2 DEF Identity!Goto, Identity!Run
  <1>3. ASSUME NEW s \in Identity!Place, NEW f \in Identity!File, Identity!Reads(c, s, f)
        PROVE  /\ cmd' \in [Cmd -> Identity!Run] /\ \A d \in Cmd \ {c} : cmd'[d] = cmd[d]
               /\ cmd'[c].at = s /\ cmd'[c].path = cmd[c].path
               /\ cmd'[c].data = f /\ cmd'[c].key = cmd[c].key
    BY <1>1, <1>3 DEF Identity!Reads, Identity!Run
  <1>4. ASSUME NEW k \in Identity!Key \cup {"nil"}, Identity!Takes(c, k)
        PROVE  /\ cmd' \in [Cmd -> Identity!Run] /\ \A d \in Cmd \ {c} : cmd'[d] = cmd[d]
               /\ cmd'[c].at = (IF k = "nil" THEN "refused" ELSE "done")
               /\ cmd'[c].path = cmd[c].path
               /\ cmd'[c].data = cmd[c].data /\ cmd'[c].key = k
    BY <1>1, <1>4 DEF Identity!Takes, Identity!Run, Identity!Place
  <1>5. ASSUME Identity!FallBack(c)
        PROVE  /\ cmd' \in [Cmd -> Identity!Run] /\ \A d \in Cmd \ {c} : cmd'[d] = cmd[d]
               /\ cmd'[c].at = "load" /\ cmd'[c].path = "legacy"
               /\ cmd'[c].data = cmd[c].data /\ cmd'[c].key = cmd[c].key
    BY <1>1, <1>5 DEF Identity!FallBack, Identity!Run, Identity!Place
  <1> QED BY <1>1, <1>2, <1>3, <1>4, <1>5

LEMMA IdentityKeeps ==
  ASSUME IdInv, Identity!NextCalm
  PROVE  IdInv'
  <1> USE FileShape
  <1>0. PICK c \in Cmd : \/ Identity!Resolve(c) /\ (Identity!Settled \/ \A d \in Cmd : ~Identity!Running(d))
                         \/ Identity!Step(c)
    BY DEF Identity!NextCalm
  <1>c. /\ cmd[c] \in Identity!Run /\ RunSound(c) /\ FilesSound
        /\ cmd[c].at \in Identity!Place /\ cmd[c].path \in {"xdg", "legacy"}
        /\ cmd[c].data \in Identity!File
    BY RunMoves DEF IdInv, Identity!Run
  <1>1. CASE Identity!Resolve(c) /\ (Identity!Settled \/ \A d \in Cmd : ~Identity!Running(d))
    <2>1. /\ cmd[c].at = "off" /\ UNCHANGED <<xdg, legacy, first, rewritten, misread, faults>>
          /\ Identity!Goto(c, IF xdg # NoFile THEN "load" ELSE "legacy")
      BY <1>1 DEF Identity!Resolve, Identity!At, Identity!Keep, Identity!Quiet, NoFile
    <2>2. (IF xdg # NoFile THEN "load" ELSE "legacy") \in Identity!Place
      BY DEF Identity!Place
    <2>3. /\ cmd' \in [Cmd -> Identity!Run] /\ \A d \in Cmd \ {c} : cmd'[d] = cmd[d]
          /\ cmd'[c].at = (IF xdg # NoFile THEN "load" ELSE "legacy")
          /\ cmd'[c].path = "xdg" /\ cmd'[c].data = cmd[c].data
      BY <1>c, <2>1, <2>2, RunMoves DEF RunSound
    <2>4. FilesSound'
      BY <2>1, FilesUntouched
    <2>5. RunSound(c)'
      BY <1>c, <2>1, <2>3 DEF RunSound, OneKey, Genuine, Moving
    <2>6. \A d \in Cmd \ {c} : RunSound(d)'
      BY <2>1, <2>3 DEF IdInv, RunSound, OneKey, Genuine
    <2>7. ~Identity!Settled' => \A d, e \in Cmd : Identity!Running(d)' /\ Identity!Running(e)' => d = e
      BY <1>1, <2>1, <2>3 DEF Identity!Settled, Identity!Running
    <2> QED BY <2>3, <2>4, <2>5, <2>6, <2>7 DEF IdInv
  <1>2. ASSUME Identity!Running(c), UNCHANGED <<xdg, legacy, first, rewritten>>,
               misread' \in {misread, misread \cup {c}},
               faults' = faults \/ (faults > 0 /\ faults' = faults - 1),
               cmd' \in [Cmd -> Identity!Run], \A d \in Cmd \ {c} : cmd'[d] = cmd[d],
               RunSound(c)'
        PROVE  IdInv'
    BY <1>2, FilesUntouched, OneRunSteps
  <1>3. CASE Identity!ResolveLegacy(c)
    <2>1. /\ cmd[c].at = "legacy" /\ UNCHANGED <<xdg, legacy, first, rewritten, misread, faults>>
          /\ Identity!Goto(c, IF legacy # NoFile THEN "mread" ELSE "load")
      BY <1>3 DEF Identity!ResolveLegacy, Identity!At, Identity!Keep, Identity!Quiet, NoFile
    <2>2. (IF legacy # NoFile THEN "mread" ELSE "load") \in Identity!Place
      BY DEF Identity!Place
    <2>3. /\ cmd' \in [Cmd -> Identity!Run] /\ \A d \in Cmd \ {c} : cmd'[d] = cmd[d]
          /\ cmd'[c].at = (IF legacy # NoFile THEN "mread" ELSE "load")
          /\ cmd'[c].path = "xdg" /\ cmd'[c].data = cmd[c].data
      BY <1>c, <2>1, <2>2, RunMoves DEF RunSound
    <2>4. RunSound(c)'
      BY <1>c, <2>1, <2>3 DEF RunSound, FilesSound, OneKey, Genuine, Moving
    <2> QED BY <1>2, <2>1, <2>3, <2>4 DEF Identity!Running
  <1>4. CASE Identity!MigrateRead(c)
    <2>1. /\ cmd[c].at = "mread" /\ UNCHANGED <<xdg, legacy, first, rewritten, misread, faults>>
          /\ legacy # NoFile /\ Identity!Reads(c, "mopen", legacy)
      BY <1>4, <1>c DEF Identity!MigrateRead, Identity!At, Identity!Keep, Identity!Quiet, NoFile,
         RunSound, Moving
    <2>2. /\ cmd' \in [Cmd -> Identity!Run] /\ \A d \in Cmd \ {c} : cmd'[d] = cmd[d]
          /\ cmd'[c].at = "mopen" /\ cmd'[c].path = "xdg" /\ cmd'[c].data = legacy
      BY <1>c, <2>1, RunMoves DEF RunSound, FilesSound, Identity!Place, Moving
    <2>3. RunSound(c)'
      BY <1>c, <2>1, <2>2 DEF RunSound, FilesSound, OneKey, Genuine, Moving
    <2> QED BY <1>2, <2>1, <2>2, <2>3 DEF Identity!Running
  <1>5. CASE Identity!MigrateOpen(c)
    <2>1. /\ cmd[c].at = "mopen" /\ UNCHANGED <<legacy, first, rewritten, misread, faults>>
          /\ xdg' = Identity!Empty /\ Identity!Goto(c, "mwrite")
      BY <1>5 DEF Identity!MigrateOpen, Identity!At, Identity!Quiet
    <2>2. /\ cmd' \in [Cmd -> Identity!Run] /\ \A d \in Cmd \ {c} : cmd'[d] = cmd[d]
          /\ cmd'[c].at = "mwrite" /\ cmd'[c].path = "xdg" /\ cmd'[c].data = legacy
          /\ legacy # NoFile
      BY <1>c, <2>1, RunMoves DEF RunSound, Identity!Place, Moving
    <2>3. RunSound(c)'
      BY <1>c, <2>1, <2>2 DEF RunSound, FilesSound, OneKey, Genuine, Moving
    <2>4. FilesSound'
      BY <1>c, <2>1, <2>2 DEF FilesSound, OneKey, Genuine
    <2> QED BY <2>1, <2>2, <2>3, <2>4, OneRunSteps DEF Identity!Running, Identity!Settled, NoFile
  <1>6. CASE Identity!MigrateWrite(c)
    <2>1. /\ cmd[c].at = "mwrite" /\ UNCHANGED <<legacy, first, rewritten, misread, faults>>
          /\ xdg' = cmd[c].data /\ Identity!Goto(c, "mremove")
      BY <1>6 DEF Identity!MigrateWrite, Identity!At, Identity!Quiet
    <2>2. /\ cmd' \in [Cmd -> Identity!Run] /\ \A d \in Cmd \ {c} : cmd'[d] = cmd[d]
          /\ cmd'[c].at = "mremove" /\ cmd'[c].path = "xdg" /\ cmd'[c].data = legacy
          /\ legacy # NoFile /\ xdg' = legacy
      BY <1>c, <2>1, RunMoves DEF RunSound, Identity!Place, Moving
    <2>3. RunSound(c)'
      BY <1>c, <2>1, <2>2 DEF RunSound, FilesSound, OneKey, Genuine, Moving
    <2>4. FilesSound'
      BY <1>c, <2>1, <2>2 DEF FilesSound, OneKey, Genuine
    <2> QED BY <2>1, <2>2, <2>3, <2>4, OneRunSteps DEF Identity!Running, Identity!Settled, NoFile
  <1>7. CASE Identity!MigrateFails(c)
    <2>1. /\ cmd[c].at \in Moving /\ UNCHANGED <<xdg, legacy, first, rewritten, misread>>
          /\ faults > 0 /\ faults' = faults - 1 /\ Identity!FallBack(c)
      BY <1>7 DEF Identity!MigrateFails, Identity!At, Identity!Keep, Identity!Quiet, Identity!Fault, Moving
    <2>2. /\ cmd' \in [Cmd -> Identity!Run] /\ \A d \in Cmd \ {c} : cmd'[d] = cmd[d]
          /\ cmd'[c].at = "load" /\ cmd'[c].path = "legacy" /\ cmd'[c].data = cmd[c].data
          /\ legacy # NoFile
      BY <1>c, <2>1, RunMoves DEF RunSound, Moving
    <2>3. RunSound(c)'
      BY <1>c, <2>1, <2>2 DEF RunSound, OneKey, Genuine, Moving
    <2> QED BY <1>2, <2>1, <2>2, <2>3 DEF Identity!Running, Moving
  <1>8. CASE Identity!MigrateRemove(c)
    <2>1. /\ cmd[c].at = "mremove" /\ UNCHANGED <<xdg, first, rewritten, misread>> /\ Identity!Goto(c, "load")
          /\ legacy' = NoFile \/ legacy' = legacy
          /\ faults' = faults \/ (faults > 0 /\ faults' = faults - 1)
      BY <1>8 DEF Identity!MigrateRemove, Identity!At, Identity!Quiet, Identity!Fault, NoFile
    <2>2. /\ cmd' \in [Cmd -> Identity!Run] /\ \A d \in Cmd \ {c} : cmd'[d] = cmd[d]
          /\ cmd'[c].at = "load" /\ cmd'[c].path = "xdg" /\ cmd'[c].data = cmd[c].data
          /\ legacy # NoFile /\ xdg = legacy
      BY <1>c, <2>1, RunMoves DEF RunSound, Identity!Place, Moving
    <2>3. RunSound(c)'
      BY <1>c, <2>1, <2>2 DEF RunSound, OneKey, Genuine, Moving
    <2>4. faults' \in 0..MaxFaults
      BY <1>c, <2>1 DEF FilesSound
    <2>5. FilesSound'
      BY <1>c, <2>1, <2>2, <2>4 DEF FilesSound, OneKey, Genuine
    <2> QED BY <2>1, <2>2, <2>3, <2>5, OneRunSteps DEF Identity!Running, Identity!Settled, NoFile
  <1>9. CASE Identity!Load(c)
    <2> DEFINE f == Identity!FileOf(c)
    <2>1. /\ cmd[c].at = "load" /\ UNCHANGED <<xdg, legacy, first, rewritten, misread, faults>>
          /\ f = (IF cmd[c].path = "xdg" THEN xdg ELSE legacy)
      BY <1>9 DEF Identity!Load, Identity!At, Identity!Keep, Identity!Quiet, Identity!FileOf
    <2>2. f \in Identity!File /\ OneKey(f)
      BY <1>c, <2>1 DEF FilesSound
    <2>3. CASE f = NoFile
      <3>1. Identity!Goto(c, "copen")
        BY <1>9, <2>3 DEF Identity!Load
      <3>2. first = "nil" /\ cmd[c].path = "xdg"
        BY <1>c, <2>1, <2>3 DEF RunSound
      <3>3. /\ cmd' \in [Cmd -> Identity!Run] /\ \A d \in Cmd \ {c} : cmd'[d] = cmd[d]
            /\ cmd'[c].at = "copen" /\ cmd'[c].path = "xdg" /\ cmd'[c].data = cmd[c].data
        BY <3>1, <3>2, RunMoves DEF Identity!Place
      <3>4. RunSound(c)'
        BY <1>c, <2>1, <3>2, <3>3 DEF RunSound, OneKey, Genuine, Moving
      <3> QED BY <1>2, <2>1, <3>3, <3>4 DEF Identity!Running
    <2>4. CASE f # NoFile
      <3>1. /\ f.is \in {"text", "sealed"} /\ (f.key = "nil" \/ Genuine(f.key))
            /\ f.key \in Identity!Key \cup {"nil"}
        BY <2>2, <2>4 DEF OneKey
      <3>2. \/ Identity!Takes(c, f.key) \/ Identity!Goto(c, "refused") \/ Identity!Reads(c, "eopen", f)
        BY <1>9, <3>1 DEF Identity!Load, Identity!Finish
      <3>3. CASE Identity!Takes(c, f.key)
        <4>1. /\ cmd' \in [Cmd -> Identity!Run] /\ \A d \in Cmd \ {c} : cmd'[d] = cmd[d]
              /\ cmd'[c].at = (IF f.key = "nil" THEN "refused" ELSE "done")
              /\ cmd'[c].data = cmd[c].data /\ cmd'[c].key = f.key
          BY <3>1, <3>3, RunMoves
        <4>2. RunSound(c)'
          BY <1>c, <2>1, <3>1, <4>1 DEF RunSound, OneKey, Genuine, Moving
        <4> QED BY <1>2, <2>1, <4>1, <4>2 DEF Identity!Running
      <3>4. CASE Identity!Goto(c, "refused")
        <4>1. /\ cmd' \in [Cmd -> Identity!Run] /\ \A d \in Cmd \ {c} : cmd'[d] = cmd[d]
              /\ cmd'[c].at = "refused" /\ cmd'[c].data = cmd[c].data
          BY <3>4, RunMoves DEF Identity!Place
        <4>2. RunSound(c)'
          BY <1>c, <2>1, <4>1 DEF RunSound, OneKey, Genuine, Moving
        <4> QED BY <1>2, <2>1, <4>1, <4>2 DEF Identity!Running
      <3>5. CASE Identity!Reads(c, "eopen", f)
        <4>1. /\ cmd' \in [Cmd -> Identity!Run] /\ \A d \in Cmd \ {c} : cmd'[d] = cmd[d]
              /\ cmd'[c].at = "eopen" /\ cmd'[c].data = f /\ cmd'[c].path = cmd[c].path
          BY <2>2, <3>5, RunMoves DEF Identity!Place
        <4>2. RunSound(c)'
          BY <1>c, <2>1, <2>4, <3>1, <4>1 DEF RunSound, OneKey, Genuine, Moving
        <4> QED BY <1>2, <2>1, <4>1, <4>2 DEF Identity!Running
      <3> QED BY <3>2, <3>3, <3>4, <3>5
    <2> QED BY <2>3, <2>4
  <1>10. CASE Identity!EncryptOpen(c)
    <2>1. /\ cmd[c].at = "eopen" /\ UNCHANGED <<first, misread, faults>> /\ rewritten' = TRUE
          /\ Identity!Goto(c, "ewrite") /\ Identity!Put(c, Identity!Empty)
      BY <1>10 DEF Identity!EncryptOpen, Identity!At
    <2>2. /\ cmd' \in [Cmd -> Identity!Run] /\ \A d \in Cmd \ {c} : cmd'[d] = cmd[d]
          /\ cmd'[c].at = "ewrite" /\ cmd'[c].data = cmd[c].data /\ cmd'[c].path = cmd[c].path
      BY <2>1, RunMoves DEF Identity!Place
    <2>3. \/ xdg' = Identity!Empty /\ legacy' = legacy /\ cmd[c].path = "xdg"
          \/ legacy' = Identity!Empty /\ xdg' = xdg /\ cmd[c].path = "legacy" /\ legacy # NoFile
      BY <1>c, <2>1 DEF Identity!Put, RunSound
    <2>4. RunSound(c)'
      BY <1>c, <2>1, <2>2, <2>3 DEF RunSound, OneKey, Genuine, Moving
    <2>5. FilesSound'
      BY <1>c, <2>1, <2>3 DEF FilesSound, OneKey, Genuine
    <2> QED BY <2>1, <2>2, <2>3, <2>4, <2>5, OneRunSteps DEF Identity!Running, Identity!Settled, NoFile
  <1>11. CASE Identity!EncryptWrite(c)
    <2> DEFINE k == cmd[c].data.key
    <2>1. /\ cmd[c].at = "ewrite" /\ UNCHANGED <<first, rewritten, misread, faults>>
          /\ Identity!Takes(c, k) /\ Identity!Put(c, Identity!Sealed(k))
      BY <1>11 DEF Identity!EncryptWrite, Identity!At, Identity!Finish, Identity!Quiet
    <2>2. (k = "nil" \/ Genuine(k)) /\ k \in Identity!Key \cup {"nil"}
      BY <1>c, <2>1 DEF RunSound, OneKey
    <2>3. /\ cmd' \in [Cmd -> Identity!Run] /\ \A d \in Cmd \ {c} : cmd'[d] = cmd[d]
          /\ cmd'[c].at = (IF k = "nil" THEN "refused" ELSE "done")
          /\ cmd'[c].data = cmd[c].data /\ cmd'[c].key = k
      BY <2>1, <2>2, RunMoves
    <2>4. \/ xdg' = Identity!Sealed(k) /\ legacy' = legacy /\ cmd[c].path = "xdg"
          \/ legacy' = Identity!Sealed(k) /\ xdg' = xdg /\ cmd[c].path = "legacy" /\ legacy # NoFile
      BY <1>c, <2>1 DEF Identity!Put, RunSound
    <2>5. /\ Identity!Sealed(k) \in Identity!File /\ Identity!Sealed(k) # NoFile
          /\ Identity!Sealed(k).key = k
      BY <2>2
    <2>6. RunSound(c)'
      BY <1>c, <2>1, <2>2, <2>3 DEF RunSound, OneKey, Genuine, Moving
    <2>7. rewritten
      BY <1>c, <2>1 DEF RunSound
    <2>8. FilesSound'
      BY <1>c, <2>1, <2>2, <2>4, <2>5, <2>7 DEF FilesSound, OneKey, Genuine
    <2> QED BY <2>1, <2>3, <2>4, <2>5, <2>6, <2>8, OneRunSteps DEF Identity!Running, Identity!Settled, NoFile
  <1>12. CASE Identity!EncryptFails(c)
    <2> DEFINE k == cmd[c].data.key
    <2>1. /\ cmd[c].at \in {"eopen", "ewrite"} /\ UNCHANGED <<xdg, legacy, first, rewritten, misread>>
          /\ faults > 0 /\ faults' = faults - 1 /\ Identity!Takes(c, k)
      BY <1>12 DEF Identity!EncryptFails, Identity!At, Identity!Finish, Identity!Keep, Identity!Quiet,
         Identity!Fault
    <2>2. (k = "nil" \/ Genuine(k)) /\ k \in Identity!Key \cup {"nil"}
      BY <1>c, <2>1 DEF RunSound, OneKey
    <2>3. /\ cmd' \in [Cmd -> Identity!Run] /\ \A d \in Cmd \ {c} : cmd'[d] = cmd[d]
          /\ cmd'[c].at = (IF k = "nil" THEN "refused" ELSE "done")
          /\ cmd'[c].data = cmd[c].data /\ cmd'[c].key = k
      BY <2>1, <2>2, RunMoves
    <2>4. RunSound(c)'
      BY <1>c, <2>1, <2>2, <2>3 DEF RunSound, OneKey, Genuine, Moving
    <2> QED BY <1>2, <2>1, <2>3, <2>4 DEF Identity!Running
  <1>13. CASE Identity!CreateOpen(c)
    <2>1. /\ cmd[c].at = "copen" /\ UNCHANGED <<first, rewritten, misread, faults>>
          /\ Identity!Goto(c, "cwrite") /\ Identity!Put(c, Identity!Empty)
      BY <1>13 DEF Identity!CreateOpen, Identity!At, Identity!Quiet
    <2>2. \/ xdg' = Identity!Empty /\ legacy' = legacy /\ cmd[c].path = "xdg" /\ (c \in misread \/ first = "nil")
          \/ /\ legacy' = Identity!Empty /\ xdg' = xdg /\ cmd[c].path = "legacy"
             /\ legacy # NoFile /\ c \in misread
      BY <1>c, <2>1 DEF RunSound, Identity!Put
    <2>3. /\ cmd' \in [Cmd -> Identity!Run] /\ \A d \in Cmd \ {c} : cmd'[d] = cmd[d]
          /\ cmd'[c].at = "cwrite" /\ cmd'[c].data = cmd[c].data /\ cmd'[c].path = cmd[c].path
      BY <2>1, <2>2, RunMoves DEF Identity!Place
    <2>4. RunSound(c)'
      BY <1>c, <2>1, <2>2, <2>3 DEF RunSound, OneKey, Genuine, Moving
    <2>5. FilesSound'
      BY <1>c, <2>1, <2>2 DEF FilesSound, OneKey, Genuine
    <2> QED BY <2>1, <2>2, <2>3, <2>4, <2>5, OneRunSteps DEF Identity!Running, Identity!Settled, NoFile
  <1>14. CASE Identity!CreateWrite(c)
    <2> DEFINE f == IF c \in Phrased THEN Identity!Sealed(c) ELSE Identity!Plain(c)
    <2>1. /\ cmd[c].at = "cwrite" /\ UNCHANGED <<rewritten, misread>> /\ Identity!Put(c, f)
          /\ first' = IF first = "nil" THEN c ELSE first
          /\ \/ Identity!Takes(c, c) /\ UNCHANGED faults
             \/ faults > 0 /\ faults' = faults - 1 /\ Identity!Goto(c, "refused")
      BY <1>14 DEF Identity!CreateWrite, Identity!At, Identity!Fault
    <2>2. \/ xdg' = f /\ legacy' = legacy /\ cmd[c].path = "xdg" /\ (c \in misread \/ first = "nil")
          \/ /\ legacy' = f /\ xdg' = xdg /\ cmd[c].path = "legacy"
             /\ legacy # NoFile /\ first # "nil" /\ c \in misread
      BY <1>c, <2>1 DEF RunSound, Identity!Put, FilesSound
    <2>4. f \in Identity!File /\ f # NoFile /\ f.key = c /\ c # "nil" /\ c \in Identity!Key \cup {"nil"}
      OBVIOUS
    <2>3. Genuine(c)' /\ \A k : Genuine(k) => Genuine(k)'
      BY <2>1, <2>2, <2>4 DEF Genuine
    <2>5. /\ cmd' \in [Cmd -> Identity!Run] /\ \A d \in Cmd \ {c} : cmd'[d] = cmd[d]
          /\ cmd'[c].data = cmd[c].data
          /\ (cmd'[c].at = "done" /\ cmd'[c].key = c) \/ cmd'[c].at = "refused"
      BY <2>1, <2>4, RunMoves DEF Identity!Place
    <2>6. RunSound(c)'
      BY <1>c, <2>2, <2>3, <2>4, <2>5 DEF RunSound, OneKey, Moving
    <2>7. faults' \in 0..MaxFaults
      BY <1>c, <2>1 DEF FilesSound
    <2>8. FilesSound'
      <3> HIDE DEF f
      <3>1. first' \in Identity!Key \cup {"nil"} /\ first' # "nil"
        BY <1>c, <2>1, <2>4 DEF FilesSound
      <3>2. OneKey(xdg)' /\ OneKey(legacy)' /\ xdg' \in Identity!File /\ legacy' \in Identity!File
        BY <1>c, <2>2, <2>3, <2>4 DEF FilesSound, OneKey
      <3>3. legacy' = NoFile => xdg' # NoFile
        BY <1>c, <2>2, <2>4 DEF FilesSound
      <3>4. misread' = {} => IF legacy' # NoFile THEN legacy'.key = first' ELSE xdg'.key = first'
        BY <1>c, <2>1, <2>2, <2>4 DEF FilesSound
      <3> QED BY <1>c, <2>1, <2>7, <3>1, <3>2, <3>3, <3>4 DEF FilesSound
    <2>9. Identity!Settled => first' = first /\ legacy' = NoFile /\ xdg' # NoFile
      BY <2>1, <2>2, <2>4 DEF Identity!Settled, NoFile
    <2> QED BY <2>1, <2>5, <2>6, <2>8, <2>9, OneRunSteps DEF Identity!Running
  <1>15. CASE Identity!CreateFails(c) \/ Identity!Crash(c)
    <2>1. /\ Identity!Running(c) /\ UNCHANGED <<xdg, legacy, first, rewritten, misread>>
          /\ faults > 0 /\ faults' = faults - 1
          /\ Identity!Goto(c, "refused") \/ Identity!Goto(c, "dead")
      BY <1>15 DEF Identity!CreateFails, Identity!Crash, Identity!At, Identity!Keep, Identity!Quiet,
         Identity!Fault, Identity!Running
    <2>2. /\ cmd' \in [Cmd -> Identity!Run] /\ \A d \in Cmd \ {c} : cmd'[d] = cmd[d]
          /\ cmd'[c].data = cmd[c].data /\ cmd'[c].at \in {"refused", "dead"}
      BY <2>1, RunMoves DEF Identity!Place
    <2>3. RunSound(c)'
      BY <1>c, <2>1, <2>2 DEF RunSound, OneKey, Genuine, Moving
    <2> QED BY <1>2, <2>1, <2>2, <2>3
  <1>16. CASE Identity!ReadFails(c)
    <2>1. /\ cmd[c].at = "load" /\ UNCHANGED <<xdg, legacy, first, rewritten>>
          /\ misread' = misread \cup {c} /\ faults > 0 /\ faults' = faults - 1
          /\ Identity!Goto(c, "copen")
      BY <1>16 DEF Identity!ReadFails, Identity!At, Identity!Keep, Identity!Fault
    <2>2. /\ cmd' \in [Cmd -> Identity!Run] /\ \A d \in Cmd \ {c} : cmd'[d] = cmd[d]
          /\ cmd'[c].data = cmd[c].data /\ cmd'[c].at = "copen" /\ cmd'[c].path = cmd[c].path
      BY <2>1, RunMoves DEF Identity!Place
    <2>3. RunSound(c)'
      BY <1>c, <2>1, <2>2 DEF RunSound, OneKey, Genuine, Moving
    <2> QED BY <1>2, <2>1, <2>2, <2>3 DEF Identity!Running
  <1> QED BY <1>0, <1>1, <1>3, <1>4, <1>5, <1>6, <1>7, <1>8, <1>9, <1>10, <1>11, <1>12, <1>13, <1>14, <1>15, <1>16
        DEF Identity!Step

(* load_or_create_secret_key and migrate_identity: however runs die, writes  *)
(* fail and moves stay half done, a command that gets a key gets the one     *)
(* first saved or that of a run that took a failed read for a missing file,  *)
(* and only such a run or a rewrite in place may take it off the disk.       *)
THEOREM IdentityStays ==
  Spec => [](Identity!TypeOK /\ Identity!StableOrRefused /\ Identity!KeyOnDisk)
  <1>1. Init => IdInv
    <2> SUFFICES ASSUME Init PROVE IdInv
      OBVIOUS
    <2>1. \E b \in Identity!Before : Identity!InitFrom(b)
      BY DEF Init, Identity!Init, Identity!Before
    <2> QED BY <2>1, IdentityInit
  <1>2. IdInv /\ [Next]_vars => IdInv'
    <2> SUFFICES ASSUME IdInv, [Next]_vars PROVE IdInv'
      OBVIOUS
    <2>1. CASE IdentityStep
      BY <2>1, IdentityKeeps DEF IdentityStep
    <2>2. CASE UNCHANGED idVars
      BY <2>2 DEF idVars, IdInv, FilesSound, RunSound, OneKey, Genuine, Identity!Settled, Identity!Running
    <2> QED BY <2>1, <2>2 DEF Next, vars, ContactsStep, PathLogStep, MonitorStep, CtlStep, DeviceStep
  <1>3. IdInv => Identity!TypeOK /\ Identity!StableOrRefused /\ Identity!KeyOnDisk
    <2> SUFFICES ASSUME IdInv PROVE Identity!TypeOK /\ Identity!StableOrRefused /\ Identity!KeyOnDisk
      OBVIOUS
    <2>1. Identity!TypeOK
      BY DEF IdInv, FilesSound, Identity!TypeOK
    <2>2. Identity!StableOrRefused
      BY DEF IdInv, RunSound, Genuine, Identity!StableOrRefused, Identity!At
    <2>3. Identity!KeyOnDisk
      BY DEF IdInv, FilesSound, Identity!KeyOnDisk, NoFile
    <2> QED BY <2>1, <2>2, <2>3
  <1> QED BY <1>1, <1>2, <1>3, PTL DEF Spec

-----------------------------------------------------------------------------
(* The log of path outcomes                                                 *)

Piece == Writer \cup {PathLog!NL, PathLog!Hole}
Log   == PathLog!Text(logName)

Places == {"off", "append", "create", "fill", "done", "dead"}
LogRun == [at : Places, file : Nat, n : Nat]

(* Every variable has its type; a run at work has a file open, and what it   *)
(* still has to write lies ahead of it.                                      *)
LogTyped ==
    /\ content \in Seq(Seq(Piece)) /\ logName \in 0..Len(content) /\ tmpName \in 0..Len(content)
    /\ writer \in [Writer -> LogRun]
    /\ kept \in [Writer -> Seq(Piece)] /\ base \in Seq(Piece)
    /\ by \in Writer \cup {PathLog!Nobody}
    /\ \A w \in Writer : writer[w].at \in {"append", "fill"} => writer[w].file \in 1..Len(content)
    /\ tmpName # 0 => tmpName # logName

(* The inductive strengthening of NewestKept and LogBounded: while a run has *)
(* the files to itself, the log holds what it found and what it has written  *)
(* so far, and the second file a first part of what it keeps.                *)
Whole(w) == base \o PathLog!Line(w)

Appending(w) ==
    /\ writer[w].at = "append" /\ logName # 0 /\ writer[w].file = logName
    /\ writer[w].n \in 0..Len(PathLog!Line(w))
    /\ Log = base \o SubSeq(PathLog!Line(w), 1, writer[w].n)
Trimming(w) ==
    /\ writer[w].at \in {"create", "fill"} /\ Log = Whole(w) /\ kept[w] = PathLog!Newest(Whole(w))
    /\ writer[w].at = "fill" =>
         /\ tmpName # 0 /\ writer[w].file = tmpName /\ writer[w].n \in 0..Len(kept[w])
         /\ content[tmpName] = SubSeq(kept[w], 1, writer[w].n)
Finished(w) ==
    writer[w].at = "done" /\ Log = PathLog!Newest(Whole(w)) /\ PathLog!LineCount(Log) <= MaxLines
Killed(w) ==
    /\ writer[w].at = "dead"
    /\ \E i \in 0..Len(PathLog!Line(w)) : Log = base \o SubSeq(PathLog!Line(w), 1, i)

Alone(w) ==
    /\ \A v \in Writer : PathLog!Active(v) => v = w
    /\ Appending(w) \/ Trimming(w) \/ Finished(w) \/ Killed(w)

LogInv == LogTyped /\ \A w \in Writer : by = w => Alone(w)

LEMMA LogConstants ==
  /\ MaxLines \in Nat \ {0} /\ Chunks \in [Writer -> Nat]
  /\ PathLog!NL \notin Writer /\ PathLog!Nobody \notin Writer
  /\ PathLog!NL \in Piece /\ PathLog!Hole \in Piece
  BY HostConstants DEF Piece

(* A set of naturals has a least element. *)
LEMMA LeastOne ==
  ASSUME NEW S \in SUBSET Nat, S # {}
  PROVE  \E i \in S : \A j \in S : i <= j
  <1> DEFINE Below == {1..i : i \in S}
             R == StrictSubsetOrdering(Nat)
  <1>1. IsWellFoundedOn(R, FiniteSubsetsOf(Nat))
    BY FS_StrictSubsetOrderingWellFounded
  <1>2. Below \subseteq FiniteSubsetsOf(Nat) /\ Below # {}
    <2>1. ASSUME NEW i \in S
          PROVE  1..i \in SUBSET Nat /\ IsFiniteSet(1..i)
      <3>1. 1 \in Int /\ i \in Int
        OBVIOUS
      <3> QED BY <3>1, FS_Interval
    <2> QED BY <2>1 DEF FiniteSubsetsOf
  <1> HIDE DEF R
  <1>3. PICK B \in Below : \A C \in Below : ~ (<<C, B>> \in R)
    BY <1>1, <1>2, WFMin
  <1>4. PICK i \in S : B = 1..i
    OBVIOUS
  <1>5. ASSUME NEW j \in S, j < i
        PROVE  FALSE
    <2>1. 1..j \in SUBSET Nat /\ 1..i \in SUBSET Nat /\ 1..j \subseteq 1..i /\ i \in 1..i /\ i \notin 1..j
      BY <1>5
    <2>2. <<1..j, B>> \in R
      BY <1>4, <2>1 DEF R, StrictSubsetOrdering
    <2> QED BY <1>3, <2>2
  <1> QED BY <1>5

(* A line is its text and the line's end. *)
LEMMA LineIs ==
  ASSUME NEW w \in Writer
  PROVE  LET l == PathLog!Line(w)
         IN  l \in Seq(Piece) /\ Len(l) \in Nat \ {0} /\ l[Len(l)] = PathLog!NL
  <1> DEFINE t == [i \in 1..Chunks[w] |-> w]
  <1>1. Chunks[w] \in Nat /\ w \in Piece /\ PathLog!NL \in Piece
    BY LogConstants DEF Piece
  <1>2. t \in Seq(Piece)
    BY <1>1
  <1> HIDE DEF t
  <1>3. /\ Append(t, PathLog!NL) \in Seq(Piece) /\ Len(Append(t, PathLog!NL)) \in Nat \ {0}
        /\ Append(t, PathLog!NL)[Len(Append(t, PathLog!NL))] = PathLog!NL
    BY <1>1, <1>2
  <1> QED BY <1>3 DEF PathLog!Line, t

(* Some cut leaves at most one line, so there is a first one. *)
LEMMA CutIs ==
  ASSUME NEW s \in Seq(Piece)
  PROVE  PathLog!Cut(s) \in PathLog!Cuts(s) /\ PathLog!Cut(s) \in 0..Len(s)
  <1> USE LogConstants
  <1> DEFINE Starts == {0} \cup PathLog!LineEnds(s)
             Left == {Len(s) - i : i \in Starts}
  <1>0. Len(s) \in Nat /\ Starts \subseteq 0..Len(s) /\ 0 \in Starts
    BY DEF PathLog!LineEnds
  <1>1. PICK i \in Starts : \A j \in Starts : j <= i
    <2>1. Left \in SUBSET Nat /\ Left # {}
      BY <1>0
    <2>2. PICK l \in Left : \A k \in Left : l <= k
      BY <2>1, LeastOne
    <2>3. PICK i \in Starts : l = Len(s) - i
      OBVIOUS
    <2>4. ASSUME NEW j \in Starts
          PROVE  j <= i
      <3>1. Len(s) - i <= Len(s) - j
        BY <2>2, <2>3
      <3> QED BY <1>0, <3>1
    <2> QED BY <2>4
  <1> DEFINE t == PathLog!From(s, i)
  <1>2. i \in 0..Len(s)
    BY <1>0
  <1>3. t \in Seq(Piece) /\ Len(t) = Len(s) - i /\ \A k \in 1..Len(t) : t[k] = s[i + k]
    <2>1. t = SubSeq(s, i + 1, Len(s))
      BY DEF PathLog!From
    <2> HIDE DEF t
    <2> QED BY <1>0, <1>2, <2>1
  <1>4. PathLog!LineEnds(t) = {}
    <2> SUFFICES ASSUME NEW k \in 1..Len(t), t[k] = PathLog!NL PROVE FALSE
      BY DEF PathLog!LineEnds
    <2>1. i + k \in 1..Len(s) /\ s[i + k] = PathLog!NL
      BY <1>0, <1>2, <1>3
    <2>2. i + k \in Starts
      BY <2>1 DEF PathLog!LineEnds
    <2> QED BY <1>1, <1>2, <2>2
  <1>5. PathLog!LineCount(t) \in {0, 1}
    <2>1. PathLog!Cardinality({}) = 0
      BY FS_EmptySet DEF PathLog!Cardinality, Cardinality
    <2> QED BY <1>4, <2>1 DEF PathLog!LineCount
  <1>6. i \in PathLog!Cuts(s)
    BY <1>5 DEF PathLog!Cuts
  <1>7. PathLog!Cuts(s) \subseteq 0..Len(s) /\ PathLog!Cuts(s) \in SUBSET Nat
    BY <1>0 DEF PathLog!Cuts
  <1>8. \E k \in PathLog!Cuts(s) : \A j \in PathLog!Cuts(s) : k <= j
    BY <1>6, <1>7, LeastOne
  <1>9. PathLog!Cut(s) \in PathLog!Cuts(s)
    BY <1>8 DEF PathLog!Cut
  <1> QED BY <1>7, <1>9

LEMMA NewestTyped ==
  ASSUME NEW s \in Seq(Piece)
  PROVE  PathLog!Newest(s) \in Seq(Piece)
  <1> USE LogConstants
  <1> DEFINE c == PathLog!Cut(s)
  <1>1. c \in 0..Len(s) /\ Len(s) \in Nat
    BY CutIs
  <1> HIDE DEF c
  <1>2. PathLog!From(s, c) \in Seq(Piece)
    BY <1>1 DEF PathLog!From
  <1>3. PathLog!Ended(PathLog!From(s, c)) \in Seq(Piece)
    BY <1>2 DEF PathLog!Ended
  <1> QED BY <1>3 DEF PathLog!Newest, c

(* Of a log that ends with a line's end, the newest lines are no more than   *)
(* MAX_LINES.                                                                *)
LEMMA NewestBounded ==
  ASSUME NEW s \in Seq(Piece), s # <<>>, s[Len(s)] = PathLog!NL
  PROVE  PathLog!LineCount(PathLog!Newest(s)) <= MaxLines
  <1> USE LogConstants
  <1>0. Len(s) \in Nat /\ Len(s) > 0
    OBVIOUS
  <1>1. CASE PathLog!LineCount(s) <= MaxLines
    BY <1>1 DEF PathLog!Newest
  <1>2. CASE ~(PathLog!LineCount(s) <= MaxLines)
    <2> DEFINE i == PathLog!Cut(s)
               t == PathLog!From(s, i)
    <2>4. i \in PathLog!Cuts(s) /\ i \in 0..Len(s)
      BY CutIs
    <2> HIDE DEF i
    <2>5. PathLog!LineCount(t) <= MaxLines
      BY <2>4 DEF PathLog!Cuts
    <2>6. t \in Seq(Piece)
      BY <1>0, <2>4 DEF PathLog!From
    <2>7. t = <<>> \/ Len(t) \in PathLog!LineEnds(t)
      <3> SUFFICES ASSUME i < Len(s) PROVE Len(t) \in PathLog!LineEnds(t)
        BY <1>0, <2>4 DEF PathLog!From
      <3>1. Len(t) = Len(s) - i /\ t[Len(t)] = s[Len(s)]
        <4>1. t = SubSeq(s, i + 1, Len(s))
          BY DEF PathLog!From
        <4> HIDE DEF t
        <4>2. /\ Len(t) = Len(s) - i /\ Len(t) \in 1..Len(t)
              /\ \A k \in 1..Len(t) : t[k] = s[i + k]
          BY <1>0, <2>4, <4>1
        <4> QED BY <1>0, <2>4, <4>2
      <3>2. Len(t) \in 1..Len(t)
        BY <1>0, <2>4, <3>1
      <3> QED BY <3>1, <3>2 DEF PathLog!LineEnds
    <2>8. PathLog!Newest(s) = t
      BY <1>2, <2>7 DEF PathLog!Newest, PathLog!Ended, i
    <2> QED BY <2>5, <2>6, <2>8
  <1> QED BY <1>1, <1>2

(* What a run alone has in the end. *)
LEMMA WholeIs ==
  ASSUME LogTyped, NEW w \in Writer
  PROVE  LET whole == base \o PathLog!Line(w)
         IN  /\ whole \in Seq(Piece) /\ PathLog!Newest(whole) \in Seq(Piece)
             /\ PathLog!LineCount(PathLog!Newest(whole)) <= MaxLines
             /\ PathLog!LineCount(whole) <= MaxLines => PathLog!Newest(whole) = whole
             /\ whole = base \o SubSeq(PathLog!Line(w), 1, Len(PathLog!Line(w)))
  <1> DEFINE line == PathLog!Line(w)
             whole == base \o line
  <1>1. line \in Seq(Piece) /\ Len(line) \in Nat \ {0} /\ line[Len(line)] = PathLog!NL
    BY LineIs
  <1>2. base \in Seq(Piece)
    BY DEF LogTyped
  <1> HIDE DEF line
  <1>3. whole \in Seq(Piece) /\ whole # <<>> /\ whole[Len(whole)] = PathLog!NL
    BY <1>1, <1>2
  <1>4. SubSeq(line, 1, Len(line)) = line
    BY <1>1
  <1> HIDE DEF whole
  <1>5. PathLog!Newest(whole) \in Seq(Piece) /\ PathLog!LineCount(PathLog!Newest(whole)) <= MaxLines
    BY <1>3, NewestBounded, NewestTyped
  <1> QED BY <1>3, <1>4, <1>5 DEF PathLog!Newest, whole, line

(* What a step does to the record of the run that takes it. *)
LEMMA WriterMoves ==
  ASSUME LogTyped, NEW w \in Writer
  PROVE  /\ \A s \in Places, f \in Nat : PathLog!Goto(w, s, f) =>
              /\ writer' \in [Writer -> LogRun] /\ \A v \in Writer \ {w} : writer'[v] = writer[v]
              /\ writer'[w].at = s /\ writer'[w].file = f /\ writer'[w].n = 0
         /\ PathLog!Wrote(w) =>
              /\ writer' \in [Writer -> LogRun] /\ \A v \in Writer \ {w} : writer'[v] = writer[v]
              /\ writer'[w].at = writer[w].at /\ writer'[w].file = writer[w].file
              /\ writer'[w].n = writer[w].n + 1
         /\ writer[w].n \in Nat /\ writer[w].file \in Nat /\ writer[w].at \in Places
  <1>1. writer \in [Writer -> LogRun] /\ writer[w] \in LogRun
    BY DEF LogTyped
  <1>2. ASSUME NEW s \in Places, NEW f \in Nat, PathLog!Goto(w, s, f)
        PROVE  /\ writer' \in [Writer -> LogRun] /\ \A v \in Writer \ {w} : writer'[v] = writer[v]
               /\ writer'[w].at = s /\ writer'[w].file = f /\ writer'[w].n = 0
    BY <1>1, <1>2 DEF PathLog!Goto, LogRun
  <1>3. ASSUME PathLog!Wrote(w)
        PROVE  /\ writer' \in [Writer -> LogRun] /\ \A v \in Writer \ {w} : writer'[v] = writer[v]
               /\ writer'[w].at = writer[w].at /\ writer'[w].file = writer[w].file
               /\ writer'[w].n = writer[w].n + 1
    BY <1>1, <1>3 DEF PathLog!Wrote, LogRun
  <1> QED BY <1>1, <1>2, <1>3 DEF LogRun

(* A file made, and a file written. *)
LEMMA FileMade ==
  ASSUME NEW c \in Seq(Seq(Piece)), NEW d, d = Append(c, <<>>)
  PROVE  /\ d \in Seq(Seq(Piece)) /\ Len(c) \in Nat /\ Len(d) = Len(c) + 1
         /\ d[Len(c) + 1] = <<>> /\ \A k \in 1..Len(c) : d[k] = c[k]
  <1> DEFINE e == <<>>
  <1>1. e \in Seq(Piece) /\ Len(c) \in Nat
    OBVIOUS
  <1> QED BY <1>1

LEMMA FileWritten ==
  ASSUME NEW c \in Seq(Seq(Piece)), NEW f \in 1..Len(c), NEW s \in Seq(Piece),
         NEW d, d = [c EXCEPT ![f] = s]
  PROVE  /\ d \in Seq(Seq(Piece)) /\ Len(d) = Len(c) /\ d[f] = s
         /\ \A k \in (1..Len(c)) \ {f} : d[k] = c[k]
  OBVIOUS

(* A write at its own place in a file. *)
LEMMA Overwrites ==
  ASSUME NEW s \in Seq(Piece), NEW i \in Nat \ {0}, NEW c \in Piece
  PROVE  /\ PathLog!Overwritten(s, i, c) \in Seq(Piece)
         /\ i = Len(s) + 1 => PathLog!Overwritten(s, i, c) = Append(s, c)
  <1> DEFINE N == IF i <= Len(s) THEN Len(s) ELSE i
             o == [j \in 1..N |-> IF j = i THEN c ELSE IF j <= Len(s) THEN s[j] ELSE PathLog!Hole]
  <1>1. Len(s) \in Nat /\ N \in Nat /\ PathLog!Hole \in Piece
    BY LogConstants
  <1>2. \A j \in 1..N : o[j] \in Piece
    BY <1>1
  <1>3. o \in Seq(Piece)
    <2> HIDE DEF N
    <2>1. o \in [1..N -> Piece]
      BY <1>2
    <2> HIDE DEF o
    <2> QED BY <1>1, <2>1
  <1>4. ASSUME i = Len(s) + 1
        PROVE  o = Append(s, c)
    <2>1. N = i
      BY <1>1, <1>4
    <2>2. /\ Append(s, c) \in Seq(Piece) /\ Len(Append(s, c)) = i
          /\ \A j \in 1..i : Append(s, c)[j] = IF j = i THEN c ELSE s[j]
      BY <1>1, <1>4
    <2>3. /\ o \in Seq(Piece) /\ Len(o) = i
          /\ \A j \in 1..i : o[j] = IF j = i THEN c ELSE s[j]
      BY <1>1, <1>3, <1>4, <2>1
    <2> HIDE DEF o
    <2> QED BY <2>2, <2>3
  <1> QED BY <1>3, <1>4 DEF PathLog!Overwritten

LEMMA LogInit == PathLog!Init => LogInv
  <1> SUFFICES ASSUME PathLog!Init PROVE LogInv
    OBVIOUS
  <1>1. content = <<>> /\ content \in Seq(Seq(Piece)) /\ Len(content) = 0
    BY DEF PathLog!Init
  <1>2. /\ writer = [w \in Writer |-> [at |-> "off", file |-> 0, n |-> 0]]
        /\ kept = [w \in Writer |-> <<>>] /\ base = <<>>
        /\ logName = 0 /\ tmpName = 0 /\ by = PathLog!Nobody
    BY DEF PathLog!Init
  <1>3. kept \in [Writer -> Seq(Piece)] /\ base \in Seq(Piece)
    BY <1>2
  <1>4. writer \in [Writer -> LogRun] /\ \A w \in Writer : writer[w].at = "off"
    BY <1>2 DEF LogRun, Places
  <1> QED BY <1>1, <1>2, <1>3, <1>4, LogConstants DEF LogInv, LogTyped

(* Types, and that the two names never stand for one file. *)
LEMMA LogTypesKept ==
  ASSUME LogTyped, PathLog!Next
  PROVE  LogTyped'
  <1>0. PICK w \in Writer :
          \/ PathLog!Open(w) \/ PathLog!AppendWrite(w) \/ PathLog!TrimRead(w) \/ PathLog!TrimCreate(w)
          \/ PathLog!TrimWrite(w) \/ PathLog!TrimRename(w) \/ PathLog!Crash(w)
    BY DEF PathLog!Next
  <1>t. /\ content \in Seq(Seq(Piece)) /\ Len(content) \in Nat
        /\ logName \in 0..Len(content) /\ tmpName \in 0..Len(content)
        /\ kept \in [Writer -> Seq(Piece)] /\ base \in Seq(Piece) /\ kept[w] \in Seq(Piece)
        /\ by \in Writer \cup {PathLog!Nobody}
        /\ \A v \in Writer : writer[v].at \in {"append", "fill"} => writer[v].file \in 1..Len(content)
        /\ tmpName # 0 => tmpName # logName
        /\ writer[w].n \in Nat
    BY WriterMoves DEF LogTyped
  <1>l. Log \in Seq(Piece)
    BY <1>t DEF Log, PathLog!Text
  <1>k. [kept EXCEPT ![w] = <<>>] \in [Writer -> Seq(Piece)]
    <2> DEFINE e == <<>>
    <2>1. e \in Seq(Piece)
      OBVIOUS
    <2> QED BY <1>t, <2>1
  <1>m. ASSUME NEW s \in Places, NEW f \in Nat, PathLog!Goto(w, s, f),
               UNCHANGED <<logName, tmpName, content, by, base>>, kept' \in [Writer -> Seq(Piece)],
               s \notin {"append", "fill"}
        PROVE  LogTyped'
    <2>1. /\ writer' \in [Writer -> LogRun] /\ \A v \in Writer \ {w} : writer'[v] = writer[v]
          /\ writer'[w].at = s
      BY <1>m, WriterMoves
    <2> QED BY <1>m, <1>t, <2>1 DEF LogTyped
  <1>1. CASE PathLog!Open(w)
    <2>1. /\ PathLog!Goto(w, "append", logName') /\ UNCHANGED <<tmpName, kept>>
          /\ \/ by' = w /\ base' = Log
             \/ by' = PathLog!Nobody /\ base' = <<>>
          /\ \/ /\ logName = 0 /\ logName' = Len(content) + 1 /\ content' = Append(content, <<>>)
             \/ /\ logName # 0 /\ UNCHANGED <<logName, content>>
      BY <1>1 DEF PathLog!Open, PathLog!NewFile, Log
    <2>2. /\ content' \in Seq(Seq(Piece)) /\ Len(content') \in {Len(content), Len(content) + 1}
          /\ logName' \in 1..Len(content') /\ (tmpName' # 0 => tmpName' # logName')
      <3>1. CASE logName = 0 /\ logName' = Len(content) + 1 /\ content' = Append(content, <<>>)
        BY <1>t, <2>1, <3>1, FileMade
      <3>2. CASE logName # 0 /\ UNCHANGED <<logName, content>>
        BY <1>t, <2>1, <3>2
      <3> QED BY <2>1, <3>1, <3>2
    <2>3. /\ writer' \in [Writer -> LogRun] /\ \A v \in Writer \ {w} : writer'[v] = writer[v]
          /\ writer'[w].file = logName'
      BY <1>t, <2>1, <2>2, WriterMoves DEF Places
    <2>4. \A v \in Writer : writer'[v].at \in {"append", "fill"} => writer'[v].file \in 1..Len(content')
      <3>1. 1..Len(content) \subseteq 1..Len(content')
        BY <1>t, <2>2
      <3>2. \A v \in Writer \ {w} : writer'[v].at \in {"append", "fill"} => writer'[v].file \in 1..Len(content')
        BY <1>t, <2>3, <3>1
      <3> QED BY <2>2, <2>3, <3>2
    <2>5. base' \in Seq(Piece) /\ by' \in Writer \cup {PathLog!Nobody}
      <3> DEFINE e == <<>>
      <3>1. e \in Seq(Piece)
        OBVIOUS
      <3> QED BY <1>l, <2>1, <3>1
    <2>6. tmpName' \in 0..Len(content') /\ logName' \in 0..Len(content') /\ kept' = kept
      BY <1>t, <2>1, <2>2
    <2> QED BY <1>t, <2>2, <2>3, <2>4, <2>5, <2>6 DEF LogTyped
  <1>2. ASSUME NEW s \in Seq(Piece), writer[w].at \in {"append", "fill"},
               content' = [content EXCEPT ![writer[w].file] = s], PathLog!Wrote(w),
               UNCHANGED <<logName, tmpName, kept, by, base>>
        PROVE  LogTyped'
    <2>1. content' \in Seq(Seq(Piece)) /\ Len(content') = Len(content)
      BY <1>2, <1>t, FileWritten
    <2>2. /\ writer' \in [Writer -> LogRun] /\ \A v \in Writer \ {w} : writer'[v] = writer[v]
          /\ writer'[w].at = writer[w].at /\ writer'[w].file = writer[w].file
      BY <1>2, WriterMoves
    <2> QED BY <1>2, <1>t, <2>1, <2>2 DEF LogTyped
  <1>3. CASE PathLog!AppendWrite(w)
    <2> DEFINE f == writer[w].file
               s == Append(content[f], PathLog!Line(w)[writer[w].n + 1])
    <2>1. /\ writer[w].at = "append" /\ writer[w].n < Len(PathLog!Line(w)) /\ PathLog!Wrote(w)
          /\ content' = [content EXCEPT ![f] = s] /\ UNCHANGED <<logName, tmpName, kept, by, base>>
      BY <1>3 DEF PathLog!AppendWrite
    <2>2. PathLog!Line(w)[writer[w].n + 1] \in Piece
      <3>1. PathLog!Line(w) \in Seq(Piece)
        BY LineIs
      <3> QED BY <1>t, <2>1, <3>1
    <2>3. s \in Seq(Piece)
      BY <1>t, <2>1, <2>2
    <2> QED BY <1>2, <2>1, <2>3
  <1>4. CASE PathLog!TrimRead(w)
    <2>1. /\ UNCHANGED <<logName, tmpName, content, by, base>>
          /\ \/ PathLog!Goto(w, "done", 0) /\ UNCHANGED kept
             \/ PathLog!Goto(w, "create", 0) /\ kept' = [kept EXCEPT ![w] = PathLog!Newest(Log)]
      BY <1>4 DEF PathLog!TrimRead, Log
    <2>2. PathLog!Newest(Log) \in Seq(Piece)
      BY <1>l, NewestTyped
    <2>3. kept' \in [Writer -> Seq(Piece)]
      BY <1>t, <2>1, <2>2
    <2> QED BY <1>m, <2>1, <2>3 DEF Places
  <1>5. CASE PathLog!TrimCreate(w)
    <2>1. /\ PathLog!Goto(w, "fill", tmpName') /\ UNCHANGED <<logName, kept, by, base>>
          /\ \/ tmpName = 0 /\ tmpName' = Len(content) + 1 /\ content' = Append(content, <<>>)
             \/ tmpName # 0 /\ tmpName' = tmpName /\ content' = [content EXCEPT ![tmpName] = <<>>]
      BY <1>5 DEF PathLog!TrimCreate, PathLog!NewFile
    <2>2. /\ content' \in Seq(Seq(Piece)) /\ Len(content') \in {Len(content), Len(content) + 1}
          /\ tmpName' \in 1..Len(content') /\ tmpName' # logName
      <3>1. CASE tmpName = 0 /\ tmpName' = Len(content) + 1 /\ content' = Append(content, <<>>)
        BY <1>t, <3>1, FileMade
      <3>2. CASE tmpName # 0 /\ tmpName' = tmpName /\ content' = [content EXCEPT ![tmpName] = <<>>]
        <4> DEFINE e == <<>>
        <4>1. e \in Seq(Piece) /\ tmpName \in 1..Len(content)
          BY <1>t, <3>2
        <4> QED BY <1>t, <3>2, <4>1, FileWritten
      <3> QED BY <2>1, <3>1, <3>2
    <2>3. /\ writer' \in [Writer -> LogRun] /\ \A v \in Writer \ {w} : writer'[v] = writer[v]
          /\ writer'[w].file = tmpName'
      BY <1>t, <2>1, <2>2, WriterMoves DEF Places
    <2>4. \A v \in Writer : writer'[v].at \in {"append", "fill"} => writer'[v].file \in 1..Len(content')
      <3>1. 1..Len(content) \subseteq 1..Len(content')
        BY <1>t, <2>2
      <3>2. \A v \in Writer \ {w} : writer'[v].at \in {"append", "fill"} => writer'[v].file \in 1..Len(content')
        BY <1>t, <2>3, <3>1
      <3> QED BY <2>2, <2>3, <3>2
    <2>6. tmpName' \in 0..Len(content') /\ logName' \in 0..Len(content')
      BY <1>t, <2>1, <2>2
    <2> QED BY <1>t, <2>1, <2>2, <2>3, <2>4, <2>6 DEF LogTyped
  <1>6. CASE PathLog!TrimWrite(w)
    <2> DEFINE f == writer[w].file
               i == writer[w].n + 1
               s == PathLog!Overwritten(content[f], i, kept[w][i])
    <2>1. /\ writer[w].at = "fill" /\ writer[w].n < Len(kept[w]) /\ PathLog!Wrote(w)
          /\ content' = [content EXCEPT ![f] = s] /\ UNCHANGED <<logName, tmpName, kept, by, base>>
      BY <1>6 DEF PathLog!TrimWrite
    <2>2. kept[w][i] \in Piece /\ i \in Nat \ {0} /\ content[f] \in Seq(Piece)
      <3>1. i \in 1..Len(kept[w])
        BY <1>t, <2>1
      <3>2. kept[w][i] \in Piece
        BY <1>t, <3>1
      <3>3. f \in 1..Len(content)
        BY <1>t, <2>1
      <3>4. content[f] \in Seq(Piece)
        BY <1>t, <3>3
      <3>5. i \in Nat \ {0}
        BY <1>t
      <3> QED BY <3>2, <3>4, <3>5
    <2>3. s \in Seq(Piece)
      BY <2>2, Overwrites
    <2> QED BY <1>2, <2>1, <2>3
  <1>7. CASE PathLog!TrimRename(w)
    <2>1. /\ PathLog!Goto(w, "done", 0) /\ UNCHANGED <<content, by, base>>
          /\ kept' = [kept EXCEPT ![w] = <<>>]
          /\ \/ UNCHANGED <<logName, tmpName>>
             \/ tmpName # 0 /\ logName' = tmpName /\ tmpName' = 0
      BY <1>7 DEF PathLog!TrimRename
    <2>2. /\ writer' \in [Writer -> LogRun] /\ \A v \in Writer \ {w} : writer'[v] = writer[v]
          /\ writer'[w].at = "done"
      BY <2>1, WriterMoves DEF Places
    <2>3. \A v \in Writer : writer'[v].at \in {"append", "fill"} => writer'[v].file \in 1..Len(content)
      BY <1>t, <2>2
    <2>4. /\ logName' \in 0..Len(content) /\ tmpName' \in 0..Len(content)
          /\ (tmpName' # 0 => tmpName' # logName')
      BY <1>t, <2>1
    <2> QED BY <1>t, <1>k, <2>1, <2>2, <2>3, <2>4 DEF LogTyped
  <1>8. CASE PathLog!Crash(w)
    <2>1. /\ PathLog!Goto(w, "dead", 0) /\ UNCHANGED <<logName, tmpName, content, by, base>>
          /\ kept' = [kept EXCEPT ![w] = <<>>]
      BY <1>8 DEF PathLog!Crash
    <2> QED BY <1>k, <1>m, <2>1 DEF Places
  <1> QED BY <1>0, <1>1, <1>3, <1>4, <1>5, <1>6, <1>7, <1>8

(* A sequence grows by its next element. *)
LEMMA NextPiece ==
  ASSUME NEW b \in Seq(Piece), NEW l \in Seq(Piece), NEW n \in Nat, n < Len(l)
  PROVE  /\ Append(SubSeq(l, 1, n), l[n + 1]) = SubSeq(l, 1, n + 1)
         /\ Append(b \o SubSeq(l, 1, n), l[n + 1]) = b \o SubSeq(l, 1, n + 1)
         /\ SubSeq(l, 1, n) \in Seq(Piece) /\ Len(SubSeq(l, 1, n)) = n
  <1> DEFINE p == SubSeq(l, 1, n)
             q == SubSeq(l, 1, n + 1)
             c == l[n + 1]
  <1>1. /\ p \in Seq(Piece) /\ Len(p) = n /\ \A i \in 1..n : p[i] = l[i]
        /\ q \in Seq(Piece) /\ Len(q) = n + 1 /\ \A i \in 1..(n + 1) : q[i] = l[i]
        /\ c \in Piece /\ q[n + 1] = c
    OBVIOUS
  <1> HIDE DEF p, q, c
  <1>2. Append(p, c) = q
    <2>1. /\ Append(p, c) \in Seq(Piece) /\ Len(Append(p, c)) = n + 1
          /\ \A i \in 1..n : Append(p, c)[i] = p[i]
          /\ Append(p, c)[n + 1] = c
      BY <1>1
    <2>2. \A i \in 1..(n + 1) : Append(p, c)[i] = q[i]
      BY <1>1, <2>1
    <2> QED BY <1>1, <2>1, <2>2
  <1>3. Append(b \o p, c) = b \o Append(p, c)
    BY <1>1
  <1> QED BY <1>1, <1>2, <1>3 DEF p, q, c

(* A run that opens the log while no other is at work. *)
LEMMA OpenAlone ==
  ASSUME LogInv, NEW w \in Writer, PathLog!Open(w), by' = w
  PROVE  Alone(w)'
  <1>t. /\ content \in Seq(Seq(Piece)) /\ Len(content) \in Nat /\ logName \in 0..Len(content)
        /\ Log \in Seq(Piece)
    BY DEF LogInv, LogTyped, Log, PathLog!Text
  <1>1. /\ PathLog!Goto(w, "append", logName')
        /\ base' = Log /\ \A v \in Writer : ~PathLog!Active(v)
        /\ \/ /\ logName = 0 /\ logName' = Len(content) + 1 /\ content' = Append(content, <<>>)
           \/ /\ logName # 0 /\ UNCHANGED <<logName, content>>
    BY LogConstants DEF PathLog!Open, PathLog!NewFile, Log
  <1>2. Log' = Log /\ logName' \in Nat \ {0}
    <2>1. CASE logName = 0 /\ logName' = Len(content) + 1 /\ content' = Append(content, <<>>)
      <3>1. content'[Len(content) + 1] = <<>> /\ Len(content) + 1 # 0
        BY <1>t, <2>1, FileMade
      <3> QED BY <1>t, <2>1, <3>1 DEF Log, PathLog!Text
    <2>2. CASE logName # 0 /\ UNCHANGED <<logName, content>>
      BY <1>t, <2>2 DEF Log, PathLog!Text
    <2> QED BY <1>1, <2>1, <2>2
  <1>3. /\ \A v \in Writer \ {w} : writer'[v] = writer[v]
        /\ writer'[w].at = "append" /\ writer'[w].file = logName' /\ writer'[w].n = 0
    BY <1>1, <1>2, WriterMoves DEF LogInv, Places
  <1>4. Log = Log \o SubSeq(PathLog!Line(w), 1, 0) /\ 0 \in 0..Len(PathLog!Line(w))
    <2>1. PathLog!Line(w) \in Seq(Piece) /\ Len(PathLog!Line(w)) \in Nat
      BY LineIs
    <2> QED BY <1>t, <2>1
  <1>5. \A v \in Writer : PathLog!Active(v)' => v = w
    BY <1>1, <1>3 DEF PathLog!Active
  <1>6. Appending(w)'
    BY <1>1, <1>2, <1>3, <1>4 DEF Appending
  <1> QED BY <1>5, <1>6 DEF Alone

(* The steps it takes after that. *)
LEMMA WorkAlone ==
  ASSUME LogInv, NEW w \in Writer, by = w, Alone(w), UNCHANGED base,
         \/ PathLog!AppendWrite(w) \/ PathLog!TrimRead(w) \/ PathLog!TrimCreate(w)
         \/ PathLog!TrimWrite(w) \/ PathLog!TrimRename(w) \/ PathLog!Crash(w)
  PROVE  Alone(w)'
  <1> DEFINE line  == PathLog!Line(w)
             n     == writer[w].n
  <1>t. /\ content \in Seq(Seq(Piece)) /\ Len(content) \in Nat
        /\ logName \in 0..Len(content) /\ tmpName \in 0..Len(content)
        /\ kept \in [Writer -> Seq(Piece)] /\ kept[w] \in Seq(Piece) /\ base \in Seq(Piece)
        /\ tmpName # 0 => tmpName # logName
        /\ n \in Nat
    BY WriterMoves DEF LogInv, LogTyped
  <1>i. line \in Seq(Piece) /\ Len(line) \in Nat \ {0}
    BY LineIs
  <1>w. /\ PathLog!LineCount(PathLog!Newest(Whole(w))) <= MaxLines
        /\ PathLog!LineCount(Whole(w)) <= MaxLines => PathLog!Newest(Whole(w)) = Whole(w)
        /\ Whole(w) = base \o SubSeq(line, 1, Len(line))
        /\ PathLog!Newest(Whole(w)) \in Seq(Piece) /\ Whole(w)' = Whole(w)
    BY WholeIs DEF LogInv, Whole
  <1>l. /\ Log = IF logName = 0 THEN <<>> ELSE content[logName]
        /\ Log' = IF logName' = 0 THEN <<>> ELSE content'[logName']
    BY DEF Log, PathLog!Text
  <1>a. ASSUME \A v \in Writer \ {w} : writer'[v] = writer[v]
        PROVE  \A v \in Writer : PathLog!Active(v)' => v = w
    BY <1>a DEF Alone, PathLog!Active
  <1> HIDE DEF line, n
  <1>1. CASE PathLog!AppendWrite(w)
    <2> DEFINE c == line[n + 1]
    <2>1. /\ writer[w].at = "append" /\ n < Len(line) /\ PathLog!Wrote(w)
          /\ content' = [content EXCEPT ![writer[w].file] = Append(content[writer[w].file], c)]
          /\ UNCHANGED <<logName, tmpName>>
      BY <1>1 DEF PathLog!AppendWrite, line, n
    <2>2. logName # 0 /\ writer[w].file = logName /\ Log = base \o SubSeq(line, 1, n)
      BY <2>1 DEF Alone, Appending, Trimming, Finished, Killed, line, n
    <2>3. c \in Piece
      BY <1>t, <1>i, <2>1
    <2>4. logName \in 1..Len(content) /\ Log = content[logName] /\ Log \in Seq(Piece)
      BY <1>t, <1>l, <2>2
    <2> HIDE DEF c
    <2>5. Append(Log, c) \in Seq(Piece)
      BY <2>3, <2>4
    <2>6. content'[logName] = Append(Log, c)
      <3>1. content' = [content EXCEPT ![logName] = Append(Log, c)]
        BY <2>1, <2>2, <2>4
      <3> QED BY <1>t, <2>4, <2>5, <3>1, FileWritten
    <2>7. Log' = base \o SubSeq(line, 1, n + 1)
      <3>1. Append(base \o SubSeq(line, 1, n), line[n + 1]) = base \o SubSeq(line, 1, n + 1)
        BY <1>t, <1>i, <2>1, NextPiece
      <3>2. Append(Log, c) = base \o SubSeq(line, 1, n + 1)
        BY <2>2, <3>1 DEF c
      <3>3. Log' = content'[logName]
        BY <1>l, <2>1, <2>2
      <3> QED BY <2>6, <3>2, <3>3
    <2>8. /\ \A v \in Writer \ {w} : writer'[v] = writer[v]
          /\ writer'[w].at = "append" /\ writer'[w].file = logName /\ writer'[w].n = n + 1
      BY <2>1, <2>2, WriterMoves DEF LogInv, n
    <2>9. n + 1 \in 0..Len(line)
      BY <1>t, <1>i, <2>1
    <2>10. Appending(w)'
      BY <2>1, <2>2, <2>7, <2>8, <2>9 DEF Appending, line
    <2> QED BY <1>a, <2>8, <2>10 DEF Alone
  <1>2. CASE PathLog!TrimRead(w)
    <2>1. /\ writer[w].at = "append" /\ n = Len(line) /\ UNCHANGED <<logName, tmpName, content>>
          /\ IF PathLog!LineCount(Log) <= MaxLines
               THEN PathLog!Goto(w, "done", 0)
               ELSE PathLog!Goto(w, "create", 0) /\ kept' = [kept EXCEPT ![w] = PathLog!Newest(Log)]
      BY <1>2 DEF PathLog!TrimRead, Log, line, n
    <2>2. Log = Whole(w)
      BY <1>w, <2>1 DEF Alone, Appending, Trimming, Finished, Killed, line, n
    <2>3. Log' = Log
      BY <1>l, <2>1
    <2>4. CASE PathLog!LineCount(Log) <= MaxLines
      <3>1. (\A v \in Writer \ {w} : writer'[v] = writer[v]) /\ writer'[w].at = "done"
        BY <2>1, <2>4, WriterMoves DEF LogInv, Places
      <3>2. Finished(w)'
        BY <1>w, <2>2, <2>3, <2>4, <3>1 DEF Finished
      <3> QED BY <1>a, <3>1, <3>2 DEF Alone
    <2>5. CASE ~(PathLog!LineCount(Log) <= MaxLines)
      <3>1. (\A v \in Writer \ {w} : writer'[v] = writer[v]) /\ writer'[w].at = "create"
        BY <2>1, <2>5, WriterMoves DEF LogInv, Places
      <3>2. kept'[w] = PathLog!Newest(Whole(w))
        BY <1>t, <2>1, <2>2, <2>5
      <3>3. Trimming(w)'
        BY <1>w, <2>2, <2>3, <3>1, <3>2 DEF Trimming
      <3> QED BY <1>a, <3>1, <3>3 DEF Alone
    <2> QED BY <2>4, <2>5
  <1>3. CASE PathLog!TrimCreate(w)
    <2>1. /\ writer[w].at = "create" /\ PathLog!Goto(w, "fill", tmpName') /\ UNCHANGED <<logName, kept>>
          /\ \/ tmpName = 0 /\ tmpName' = Len(content) + 1 /\ content' = Append(content, <<>>)
             \/ tmpName # 0 /\ tmpName' = tmpName /\ content' = [content EXCEPT ![tmpName] = <<>>]
      BY <1>3 DEF PathLog!TrimCreate, PathLog!NewFile
    <2>2. Log = Whole(w) /\ kept[w] = PathLog!Newest(Whole(w))
      BY <2>1 DEF Alone, Appending, Trimming, Finished, Killed
    <2>3. /\ Log' = Log /\ tmpName' \in Nat \ {0} /\ content'[tmpName'] = <<>>
      <3>1. CASE tmpName = 0 /\ tmpName' = Len(content) + 1 /\ content' = Append(content, <<>>)
        <4>1. content'[Len(content) + 1] = <<>> /\ \A k \in 1..Len(content) : content'[k] = content[k]
          BY <1>t, <3>1, FileMade
        <4> QED BY <1>t, <1>l, <2>1, <3>1, <4>1
      <3>2. CASE tmpName # 0 /\ tmpName' = tmpName /\ content' = [content EXCEPT ![tmpName] = <<>>]
        <4>1. tmpName \in 1..Len(content) /\ logName # tmpName
          BY <1>t, <3>2
        <4> QED BY <1>t, <1>l, <2>1, <3>2, <4>1
      <3> QED BY <2>1, <3>1, <3>2
    <2>4. /\ \A v \in Writer \ {w} : writer'[v] = writer[v]
          /\ writer'[w].at = "fill" /\ writer'[w].file = tmpName' /\ writer'[w].n = 0
      BY <2>1, <2>3, WriterMoves DEF LogInv, Places
    <2>5. SubSeq(kept[w], 1, 0) = <<>> /\ 0 \in 0..Len(kept[w])
      BY <1>t
    <2>6. Trimming(w)'
      BY <1>w, <2>1, <2>2, <2>3, <2>4, <2>5 DEF Trimming
    <2> QED BY <1>a, <2>4, <2>6 DEF Alone
  <1>4. CASE PathLog!TrimWrite(w)
    <2> DEFINE c == kept[w][n + 1]
    <2>1. /\ writer[w].at = "fill" /\ n < Len(kept[w]) /\ PathLog!Wrote(w)
          /\ content' = [content EXCEPT ![writer[w].file] =
                            PathLog!Overwritten(content[writer[w].file], n + 1, c)]
          /\ UNCHANGED <<logName, tmpName, kept>>
      BY <1>4 DEF PathLog!TrimWrite, n
    <2>2. /\ Log = Whole(w) /\ kept[w] = PathLog!Newest(Whole(w))
          /\ tmpName # 0 /\ writer[w].file = tmpName /\ content[tmpName] = SubSeq(kept[w], 1, n)
      BY <2>1 DEF Alone, Appending, Trimming, Finished, Killed, n
    <2>3. c \in Piece
      BY <1>t, <2>1
    <2>4. tmpName \in 1..Len(content) /\ logName # tmpName
      BY <1>t, <2>2
    <2> HIDE DEF c
    <2>5. SubSeq(kept[w], 1, n) \in Seq(Piece) /\ Len(SubSeq(kept[w], 1, n)) = n
          /\ Append(SubSeq(kept[w], 1, n), c) = SubSeq(kept[w], 1, n + 1)
      BY <1>t, <2>1, NextPiece DEF c
    <2>6. PathLog!Overwritten(content[tmpName], n + 1, c) = SubSeq(kept[w], 1, n + 1)
      <3>1. /\ content[tmpName] \in Seq(Piece) /\ Len(content[tmpName]) + 1 = n + 1
            /\ n + 1 \in Nat \ {0}
        BY <1>t, <2>2, <2>5
      <3>2. PathLog!Overwritten(content[tmpName], n + 1, c) = Append(content[tmpName], c)
        BY <2>3, <3>1, Overwrites
      <3> QED BY <2>2, <2>5, <3>2
    <2>7. content'[tmpName] = SubSeq(kept[w], 1, n + 1) /\ Log' = Log
      BY <1>t, <1>l, <2>1, <2>2, <2>4, <2>6
    <2>8. /\ \A v \in Writer \ {w} : writer'[v] = writer[v]
          /\ writer'[w].at = "fill" /\ writer'[w].file = tmpName /\ writer'[w].n = n + 1
      BY <2>1, <2>2, WriterMoves DEF LogInv, n
    <2>9. n + 1 \in 0..Len(kept[w])
      BY <1>t, <2>1
    <2>10. Trimming(w)'
      BY <1>w, <2>1, <2>2, <2>7, <2>8, <2>9 DEF Trimming
    <2> QED BY <1>a, <2>8, <2>10 DEF Alone
  <1>5. CASE PathLog!TrimRename(w)
    <2>1. /\ writer[w].at = "fill" /\ n = Len(kept[w]) /\ PathLog!Goto(w, "done", 0) /\ UNCHANGED content
          /\ tmpName # 0 => logName' = tmpName
      BY <1>5 DEF PathLog!TrimRename, n
    <2>2. /\ kept[w] = PathLog!Newest(Whole(w)) /\ tmpName # 0 /\ content[tmpName] = SubSeq(kept[w], 1, n)
      BY <2>1 DEF Alone, Appending, Trimming, Finished, Killed, n
    <2>3. content[tmpName] = kept[w]
      BY <1>t, <2>1, <2>2
    <2>4. Log' = PathLog!Newest(Whole(w))
      BY <1>l, <2>1, <2>2, <2>3
    <2>5. (\A v \in Writer \ {w} : writer'[v] = writer[v]) /\ writer'[w].at = "done"
      BY <2>1, WriterMoves DEF LogInv, Places
    <2>6. Finished(w)'
      BY <1>w, <2>4, <2>5 DEF Finished
    <2> QED BY <1>a, <2>5, <2>6 DEF Alone
  <1>6. CASE PathLog!Crash(w)
    <2>1. PathLog!Active(w) /\ PathLog!Goto(w, "dead", 0) /\ UNCHANGED <<logName, content>>
      BY <1>6 DEF PathLog!Crash
    <2>2. \E i \in 0..Len(line) : Log = base \o SubSeq(line, 1, i)
      <3>1. CASE Appending(w)
        BY <3>1 DEF Appending, line
      <3>2. CASE Trimming(w)
        <4>1. Len(line) \in 0..Len(line)
          BY <1>i
        <4> QED BY <1>w, <3>2, <4>1 DEF Trimming
      <3> QED BY <2>1, <3>1, <3>2 DEF Alone, Finished, Killed, PathLog!Active
    <2>3. (\A v \in Writer \ {w} : writer'[v] = writer[v]) /\ writer'[w].at = "dead"
      BY <2>1, WriterMoves DEF LogInv, Places
    <2>4. Log' = Log
      BY <1>l, <2>1
    <2>5. Killed(w)'
      BY <2>2, <2>3, <2>4 DEF Killed, line
    <2> QED BY <1>a, <2>3, <2>5 DEF Alone
  <1> QED BY <1>1, <1>2, <1>3, <1>4, <1>5, <1>6

LEMMA AloneKept ==
  ASSUME LogInv, PathLog!Next, NEW u \in Writer, by' = u
  PROVE  Alone(u)'
  <1>1. PICK w \in Writer :
          \/ PathLog!Open(w) \/ PathLog!AppendWrite(w) \/ PathLog!TrimRead(w) \/ PathLog!TrimCreate(w)
          \/ PathLog!TrimWrite(w) \/ PathLog!TrimRename(w) \/ PathLog!Crash(w)
    BY DEF PathLog!Next
  <1>2. CASE PathLog!Open(w)
    <2>1. u = w
      BY <1>2, LogConstants DEF PathLog!Open
    <2> QED BY <1>2, <2>1, OpenAlone
  <1>3. CASE ~PathLog!Open(w)
    <2>1. by' = by /\ base' = base /\ PathLog!Active(w)
      BY <1>1, <1>3 DEF PathLog!AppendWrite, PathLog!TrimRead, PathLog!TrimCreate, PathLog!TrimWrite,
         PathLog!TrimRename, PathLog!Crash, PathLog!Active
    <2>2. Alone(u) /\ by = u
      BY <2>1 DEF LogInv
    <2>3. w = u
      BY <2>1, <2>2 DEF Alone
    <2> QED BY <1>1, <1>3, <2>1, <2>2, <2>3, WorkAlone
  <1> QED BY <1>2, <1>3

(* record_sample: whatever state killed and overlapping runs left the log    *)
(* in, a run that then has it to itself loses nothing but the oldest lines,  *)
(* wherever it dies, and leaves no more than MAX_LINES.                      *)
THEOREM LogStays == Spec => [](PathLog!NewestKept /\ PathLog!LogBounded)
  <1>1. Init => LogInv
    BY LogInit DEF Init
  <1>2. LogInv /\ [Next]_vars => LogInv'
    <2> SUFFICES ASSUME LogInv, [Next]_vars PROVE LogInv'
      OBVIOUS
    <2>1. CASE PathLogStep
      BY <2>1, LogTypesKept, AloneKept DEF PathLogStep, LogInv
    <2>2. CASE UNCHANGED logVars
      <3>1. UNCHANGED <<logName, tmpName, content, writer, kept, by, base>> /\ Log' = Log
        BY <2>2 DEF logVars, Log, PathLog!Text
      <3>2. LogTyped'
        BY <3>1 DEF LogInv, LogTyped
      <3>3. ASSUME NEW w \in Writer, by' = w
            PROVE  Alone(w)'
        <4>1. Alone(w)
          BY <3>1, <3>3 DEF LogInv
        <4>2. (\A v \in Writer : PathLog!Active(v) => v = w)'
          BY <3>1, <4>1 DEF Alone, PathLog!Active
        <4>3. Appending(w) => Appending(w)'
          BY <3>1 DEF Appending
        <4>4. Trimming(w) => Trimming(w)'
          BY <3>1 DEF Trimming, Whole
        <4>5. Finished(w) => Finished(w)'
          BY <3>1 DEF Finished, Whole
        <4>6. Killed(w) => Killed(w)'
          BY <3>1 DEF Killed
        <4> QED BY <4>1, <4>2, <4>3, <4>4, <4>5, <4>6 DEF Alone
      <3> QED BY <3>2, <3>3 DEF LogInv
    <2> QED BY <2>1, <2>2 DEF Next, vars, ContactsStep, IdentityStep, MonitorStep, CtlStep, DeviceStep
  <1>3. LogInv => PathLog!NewestKept /\ PathLog!LogBounded
    <2> SUFFICES ASSUME LogInv, NEW w \in Writer, by = w
                 PROVE  /\ \/ Log = PathLog!Newest(Whole(w))
                           \/ /\ writer[w].at # "done"
                              /\ \E i \in 0..Len(PathLog!Line(w)) :
                                   Log = base \o SubSeq(PathLog!Line(w), 1, i)
                        /\ writer[w].at = "done" => PathLog!LineCount(Log) <= MaxLines
      BY DEF LogInv, LogTyped, PathLog!NewestKept, PathLog!LogBounded, Whole, Log
    <2>1. Alone(w)
      BY DEF LogInv
    <2>2. CASE Appending(w)
      BY <2>2 DEF Appending
    <2>3. CASE Trimming(w)
      <3>1. Whole(w) = base \o SubSeq(PathLog!Line(w), 1, Len(PathLog!Line(w)))
        BY WholeIs DEF LogInv, Whole
      <3>2. Len(PathLog!Line(w)) \in 0..Len(PathLog!Line(w))
        BY LineIs
      <3> QED BY <2>3, <3>1, <3>2 DEF Trimming
    <2>4. CASE Finished(w)
      BY <2>4 DEF Finished
    <2>5. CASE Killed(w)
      BY <2>5 DEF Killed
    <2> QED BY <2>1, <2>2, <2>3, <2>4, <2>5 DEF Alone
  <1> QED BY <1>1, <1>2, <1>3, PTL DEF Spec

(* What the program keeps in files: the secret key unless a read of it      *)
(* fails or it is rewritten in place, the contacts of edits that came one   *)
(* after the other, and the newest path outcomes of runs that do not        *)
(* overlap.                                                                 *)
THEOREM FilesStay == Spec => []FilesKept
  <1>1. (Identity!TypeOK /\ Identity!StableOrRefused /\ Identity!KeyOnDisk)
        /\ Contacts!SavedNameDials /\ (PathLog!NewestKept /\ PathLog!LogBounded) => FilesKept
    BY DEF FilesKept
  <1> QED BY <1>1, IdentityStays, SavedNamesDial, LogStays, PTL
=============================================================================
