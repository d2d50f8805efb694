---------------------------- MODULE SpokeProofs ----------------------------
(* Proofs about a TUN spoke for every set of peers, every allow list and     *)
(* every number of hub sessions, direct links and membership changes.        *)
EXTENDS Spoke, TLAPS

(* A task's copy is the table itself until somebody stores: what mesh_update *)
(* relies on and does not enforce.                                           *)
Fresh == ~overlap => \A t \in Task : Updating(t) => copy[t] = mesh

(* A direct-link task knows its peer from the start. *)
Started == \A l \in Link : link[l] # "free" => peer[l] \in Peer

(* Entries of the direct indexes point at running links that announced them. *)
Direct ==
    ~overlap => \A k \in Key : mesh.direct[k] # None =>
                    /\ k \in Keys(mesh.direct[k])
                    /\ link[mesh.direct[k]] \in {"up", "closing"}

(* The inductive strengthening of TableSound. *)
TableInv == TypeOK /\ Fresh /\ Started /\ HubEntry /\ Direct

LEMMA TaskFacts ==
  /\ LoopTask \in Task /\ RosterTask \in Task /\ \A l \in Link : l \in Task
  /\ MaxLink \in Nat /\ MaxConn \in Nat /\ MaxMove \in Nat
  BY SpokeConstants DEF Task, LoopTask, RosterTask, Link

-----------------------------------------------------------------------------
(* What the closures of mesh_update do to a table                            *)

LEMMA HubTables ==
  ASSUME NEW t \in Table, conn \in 0..MaxConn
  PROVE  /\ WithHub(t) \in Table /\ WithHub(t).hub = conn
         /\ WithHub(t).direct = t.direct /\ t.roster \subseteq WithHub(t).roster
         /\ ClearHub(t) \in Table /\ ClearHub(t).hub = None
         /\ ClearHub(t).direct = t.direct /\ ClearHub(t).roster = t.roster
  <1>1. t.direct \in [Key -> 0..MaxLink] /\ t.roster \subseteq Peer \cup {"hub"}
    BY DEF Table
  <1>2. WithHub(t) = [hub |-> conn, direct |-> t.direct, roster |-> t.roster \cup {"hub"}]
    BY DEF WithHub, Table
  <1>3. ClearHub(t) = [hub |-> 0, direct |-> t.direct, roster |-> t.roster]
    BY DEF ClearHub, Table, None
  <1>4. WithHub(t) \in Table /\ ClearHub(t) \in Table
    BY <1>1, <1>2, <1>3, TaskFacts DEF Table
  <1> QED BY <1>2, <1>3, <1>4 DEF None

LEMMA EntryTables ==
  ASSUME NEW t \in Table, NEW p \in Peer
  PROVE  /\ WithEntry(t, p) \in Table /\ WithEntry(t, p).hub = t.hub
         /\ WithEntry(t, p).direct = t.direct
         /\ WithEntry(t, p).roster = t.roster \cup {p}
         /\ WithoutEntry(t, p) \in Table /\ WithoutEntry(t, p).hub = t.hub
         /\ WithoutEntry(t, p).roster = t.roster \ {p}
         /\ \A k \in Key : \/ WithoutEntry(t, p).direct[k] = None
                            \/ WithoutEntry(t, p).direct[k] = t.direct[k]
  <1> DEFINE d == [k \in Key |-> IF k[2] = p THEN None ELSE t.direct[k]]
  <1>1. /\ t.hub \in 0..MaxConn /\ t.direct \in [Key -> 0..MaxLink]
        /\ t.roster \subseteq Peer \cup {"hub"}
    BY DEF Table
  <1>2. WithEntry(t, p) = [hub |-> t.hub, direct |-> t.direct, roster |-> t.roster \cup {p}]
    BY DEF WithEntry, Table
  <1>3. WithoutEntry(t, p) = [hub |-> t.hub, direct |-> d, roster |-> t.roster \ {p}]
    BY DEF WithoutEntry, Table
  <1>4. d \in [Key -> 0..MaxLink] /\ \A k \in Key : d[k] = None \/ d[k] = t.direct[k]
    BY <1>1, TaskFacts DEF None
  <1> HIDE DEF d
  <1>5. WithEntry(t, p) \in Table /\ WithoutEntry(t, p) \in Table
    BY <1>1, <1>2, <1>3, <1>4 DEF Table
  <1>6. WithoutEntry(t, p).direct = d
    BY <1>3
  <1> QED BY <1>2, <1>3, <1>4, <1>5, <1>6

LEMMA DirectTables ==
  ASSUME NEW t \in Table, NEW l \in Link, peer[l] \in Peer
  PROVE  /\ WithDirect(t, l) \in Table /\ WithDirect(t, l).hub = t.hub
         /\ WithDirect(t, l).direct
              = [k \in Key |-> IF k \in Keys(l) THEN l ELSE t.direct[k]]
         /\ t.roster \subseteq WithDirect(t, l).roster
         /\ WithoutDirect(t, l) \in Table /\ WithoutDirect(t, l).hub = t.hub
         /\ WithoutDirect(t, l).direct
              = [k \in Key |-> IF k \in Keys(l) THEN None ELSE t.direct[k]]
         /\ WithoutDirect(t, l).roster = t.roster
  <1> DEFINE D(v) == [k \in Key |-> IF k \in Keys(l) THEN v ELSE t.direct[k]]
  <1>1. /\ t.hub \in 0..MaxConn /\ t.direct \in [Key -> 0..MaxLink]
        /\ t.roster \subseteq Peer \cup {"hub"}
    BY DEF Table
  <1>2. WithDirect(t, l) = [hub |-> t.hub, direct |-> D(l), roster |-> t.roster \cup {peer[l]}]
    BY DEF WithDirect, Table
  <1>3. WithoutDirect(t, l) = [hub |-> t.hub, direct |-> D(None), roster |-> t.roster]
    BY DEF WithoutDirect, Table
  <1>4. None \in 0..MaxLink /\ l \in 0..MaxLink
    BY TaskFacts DEF None, Link
  <1>5. D(None) \in [Key -> 0..MaxLink] /\ D(l) \in [Key -> 0..MaxLink]
    BY <1>1, <1>4
  <1>6. WithDirect(t, l) \in Table /\ WithoutDirect(t, l) \in Table
    BY <1>1, <1>2, <1>3, <1>5 DEF Table
  <1> QED BY <1>2, <1>3, <1>6

-----------------------------------------------------------------------------
(* mesh_update                                                               *)

LEMMA LoadKeeps ==
  ASSUME TableInv, NEW t \in Task, Load(t), UNCHANGED <<mesh, overlap>>
  PROVE  copy' \in [Task -> Table \cup {<<>>}] /\ Fresh'
  BY DEF TableInv, TypeOK, Load, Fresh, Updating

(* A store that raises no alarm wrote a change of the table as it was. *)
LEMMA StoreKeeps ==
  ASSUME TableInv, NEW t \in Task, Updating(t), NEW table \in Table, Store(t, table)
  PROVE  /\ mesh' = table /\ mesh' \in Table /\ overlap' \in BOOLEAN
         /\ copy' \in [Task -> Table \cup {<<>>}] /\ Fresh'
         /\ copy[t] \in Table
         /\ ~overlap' => ~overlap /\ copy[t] = mesh
  <1> USE DEF TableInv
  <1>1. /\ mesh' = table /\ copy' = [copy EXCEPT ![t] = <<>>]
        /\ overlap' = (overlap \/ \E u \in Task \ {t} : Updating(u))
    BY DEF Store
  <1>2. copy[t] \in Table /\ copy' \in [Task -> Table \cup {<<>>}]
    BY <1>1 DEF TypeOK, Updating
  <1>3. overlap' \in BOOLEAN /\ (~overlap' => ~overlap /\ \A u \in Task \ {t} : ~Updating(u))
    BY <1>1 DEF TypeOK
  <1>4. ~overlap' => copy[t] = mesh
    BY <1>3 DEF Fresh
  <1>5. Fresh'
    BY <1>1, <1>3 DEF Fresh, Updating, TypeOK
  <1> QED BY <1>1, <1>2, <1>3, <1>4, <1>5

LEMMA InitTableInv == Init => TableInv
  <1> SUFFICES ASSUME Init PROVE TableInv
    OBVIOUS
  <1>1. mesh \in Table /\ mesh.hub = None /\ \A k \in Key : mesh.direct[k] = None
    BY TaskFacts DEF Init, Table, None
  <1>2. /\ Quiet \in Reader /\ <<>> \in Seq(Msg) /\ "dial" \in LoopPoint
        /\ 0 \in 0..MaxConn /\ 0 \in 0..MaxMove
    BY TaskFacts DEF Quiet, Reader, LoopPoint
  <1>5. vip \in [Link -> Addr \X Addr]
    BY SpokeConstants DEF Init
  <1>4. TypeOK
    BY <1>1, <1>2, <1>5 DEF Init, TypeOK
  <1>3. Fresh /\ Started
    BY DEF Init, Fresh, Updating, Started
  <1> QED BY <1>1, <1>3, <1>4 DEF Init, TableInv, HubEntry, Direct

(* A step that moves no link into or out of its running points. *)
LEMMA DirectFrame ==
  ASSUME TableInv, UNCHANGED <<mesh, overlap>>,
         \A l \in Link : link[l] \in {"up", "closing"} =>
                            link'[l] \in {"up", "closing"} /\ vip'[l] = vip[l]
  PROVE  Direct'
  <1>1. \A k \in Key : mesh.direct[k] # None => mesh.direct[k] \in Link
    BY TaskFacts DEF TableInv, TypeOK, Table, Link, None
  <1> QED BY <1>1 DEF TableInv, Direct, Keys

(* Direct in the next state, with the keys of the links written out. *)
LEMMA DirectNext ==
  ASSUME \A k \in Key : ~overlap' /\ mesh'.direct[k] # None =>
            /\ k \in {<<4, vip'[mesh'.direct[k]][1]>>, <<6, vip'[mesh'.direct[k]][2]>>}
            /\ link'[mesh'.direct[k]] \in {"up", "closing"}
  PROVE  Direct'
  BY DEF Direct, Keys

(* A step that leaves the table, every copy and every link alone. *)
LEMMA TableFrame ==
  ASSUME TableInv, UNCHANGED <<mesh, copy, link, peer, vip, overlap>>
  PROVE  Fresh' /\ Started' /\ Direct'
  <1>1. Fresh' /\ Started'
    BY DEF TableInv, Fresh, Updating, Started
  <1> QED BY <1>1, DirectFrame

(* The session loop. *)
LEMMA LoopTableKeeps ==
  ASSUME TableInv,
         \/ HubConnects \/ SessionFails \/ SetUp \/ InstallHub \/ ClearsHub
         \/ \E stop \in BOOLEAN : SessionEnds(stop) \/ SleepEnds(stop)
  PROVE  TableInv'
  <1> USE DEF TableInv, loopVars, linkVars, hubVars
  <1>1. CASE HubConnects \/ SessionFails \/ SetUp
             \/ \E stop \in BOOLEAN : SessionEnds(stop) \/ SleepEnds(stop)
    <2>1. UNCHANGED <<mesh, copy, link, peer, vip, linkUp, member, moves, overlap>>
      BY <1>1 DEF HubConnects, SessionFails, SetUp, SessionEnds, SleepEnds
    <2>2. /\ conn' \in 0..MaxConn /\ hubUp' \in BOOLEAN /\ route' \in BOOLEAN
          /\ loop' \in LoopPoint
      <3>1. {"dial", "setup", "install", "clear", "quit", "sleep", "stopped"} \subseteq LoopPoint
        BY DEF LoopPoint
      <3>2. conn \in 0..MaxConn /\ hubUp \in BOOLEAN /\ route \in BOOLEAN
        BY DEF TypeOK
      <3>3. CASE HubConnects
        BY <3>1, <3>2, <3>3, TaskFacts DEF HubConnects
      <3>4. CASE SessionFails \/ SetUp
        BY <3>1, <3>2, <3>4 DEF SessionFails, SetUp
      <3>5. ASSUME NEW stop \in BOOLEAN, SessionEnds(stop) \/ SleepEnds(stop)
            PROVE  /\ conn' = conn /\ hubUp' \in BOOLEAN /\ route' = route
                   /\ loop' \in LoopPoint
        BY <3>1, <3>2, <3>5 DEF SessionEnds, SleepEnds
      <3> QED BY <1>1, <3>2, <3>3, <3>4, <3>5
    <2>3. ctrl' \in Seq(Msg) /\ reader' \in Reader
      <3>1. Quiet \in Reader
        BY DEF Quiet, Reader
      <3>2. [kind |-> "snapshot", who |-> member] \in Msg
        BY DEF Msg, TypeOK
      <3>3. <<[kind |-> "snapshot", who |-> member]>> \in Seq(Msg) /\ <<>> \in Seq(Msg)
        BY <3>2
      <3> QED BY <1>1, <3>1, <3>3
              DEF HubConnects, SessionFails, SetUp, SessionEnds, SleepEnds, TypeOK
    <2>4. TypeOK'
      BY <2>1, <2>2, <2>3 DEF TypeOK
    <2>5. HubEntry'
      BY <1>1, <2>1 DEF HubConnects, SessionFails, SetUp, SessionEnds, SleepEnds, HubEntry
    <2> QED BY <2>1, <2>4, <2>5, TableFrame
  <1>2. CASE /\ InstallHub \/ ClearsHub
             /\ ~Updating(LoopTask) /\ Load(LoopTask) /\ UNCHANGED <<mesh, loop, route, overlap>>
             /\ UNCHANGED <<reader, conn, hubUp, ctrl, linkVars, hubVars>>
    <2>1. copy' \in [Task -> Table \cup {<<>>}] /\ Fresh'
      BY <1>2, TaskFacts, LoadKeeps
    <2>2. TypeOK' /\ Started' /\ HubEntry'
      BY <1>2, <2>1 DEF TypeOK, Started, HubEntry
    <2> QED BY <1>2, <2>1, <2>2, DirectFrame
  <1>3. ASSUME NEW table \in Table, Updating(LoopTask), Store(LoopTask, table),
               table.direct = copy[LoopTask].direct,
               table.hub = (IF loop' \in {"up", "clear", "quit"} THEN conn ELSE None),
               loop' \in {"up", "sleep", "stopped"}, route' \in BOOLEAN,
               reader' \in Reader,
               UNCHANGED <<conn, hubUp, ctrl, link, peer, vip, linkUp, member, moves>>
        PROVE  TableInv'
    <2>1. /\ mesh' = table /\ mesh' \in Table /\ overlap' \in BOOLEAN
          /\ copy' \in [Task -> Table \cup {<<>>}] /\ Fresh'
          /\ ~overlap' => ~overlap /\ copy[LoopTask] = mesh
      BY <1>3, TaskFacts, StoreKeeps
    <2>2. TypeOK' /\ Started' /\ HubEntry'
      BY <1>3, <2>1 DEF TypeOK, LoopPoint, Started, HubEntry
    <2>3. Direct'
      <3>1. vip' = vip /\ link' = link /\ (~overlap' => mesh'.direct = mesh.direct)
        BY <1>3, <2>1
      <3>2. \A k \in Key : ~overlap /\ mesh.direct[k] # None =>
               /\ k \in {<<4, vip[mesh.direct[k]][1]>>, <<6, vip[mesh.direct[k]][2]>>}
               /\ link[mesh.direct[k]] \in {"up", "closing"}
        BY DEF Direct, Keys
      <3> QED BY <2>1, <3>1, <3>2, DirectNext
    <2> QED BY <2>1, <2>2, <2>3
  <1>4. Updating(LoopTask) => copy[LoopTask] \in Table
    BY TaskFacts DEF Updating, TypeOK
  <1>5. CASE InstallHub /\ Updating(LoopTask)
    <2>1. /\ Store(LoopTask, WithHub(copy[LoopTask])) /\ loop' = "up"
          /\ reader' = [Quiet EXCEPT !.at = "read"] /\ route' = route
          /\ UNCHANGED <<conn, hubUp, ctrl, link, peer, vip, linkUp, member, moves>>
      BY <1>5 DEF InstallHub
    <2>2. /\ WithHub(copy[LoopTask]) \in Table /\ WithHub(copy[LoopTask]).hub = conn
          /\ WithHub(copy[LoopTask]).direct = copy[LoopTask].direct
      BY <1>4, <1>5, HubTables DEF TypeOK
    <2>3. route' \in BOOLEAN
          /\ reader' \in Reader
      BY <2>1 DEF Quiet, Reader, TypeOK
    <2> QED BY <1>3, <1>5, <2>1, <2>2, <2>3
  <1>6. CASE ClearsHub /\ Updating(LoopTask)
    <2>1. /\ Store(LoopTask, ClearHub(copy[LoopTask])) /\ loop' \in {"sleep", "stopped"}
          /\ route' = (route /\ loop # "quit")
          /\ UNCHANGED <<reader, conn, hubUp, ctrl, link, peer, vip, linkUp, member, moves>>
      BY <1>6 DEF ClearsHub
    <2>2. /\ ClearHub(copy[LoopTask]) \in Table /\ ClearHub(copy[LoopTask]).hub = None
          /\ ClearHub(copy[LoopTask]).direct = copy[LoopTask].direct
      BY <1>4, <1>6, HubTables DEF TypeOK
    <2>3. route' \in BOOLEAN
          /\ reader' \in Reader
      BY <2>1 DEF TypeOK
    <2> QED BY <1>3, <1>6, <2>1, <2>2, <2>3
  <1> QED BY <1>1, <1>2, <1>5, <1>6 DEF InstallHub, ClearsHub

(* Spawns: one free slot becomes a task of p. *)
LEMMA SpawnKeeps ==
  ASSUME TableInv, NEW p \in Peer, NEW pair \in Addr \X Addr,
         NEW at \in {"check", "install"}, Spawns(p, pair, at)
  PROVE  /\ link' \in [Link -> {"free", "check", "dial", "install", "up", "closing", "done"}]
         /\ peer' \in [Link -> Peer \cup {Nobody}] /\ Started'
         /\ vip' \in [Link -> Addr \X Addr]
         /\ \A l \in Link : link[l] # "free" => link'[l] = link[l] /\ vip'[l] = vip[l]
  <1>1. PICK l \in Link : /\ link[l] = "free" /\ link' = [link EXCEPT ![l] = at]
                          /\ peer' = [peer EXCEPT ![l] = p]
                          /\ vip' = [vip EXCEPT ![l] = pair]
    BY DEF Spawns
  <1> QED BY <1>1 DEF TableInv, TypeOK, Started

(* The roster reader. *)
LEMMA ReaderTableKeeps ==
  ASSUME TableInv, ReaderStep
  PROVE  TableInv'
  <1> USE DEF TableInv, loopVars, linkVars, hubVars
  <1>1. CASE ReadMsg \/ CtrlCloses
    <2>1. UNCHANGED <<mesh, copy, loop, conn, hubUp, route, link, peer, vip, linkUp, member,
                      moves, overlap>>
      BY <1>1 DEF ReadMsg, CtrlCloses
    <2>2. ctrl' \in Seq(Msg) /\ reader' \in Reader
      <3>1. CASE ReadMsg
        <4>1. ctrl \in Seq(Msg) /\ ctrl # <<>> /\ ctrl' = Tail(ctrl)
          BY <3>1 DEF ReadMsg, TypeOK
        <4>2. Head(ctrl) \in Msg /\ Tail(ctrl) \in Seq(Msg)
          BY <4>1
        <4>3. [at |-> "apply", kind |-> Head(ctrl).kind, todo |-> Head(ctrl).who] \in Reader
          BY <4>2 DEF Msg, Reader
        <4> QED BY <3>1, <4>1, <4>2, <4>3 DEF ReadMsg, TypeOK
      <3>2. CASE CtrlCloses
        BY <3>2 DEF CtrlCloses, Quiet, Reader, TypeOK
      <3> QED BY <1>1, <3>1, <3>2
    <2>3. TypeOK' /\ HubEntry'
      BY <2>1, <2>2 DEF TypeOK, HubEntry
    <2> QED BY <2>1, <2>3, TableFrame
  <1>2. CASE LoadEntry
    <2>1. copy' \in [Task -> Table \cup {<<>>}] /\ Fresh'
      BY <1>2, TaskFacts, LoadKeeps DEF LoadEntry
    <2>2. UNCHANGED <<mesh, loop, conn, hubUp, route, reader, ctrl, link, peer, vip, linkUp,
                      member, moves, overlap>>
      BY <1>2 DEF LoadEntry
    <2>3. TypeOK' /\ Started' /\ HubEntry'
      BY <2>1, <2>2 DEF TypeOK, Started, HubEntry
    <2> QED BY <2>1, <2>2, <2>3, DirectFrame
  <1>3. ASSUME NEW p \in Peer, StoreEntry(p) PROVE TableInv'
    <2> DEFINE t == copy[RosterTask]
    <2>1. Updating(RosterTask) /\ t \in Table
      BY <1>3, TaskFacts DEF StoreEntry, Updating, TypeOK
    <2>2. PICK table \in Table :
             /\ Store(RosterTask, table) /\ table.hub = t.hub
             /\ \A k \in Key : table.direct[k] \in {None, t.direct[k]}
      BY <1>3, <2>1, EntryTables DEF StoreEntry
    <2>3. /\ mesh' = table /\ mesh' \in Table /\ overlap' \in BOOLEAN
          /\ copy' \in [Task -> Table \cup {<<>>}] /\ Fresh'
          /\ ~overlap' => ~overlap /\ t = mesh
      BY <2>1, <2>2, TaskFacts, StoreKeeps
    <2>4. /\ link' \in [Link -> {"free", "check", "dial", "install", "up", "closing", "done"}]
          /\ peer' \in [Link -> Peer \cup {Nobody}] /\ Started' /\ UNCHANGED linkUp
          /\ vip' \in [Link -> Addr \X Addr]
          /\ \A l \in Link : link[l] # "free" => link'[l] = link[l] /\ vip'[l] = vip[l]
      <3>1. CASE Spawns(p, <<p, p>>, "check") /\ UNCHANGED linkUp
        <4>1. <<p, p>> \in Addr \X Addr
          BY SpokeConstants
        <4> QED BY <3>1, <4>1, SpawnKeeps
      <3>2. CASE UNCHANGED linkVars
        BY <3>2 DEF TypeOK, Started
      <3> QED BY <1>3, <3>1, <3>2 DEF StoreEntry, TryDialPeer
    <2>5. /\ reader' \in Reader
          /\ UNCHANGED <<loop, conn, hubUp, route, ctrl, member, moves>>
      <3>1. reader' = [at |-> IF reader.todo # {p} THEN "apply"
                              ELSE IF loop = "up" THEN "read" ELSE "off",
                       kind |-> reader.kind, todo |-> reader.todo \ {p}]
            /\ UNCHANGED <<loop, conn, hubUp, route, ctrl, member, moves>>
        BY <1>3 DEF StoreEntry
      <3>2. reader' \in Reader
        BY <3>1 DEF TypeOK, Reader
      <3> QED BY <3>1, <3>2
    <2>6. TypeOK' /\ HubEntry'
      BY <2>2, <2>3, <2>4, <2>5 DEF TypeOK, HubEntry
    <2>7. Direct'
      <3> SUFFICES ASSUME ~overlap', NEW k \in Key, mesh'.direct[k] # None
                   PROVE  /\ k \in {<<4, vip'[mesh'.direct[k]][1]>>, <<6, vip'[mesh'.direct[k]][2]>>}
                          /\ link'[mesh'.direct[k]] \in {"up", "closing"}
        BY DirectNext
      <3>1. mesh.direct \in [Key -> 0..MaxLink] /\ mesh'.direct[k] = mesh.direct[k]
        BY <2>1, <2>2, <2>3 DEF Table
      <3>2. mesh.direct[k] \in Link
        BY <3>1, TaskFacts DEF Link, None
      <3>3. k \in Keys(mesh.direct[k]) /\ link[mesh.direct[k]] \in {"up", "closing"}
        BY <2>3, <3>1 DEF Direct
      <3>4. link'[mesh.direct[k]] = link[mesh.direct[k]] /\ vip'[mesh.direct[k]] = vip[mesh.direct[k]]
        BY <2>4, <3>2, <3>3
      <3> QED BY <3>1, <3>3, <3>4 DEF Keys
    <2> QED BY <2>3, <2>4, <2>6, <2>7
  <1> QED BY <1>1, <1>2, <1>3 DEF ReaderStep

(* The task of a direct link. *)
LEMMA LinkTableKeeps ==
  ASSUME TableInv, NEW l \in Link, LinkStep(l)
  PROVE  TableInv'
  <1> USE DEF TableInv, loopVars, linkVars, hubVars
  <1>1. /\ UNCHANGED <<loop, conn, hubUp, route, reader, ctrl, peer, vip, member, moves>>
        /\ linkUp' \subseteq Link
    BY DEF LinkStep, CheckDial, DialPeer, InstallDirect, DirectEnds, RemoveDirect, TypeOK
  <1>2. CASE CheckDial(l) \/ DialPeer(l) \/ DirectEnds(l)
    <2>1. UNCHANGED <<mesh, copy, overlap>>
      BY <1>2 DEF CheckDial, DialPeer, DirectEnds
    <2>2. PICK at \in {"dial", "done", "install", "closing"} :
             /\ link' = [link EXCEPT ![l] = at]
             /\ link[l] \in {"check", "dial"} \/ (link[l] = "up" /\ at = "closing")
      BY <1>2 DEF CheckDial, DialPeer, DirectEnds, To
    <2>3. TypeOK' /\ Started' /\ HubEntry' /\ Fresh'
      BY <1>1, <2>1, <2>2 DEF TypeOK, Started, HubEntry, Fresh, Updating
    <2>4. Direct'
      BY <1>1, <2>1, <2>2, DirectFrame DEF TypeOK
    <2> QED BY <2>3, <2>4
  <1>3. CASE /\ InstallDirect(l) \/ RemoveDirect(l)
             /\ ~Updating(l) /\ Load(l) /\ UNCHANGED <<mesh, link, overlap>>
    <2>1. copy' \in [Task -> Table \cup {<<>>}] /\ Fresh'
      BY <1>3, TaskFacts, LoadKeeps
    <2>2. TypeOK' /\ Started' /\ HubEntry'
      BY <1>1, <1>3, <2>1 DEF TypeOK, Started, HubEntry
    <2> QED BY <1>1, <1>3, <2>1, <2>2, DirectFrame
  <1>4. ASSUME NEW table \in Table, NEW new \in {l, None}, NEW at \in {"up", "done"},
               Updating(l), Store(l, table), link' = [link EXCEPT ![l] = at],
               table.hub = copy[l].hub, peer[l] \in Peer, new = l => at = "up",
               table.direct = [k \in Key |-> IF k \in Keys(l) THEN new ELSE copy[l].direct[k]]
        PROVE  TableInv'
    <2>1. /\ mesh' = table /\ mesh' \in Table /\ overlap' \in BOOLEAN
          /\ copy' \in [Task -> Table \cup {<<>>}] /\ Fresh' /\ copy[l] \in Table
          /\ ~overlap' => ~overlap /\ copy[l] = mesh
      BY <1>4, TaskFacts, StoreKeeps
    <2>2. TypeOK' /\ Started' /\ HubEntry'
      BY <1>1, <1>4, <2>1 DEF TypeOK, Started, HubEntry
    <2>3. Direct'
      <3> SUFFICES ASSUME ~overlap', NEW k \in Key, mesh'.direct[k] # None
                   PROVE  /\ k \in {<<4, vip'[mesh'.direct[k]][1]>>, <<6, vip'[mesh'.direct[k]][2]>>}
                          /\ link'[mesh'.direct[k]] \in {"up", "closing"}
        BY DirectNext
      <3>1. mesh'.direct[k] = IF k \in Keys(l) THEN new ELSE mesh.direct[k]
        BY <1>4, <2>1
      <3>2. vip' = vip
        BY <1>1
      <3>3. CASE k \in Keys(l)
        BY <1>4, <3>1, <3>2, <3>3 DEF TypeOK, Keys
      <3>4. CASE k \notin Keys(l)
        <4>1. mesh.direct[k] \in Link /\ k \in Keys(mesh.direct[k])
              /\ link[mesh.direct[k]] \in {"up", "closing"}
          BY <2>1, <3>1, <3>4, TaskFacts DEF Direct, TypeOK, Table, Link, None
        <4>2. mesh.direct[k] # l
          BY <3>4, <4>1
        <4> QED BY <1>4, <3>1, <3>2, <3>4, <4>1, <4>2 DEF TypeOK, Keys
      <3> QED BY <3>3, <3>4
    <2> QED BY <2>1, <2>2, <2>3
  <1>5. Updating(l) => copy[l] \in Table
    BY TaskFacts DEF Updating, TypeOK
  <1>6. CASE InstallDirect(l) /\ Updating(l)
    <2>1. /\ Store(l, WithDirect(copy[l], l)) /\ link' = [link EXCEPT ![l] = "up"]
          /\ peer[l] \in Peer
      BY <1>6 DEF InstallDirect, To, Started
    <2> QED BY <1>4, <1>5, <1>6, <2>1, DirectTables
  <1>7. CASE RemoveDirect(l) /\ Updating(l)
    <2>1. /\ Store(l, WithoutDirect(copy[l], l)) /\ link' = [link EXCEPT ![l] = "done"]
          /\ peer[l] \in Peer /\ None # l
      BY <1>7, TaskFacts DEF RemoveDirect, To, Started, None, Link
    <2> QED BY <1>4, <1>5, <1>7, <2>1, DirectTables
  <1> QED BY <1>2, <1>3, <1>6, <1>7 DEF LinkStep, InstallDirect, RemoveDirect

(* Connections die, peers come and go, links come in. *)
LEMMA OutsideTableKeeps ==
  ASSUME TableInv,
         \/ HubDies \/ \E l \in Link : LinkDies(l)
         \/ \E p \in Peer : Moves(p) \/ Repeats(p) \/ Inbound(p)
  PROVE  TableInv'
  <1> USE DEF TableInv, loopVars, linkVars, hubVars
  <1>1. CASE HubDies \/ \E l \in Link : LinkDies(l)
    <2>1. UNCHANGED <<mesh, copy, loop, conn, route, reader, ctrl, link, peer, vip, member,
                      moves, overlap>>
          /\ hubUp' \in BOOLEAN /\ linkUp' \subseteq Link
      BY <1>1 DEF HubDies, LinkDies, TypeOK
    <2>2. TypeOK' /\ HubEntry'
      BY <2>1 DEF TypeOK, HubEntry
    <2> QED BY <2>1, <2>2, TableFrame
  <1>2. ASSUME NEW p \in Peer, Moves(p) \/ Repeats(p) PROVE TableInv'
    <2>1. UNCHANGED <<mesh, copy, loop, conn, hubUp, route, reader, link, peer, vip, linkUp, overlap>>
      BY <1>2 DEF Moves, Repeats
    <2>2. member' \subseteq Peer /\ moves' \in 0..MaxMove
      BY <1>2, TaskFacts DEF Moves, Repeats, TypeOK
    <2>3. ctrl' \in Seq(Msg)
      <3>1. \A k \in {"joined", "left"} : [kind |-> k, who |-> {p}] \in Msg
        BY DEF Msg
      <3>2. \A m \in Msg : Append(ctrl, m) \in Seq(Msg)
        BY DEF TypeOK
      <3>3. PICK k \in {"joined", "left"} :
               ctrl' = ctrl \/ ctrl' = Append(ctrl, [kind |-> k, who |-> {p}])
        BY <1>2 DEF Moves, Repeats
      <3> QED BY <3>1, <3>2, <3>3 DEF TypeOK
    <2>4. TypeOK' /\ HubEntry'
      BY <2>1, <2>2, <2>3 DEF TypeOK, HubEntry
    <2> QED BY <2>1, <2>4, TableFrame
  <1>3. ASSUME NEW p \in Peer, Inbound(p) PROVE TableInv'
    <2>1. /\ UNCHANGED <<mesh, copy, loop, conn, hubUp, route, reader, ctrl, member, moves, overlap>>
          /\ linkUp' \subseteq Link
      BY <1>3 DEF Inbound, TypeOK
    <2>a. PICK pair \in Addr \X Addr : Spawns(p, pair, "install")
      BY <1>3, SpokeConstants DEF Inbound
    <2>2. /\ link' \in [Link -> {"free", "check", "dial", "install", "up", "closing", "done"}]
          /\ peer' \in [Link -> Peer \cup {Nobody}] /\ Started'
          /\ vip' \in [Link -> Addr \X Addr]
          /\ \A l \in Link : link[l] # "free" => link'[l] = link[l] /\ vip'[l] = vip[l]
      BY <2>a, SpawnKeeps
    <2>3. TypeOK' /\ HubEntry' /\ Fresh'
      BY <2>1, <2>2 DEF TypeOK, HubEntry, Fresh, Updating
    <2>4. Direct'
      BY <2>1, <2>2, DirectFrame
    <2> QED BY <2>2, <2>3, <2>4
  <1> QED BY <1>1, <1>2, <1>3

LEMMA StepTableInv == TableInv /\ [Next]_vars => TableInv'
  <1> SUFFICES ASSUME TableInv, [Next]_vars PROVE TableInv'
    OBVIOUS
  <1>1. CASE UNCHANGED vars
    <2>1. UNCHANGED <<mesh, copy, loop, conn, hubUp, route, reader, ctrl, link, peer, vip, linkUp,
                      member, moves, overlap>>
      BY <1>1 DEF vars, loopVars, linkVars, hubVars
    <2>2. TypeOK' /\ HubEntry'
      BY <2>1 DEF TableInv, TypeOK, HubEntry
    <2> QED BY <2>1, <2>2, TableFrame DEF TableInv
  <1>2. CASE LoopStep \/ SessionEnds(TRUE) \/ SleepEnds(TRUE)
    BY <1>2, LoopTableKeeps DEF LoopStep
  <1> QED BY <1>1, <1>2, ReaderTableKeeps, LinkTableKeeps, OutsideTableKeeps
          DEF Next, Environment

(* The spoke's table, as long as no two mesh_update calls overlap: it sends  *)
(* to the hub of the session that is up and to no other, and a packet goes   *)
(* by a direct link only while that link runs and only to an address its     *)
(* peer announced on it, whatever addresses links announce and however hub   *)
(* sessions, roster messages and the links' own tasks interleave.            *)
THEOREM TableStaysSound == Spec => []TableSound
  <1>1. TableInv => TableSound
    <2> SUFFICES ASSUME TableInv PROVE NoBlackHole
      BY DEF TableInv, TableSound
    <2> SUFFICES ASSUME ~overlap, NEW k \in Key, mesh.direct[k] # None
                 PROVE  /\ k \in Keys(mesh.direct[k])
                        /\ link[mesh.direct[k]] \in {"up", "closing"}
      BY DEF NoBlackHole, LookupOut
    <2> QED BY DEF TableInv, Direct
  <1> QED BY <1>1, InitTableInv, StepTableInv, PTL DEF Spec

-----------------------------------------------------------------------------
(* The roster                                                                *)

(* Only a session that is up reads its control stream. *)
Reading == reader.at = "read" => loop = "up"

(* What the messages still under way say last about p, if they mention it. *)
Mentioned(q, p) == \E i \in DOMAIN q : p \in q[i].who
LastAdds(q, p) ==
    \E i \in DOMAIN q : /\ p \in q[i].who /\ q[i].kind # "left"
                        /\ \A j \in DOMAIN q : j > i => p \notin q[j].who

(* The table once the message being applied is through. *)
Applied(p) ==
    IF reader.at = "apply" /\ p \in reader.todo THEN reader.kind # "left"
                                                ELSE p \in mesh.roster

(* The stream of a session accounts for every peer of the hub's mesh: the    *)
(* last word under way adds it, or all has been read and it was applied.     *)
Told ==
    ~overlap /\ hubUp /\ loop \in {"install", "up"} =>
        \A p \in member : \/ LastAdds(ctrl, p)
                          \/ ~Mentioned(ctrl, p) /\ loop = "up" /\ Applied(p)

RosterInv == TableInv /\ Reading /\ Told

LEMMA TailSays ==
  ASSUME NEW q \in Seq(Msg), q # <<>>, NEW p
  PROVE  /\ Mentioned(Tail(q), p) => Mentioned(q, p)
         /\ ~Mentioned(q, p) => p \notin Head(q).who
         /\ LastAdds(q, p) => \/ LastAdds(Tail(q), p)
                              \/ /\ ~Mentioned(Tail(q), p)
                                 /\ p \in Head(q).who /\ Head(q).kind # "left"
  <1> DEFINE r == Tail(q)
  <1>1. /\ Len(q) \in Nat /\ DOMAIN q = 1..Len(q) /\ 1 \in DOMAIN q /\ Head(q) = q[1]
        /\ DOMAIN r = 1..(Len(q) - 1) /\ \A i \in DOMAIN r : r[i] = q[i + 1] /\ i + 1 \in DOMAIN q
    OBVIOUS
  <1> HIDE DEF r
  <1>2. Mentioned(r, p) => Mentioned(q, p)
    BY <1>1 DEF Mentioned
  <1>3. ~Mentioned(q, p) => p \notin Head(q).who
    BY <1>1 DEF Mentioned
  <1>4. ASSUME LastAdds(q, p)
        PROVE  LastAdds(r, p) \/ (~Mentioned(r, p) /\ p \in Head(q).who /\ Head(q).kind # "left")
    <2>1. PICK i \in DOMAIN q : /\ p \in q[i].who /\ q[i].kind # "left"
                                /\ \A j \in DOMAIN q : j > i => p \notin q[j].who
      BY <1>4 DEF LastAdds
    <2>2. CASE i = 1
      <3>1. ~Mentioned(r, p)
        BY <1>1, <2>1, <2>2 DEF Mentioned
      <3> QED BY <1>1, <2>1, <2>2, <3>1
    <2>3. CASE i # 1
      <3>1. i - 1 \in DOMAIN r /\ r[i - 1] = q[i]
        BY <1>1, <2>3
      <3>2. \A j \in DOMAIN r : j > i - 1 => p \notin r[j].who
        BY <1>1, <2>1
      <3> QED BY <2>1, <3>1, <3>2 DEF LastAdds
    <2> QED BY <2>2, <2>3
  <1> QED BY <1>2, <1>3, <1>4 DEF r

LEMMA AppendSays ==
  ASSUME NEW q \in Seq(Msg), NEW m \in Msg, NEW p
  PROVE  /\ p \in m.who /\ m.kind # "left" => LastAdds(Append(q, m), p)
         /\ p \notin m.who => /\ LastAdds(q, p) => LastAdds(Append(q, m), p)
                              /\ Mentioned(Append(q, m), p) => Mentioned(q, p)
  <1> DEFINE r == Append(q, m)
  <1>1. /\ Len(q) \in Nat /\ DOMAIN q = 1..Len(q) /\ DOMAIN r = 1..(Len(q) + 1)
        /\ \A i \in DOMAIN q : r[i] = q[i] /\ i \in DOMAIN r
        /\ r[Len(q) + 1] = m /\ Len(q) + 1 \in DOMAIN r
    OBVIOUS
  <1> HIDE DEF r
  <1>2. p \in m.who /\ m.kind # "left" => LastAdds(r, p)
    BY <1>1 DEF LastAdds
  <1>3. ASSUME p \notin m.who, LastAdds(q, p) PROVE LastAdds(r, p)
    <2>1. PICK i \in DOMAIN q : /\ p \in q[i].who /\ q[i].kind # "left"
                                /\ \A j \in DOMAIN q : j > i => p \notin q[j].who
      BY <1>3 DEF LastAdds
    <2>2. ASSUME NEW j \in DOMAIN r, j > i PROVE p \notin r[j].who
      <3>1. CASE j \in DOMAIN q
        BY <1>1, <2>1, <2>2, <3>1
      <3>2. CASE j = Len(q) + 1
        BY <1>1, <1>3, <3>2
      <3> QED BY <1>1, <3>1, <3>2
    <2>3. i \in DOMAIN r /\ r[i] = q[i]
      BY <1>1
    <2> QED BY <2>1, <2>2, <2>3 DEF LastAdds
  <1>4. ASSUME p \notin m.who, Mentioned(r, p) PROVE Mentioned(q, p)
    BY <1>1, <1>4 DEF Mentioned
  <1> QED BY <1>2, <1>3, <1>4 DEF r

(* A step that neither reads nor sends and takes nobody off the roster. *)
LEMMA ToldFrame ==
  ASSUME Told, UNCHANGED <<reader, ctrl, member>>,
         hubUp' /\ loop' \in {"install", "up"} => hubUp /\ loop' = loop,
         ~overlap' => ~overlap /\ mesh.roster \subseteq mesh'.roster
  PROVE  Told'
  BY DEF Told, Applied

(* A step that ends with no session installed, or a dead one. *)
LEMMA ToldDown ==
  ASSUME ~hubUp' \/ loop' \notin {"install", "up"} PROVE Told'
  BY DEF Told

LEMMA LoopRosterKeeps ==
  ASSUME RosterInv,
         \/ HubConnects \/ SessionFails \/ SetUp \/ InstallHub \/ ClearsHub
         \/ \E stop \in BOOLEAN : SessionEnds(stop) \/ SleepEnds(stop)
  PROVE  Reading' /\ Told'
  <1> USE DEF RosterInv, loopVars, linkVars, hubVars
  <1>1. CASE HubConnects \/ SessionFails \/ ClearsHub \/ \E stop \in BOOLEAN : SleepEnds(stop)
    <2>1. loop' \notin {"install", "up"} /\ loop # "up" /\ UNCHANGED reader
      BY <1>1 DEF HubConnects, SessionFails, ClearsHub, SleepEnds
    <2> QED BY <2>1, ToldDown DEF Reading
  <1>2. ASSUME NEW stop \in BOOLEAN, SessionEnds(stop) PROVE Reading' /\ Told'
    <2>1. loop' \notin {"install", "up"} /\ reader' = IF reader.at = "read" THEN Quiet ELSE reader
      BY <1>2 DEF SessionEnds
    <2>2. Reading'
      BY <2>1 DEF Reading, Quiet
    <2> QED BY <2>1, <2>2, ToldDown
  <1>3. CASE SetUp
    <2>1. /\ loop = "setup" /\ loop' = "install" /\ UNCHANGED <<reader, hubUp, member>>
          /\ hubUp => ctrl' = <<[kind |-> "snapshot", who |-> member]>>
      BY <1>3 DEF SetUp
    <2>2. Reading'
      BY <2>1 DEF Reading
    <2>3. ASSUME hubUp, NEW p \in member PROVE LastAdds(ctrl', p)
      <3> DEFINE m == [kind |-> "snapshot", who |-> member]
      <3>1. m.kind # "left" /\ p \in m.who
        BY <2>3
      <3>2. DOMAIN <<m>> = {1} /\ <<m>>[1] = m
        OBVIOUS
      <3>3. LastAdds(<<m>>, p)
        BY <3>1, <3>2 DEF LastAdds
      <3> QED BY <2>1, <2>3, <3>3
    <2>4. Told'
      BY <2>1, <2>3 DEF Told
    <2> QED BY <2>2, <2>4
  <1>4. CASE InstallHub /\ ~Updating(LoopTask)
    <2>1. UNCHANGED <<mesh, loop, reader, overlap, hubUp, ctrl, member>>
      BY <1>4 DEF InstallHub
    <2> QED BY <2>1, ToldFrame DEF Reading
  <1>5. CASE InstallHub /\ Updating(LoopTask)
    <2>1. /\ Store(LoopTask, WithHub(copy[LoopTask])) /\ loop = "install" /\ loop' = "up"
          /\ UNCHANGED <<hubUp, ctrl, member>> /\ (overlap => overlap')
      BY <1>5 DEF InstallHub, Store
    <2>2. Reading' /\ Told'
      BY <2>1 DEF Told, Reading
    <2> QED BY <2>2
  <1> QED BY <1>1, <1>2, <1>3, <1>4, <1>5

LEMMA ReaderRosterKeeps ==
  ASSUME RosterInv, ReaderStep
  PROVE  Reading' /\ Told'
  <1> USE DEF RosterInv, loopVars, linkVars, hubVars
  <1>1. CASE ReadMsg
    <2>1. /\ reader.at = "read" /\ loop = "up" /\ ctrl # <<>> /\ ctrl \in Seq(Msg)
          /\ reader' = IF Head(ctrl).who = {} THEN reader
                       ELSE [at |-> "apply", kind |-> Head(ctrl).kind, todo |-> Head(ctrl).who]
          /\ ctrl' = Tail(ctrl) /\ UNCHANGED <<mesh, loop, hubUp, member, overlap>>
      BY <1>1 DEF ReadMsg, Reading, TableInv, TypeOK
    <2>2. Reading'
      BY <2>1 DEF Reading
    <2>3. ASSUME NEW p \in member, p \in Head(ctrl).who, Head(ctrl).kind # "left" PROVE Applied(p)'
      BY <2>1, <2>3 DEF Applied
    <2>4. ASSUME NEW p \in member, p \notin Head(ctrl).who, p \in mesh.roster PROVE Applied(p)'
      BY <2>1, <2>4 DEF Applied
    <2>5. ASSUME ~overlap, hubUp, NEW p \in member
          PROVE  LastAdds(ctrl', p) \/ (~Mentioned(ctrl', p) /\ Applied(p)')
      <3>1. CASE LastAdds(ctrl, p)
        BY <2>1, <2>3, <3>1, TailSays
      <3>2. CASE ~Mentioned(ctrl, p) /\ Applied(p)
        <4>1. p \in mesh.roster
          BY <2>1, <3>2 DEF Applied
        <4>2. ~Mentioned(Tail(ctrl), p) /\ p \notin Head(ctrl).who
          BY <2>1, <3>2, TailSays
        <4> QED BY <2>1, <2>4, <4>1, <4>2
      <3> QED BY <2>1, <2>5, <3>1, <3>2 DEF Told
    <2>6. Told'
      BY <2>1, <2>5 DEF Told
    <2> QED BY <2>2, <2>6
  <1>2. CASE CtrlCloses
    <2>1. ~hubUp' /\ reader' = Quiet
      BY <1>2 DEF CtrlCloses
    <2> QED BY <2>1, ToldDown DEF Reading, Quiet
  <1>3. CASE LoadEntry
    <2>1. UNCHANGED <<mesh, loop, reader, overlap, hubUp, ctrl, member>>
      BY <1>3 DEF LoadEntry
    <2> QED BY <2>1, ToldFrame DEF Reading
  <1>4. ASSUME NEW p \in Peer, StoreEntry(p) PROVE Reading' /\ Told'
    <2> DEFINE t == copy[RosterTask]
    <2>1. /\ Updating(RosterTask) /\ t \in Table /\ reader.at = "apply" /\ p \in reader.todo
          /\ reader.todo \subseteq Peer
          /\ reader' = [at |-> IF reader.todo # {p} THEN "apply"
                               ELSE IF loop = "up" THEN "read" ELSE "off",
                        kind |-> reader.kind, todo |-> reader.todo \ {p}]
          /\ UNCHANGED <<loop, hubUp, ctrl, member>>
      BY <1>4, TaskFacts DEF StoreEntry, Updating, TableInv, TypeOK, Reader
    <2>2. PICK table \in Table :
             /\ Store(RosterTask, table)
             /\ table.roster = IF reader.kind = "left" THEN t.roster \ {p} ELSE t.roster \cup {p}
      <3>1. CASE reader.kind = "left"
        <4>1. Store(RosterTask, WithoutEntry(t, p))
          BY <1>4, <3>1 DEF StoreEntry
        <4>2. WithoutEntry(t, p) \in Table /\ WithoutEntry(t, p).roster = t.roster \ {p}
          BY <2>1, EntryTables
        <4> QED BY <3>1, <4>1, <4>2
      <3>2. CASE reader.kind # "left"
        <4>1. Store(RosterTask, WithEntry(t, p))
          BY <1>4, <3>2 DEF StoreEntry
        <4>2. WithEntry(t, p) \in Table /\ WithEntry(t, p).roster = t.roster \cup {p}
          BY <2>1, EntryTables
        <4> QED BY <3>2, <4>1, <4>2
      <3> QED BY <3>1, <3>2
    <2>3. mesh' = table /\ (~overlap' => ~overlap /\ t = mesh)
      BY <2>1, <2>2, TaskFacts, StoreKeeps
    <2>4. Reading'
      BY <2>1 DEF Reading
    <2>5. ASSUME ~overlap', NEW q \in member, Applied(q) PROVE Applied(q)'
      <3>1. mesh'.roster = IF reader.kind = "left" THEN mesh.roster \ {p} ELSE mesh.roster \cup {p}
        BY <2>2, <2>3, <2>5
      <3>2. /\ reader'.kind = reader.kind /\ reader'.todo = reader.todo \ {p}
            /\ reader'.at # "apply" => reader.todo = {p}
        BY <2>1
      <3>3. CASE q = p
        <4>1. reader.kind # "left"
          BY <2>1, <2>5, <3>3 DEF Applied
        <4> QED BY <3>1, <3>2, <3>3, <4>1 DEF Applied
      <3>4. CASE q # p /\ q \in reader.todo
        BY <2>1, <2>5, <3>2, <3>4 DEF Applied
      <3>5. CASE q # p /\ q \notin reader.todo
        <4>1. q \in mesh'.roster
          BY <2>1, <2>5, <3>1, <3>5 DEF Applied
        <4> QED BY <3>2, <3>5, <4>1 DEF Applied
      <3> QED BY <3>3, <3>4, <3>5
    <2>6. Told'
      BY <2>1, <2>3, <2>5 DEF Told
    <2> QED BY <2>4, <2>6
  <1> QED BY <1>1, <1>2, <1>3, <1>4 DEF ReaderStep

(* The links' tasks only add entries. *)
LEMMA LinkRosterKeeps ==
  ASSUME RosterInv, NEW l \in Link, LinkStep(l)
  PROVE  Reading' /\ Told'
  <1> USE DEF RosterInv, loopVars, linkVars, hubVars
  <1>1. UNCHANGED <<loop, hubUp, reader, ctrl, member>>
    BY DEF LinkStep, CheckDial, DialPeer, InstallDirect, DirectEnds, RemoveDirect
  <1>2. ~overlap' => ~overlap /\ mesh.roster \subseteq mesh'.roster
    <2>1. CASE UNCHANGED <<mesh, overlap>>
      BY <2>1
    <2>2. ASSUME Updating(l), NEW table \in Table, Store(l, table),
                 copy[l].roster \subseteq table.roster
          PROVE  ~overlap' => ~overlap /\ mesh.roster \subseteq mesh'.roster
      BY <2>2, TaskFacts, StoreKeeps
    <2>3. Updating(l) => copy[l] \in Table
      BY TaskFacts DEF Updating, TableInv, TypeOK
    <2>4. CASE InstallDirect(l) /\ Updating(l)
      <3>1. Store(l, WithDirect(copy[l], l)) /\ peer[l] \in Peer
        BY <2>4 DEF InstallDirect, TableInv, Started
      <3> QED BY <2>2, <2>3, <2>4, <3>1, DirectTables
    <2>5. CASE RemoveDirect(l) /\ Updating(l)
      <3>1. Store(l, WithoutDirect(copy[l], l)) /\ peer[l] \in Peer
        BY <2>5 DEF RemoveDirect, TableInv, Started
      <3> QED BY <2>2, <2>3, <2>5, <3>1, DirectTables
    <2> QED BY <2>1, <2>4, <2>5
            DEF LinkStep, CheckDial, DialPeer, InstallDirect, DirectEnds, RemoveDirect
  <1> QED BY <1>1, <1>2, ToldFrame DEF Reading

LEMMA OutsideRosterKeeps ==
  ASSUME RosterInv,
         \/ HubDies \/ \E l \in Link : LinkDies(l)
         \/ \E p \in Peer : Moves(p) \/ Repeats(p) \/ Inbound(p)
  PROVE  Reading' /\ Told'
  <1> USE DEF RosterInv, loopVars, linkVars, hubVars
  <1>1. CASE HubDies \/ (\E l \in Link : LinkDies(l)) \/ \E p \in Peer : Inbound(p)
    <2>1. UNCHANGED <<mesh, loop, reader, ctrl, member, overlap>> /\ (hubUp' => hubUp)
      BY <1>1 DEF HubDies, LinkDies, Inbound
    <2> QED BY <2>1, ToldFrame DEF Reading
  <1>2. ASSUME NEW p \in Peer, Moves(p) \/ Repeats(p) PROVE Reading' /\ Told'
    <2> DEFINE m == [kind |-> IF p \in member' THEN "joined" ELSE "left", who |-> {p}]
    <2>1. /\ UNCHANGED <<mesh, loop, hubUp, reader, overlap>>
          /\ member' \ {p} = member \ {p}
          /\ hubUp /\ loop \in {"install", "up"} => ctrl' = Append(ctrl, m)
          /\ ctrl \in Seq(Msg) /\ m \in Msg
      <3>1. CASE Moves(p)
        <4>1. p \in member' <=> p \notin member
          BY <3>1 DEF Moves
        <4> QED BY <3>1, <4>1 DEF Moves, TableInv, TypeOK, Msg
      <3>2. CASE Repeats(p)
        BY <3>2 DEF Repeats, TableInv, TypeOK, Msg
      <3> QED BY <1>2, <3>1, <3>2
    <2>2. m.who = {p} /\ (p \in member' => m.kind # "left")
      OBVIOUS
    <2> HIDE DEF m
    <2>3. Reading'
      BY <2>1 DEF Reading
    <2>4. ASSUME ~overlap, hubUp, loop \in {"install", "up"}, NEW q \in member'
          PROVE  LastAdds(ctrl', q) \/ (~Mentioned(ctrl', q) /\ loop = "up" /\ Applied(q)')
      <3>1. CASE q = p
        BY <2>1, <2>2, <2>4, <3>1, AppendSays
      <3>2. CASE q # p
        <4>1. q \in member /\ q \notin m.who
          BY <2>1, <2>2, <3>2
        <4>2. Applied(q) => Applied(q)'
          BY <2>1 DEF Applied
        <4>3. LastAdds(ctrl, q) \/ (~Mentioned(ctrl, q) /\ loop = "up" /\ Applied(q))
          BY <2>4, <4>1 DEF Told
        <4> QED BY <2>1, <2>4, <4>1, <4>2, <4>3, AppendSays
      <3> QED BY <3>1, <3>2
    <2>5. Told'
      BY <2>1, <2>4 DEF Told
    <2> QED BY <2>3, <2>5
  <1> QED BY <1>1, <1>2

(* The roster of the spoke, as long as no two mesh_update calls overlap:     *)
(* once a session has applied what the hub sent, every member of the mesh is *)
(* on it, whatever came before the session and however peers came and went.  *)
THEOREM RosterStaysComplete == Spec => []RosterComplete
  <1>1. Init => RosterInv
    <2>1. Init => Reading /\ Told
      BY DEF Init, Reading, Told, Quiet
    <2> QED BY <2>1, InitTableInv DEF RosterInv
  <1>2. RosterInv /\ [Next]_vars => RosterInv'
    <2> SUFFICES ASSUME RosterInv, [Next]_vars PROVE RosterInv'
      OBVIOUS
    <2>1. TableInv'
      BY StepTableInv DEF RosterInv
    <2>2. CASE UNCHANGED vars
      <3>1. UNCHANGED <<mesh, loop, reader, overlap, hubUp, ctrl, member>>
        BY <2>2 DEF vars, loopVars, linkVars, hubVars
      <3> QED BY <2>1, <3>1, ToldFrame DEF Reading, RosterInv
    <2>3. CASE LoopStep \/ SessionEnds(TRUE) \/ SleepEnds(TRUE)
      BY <2>1, <2>3, LoopRosterKeeps DEF LoopStep, RosterInv
    <2> QED BY <2>1, <2>2, <2>3, ReaderRosterKeeps, LinkRosterKeeps, OutsideRosterKeeps
            DEF Next, Environment, RosterInv
  <1>3. RosterInv => RosterComplete
    <2> SUFFICES ASSUME RosterInv, ~overlap, loop = "up", hubUp, reader.at = "read", ctrl = <<>>,
                        NEW p \in member
                 PROVE  p \in mesh.roster
      BY DEF RosterComplete
    <2>1. ~LastAdds(ctrl, p)
      BY DEF LastAdds
    <2> QED BY <2>1 DEF RosterInv, Told, Applied
  <1> QED BY <1>1, <1>2, <1>3, PTL DEF Spec
=============================================================================
