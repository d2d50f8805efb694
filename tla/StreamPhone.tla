---------------------------- MODULE StreamPhone ----------------------------
(***************************************************************************)
(* The plane of the stream phone daemon (src/stream_daemon_unix.rs): the   *)
(* task that accepts connections, the loop that takes commands and ages    *)
(* rings, and two small tasks per call, all sharing one LiveState through  *)
(* locks that are taken and released one field at a time.                  *)
(* A connection is a number, in the order they are made.  Which --listen   *)
(* address a call asks for is left out: all of them use the same one.      *)
(***************************************************************************)
EXTENDS Naturals, Sequences, SequencesExt

CONSTANTS
    Peer,       \* who calls and is called
    Contact,    \* the peers of the contact book
    MaxConn,    \* bound: connections in one behaviour
    MaxCmd,     \* bound: control requests in one behaviour
    QueueCap    \* capacity of the command channel, 32 in the code

ASSUME PhoneConstants ==
    /\ Contact \subseteq Peer
    /\ {MaxConn, MaxCmd} \subseteq Nat /\ QueueCap \in Nat \ {0}
    /\ "nobody" \notin Peer

Conn == 1..MaxConn
NoConn == 0
Nobody == "nobody"

(* Whom a dialed name stands for is settled when it is resolved.           *)
Cmd == [kind : {"accept", "reject"}, who : Peer]
           \cup [kind : {"dial", "shutdown"}, who : {Nobody}]

VARIABLES
    made,      \* connections made so far
    peer,      \* the remote end of each
    alive,     \* connections that are open
    active,    \* the call that keeps the phone busy
    ringing,   \* unanswered calls of strangers, oldest first
    old,       \* how many of them are older than RING_TIMEOUT
    phase,     \* LiveState.phase
    pending,   \* LiveState.pending
    peers,     \* LiveState.peers: nobody, or the one peer
    acc,       \* the accept task
    loop,      \* the command loop
    queue,     \* the command channel
    sent,      \* control requests so far
    sess,      \* the task that watches each call's connection
    setter,    \* the task that stores each call's peer
    listener,  \* the call whose slot the local TCP listener serves
    crossed    \* history: a call started while another was not over

connVars == <<made, peer, alive>>
ringVars == <<ringing, old>>
live     == <<phase, pending, peers>>
cmdVars  == <<queue, sent>>
sessVars == <<active, sess, setter, listener, crossed>>
phoneVars == <<connVars, ringVars, live, acc, loop, cmdVars, sessVars>>

Waiting == [at |-> "wait", conn |-> NoConn]

PhoneTypeOK ==
    /\ made \in 0..MaxConn
    /\ peer \in [Conn -> Peer \cup {Nobody}]
    /\ alive \subseteq 1..made
    /\ active \in 0..made
    /\ ringing \in Seq(1..made) /\ old \in 0..Len(ringing)
    /\ phase \in {"idle", "ringing", "dialing", "connected"}
    /\ pending \in Seq(1..made) /\ peers \in Peer \cup {Nobody}
    /\ acc \in [at : {"wait", "answer", "session", "ring", "mark", "publish"},
                conn : 0..made]
    /\ loop \in [at : {"wait", "dial", "connect", "answer", "session",
                       "answered", "rejected", "expired", "idle", "stopped"},
                 conn : 0..made]
    /\ queue \in Seq(Cmd) /\ Len(queue) <= QueueCap /\ sent \in 0..MaxCmd
    /\ sess \in [Conn -> {"none", "live", "peers", "phase", "over"}]
    /\ setter \in [Conn -> {"none", "todo", "done"}]
    /\ listener \in 0..made
    /\ crossed \in BOOLEAN

PhoneInit ==
    /\ made = 0 /\ peer = [c \in Conn |-> Nobody] /\ alive = {}
    /\ active = NoConn /\ ringing = <<>> /\ old = 0
    /\ phase = "idle" /\ pending = <<>> /\ peers = Nobody
    /\ acc = Waiting /\ loop = Waiting
    /\ queue = <<>> /\ sent = 0
    /\ sess = [c \in Conn |-> "none"]
    /\ setter = [c \in Conn |-> "none"]
    /\ listener = NoConn /\ crossed = FALSE

PhoneRuns == loop.at # "stopped"

-----------------------------------------------------------------------------
(* What the two tasks share. *)

(* A connection is established with p. *)
Establish(p) ==
    /\ made < MaxConn /\ made' = made + 1
    /\ peer' = [peer EXCEPT ![made + 1] = p]

(* publish_pending holds the list's read lock while it stores the copy.    *)
PublishPending == pending' = ringing

(* Mutant: the task that follows the connection is not spawned. *)
UnwatchedSession(c) ==
    /\ active' = c
    /\ sess' = [sess EXCEPT ![c] = "over"]
    /\ setter' = [setter EXCEPT ![c] = "todo"]
    /\ listener' = IF listener = NoConn THEN c ELSE listener
    /\ UNCHANGED crossed

(* spawn_stream_session.  The listener task of an earlier call never ends   *)
(* and holds the address: a later bind fails, which is only logged.        *)
SpawnStreamSession(c) ==
    /\ active' = c
    /\ sess' = [sess EXCEPT ![c] = "live"]
    /\ setter' = [setter EXCEPT ![c] = "todo"]
    /\ listener' = IF listener = NoConn THEN c ELSE listener
    /\ crossed' = (crossed \/ \E d \in Conn : sess[d] \in {"live", "peers", "phase"})

-----------------------------------------------------------------------------
(* The accept task. *)

AccTo(at, c) == acc' = [at |-> at, conn |-> c]

(* A connection of either ALPN, a ping included: busy is told at once, a   *)
(* contact is answered, a stranger rings.                                  *)
Incoming(p) ==
    /\ PhoneRuns /\ acc.at = "wait"
    /\ Establish(p)
    /\ \/ active # NoConn /\ UNCHANGED <<alive, acc>>
       \/ /\ active = NoConn
          /\ alive' = alive \cup {made + 1}
          /\ AccTo(IF p \in Contact THEN "answer" ELSE "ring", made + 1)
    /\ UNCHANGED <<ringVars, live, loop, cmdVars, sessVars>>

AnswerContact ==
    /\ acc.at = "answer"
    /\ phase' = "connected" /\ AccTo("session", acc.conn)
    /\ UNCHANGED <<connVars, ringVars, pending, peers, loop, cmdVars, sessVars>>

ContactSession ==
    /\ acc.at = "session"
    /\ SpawnStreamSession(acc.conn) /\ acc' = Waiting
    /\ UNCHANGED <<connVars, ringVars, live, loop, cmdVars>>

PushRing ==
    /\ acc.at = "ring"
    /\ ringing' = Append(ringing, acc.conn) /\ AccTo("mark", acc.conn)
    /\ UNCHANGED <<connVars, old, live, loop, cmdVars, sessVars>>

MarkRinging ==
    /\ acc.at = "mark"
    /\ phase' = "ringing" /\ AccTo("publish", acc.conn)
    /\ UNCHANGED <<connVars, ringVars, pending, peers, loop, cmdVars, sessVars>>

PublishRing ==
    /\ acc.at = "publish"
    /\ PublishPending /\ acc' = Waiting
    /\ UNCHANGED <<connVars, ringVars, phase, peers, loop, cmdVars, sessVars>>

-----------------------------------------------------------------------------
(* The command loop: one command at a time, and it waits for a dial.       *)

LoopTo(at, c) == loop' = [at |-> at, conn |-> c]

(* Where in the list the first ring of a peer is, if it has one. *)
RingOf(p) ==
    {i \in DOMAIN ringing :
        peer[ringing[i]] = p /\ \A j \in 1..(i - 1) : peer[ringing[j]] # p}

TakeShutdown ==
    /\ LoopTo("stopped", NoConn)
    /\ alive' = {} /\ acc' = Waiting         \* abort, and endpoint.close
    /\ UNCHANGED <<made, peer, ringVars>>

TakeDial ==
    /\ IF active # NoConn THEN UNCHANGED loop ELSE LoopTo("dial", NoConn)
    /\ UNCHANGED <<connVars, ringVars, acc>>

(* Accept and Reject drop the first ring that matches; Accept asks nothing  *)
(* about a call that is already active.                                    *)
TakeRing(i, at, closes) ==
    LET c == ringing[i]
    IN  /\ ringing' = RemoveAt(ringing, i)
        /\ old' = IF i <= old THEN old - 1 ELSE old
        /\ alive' = IF closes THEN alive \ {c} ELSE alive
        /\ LoopTo(at, c)
        /\ UNCHANGED <<made, peer, acc>>

TakeCmd ==
    /\ loop.at = "wait" /\ queue # <<>>
    /\ queue' = Tail(queue)
    /\ LET cmd == Head(queue)
       IN  \/ cmd.kind = "shutdown" /\ TakeShutdown
           \/ cmd.kind = "dial" /\ TakeDial
           \/ /\ cmd.kind \in {"accept", "reject"} /\ RingOf(cmd.who) = {}
              /\ UNCHANGED <<connVars, ringVars, acc, loop>>
           \/ /\ cmd.kind = "accept"
              /\ \E i \in RingOf(cmd.who) : TakeRing(i, "answered", FALSE)
           \/ /\ cmd.kind = "reject"
              /\ \E i \in RingOf(cmd.who) : TakeRing(i, "rejected", TRUE)
    /\ UNCHANGED <<live, sent, sessVars>>

DialMarks ==
    /\ loop.at = "dial"
    /\ phase' = "dialing" /\ LoopTo("connect", NoConn)
    /\ UNCHANGED <<connVars, ringVars, pending, peers, acc, cmdVars, sessVars>>

(* The token resolves, the address is built and connect succeeds, ...      *)
DialConnects ==
    /\ loop.at = "connect"
    /\ \E p \in Peer : Establish(p)
    /\ alive' = alive \cup {made + 1} /\ LoopTo("answer", made + 1)
    /\ UNCHANGED <<ringVars, live, acc, cmdVars, sessVars>>

(* ... or one of the three fails.                                          *)
DialFails ==
    /\ loop.at = "connect"
    /\ LoopTo("idle", NoConn)
    /\ UNCHANGED <<connVars, ringVars, live, acc, cmdVars, sessVars>>

(* After a ring was taken: publish, then answer it, or see whether any ring *)
(* is left.  Reject does not ask whether a call is active, the tick does.   *)
PublishTaken ==
    /\ loop.at \in {"answered", "rejected", "expired"}
    /\ PublishPending
    /\ CASE loop.at = "answered" -> LoopTo("answer", loop.conn)
         [] /\ loop.at # "answered" /\ ringing = <<>>
            /\ loop.at = "expired" => active = NoConn -> LoopTo("idle", NoConn)
         [] OTHER -> loop' = Waiting
    /\ UNCHANGED <<connVars, ringVars, phase, peers, acc, cmdVars, sessVars>>

Answer ==
    /\ loop.at = "answer"
    /\ phase' = "connected" /\ LoopTo("session", loop.conn)
    /\ UNCHANGED <<connVars, ringVars, pending, peers, acc, cmdVars, sessVars>>

Session ==
    /\ loop.at = "session"
    /\ SpawnStreamSession(loop.conn) /\ loop' = Waiting
    /\ UNCHANGED <<connVars, ringVars, live, acc, cmdVars>>

MarkIdle ==
    /\ loop.at = "idle"
    /\ phase' = "idle" /\ loop' = Waiting
    /\ UNCHANGED <<connVars, ringVars, pending, peers, acc, cmdVars, sessVars>>

(* Rings are pushed by one task, so those that have timed out come first.  *)
Expired == {ringing[i] : i \in 1..old}

(* Mutant: the tick closes the connections and keeps the rings. *)
TickKeeps ==
    /\ loop.at = "wait" /\ old # 0
    /\ alive' = alive \ Expired
    /\ LoopTo("expired", NoConn)
    /\ UNCHANGED <<made, peer, ringVars, live, acc, cmdVars, sessVars>>

(* The one-second tick, when a ring has timed out. *)
Tick ==
    /\ loop.at = "wait" /\ old # 0
    /\ ringing' = SubSeq(ringing, old + 1, Len(ringing))
    /\ alive' = alive \ Expired /\ old' = 0
    /\ LoopTo("expired", NoConn)
    /\ UNCHANGED <<made, peer, live, acc, cmdVars, sessVars>>

-----------------------------------------------------------------------------
(* The two tasks of a call. *)

SetPeers(c) ==
    /\ setter[c] = "todo"
    /\ peers' = peer[c] /\ setter' = [setter EXCEPT ![c] = "done"]
    /\ UNCHANGED <<connVars, ringVars, phase, pending, acc, loop, cmdVars,
                   active, sess, listener, crossed>>

(* The watcher finds the connection closed: the three fields are reset one  *)
(* after the other, whoever set them last.                                 *)
WatcherTo(c, from, to) == sess[c] = from /\ sess' = [sess EXCEPT ![c] = to]

ClearActive(c) ==
    /\ c \notin alive /\ WatcherTo(c, "live", "peers")
    /\ active' = NoConn
    /\ UNCHANGED <<connVars, ringVars, live, acc, loop, cmdVars, setter, listener, crossed>>

ClearPeers(c) ==
    /\ WatcherTo(c, "peers", "phase")
    /\ peers' = Nobody
    /\ UNCHANGED <<connVars, ringVars, phase, pending, acc, loop, cmdVars,
                   active, setter, listener, crossed>>

ClearPhase(c) ==
    /\ WatcherTo(c, "phase", "over")
    /\ phase' = "idle"
    /\ UNCHANGED <<connVars, ringVars, pending, peers, acc, loop, cmdVars,
                   active, setter, listener, crossed>>

-----------------------------------------------------------------------------
(* handle_one_ctl.  A full channel refuses a Call (try_send) and holds up   *)
(* the other requests; Accept and Reject answer Ok whatever comes of them.  *)
Control(cmd) ==
    /\ PhoneRuns /\ sent < MaxCmd /\ Len(queue) < QueueCap
    /\ queue' = Append(queue, cmd) /\ sent' = sent + 1
    /\ UNCHANGED <<connVars, ringVars, live, acc, loop, sessVars>>

(* The environment: the other end hangs up, time passes for a ring.        *)
HangUp(c) ==
    /\ c \in alive
    /\ alive' = alive \ {c}
    /\ UNCHANGED <<made, peer, ringVars, live, acc, loop, cmdVars, sessVars>>

RingAges ==
    /\ old < Len(ringing)
    /\ old' = old + 1
    /\ UNCHANGED <<connVars, ringing, live, acc, loop, cmdVars, sessVars>>

-----------------------------------------------------------------------------
AcceptStep == AnswerContact \/ ContactSession \/ PushRing \/ MarkRinging \/ PublishRing
LoopStep ==
    \/ TakeCmd \/ DialMarks \/ DialConnects \/ DialFails \/ PublishTaken
    \/ Answer \/ Session \/ MarkIdle \/ Tick
CallStep(c) == SetPeers(c) \/ ClearActive(c) \/ ClearPeers(c) \/ ClearPhase(c)

PhoneNext ==
    \/ AcceptStep \/ LoopStep \/ RingAges
    \/ \E p \in Peer : Incoming(p)
    \/ \E cmd \in Cmd : Control(cmd)
    \/ \E c \in Conn : CallStep(c) \/ HangUp(c)

PhoneSpec == PhoneInit /\ [][PhoneNext]_phoneVars

(* The runtime polls every task that can move, connect returns, and time   *)
(* passes.                                                                 *)
PhoneFairSpec ==
    /\ PhoneSpec /\ WF_phoneVars(LoopStep) /\ WF_phoneVars(AcceptStep) /\ WF_phoneVars(RingAges)
    /\ \A c \in Conn : WF_phoneVars(CallStep(c))

-----------------------------------------------------------------------------
(* Properties. *)

Publishing ==
    acc.at \in {"mark", "publish"} \/ loop.at \in {"answered", "rejected", "expired"}

(* `call ring` lists the calls that ring: two tasks change the list and     *)
(* publish it later, and when neither is in between, the list is current.  *)
PendingAgrees == PhoneRuns /\ ~Publishing => pending = ringing

(* Every open connection is in somebody's hands: it rings, a task is about  *)
(* to answer it, or a watcher follows it and frees the phone when it ends.  *)
NoOrphanCall ==
    \A c \in alive :
        \/ c \in Range(ringing)
        \/ c = acc.conn /\ acc.at \in {"answer", "session", "ring"}
        \/ c = loop.conn /\ loop.at \in {"answered", "answer", "session"}
        \/ sess[c] = "live"

(* The phone is busy exactly while its call lives, as long as calls do not  *)
(* cross; when they do, a watcher frees the phone of the other call.       *)
BusyIsLive ==
    ~crossed => \A c \in Conn : active = c <=> sess[c] = "live"

(* A ring ends: it is answered, rejected or times out, however many other   *)
(* commands keep the loop busy.                                            *)
RingsEnd ==
    \A c \in Conn : c \in Range(ringing) ~> (c \notin Range(ringing) \/ ~PhoneRuns)

(* A call that is over does not keep the phone busy: it becomes free, or is *)
(* busy with another call.                                                 *)
BusyEnds == \A c \in Conn : (active = c /\ c \notin alive) ~> active # c

(* "Local TCP listen loop for the stream phone daemon (no Ctrl-C; ends when *)
(* aborted)", call.rs:154: the address is free for the next call, so that   *)
(* the call that is active is the one the local listener serves.           *)
ListenerServesCall == active # NoConn /\ ~crossed => listener = active

(* The phone's state is sound in every order of its tasks' steps: the      *)
(* published ring list is current, no connection is forgotten, and a phone *)
(* that says it is busy has a live call.                                   *)
PhoneSound == PhoneTypeOK /\ PendingAgrees /\ NoOrphanCall /\ BusyIsLive

(* Every ring ends and every finished call frees the phone.                *)
RingsAndCallsEnd == RingsEnd /\ BusyEnds
=============================================================================
