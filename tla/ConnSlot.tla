------------------------------ MODULE ConnSlot ------------------------------
(***************************************************************************)
(* `connect`: one QUIC connection kept in a watch channel (ConnSlot in     *)
(* src/runtime.rs), the reconnect watcher that refills it, and a forwarder *)
(* per local TCP client that opens a stream on it (src/commands/connect.rs).*)
(* A forwarder is a slot for one client after the other; a connection's    *)
(* name is used again once nobody holds the connection.                    *)
(***************************************************************************)
EXTENDS Naturals, FiniteSets

CONSTANTS
    Forwarder,   \* bound: local clients at a time
    Conn,        \* bound: connections somebody holds at a time
    MaxConns,    \* --max-conns: permits of the stream semaphore
    Base, Cap,   \* RECONNECT_BASE and RECONNECT_MAX, in seconds
    Prompt       \* a task that is ready runs before a dial, a timeout or a
                 \* sleep ends

ASSUME ConnSlotConstants ==
    /\ MaxConns \in Nat \ {0}
    /\ Base \in Nat \ {0} /\ Cap \in Nat /\ Base <= Cap
    /\ Prompt \in BOOLEAN

None == "none"
ASSUME NoneIsNoConn == None \notin Conn

VARIABLES
    slot,        \* the value of the watch channel
    alive,       \* connections that are not closed
    watcher,     \* where the reconnect watcher is
    wconn,       \* the connection whose end the watcher awaits
    age,         \* connected_at: none, or more or less than MIN_STABLE_CONN ago
    next_delay,  \* of the watcher's Backoff
    rested,      \* history: slept, or saw a stable session, since the last dial
    fpc,         \* where each forwarder is
    fconn,       \* the connection each forwarder took from the slot
    changed      \* the receivers with an update not yet seen

watchVars == <<watcher, wconn, age, next_delay, rested>>
fwdVars == <<fpc, fconn>>
vars == <<slot, alive, watchVars, fwdVars, changed>>

(* run_connect has dialled before it fills the slot and starts the watcher, *)
(* which takes that connection for a stable one.                            *)
Init ==
    \E c \in Conn :
        /\ slot = c /\ alive = {c}
        /\ watcher = "read" /\ wconn = None /\ age = "old"
        /\ next_delay = Base /\ rested = TRUE
        /\ fpc = [f \in Forwarder |-> "idle"]
        /\ fconn = [f \in Forwarder |-> None]
        /\ changed = {}

(* A forwarder holds its receiver from subscribe to the next turn of the    *)
(* loop; the watcher's own is dropped in the statement that made it.        *)
Receivers == {f \in Forwarder : fpc[f] \in {"open", "timedout", "wait"}}

(* Some task is ready to run. *)
Busy ==
    \/ watcher = "read"
    \/ watcher = "watch" /\ wconn \notin alive
    \/ \E f \in Forwarder :
          \/ fpc[f] \in {"try", "timedout"}
          \/ fpc[f] = "open" /\ fconn[f] \notin alive
          \/ fpc[f] = "wait" /\ f \in changed

(* What takes a round trip or longer: dials, timeouts, sleeps. *)
Lengthy == Prompt => ~Busy

(* ConnSlot::replace.  watch::Sender::send stores nothing when no receiver  *)
(* exists.                                                                  *)
Replace(v) ==
    IF Receivers = {}
    THEN UNCHANGED <<slot, changed>>
    ELSE slot' = v /\ changed' = changed \cup Receivers

(* A connection nobody holds any more is closed. *)
Holds(c) == slot' = c \/ wconn' = c \/ \E f \in Forwarder : fconn'[f] = c

-----------------------------------------------------------------------------
(* The network: the peer, a failing path or the idle timeout. *)

ConnDies(c) ==
    /\ c \in alive
    /\ alive' = alive \ {c}
    /\ UNCHANGED <<slot, watchVars, fwdVars, changed>>

-----------------------------------------------------------------------------
(* Backoff *)

Doubled(d) == IF d * 2 < Cap THEN d * 2 ELSE Cap

-----------------------------------------------------------------------------
(* The reconnect watcher *)

WatcherReads ==
    /\ watcher = "read"
    /\ watcher' = IF slot = None THEN "dial" ELSE "watch"
    /\ wconn' = slot
    /\ UNCHANGED <<slot, alive, age, next_delay, rested, fwdVars, changed>>

(* The session outlives MIN_STABLE_CONN. *)
Ages ==
    /\ watcher = "watch" /\ wconn \in alive /\ age = "new" /\ Lengthy
    /\ age' = "old"
    /\ UNCHANGED <<slot, alive, watcher, wconn, next_delay, rested, fwdVars, changed>>

(* Mutant: a successful dial counts as a stable session. *)
StableAnyway == age # "none"

Stable == age = "old"

(* conn.closed() returns; after_session. *)
WatcherSeesEnd ==
    /\ watcher = "watch" /\ wconn \notin alive
    /\ wconn' = None
    /\ age' = "none"
    /\ IF Stable
       THEN watcher' = "dial" /\ next_delay' = Base
       ELSE watcher' = "pause" /\ next_delay' = Doubled(next_delay)
    /\ rested' = (rested \/ age = "old")
    /\ Replace(None)
    /\ UNCHANGED <<alive, fwdVars>>

(* The pause after a short session leads straight to the dial, the delay    *)
(* after a failed dial to the top of the loop.                              *)
SleepEnds ==
    /\ watcher \in {"pause", "retry"} /\ Lengthy
    /\ watcher' = IF watcher = "pause" THEN "dial" ELSE "read"
    /\ rested' = TRUE
    /\ UNCHANGED <<slot, alive, wconn, age, next_delay, fwdVars, changed>>

DialFails ==
    /\ watcher = "dial" /\ Lengthy
    /\ watcher' = "retry" /\ next_delay' = Doubled(next_delay)
    /\ rested' = FALSE
    /\ UNCHANGED <<slot, alive, wconn, age, fwdVars, changed>>

(* A connection that could not be stored is dropped, and so closed. *)
DialConnects(c) ==
    /\ watcher = "dial" /\ Lengthy
    /\ c # slot /\ \A f \in Forwarder : fconn[f] # c
    /\ watcher' = "read" /\ age' = "new" /\ rested' = FALSE
    /\ Replace(c)
    /\ UNCHANGED <<wconn, next_delay, fwdVars>>
    /\ alive' = {d \in alive \cup {c} : Holds(d)}

-----------------------------------------------------------------------------
(* The forwarder of one local client *)

Goto(f, p) == fpc' = [fpc EXCEPT ![f] = p]
Ends(f) == Goto(f, "idle") /\ fconn' = [fconn EXCEPT ![f] = None]

ClientArrives(f) ==
    /\ fpc[f] = "idle" /\ Lengthy
    /\ Goto(f, "queue")
    /\ UNCHANGED <<slot, alive, watchVars, fconn, changed>>

(* Mutant: a client that still waits counts as well. *)
PermittedOrQueued == {f \in Forwarder : fpc[f] # "idle"}

(* semaphore.acquire_owned: the permit is held until the pipe ends. *)
Permitted == {f \in Forwarder : fpc[f] \notin {"idle", "queue"}}

AcquirePermit(f) ==
    /\ fpc[f] = "queue" /\ Cardinality(Permitted) < MaxConns
    /\ Goto(f, "try")
    /\ UNCHANGED <<slot, alive, watchVars, fconn, changed>>

(* One turn of open_stream_wait's loop: a fresh receiver, and its value. *)
Subscribe(f) ==
    /\ fpc[f] = "try"
    /\ Goto(f, IF slot = None THEN "wait" ELSE "open")
    /\ fconn' = [fconn EXCEPT ![f] = slot]
    /\ changed' = changed \ {f}
    /\ UNCHANGED <<slot, alive, watchVars>>

OpenStream(f) ==
    /\ fpc[f] = "open" /\ fconn[f] \in alive
    /\ Goto(f, "pipe")
    /\ UNCHANGED <<slot, alive, watchVars, fconn, changed>>

(* open_bi fails on a connection that lives, or the stream is over. *)
StreamEnds(f) ==
    /\ \/ fpc[f] = "open" /\ fconn[f] \in alive
       \/ fpc[f] = "pipe"
    /\ Ends(f)
    /\ UNCHANGED <<slot, watchVars, changed>>
    /\ alive' = {d \in alive : Holds(d)}

OpenLost(f) ==
    /\ fpc[f] = "open" /\ fconn[f] \notin alive
    /\ Goto(f, "wait")
    /\ UNCHANGED <<slot, alive, watchVars, fconn, changed>>

(* open_bi hangs: the timeout polls it once more, so the connection is open. *)
OpenTimesOut(f) ==
    /\ fpc[f] = "open" /\ fconn[f] \in alive /\ Lengthy
    /\ Goto(f, "timedout")
    /\ UNCHANGED <<slot, alive, watchVars, fconn, changed>>

(* Mutant: the connection that hangs is left open. *)
AbandonOpenConn(f) ==
    /\ fpc[f] = "timedout"
    /\ Replace(None)
    /\ Goto(f, "wait")
    /\ UNCHANGED <<alive, watchVars, fconn>>

(* conn.close and slot.replace(None) *)
AbandonConn(f) ==
    /\ fpc[f] = "timedout"
    /\ Replace(None)
    /\ Goto(f, "wait")
    /\ UNCHANGED <<watchVars, fconn>>
    /\ alive' = {d \in alive \ {fconn[f]} : Holds(d)}

(* rx.changed() returns and the loop turns. *)
Wakes(f) ==
    /\ fpc[f] = "wait" /\ f \in changed
    /\ Goto(f, "try")
    /\ fconn' = [fconn EXCEPT ![f] = None]
    /\ changed' = changed \ {f}
    /\ UNCHANGED <<slot, alive, watchVars>>

-----------------------------------------------------------------------------
WatcherStep == WatcherReads \/ WatcherSeesEnd \/ SleepEnds
ForwarderStep(f) == Subscribe(f) \/ OpenLost(f) \/ AbandonConn(f) \/ Wakes(f)

Next ==
    \/ WatcherStep \/ Ages \/ DialFails
    \/ \E c \in Conn : ConnDies(c) \/ DialConnects(c)
    \/ \E f \in Forwarder :
          \/ ClientArrives(f) \/ AcquirePermit(f) \/ ForwarderStep(f)
          \/ OpenStream(f) \/ OpenTimesOut(f) \/ StreamEnds(f)

(* Tasks are polled, sleeps end, and the semaphore is fair.  Of the network *)
(* and of the clients: a peer that is dialled again and again is reached,   *)
(* a stream that is opened again and again opens or fails, no stream lasts  *)
(* for ever, and at some time connections stop dying by themselves.         *)
Fairness ==
    /\ <>[][\A c \in Conn : ~ConnDies(c)]_vars
    /\ WF_vars(WatcherStep)
    /\ SF_vars(\E c \in Conn : DialConnects(c))
    /\ \A f \in Forwarder :
          /\ WF_vars(ForwarderStep(f))
          /\ SF_vars(AcquirePermit(f))
          /\ SF_vars(OpenStream(f) \/ StreamEnds(f))

Spec == Init /\ [][Next]_vars
FairSpec == Spec /\ Fairness

-----------------------------------------------------------------------------
(* Properties *)

TypeOK ==
    /\ slot \in Conn \cup {None}
    /\ alive \subseteq Conn
    /\ watcher \in {"read", "watch", "pause", "dial", "retry"}
    /\ wconn \in Conn \cup {None}
    /\ age \in {"none", "new", "old"}
    /\ next_delay \in Base..Cap
    /\ rested \in BOOLEAN
    /\ fpc \in [Forwarder -> {"idle", "queue", "try", "open", "timedout", "wait", "pipe"}]
    /\ fconn \in [Forwarder -> Conn \cup {None}]
    /\ changed \subseteq Forwarder

(* Comment on ConnSlot, "None means the connection is down and we're        *)
(* reconnecting": an empty slot is never left behind by a watcher that      *)
(* waits for the end of a connection that lives, for then nobody would      *)
(* fill it.                                                                 *)
EmptyMeansDown == slot = None => ~(watcher = "watch" /\ wconn \in alive)

(* Comment on MIN_STABLE_CONN: between two dials the watcher sleeps or sees *)
(* the end of a stable session, so it never redials in a tight loop.        *)
NoSpin == watcher = "dial" => rested

(* open_stream_wait: a client that arrives during an outage, or whose       *)
(* stream hangs, is served in the end or told that its stream failed.       *)
ClientsServed == \A f \in Forwarder : fpc[f] = "queue" ~> fpc[f] \in {"pipe", "idle"}

(* Comment on spawn_reconnect_watcher, "swapping the slot on success": a    *)
(* dial that succeeds leaves its connection in the slot.                    *)
SwappedOnSuccess == [][watcher = "dial" /\ watcher' = "read" => slot' \in alive']_vars
=============================================================================
