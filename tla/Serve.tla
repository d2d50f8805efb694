------------------------------- MODULE Serve -------------------------------
(***************************************************************************)
(* `serve` (src/commands/serve.rs): peers connect, open streams, and each  *)
(* stream is forwarded to a TCP target, either the fixed one of --forward   *)
(* or, with --proxy, the one its header asks for (src/socks5.rs), filtered  *)
(* by src/ssrf.rs.  The forwarder is the pipe of src/pipe.rs, two copies in *)
(* one select loop.  Bytes are left out, not the wait for room to write     *)
(* them: what counts is how each half of a pipe ends, what keeps it from   *)
(* ending, and what the two ends get to see of it.                         *)
(***************************************************************************)
EXTENDS Naturals, FiniteSets

CONSTANTS
    Conn,      \* connections that peers make
    Stream,    \* streams that peers open
    ConnOf,    \* the connection of each stream
    Denied,    \* connections of peers that --allow does not list
    MaxConns,  \* --max-conns, the size of both semaphores
    Mode       \* ServeMode: forward, proxy, or proxy with --allow-private

ASSUME ServeConstants ==
    /\ IsFiniteSet(Conn) /\ IsFiniteSet(Stream)
    /\ ConnOf \in [Stream -> Conn] /\ Denied \subseteq Conn
    /\ MaxConns \in Nat \ {0} /\ Mode \in {"forward", "proxy", "private"}

(* An address as it is written: the prefix is_blocked_ip looks for first,   *)
(* and the ranges of the IPv4 addresses that its second to third and its   *)
(* last two groups spell.                                                  *)
Prefix == {"v4", "::ffff:0:0/96", "::/96", "64:ff9b::/96", "2002::/16", "2001::/32",
           "::1", "::", "ff00::/8", "fc00::/7", "fe80::/10", "other"}
Range4 == {"public", "blocked"}
Addr == [prefix : Prefix, second : Range4, last : Range4]

VARIABLES
    server,     \* run, drain after Ctrl+C, exited
    conn,       \* ForwardHandler::accept, per connection
    alive,      \* connections that are open
    connFree,   \* permits of conn_semaphore
    strFree,    \* permits of semaphore
    stream,     \* where a stream is: none, open, head, dial, pipe, over
    fromPeer,   \* what the peer's half holds: open, fin, gone
    fromTarget, \* what the target's half holds: open, fin, failed
    stopped,    \* streams whose peer takes no more
    l2r, r2l,   \* the two copies, see Running
    toPeer,     \* what the peer gets to see: open, fin, reset
    toTarget    \* what the target gets to see: open, fin

pipeVars == <<fromPeer, fromTarget, stopped, l2r, r2l, toPeer, toTarget>>
permits  == <<connFree, strFree>>
vars == <<server, conn, alive, permits, stream, pipeVars>>

(* A copy waits for data, or holds some that its sink has no room for, in a *)
(* buffer that takes more or is full.                                      *)
Running == {"read", "write", "full"}
Copy == Running \cup {"off", "ok", "err", "dropped"}

TypeOK ==
    /\ server \in {"run", "drain", "exited"}
    /\ conn \in [Conn -> {"new", "queued", "permit", "accept", "leaving", "ended"}]
    /\ alive \subseteq Conn
    /\ connFree \in 0..MaxConns /\ strFree \in 0..MaxConns
    /\ stream \in [Stream -> {"none", "open", "head", "dial", "pipe", "over"}]
    /\ fromPeer \in [Stream -> {"open", "fin", "gone"}]
    /\ fromTarget \in [Stream -> {"open", "fin", "failed"}]
    /\ stopped \subseteq Stream
    /\ l2r \in [Stream -> Copy] /\ r2l \in [Stream -> Copy]
    /\ toPeer \in [Stream -> {"open", "fin", "reset"}]
    /\ toTarget \in [Stream -> {"open", "fin"}]

Init ==
    /\ server = "run"
    /\ conn = [c \in Conn |-> "new"] /\ alive = {}
    /\ connFree = MaxConns /\ strFree = MaxConns
    /\ stream = [s \in Stream |-> "none"]
    /\ fromPeer = [s \in Stream |-> "open"]
    /\ fromTarget = [s \in Stream |-> "open"] /\ stopped = {}
    /\ l2r = [s \in Stream |-> "off"] /\ r2l = [s \in Stream |-> "off"]
    /\ toPeer = [s \in Stream |-> "open"]
    /\ toTarget = [s \in Stream |-> "open"]

ConnTo(c, p) == conn' = [conn EXCEPT ![c] = p]
StreamTo(s, p) == stream' = [stream EXCEPT ![s] = p]

-----------------------------------------------------------------------------
(* ForwardHandler::accept, spawned by the router for every connection.      *)

(* A peer the list does not allow is told by a close frame.                *)
Accept(c) ==
    /\ server = "run" /\ conn[c] = "new"
    /\ IF c \in Denied
       THEN ConnTo(c, "ended") /\ UNCHANGED alive
       ELSE ConnTo(c, "queued") /\ alive' = alive \cup {c}
    /\ UNCHANGED <<server, permits, stream, pipeVars>>

ConnPermit(c) ==
    /\ conn[c] = "queued" /\ connFree > 0
    /\ connFree' = connFree - 1 /\ ConnTo(c, "permit")
    /\ UNCHANGED <<server, alive, strFree, stream, pipeVars>>

(* The stream permit is taken before accept_bi.                            *)
StreamPermit(c) ==
    /\ conn[c] = "permit" /\ strFree > 0
    /\ strFree' = strFree - 1 /\ ConnTo(c, "accept")
    /\ UNCHANGED <<server, alive, connFree, stream, pipeVars>>

(* The forwarder's task takes the permit along.                            *)
AcceptBi(s) ==
    /\ conn[ConnOf[s]] = "accept" /\ ConnOf[s] \in alive
    /\ stream[s] = "open"
    /\ StreamTo(s, "head") /\ ConnTo(ConnOf[s], "permit")
    /\ UNCHANGED <<server, alive, permits, pipeVars>>

(* Mutant: the permit is forgotten when accept_bi fails. *)
AcceptBiLeaks(c) ==
    /\ conn[c] = "accept" /\ c \notin alive
    /\ ConnTo(c, "leaving")
    /\ UNCHANGED <<server, alive, permits, stream, pipeVars>>

(* accept_bi fails: the loop is left and its permit dropped.               *)
AcceptBiFails(c) ==
    /\ conn[c] = "accept" /\ c \notin alive
    /\ strFree' = strFree + 1 /\ ConnTo(c, "leaving")
    /\ UNCHANGED <<server, alive, connFree, stream, pipeVars>>

(* connection.closed(), and the connection's own permit.                   *)
Leave(c) ==
    /\ conn[c] = "leaving" /\ c \notin alive
    /\ connFree' = connFree + 1 /\ ConnTo(c, "ended")
    /\ UNCHANGED <<server, alive, strFree, stream, pipeVars>>

-----------------------------------------------------------------------------
(* handle_forward_stream. *)

(* The task ends: its permit is free, its halves are dropped.              *)
Over(s) == StreamTo(s, "over") /\ strFree' = strFree + 1

(* is_blocked_ip: to_canonical and embedded_ipv4 pick the groups an IPv4    *)
(* address is in, which the IPv4 ranges judge, Teredo is refused as a      *)
(* whole, and all other prefixes are judged as they stand.                 *)
IsBlocked(a) ==
    \/ a.prefix \in {"v4", "::ffff:0:0/96", "::/96", "64:ff9b::/96"} /\ a.last = "blocked"
    \/ a.prefix = "2002::/16" /\ a.second = "blocked"
    \/ a.prefix \in {"2001::/32", "::1", "::", "ff00::/8", "fc00::/7", "fe80::/10"}

CheckProxyTarget(a) == Mode = "private" \/ ~IsBlocked(a)

(* The hello of a fixed forward; the header of a proxy stream, which names  *)
(* an address or a domain, resolved once, and passes the filter or not.    *)
ReadHead(s) ==
    /\ stream[s] = "head" /\ fromPeer[s] = "open"
    /\ IF Mode = "forward" THEN StreamTo(s, "dial") /\ UNCHANGED strFree
       ELSE \E a \in Addr : IF CheckProxyTarget(a)
                            THEN StreamTo(s, "dial") /\ UNCHANGED strFree
                            ELSE Over(s)
    /\ UNCHANGED <<server, conn, alive, connFree, pipeVars>>

(* A bad or cut header, or a name that does not resolve; a failed connect. *)
BadHead(s) ==
    /\ stream[s] = "head"
    /\ Over(s)
    /\ UNCHANGED <<server, conn, alive, connFree, pipeVars>>

DialFails(s) ==
    /\ stream[s] = "dial"
    /\ Over(s)
    /\ UNCHANGED <<server, conn, alive, connFree, pipeVars>>

Dial(s) ==
    /\ stream[s] = "dial"
    /\ StreamTo(s, "pipe")
    /\ l2r' = [l2r EXCEPT ![s] = "read"] /\ r2l' = [r2l EXCEPT ![s] = "read"]
    /\ UNCHANGED <<server, conn, alive, permits,
                   fromPeer, fromTarget, stopped, toPeer, toTarget>>

-----------------------------------------------------------------------------
(* pipe_halves on the serving side.  A half that ends well waits for the    *)
(* other; one that fails ends the loop, and both streams are dropped:      *)
(* a dropped TCP half shuts its direction down, and a dropped QUIC send    *)
(* half that was not reset is finished.                                    *)

others == <<server, conn, alive, connFree>>

(* tokio::io::copy takes what its source has, as long as its buffer has     *)
(* room, and writes when its sink has room; a sink that takes nothing      *)
(* keeps it from seeing how the source ends, and a source that is silent   *)
(* keeps it from seeing that the sink is gone.                             *)
LocalReads(s) ==
    /\ stream[s] = "pipe" /\ l2r[s] \in {"read", "write"} /\ fromTarget[s] = "open"
    /\ \E p \in {"write", "full"} : l2r' = [l2r EXCEPT ![s] = p]
    /\ UNCHANGED <<others, strFree, stream, fromPeer, fromTarget, stopped, r2l,
                   toPeer, toTarget>>

RemoteReads(s) ==
    /\ stream[s] = "pipe" /\ r2l[s] \in {"read", "write"} /\ fromPeer[s] = "open"
    /\ \E p \in {"write", "full"} : r2l' = [r2l EXCEPT ![s] = p]
    /\ UNCHANGED <<others, strFree, stream, fromPeer, fromTarget, stopped, l2r,
                   toPeer, toTarget>>

(* What s sends its peer arrives if the connection carries it.             *)
PeerSees(s, what) ==
    toPeer' = [toPeer EXCEPT ![s] = IF ConnOf[s] \in alive THEN what ELSE @]

(* A half of the pipe of s ends; with the other half over, the pipe is.    *)
EndsWell(s, other) ==
    IF other[s] \in Running THEN UNCHANGED <<stream, strFree>> ELSE Over(s)

LocalEof(s) ==
    /\ stream[s] = "pipe" /\ l2r[s] = "read" /\ fromTarget[s] = "fin"
    /\ l2r' = [l2r EXCEPT ![s] = "ok"]
    /\ PeerSees(s, "fin") /\ EndsWell(s, r2l)
    /\ UNCHANGED <<others, fromPeer, fromTarget, stopped, r2l, toTarget>>

(* Mutant: the loop does not notice that the other half was over. *)
RemoteEofWaits(s) ==
    /\ stream[s] = "pipe" /\ r2l[s] = "read" /\ fromPeer[s] = "fin"
    /\ r2l' = [r2l EXCEPT ![s] = "ok"]
    /\ toTarget' = [toTarget EXCEPT ![s] = "fin"]
    /\ UNCHANGED <<others, strFree, stream, fromPeer, fromTarget, stopped, l2r, toPeer>>

RemoteEof(s) ==
    /\ stream[s] = "pipe" /\ r2l[s] = "read" /\ fromPeer[s] = "fin"
    /\ r2l' = [r2l EXCEPT ![s] = "ok"]
    /\ toTarget' = [toTarget EXCEPT ![s] = "fin"]
    /\ EndsWell(s, l2r)
    /\ UNCHANGED <<others, fromPeer, fromTarget, stopped, l2r, toPeer>>

(* The copy to the peer fails, because the target cannot be read, or the    *)
(* connection is gone or the peer takes no more when there is something to *)
(* write.  recv.stop; the send half is not reset, and dropping it finishes *)
(* it, unless the peer had stopped it.                                     *)
LocalFails(s) ==
    /\ stream[s] = "pipe"
    /\ \/ l2r[s] \in {"read", "write"} /\ fromTarget[s] = "failed"
       \/ l2r[s] \in {"write", "full"} /\ (ConnOf[s] \notin alive \/ s \in stopped)
    /\ l2r' = [l2r EXCEPT ![s] = "err"]
    /\ r2l' = [r2l EXCEPT ![s] = IF @ \in Running THEN "dropped" ELSE @]
    /\ PeerSees(s, IF s \in stopped THEN "reset" ELSE "fin")
    /\ toTarget' = [toTarget EXCEPT ![s] = "fin"]
    /\ Over(s)
    /\ UNCHANGED <<others, fromPeer, fromTarget, stopped>>

(* The peer's half is gone, or the target takes no more of what there is.  *)
RemoteBroken(s) ==
    /\ stream[s] = "pipe"
    /\ \/ r2l[s] \in {"read", "write"} /\ fromPeer[s] = "gone"
       \/ r2l[s] \in {"write", "full"} /\ fromTarget[s] = "failed"

(* Mutant: the error arm forgets the reset, and the drop finishes the      *)
(* stream.                                                                 *)
RemoteFailsQuietly(s) ==
    /\ RemoteBroken(s)
    /\ r2l' = [r2l EXCEPT ![s] = "err"]
    /\ l2r' = [l2r EXCEPT ![s] = IF @ \in Running THEN "dropped" ELSE @]
    /\ PeerSees(s, IF l2r[s] = "ok" THEN toPeer[s] ELSE "fin")
    /\ toTarget' = [toTarget EXCEPT ![s] = "fin"]
    /\ Over(s)
    /\ UNCHANGED <<others, fromPeer, fromTarget, stopped>>

(* The copy to the target fails: local_write.shutdown runs all the same,    *)
(* then the other copy is dropped and the send half reset.                 *)
RemoteFails(s) ==
    /\ RemoteBroken(s)
    /\ r2l' = [r2l EXCEPT ![s] = "err"]
    /\ l2r' = [l2r EXCEPT ![s] = IF @ \in Running THEN "dropped" ELSE @]
    /\ PeerSees(s, IF l2r[s] = "ok" THEN toPeer[s] ELSE "reset")
    /\ toTarget' = [toTarget EXCEPT ![s] = "fin"]
    /\ Over(s)
    /\ UNCHANGED <<others, fromPeer, fromTarget, stopped>>

-----------------------------------------------------------------------------
(* Ctrl+C: router.shutdown stops the handlers and closes every connection,  *)
(* the forwarders get DRAIN_TIMEOUT.                                       *)
Cut(cs) ==
    fromPeer' = [s \in Stream |->
                    IF ConnOf[s] \in cs /\ stream[s] \notin {"none", "over"}
                        /\ fromPeer[s] = "open"
                    THEN "gone" ELSE fromPeer[s]]

Shutdown ==
    /\ server = "run"
    /\ server' = "drain" /\ alive' = {} /\ Cut(Conn)
    /\ conn' = [c \in Conn |-> "ended"]
    /\ connFree' = MaxConns
    /\ strFree' = strFree + Cardinality({c \in Conn : conn[c] = "accept"})
    /\ UNCHANGED <<stream, fromTarget, stopped, l2r, r2l, toPeer, toTarget>>

Forwarding == {s \in Stream : stream[s] \in {"head", "dial", "pipe"}}

DrainTasks ==
    /\ server = "drain"
    /\ server' = "exited"
    /\ UNCHANGED <<conn, alive, permits, stream, pipeVars>>

-----------------------------------------------------------------------------
(* The environment: peers open streams and end them, connections die, and   *)
(* targets answer.                                                         *)

OpenStream(s) ==
    /\ ConnOf[s] \in alive /\ stream[s] = "none"
    /\ StreamTo(s, "open")
    /\ UNCHANGED <<server, conn, alive, permits, pipeVars>>

PeerEnds(s, how) ==
    /\ stream[s] = "pipe" /\ fromPeer[s] = "open"
    /\ fromPeer' = [fromPeer EXCEPT ![s] = how]
    /\ UNCHANGED <<server, conn, alive, permits, stream, fromTarget, stopped,
                   l2r, r2l, toPeer, toTarget>>

PeerStops(s) ==
    /\ stream[s] = "pipe" /\ s \notin stopped
    /\ stopped' = stopped \cup {s}
    /\ UNCHANGED <<server, conn, alive, permits, stream, fromPeer, fromTarget,
                   l2r, r2l, toPeer, toTarget>>

(* A target that has ended its data can still break the connection.        *)
TargetEnds(s, how) ==
    /\ stream[s] = "pipe"
    /\ fromTarget[s] = "open" \/ (fromTarget[s] = "fin" /\ how = "failed")
    /\ fromTarget' = [fromTarget EXCEPT ![s] = how]
    /\ UNCHANGED <<server, conn, alive, permits, stream, fromPeer, stopped,
                   l2r, r2l, toPeer, toTarget>>

(* An end that is there makes room for what a copy holds.                  *)
PeerTakes(s) ==
    /\ stream[s] = "pipe" /\ l2r[s] \in {"write", "full"}
    /\ ConnOf[s] \in alive /\ s \notin stopped
    /\ l2r' = [l2r EXCEPT ![s] = "read"]
    /\ UNCHANGED <<server, conn, alive, permits, stream, fromPeer, fromTarget,
                   stopped, r2l, toPeer, toTarget>>

TargetTakes(s) ==
    /\ stream[s] = "pipe" /\ r2l[s] \in {"write", "full"} /\ fromTarget[s] # "failed"
    /\ r2l' = [r2l EXCEPT ![s] = "read"]
    /\ UNCHANGED <<server, conn, alive, permits, stream, fromPeer, fromTarget,
                   stopped, l2r, toPeer, toTarget>>

ConnDies(c) ==
    /\ c \in alive
    /\ alive' = alive \ {c} /\ Cut({c})
    /\ UNCHANGED <<server, conn, permits, stream, fromTarget, stopped,
                   l2r, r2l, toPeer, toTarget>>

-----------------------------------------------------------------------------
ConnStep(c) ==
    ConnPermit(c) \/ StreamPermit(c) \/ AcceptBiFails(c) \/ Leave(c)
LocalStep(s) == LocalReads(s) \/ LocalEof(s) \/ LocalFails(s)
RemoteStep(s) == RemoteReads(s) \/ RemoteEof(s) \/ RemoteFails(s)
StreamStep(s) ==
    \/ AcceptBi(s) \/ ReadHead(s) \/ BadHead(s) \/ Dial(s) \/ DialFails(s)
    \/ LocalStep(s) \/ RemoteStep(s)

Next ==
    /\ server # "exited"
    /\ \/ Shutdown \/ DrainTasks
       \/ \E c \in Conn : Accept(c) \/ ConnStep(c) \/ ConnDies(c)
       \/ \E s \in Stream :
             \/ StreamStep(s) \/ OpenStream(s)
             \/ PeerStops(s) \/ PeerTakes(s) \/ TargetTakes(s)
             \/ \E how \in {"fin", "gone"} : PeerEnds(s, how)
             \/ \E how \in {"fin", "failed"} : TargetEnds(s, how)

Spec == Init /\ [][Next]_vars

(* Tasks go on, the two halves of a pipe in turn, and the drain's deadline  *)
(* passes; neither peers nor targets have to do anything.                  *)
FairSpec ==
    /\ Spec /\ WF_vars(server # "exited" /\ DrainTasks)
    /\ \A c \in Conn : WF_vars(server # "exited" /\ ConnStep(c))
    /\ \A s \in Stream : /\ WF_vars(server # "exited" /\ (LocalEof(s) \/ LocalFails(s)))
                         /\ WF_vars(server # "exited" /\ (RemoteEof(s) \/ RemoteFails(s)))

-----------------------------------------------------------------------------
(* Properties. *)

(* No permit is lost or made up, on any way out of the handler or of a      *)
(* forwarder: an accept loop that waits, or a stream that is forwarded,    *)
(* holds one, and so the forwarded streams never exceed --max-conns.       *)
PermitsConserved ==
    /\ strFree + Cardinality({c \in Conn : conn[c] = "accept"})
               + Cardinality(Forwarding) = MaxConns
    /\ connFree + Cardinality({c \in Conn : conn[c] \in {"permit", "accept", "leaving"}})
         = MaxConns

(* "a clean half-close does not cancel the other direction" (pipe.rs:3): as *)
(* long as neither end failed and the peer takes what comes, each end sees *)
(* the other's end of stream and no sooner.                                *)
HalfCloseKept ==
    \A s \in Stream : fromPeer[s] # "gone" /\ fromTarget[s] # "failed" /\ s \notin stopped =>
        /\ toTarget[s] = "fin" => fromPeer[s] = "fin"
        /\ toPeer[s] # "open" => fromTarget[s] = "fin"

(* When the copy to the target fails, the peer never sees the end of a      *)
(* stream that had more to come: its half is reset, unless the target had  *)
(* ended it before.  The other way round it is not so: a target that       *)
(* cannot be read any more looks to the peer like one that has ended.      *)
AbortIsSeen ==
    \A s \in Stream : r2l[s] = "err" => toPeer[s] # "fin" \/ l2r[s] = "ok"

(* A pipe is to end when both its ends are over or one has failed.         *)
Ended(s) ==
    /\ stream[s] = "pipe"
    /\ \/ fromPeer[s] = "gone" /\ r2l[s] \in Running
       \/ fromTarget[s] = "failed" /\ l2r[s] \in Running
       \/ fromPeer[s] = "fin" /\ fromTarget[s] = "fin"

(* Then it ends, and returns its permit, unless one of its copies waits for *)
(* ever for an end that does not take what was sent to it.                 *)
PipesEnd ==
    \A s \in Stream :
        []<>(l2r[s] \notin {"write", "full"}) /\ []<>(r2l[s] \notin {"write", "full"})
            => (Ended(s) ~> stream[s] = "over" \/ server = "exited")

(* Ctrl+C ends the process, however long a target takes.                   *)
ShutdownEnds == server = "drain" ~> server = "exited"

(* Permits are neither lost nor made on any way out of a connection, a     *)
(* stream or the whole server.                                             *)
PermitsSound == TypeOK /\ PermitsConserved

(* A pipe passes a clean end on as one and leaves the other direction open, *)
(* and what it failed to bring to the target never looks to the peer like  *)
(* the end of the answer.                                                  *)
PipesFaithful == HalfCloseKept /\ AbortIsSeen

(* Every pipe whose ends are over and take what they are sent ends, and     *)
(* Ctrl+C stops the server.                                                *)
StreamsEnd == PipesEnd /\ ShutdownEnds
=============================================================================
