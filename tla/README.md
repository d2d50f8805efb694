# link-p2p: a TLA+ verification of its concurrent core

link-p2p connects two machines over iroh (QUIC with hole punching and relays):
it forwards streams and SOCKS5, places "phone calls" between contacts, and
builds a small virtual LAN over a TUN interface, with a background daemon per
plane. This directory holds TLA+ models of its concurrent core and of the state
it keeps on a host, TLC configurations that check them on small instances, and
TLAPS proofs of safety properties for every value of the constants.

Every definition is a translation of the Rust source; `PROJECT.json` maps each
one to the lines it models. Comments name the function.

## 1. Inventory

| part | source | state | operations | what is hard | what makes it correct |
|---|---|---|---|---|---|
| TUN hub | `tun/hub.rs` | dual-stack peer index (`HubPeerIndex`), roster senders (`RosterFans`), host routes, status list | accept, handshake, claim, roster fan-out, teardown, refresh | one task per spoke on shared maps; a spoke redials before its old session is torn down; bounded channels; partial route failure | an address has one owner; a fresh session is not undone by a stale one; rosters and routes agree with the sessions; hidden spokes stay hidden; joins and teardowns end |
| TUN spoke | `tun/spoke.rs` | mesh table (`SpokeMesh`), hub connection, direct links | join, redial with backoff, roster task, direct dials and accepts | `mesh_update` is load, clone, store; teardown by EndpointId; roster changes missed while away | the table follows hub session, roster and direct links; no packet into a finished link |
| TUN phone | `tun/phone.rs`, `phone_ring.rs` | active peers, ringing list, published pending calls, phase, routes | dial, accept, reject, ring timeout, cancel, one task per call | tasks and select loop share three structures, read before and used after awaits | no address collision; the published calls are the ringing ones; rings and calls end; no stale route |
| TUN session phase | `tun/mod.rs` (`SessionPhase`) | phase | `apply_phase` | illegal edges are ignored silently | the phase follows the calls |
| packet plane, MTU | `tun/mod.rs`, read loops of hub and phone | bounded packet queues, interface MTU, raise hold-off | device task, demux, senders, read loops, shrink, raise, ICMP answers | tasks wait for each other's queues; MTU commands fail; timers in a select | no circle of waits; flows settle on sizes that fit; the MTU recovers |
| VIP allocation, devices, routes | `tun/mod.rs`, `tun/platform/` | devices, addresses, routes of the host | create, add address, add and delete routes | check-then-add; every command may fail, the listings unnoticed; two daemons on a host | no address twice; a teardown leaves others' routes alone |
| roster messages | `tun_roster.rs` | none | Snapshot, Joined, Left | order | see hub and spoke |
| TUN daemon | `tun_daemon/` | `tun.lock`, `tun.sock`, `tun.pid`, worker tasks, ready pipe | `tun up`, `status`, `down`, ready handshake, cleanup | several processes, kills, stale files, timeouts | one data plane; files belong to the lock's holder; up and down end |
| TUN control protocol | `tun_ctl.rs`, `tun_daemon/` | connections, call queue, shutdown watch | Status, Peers, Shutdown, Call, Accept, Reject, probe, drain | stalled clients, versions, timeouts | a live socket is not unlinked; Shutdown is answered; commands end |
| connection slot, reconnect watcher | `runtime.rs` | watch channel with the current connection, backoff | replace, wait, open stream, redial | two writers; a value sent with no receiver | a live connection is eventually offered to waiters |
| path monitor, path log | `runtime.rs`, `path_kind.rs`, `path_stats.rs` | timers, streaks, a rolling log file | sample, nudge, append, trim | timers in a select; runs share a file, written piece by piece | nudges in time; a run alone keeps the newest lines and the bound |
| stream phone daemon | `stream_daemon_unix.rs`, `stream_ctl.rs`, `call.rs` | active call, rings, phase, lock, socket, pid file | dial, accept, reject, hang up, up, down | fields changed one at a time by several tasks; cleanup after the lock is dropped | one daemon; rings end; a finished call frees the phone |
| pipes | `pipe.rs` | two directions | copy, half-close, abort | one direction failing or waiting for room | a clean end arrives as one; what was cut off never looks complete |
| serve, connect | `commands/` | permits, slots | accept, forward, drain | limits, Ctrl+C | permits returned once |
| SOCKS5, target filter | `socks5.rs`, `ssrf.rs` | none | target header, address classes | embedded forms of addresses | what is dialled has passed the filter |
| identity, contacts | `identity.rs`, `contacts.rs` | key and book files | migrate, load, encrypt, create; add, remove; short codes | truncate before write; failed reads; crashes; overlapping commands | the identity is stable; a saved name dials |
| installers, Windows services | `tun_service.rs`, `win_*.rs` | outside the program | calls to systemd, launchd, SCM | | |
| relay selection, command line, texts | the rest | none | measurement, parsing, printing | | |

How they interact. `tun up` spawns a worker process and waits for its ready
line. The worker takes `tun.lock`, binds `tun.sock`, writes `tun.pid` and runs
a control task (requests from `tun status`, `tun down`, `tun call`) beside a
data plane, which is the hub, the spoke or the phone, each on top of the packet
plane and the host's device and routes. Control and data meet in `TunHooks`: a
`Notify` for cancellation, a oneshot for readiness, the `TunLiveState` that
Status prints, and a command channel for calls. A hub and its spokes talk over
one QUIC connection each: addresses, a HELLO, then roster messages on a control
stream and packets as datagrams; spokes also connect to each other directly.
Phones are symmetric. The stream daemon is the same idea for streams instead of
packets. `serve` and `connect` run in the foreground and share the pipes.

`PROJECT.json` lists the hazards at their lines: overlapping sessions of one
peer, maps read before an await, teardown of what somebody else has replaced,
notifications nobody hears, timeouts that race late answers, files of killed
processes, channels at their limit, commands that fail half-way.

## 2. Modules

| module | models | uses |
|---|---|---|
| `AddressLeases` | abstract: what a node promises about the addresses of its peers | |
| `Hub` | hub accept loop, session tasks, index, roster fan-out, routes, status list | `AddressLeases` (refinement) |
| `Spoke` | spoke loop, roster reader, direct links, mesh table | |
| `SessionPhase` | the phase machine | |
| `Phone` | phone select loop, call tasks, active map, ringing list | `SessionPhase`, `AddressLeases` (refinement) |
| `TunPlane` | device task, demux, senders, read loops, MTU machinery | |
| `TunDaemon` | `tun up` parents, workers, control and data tasks, clients, files | |
| `ConnSlot` | connection slot, reconnect watcher, backoff, forwarders of `connect` | |
| `SingleOwner` | abstract: what a daemon's lock promises | |
| `StreamDaemon` | `call up` parents, workers, `call down`, files | `SingleOwner` (refinement) |
| `StreamPhone` | plane of the stream daemon: accept task, command loop, calls | |
| `Serve` | `serve`: permits, streams, target filter, pipes, Ctrl+C | |
| `Identity`, `Contacts`, `PathLog` | the three files a host keeps | |
| `PathMonitor` | monitor of one connection | |
| `TunCtl` | control socket of a running TUN daemon and its commands | |
| `TunDevice` | devices, addresses and routes of two daemons on one host | |
| `LocalHost` | the six modules above as a sum of independent parts | all six |
| `ShortCode` | short codes and their reference definition | |
| `HubProofs`, `PhoneProofs`, `SpokeProofs`, `ConnSlotProofs`, `ServeProofs`, `LocalHostProofs` | the theorems of section 4 | their component |
| `TunDaemonProofs`, `StreamDaemonProofs` | the same, for a daemon and for the plane inside it | their daemon and `TunPlane` or `StreamPhone` |
| `MC*` | small instances | their component |

`TunPlane` and `StreamPhone` are the inside of a daemon's worker and share no
variable with its life cycle. Their specifications have names of their own
(`PlaneSpec`, `PhoneSpec`), so that one proof module extends both parts.

`Phone` composes `SessionPhase` with the call tasks: an event is applied in the
same step in which the code calls `apply_phase`. The parts of `LocalHost` share
no state, so a behaviour of it is a behaviour of one part with the others at
rest; an invariant of every part is then one of every interleaving.

### Hub

A session is one accepted connection, numbered by `session_seq` as in the code.
`pc[s]` is where its `hub_run_spoke` is; every stretch between two points where
another task can observe or change shared state is one action. The index holds
session numbers instead of `HubPeer` records: `id`, `vip` and `hidden` give the
record's fields. `open` is the spoke's side of the connection: `SpokeCloses`
happens at any time and `SeeClose` is the moment the hub notices.

- `ExchangeVips`, `ClaimPeer`, `VerifyClaim`: address exchange, HELLO,
  `try_claim_peer`. The claim looks at both families and replaces entries of the
  same EndpointId; success is read back in a second step, from the index as it is
  then and from `by_v4` alone, as in the code.
- `InsertFan`, `AddPeerRoute`, `AddPeerRouteFails`, `AbandonJoin`: the join and
  its error path. The v4 command runs before the v6 one, so a v4 route may stay.
- `WriteSnapshot`, `BroadcastJoined`, `BroadcastLeft`: roster messages. A
  broadcast clones the senders, then sends to each, waiting on a full channel.
- `RefreshUp`, `RefreshDown`: `refresh_hub_peers_state`, load and store apart.
- `RemovePeer`, `JudgeRemoved`, `RemoveFan`, `DelPeerRoute`: the teardown.
  `peers_remove_if_owned` updates the index and then loads it again to see
  whether both slots are empty: two steps, and another session may claim between
  them. With `RouteFaults` each delete command may fail.
- `Deliver`, `FanWriteFails`: the fan-out task. A spoke is the view it builds
  from what was written to its control stream.

`Redial` says how early a spoke may dial again, seen from the hub: `"after"` its old
task returned, or once that session was `"established"`, so that the new join runs
beside the old teardown. Both happen in practice; a property that needs the first
says so in section 3. Handshakes of one peer that overlap, where a spoke gives up a
slow handshake and dials again, are not modelled. `SuccessorSpared` is about the
redial beside a teardown: the one that decides late must not take away the routes of
the session that has replaced it, which is what `peers_remove_if_owned` is for.

### AddressLeases

What the hub's dual-stack index and the phone's active map have in common: the
pairs of an address and the peer that holds it, one set per family. `Claim` adds
both addresses of a peer, where no other peer holds either; `Release` takes away
leases of one peer. So a pair is never claimed by half, and an address never
passes from one peer to another in a step. For the hub `lease4` and `lease6` are
the index maps with every session replaced by its EndpointId, for the phone the
entries of `active`; both for addresses that `vip_usable` accepts. `IndexLeases`
and `ActiveLeases` state that each implements it.

### Spoke

The table is `hub_out`, the direct links and the roster. Each `mesh_update` is
two steps, a load into the task's `copy` and a store, because its callers run on
several threads; `overlap` records that a store happened while another task
held a copy, so that one of the two updates is lost. The hub is reduced to the
roster messages it sends: a Snapshot when a session is set up, then Joined and
Left, also for what the snapshot has told already (`Repeats`: the hub takes it
between a peer's claim and its Joined, or between its removal and its Left); what
happens while the spoke is away is not sent. That the last word on a member is
never a Left is what `RostersAgree` shows of the hub, for spokes that redial after
their teardown. A link is one direct
connection, dialled after a roster entry or accepted, installed, and torn down
by the link's addresses whoever installed them last. The two direct indexes have
keys of a family and an address; `vip` is the pair a link announced. A dialled
link must announce what the hub said of its peer, an accepted one may announce
any pair (`Announce`) that holds none of our own addresses. `LookupOut` is where a
packet goes: to the hub's address, to a direct link, or to the hub when the
address is in the mesh.

### Phone

A call is a slot for one connection, used again when nothing refers to it any
more, so behaviours are endless with a finite state. `loop` is the select loop,
which is either waiting or inside a handler that awaits. Three structures are
shared: `active` (an `ArcSwap` map, changed by `rcu`), `ringing` (behind a
lock) and `phase`. `phone_reconcile_phase_after_ring` is three steps, because it
awaits between reading the active peers, reading the ringing list and applying
the event; the loop and the call tasks run it concurrently (`rec`). `Claim`
judges success on the map `rcu` returns, the one before the update.
`RouteFaults` and `DeleteFaults` are the families whose route commands may fail.

### TunPlane

A packet is a destination, a length and whether it is the host's own. The device
task holds the packet it found no room for, and waits; `FanOut` is the demux;
`sender` follows `spawn_peer_sender` through shrink, note and ICMP answer, each its
own step because they take the cell's lock or the device queue one after the other;
it may also wait in `send_datagram_wait` for room in the connection (`SendEnds` ends
that). Flows offer packets as large as device and kernel allow: an ICMP answer
lowers `pmtu`, and `PmtuExpires` forgets it. The read loops are selects whose sleep
starts afresh with every datagram. `SetMtu` may fail after the cell was written, as
in the code. `Floor` is the least MTU the platform programs.

### TunDaemon

A worker is one spawn (its session token is unique, and pid reuse is left out);
its parent goes by the same name. `lock` is the flock, `sock` the worker whose
listener the path names, `pid` the record's session. A probe is two steps, the
handshake and the later unlink of what it took to be stale, because other
processes run in between. `Slow` lets a live daemon miss the probe's timeout,
`Leaves` lets the data plane go back to dialling or handshaking, where it does
not listen to `cancel`, `Faults` adds kills, interrupted parents, failing data
planes and pid writes. A setup error before `signal_ready` leaves `ready`
pending, because the control task shares the sender.

### TunCtl

Looks into the control socket `TunDaemon` treats as a whole. Every connection
has a task that reads within `CTL_READ_TIMEOUT`, checks privilege, and answers;
a client that stalls keeps its own task only. `Shutdown` closes the accept loop
and then cancels the data plane; the drain waits for tasks at most
`CTL_DRAIN_TIMEOUT`. `tun call` polls Peers until somebody is connected, and
`tun down` polls Status until nobody answers; both give up at a deadline
(`PollAgain`). A request of another version is dropped without an answer.

### ConnSlot

The slot is a `tokio::sync::watch` channel. `Replace` is its `send`: it stores
and notifies only while a receiver exists. A forwarder holds one from `Subscribe`
to the next turn of its loop; the watcher's is a temporary. `changed` is the set
of receivers with an unseen update, so `changed()` needs no version numbers. The
watcher reads the slot, waits for that connection's end, then redials at once
after a stable session, or pauses first (`age` abstracts `connected_at` to
none, recent, old; `next_delay` keeps its numbers). `rested` is a history
variable for `NoSpin`. `Prompt` states a timing assumption: a task that is ready
runs before a dial, a timeout or a sleep ends, for these take a round trip or
more. Without it, a forwarder suspended between its `open_bi` timeout and
`replace(None)` can empty the slot after the watcher refilled it, and both
`EmptyMeansDown` and `NoSpin` fail.

### StreamDaemon, StreamPhone, SingleOwner

`StreamDaemon` has the parents, the workers and `call down` around a lock, a
socket and a pid file, like `TunDaemon`, but in this daemon's order: it drops the
lock and then unlinks the files, so `late` records that a worker unlinked after
another one had taken the lock. `SingleOwner` is the promise of the lock alone,
and `OneDaemon` states that the daemon implements it, with `owner` the lock's
holder and `running` the planes that are set up or up. `StreamPhone` is inside
a plane: active call, rings, phase and published lists are fields behind locks
of their own, and each field a task changes is a step. One task pushes rings, so
those that have timed out are the first of the list and `old` is their number.
`crossed` records that a
call began while another one's watcher was still at work.

### Serve

A connection passes the allow list, takes a connection permit, then a stream
permit before every `accept_bi`; a stream reads its target header (in proxy
mode), is filtered, dialled and piped. An address is what is written: the prefix
that `is_blocked_ip` looks for and the ranges of the IPv4 addresses its groups
spell, of which the prefix picks one (mapped, compatible, NAT64, 6to4), or none;
`Mode` is the server's mode. A pipe is two copies in one select loop, `l2r` and
`r2l`: each waits for data, or holds some that its sink has not taken, or is full
and reads no more. A copy that waits for data does not notice that its sink is
gone, and one that is full does not notice how its source ends. `fromPeer` and
`fromTarget` are what the ends did, `stopped` the streams whose peer takes
no more, `toPeer` and `toTarget` what the two ends saw.

### The files, the monitor and the devices

`Identity` runs commands through resolve, migrate, load, encrypt and create, with a
kill between any two system calls, failing writes and failing reads; a read that
fails passes for a missing file, over which the run creates a key of its own
(`misread`). `first` is the key first saved. `Contacts` loads, changes and saves the
book; `Fold` is lower-casing. `PathLog` separates names from the files behind them,
since a run keeps writing to the file it opened; files are numbered in the order of
their creation. Neither file is buffered, so a line goes out in several writes, each
a step (`AppendWrite`, `TrimWrite`); an append goes to the end of the file as it is
then, a trim to the run's own place, and what lies beyond stays. `by` and `base` are
a run that has the log to itself and what it found there. `PathMonitor` counts in
units of 15 s; the slow pace may be any number of them from the longest quick one,
6, on. `TunDevice` makes every `ip`, `ifconfig`, `route` or `netsh` command a step
that may fail. A listing of addresses that fails looks like one that found nothing,
for its exit status is not read; one that cannot be run is an error, except for IPv6
on Windows; `blind` has the daemons that took an address so. A daemon routes the
mesh, as a spoke, or peer by peer (`role`). In these modules a history variable
(`alone`, `by`, `calm`) records whether runs have overlapped, where a property holds
only as long as they do not.

## 3. Runs

Eleven runs hold and one finds a violation; each configuration names its bounds.

| run | instance | result |
|---|---|---|
| `hub_reconnect` | 2 hidden peers fighting over a v4 and a v6 address and changing theirs, one announcing the hub's; 3 sessions; redial once established; route faults | `IndexSound`, `SlotKept`, `HiddenUnseen`, `IndexLeases` (refinement of `AddressLeases`), `SuccessorSpared` hold |
| `hub_live` | 2 visible peers, a hidden one and one not allowed; any 2 sessions; fan channel of 3; status list; redial after the teardown; fair | `RoutesAgree`, `RostersAgree`, `JoinsNeverWait`, `ChurnCompletes` hold |
| `spoke_links` | 2 other spokes, one dialled and one that dials; 2 hub sessions, 2 direct links, the inbound ones under addresses of either peer or our own, 1 roster message after the snapshots; fair | `TableSound`, `RosterComplete`, `DeadLinkCleared` hold |
| `phone_calls` | a contact and a stranger with colliding or unusable addresses; 2 calls at a time, endlessly; v4 routes that cannot be added, v6 routes that cannot be deleted; fair | `CallsTidy`, `ActiveLeases` (refinement of `AddressLeases`), `RingsAndCallsEnd` hold |
| `plane_mtu` | 2 peers, paths of 2 sizes, one below `--mtu` and one beyond it, one flow, queues of 1, one ICMP answer a second, 1 event; fair | `PlaneTypeOK`, `MtuBoundKept`, `WritersServed`, `FlowsSettle`, `MtuRecovers` hold |
| `conn_serve` | 2 clients at a time, endlessly; 4 connections held at a time; 2 permits; delays 1 to 3; prompt tasks; fair | `EmptyMeansDown`, `NoSpin`, `ClientsServed` hold |
| `daemon_race` | 2 spawns, 1 client, all faults; fair | `LockGuardsFiles`, `OnePlane`, `BindClear`, `CommandsComplete` hold |
| `stream_daemon` | 2 spawns, 1 client, all faults; fair | `FilesSound`, `OneDaemon` (refinement of `SingleOwner`), `CommandsComplete` hold |
| `stream_calls` | a contact and a stranger, 2 connections, 2 control requests; fair | `PhoneSound`, `RingsAndCallsEnd` hold |
| `serve_streams` | 3 connections, one denied, 2 streams, 1 permit of each kind, proxy mode; fair | `PermitsSound`, `PipesFaithful`, `StreamsEnd` hold |
| `local_host` | identity: 3 commands, one with a passphrase, 2 faults; contacts: 4 edits of two names that differ in case; log: 3 runs, 2 at a time, 1 line kept, 2 writes a line, 1 kill; monitor: slow peer; control: 3 clients, one stalled, queue of 1; devices: 2 daemons of either role, 3 platforms; short codes: 3-byte ids over 7 byte values; fair control tasks | `FilesKept`, `CtlSound`, `MonitorSound`, `DeviceSound`, `CommandsEnd` hold |
| `identity_rewrite` | the identity part | `KeySurvives` fails |

`identity_rewrite`: a plaintext key file that is loaded with a passphrase is
encrypted in place. It is truncated before it is written, so a write that fails
leaves it empty; the command goes on with a warning that the file stays
plaintext, and the next start finds no key. The comment above
`load_or_create_secret_key` promises the opposite. `FilesKept` says that this
rewrite and a failed read, which passes for a missing file, are the two things that
lose the key: without them, crashes and failing writes make the next start refuse,
never take another identity.

Why the bounds are enough. The hub's index, routes and senders are keyed by address
and by EndpointId, and every property is about at most two sessions of one peer and
one of another: three sessions reach every pair of program points of an old and a
new session beside a rival; `SuccessorSpared` needs just these. `hub_live` has two
sessions for the sake of liveness; its invariants are proved for any number (section
4). Two calls reach every pair of points of two call tasks beside the loop, and
slots are reused, so long successions are covered. Two direct links of one peer, or
one each of two peers, under the same or other addresses, beside two hub sessions
reach every order of install and teardown; a Joined or Left touches one entry, so
one of them beside the snapshots reaches every order of it with the links of that
peer; the theorems are for any number. Two clients race each other and the watcher
over one connection; four names are enough because slot, two forwarders and one new
connection are all that can be held. Two workers race for the lock with a client
unlinking stale files at any point. In the packet plane, queues of one packet are
the hardest for waits, and the event may come at any time. One permit for two
connections makes every acquisition wait, and two streams run every pair of points
of a pipe beside another handler; the mode changes only the filter. Two runs of the
log at a time, or one killed, leave every kind of log that a run alone can find: cut
lines, glued lines, too many lines, a second file left over. `FanCap` is 3 in
`hub_live`, the least with which two sessions cannot block each other: a join sends
to its own channel before anything drains it, and meanwhile every other session may
put a Joined and a Left there. The same run with 2 fails. In general n sessions need
2(n-1)+1; the code has 32, enough for 16 sessions that come and go during one join.
`JoiningNeverBlocks` (section 4) proves that this many suffice for any n.

`spoke_links` stops at a step after which two table updates have overlapped
(`ACTION_CONSTRAINT OneAtATime`): from there on its properties claim nothing.

Deadlock. The hub's, the spoke's and the stream phone's configurations bound
sessions and connections, the phone's, the stream daemon's, `serve`'s and the
local host's stop when everybody is done, so a state without successors is the
intended end and is not checked. The packet plane, the connection slot and the
TUN daemon never stop, and deadlock is checked.

Fairness. Weak fairness of the program's own tasks, where a property needs it: the
runtime polls every ready task, every wait for a peer has a timeout, and the QUIC
idle timeout reports a dead connection. Hub: each session's task and its fan-out
task; spokes owe nothing. Spoke: the teardown of a direct link only. Phone: call
tasks, reconciliations and the handler that rang, as long as the process lives;
strong fairness of the ring timeout, because the one-second tick keeps firing and
`select!` picks among ready branches at random. Packet plane: the tasks and the
clock; a datagram that waits is taken by its connection or fails, since an idle
connection times out; and strong fairness of reading the device for each flow: the
host keeps sending, and the select, biased to writes, gets to reads whenever the
queue into the device is empty. Connection slot: the watcher and the forwarders,
strong fairness of the fair semaphore; of the network and the clients it is assumed
that repeated dials succeed, repeated opens open or fail, streams end, and
connections at some time stop dying by themselves: no client can be served across
endless outages. Daemons: parents, workers, control and data tasks and a client
inside a command; strong fairness of the 2 s deadline of the parent's confirm loop,
which passes however often the loop probes. Stream phone: the loop, the accept task,
the call tasks and the age of a ring. Serve: handlers, either half of a pipe once it
can end, and the drain with its deadline; peers and targets owe nothing, and
`StreamsEnd` is about pipes of which no copy waits for ever for an end that does not
take what it was sent. Nobody has to type a command and no fault has to happen.

### Counterexamples kept as configurations

These configurations show where the code departs from one of its comments or
documents; TLC finds each violated. They are not runs of `PROJECT.json`.

- `MCHub_fan_clobber.cfg`, `FanKept`: the teardown removes the roster sender by
  EndpointId (`hub.rs:668`), so a late teardown leaves the reconnected spoke
  without updates; the comment at `hub.rs:663` calls the teardown
  ownership-aware.
- `MCHub_half_claim.cfg`, `SlotKept`: `try_claim_peer` reads its success from
  `by_v4` alone (`hub.rs:40-73`). A peer that keeps its v4 address, changes its v6
  address to one another peer holds and redials before its old session is torn
  down finds its own older entry there: the refused claim passes for a success,
  and the teardown of the old session leaves the new one without a slot. The
  comment on `HubPeer.session` says that a fresh session replaces the stale entry.
- `MCPhone_ghost.cfg`, `NoGhost`: `rcu` returns the map it replaced
  (`phone.rs:567`), so a first claim inserts its entry and then reports a
  conflict; the entry stays and blocks the peer.
- `MCPhone_idle.cfg`, `IdleIfNothingLive`: a task that saw a ring applies `Ring`
  after the call was rejected (`phone.rs:659`); the phone reports a ring nobody
  can answer.
- `ConnSlot_swap.cfg`, `SwappedOnSuccess`: a connection lost while no client
  waits is redialled, but `send` finds no receiver (`runtime.rs:742`) and the new
  connection is dropped; the watcher goes on redialling with growing delays.
  `ClientsServed` shows that the next client is served in the end.
- `TunDaemon_shutdown.cfg`, `ShutdownCompletes`: `notify_waiters`
  (`tun/mod.rs:292`) reaches only a data plane that waits at
  `cancel.notified()`. A Shutdown during a dial or a handshake is lost, `tun
  down` reports success, and the worker keeps the lock.
- `StreamPhone_listener.cfg`, `ListenerServesCall`: the local listener of a call
  is never aborted (`call.rs:154` says it ends when aborted), so it keeps the
  address and the next call has none.
- `TunPlane_recheck.cfg`, `RecheckedInTime`: the 2 s sleep before an MTU check is
  an arm of the select (`hub.rs:255`), so steady traffic puts the check off for
  ever; `tun/mod.rs:600` and `:950` call it periodic.
- `TunPlane_clamp.cfg`, `MtuBoundKept`: Linux programs at least 1280, so with
  `--mtu 1162` packets outgrow the read buffer of the given MTU plus 64. The
  run `plane_mtu` checks it where `--mtu` is not below the platform's least MTU.
- `MCLocalHost_migrate.cfg`, `StableOrRefused`: of two first commands after an
  upgrade, the slower falls back to a legacy file the other has removed, and
  generates an identity (`identity.rs:51` excludes that).
- `MCLocalHost_version.cfg`, `LiveSocketKept`: a daemon of another protocol version
  drops the request, and the probe unlinks its socket
  (`tun_daemon/ctl_sock/unix.rs:36` excludes that).
- `MCLocalHost_macos.cfg`, `LastClaimKept`: the route delete of macOS names no device
  and removes the route another daemon has taken over.

Other behaviours the models contain:

- Hub: with `HelloLost` `HiddenUnseen` fails, because a HELLO after 800 ms reads as
  visible; `RoutesAgree` and `RostersAgree` need `Redial = "after"`: the teardown
  removes the sender by EndpointId, and deletes the routes a few awaits after it
  found the slots empty, when a successor may have joined under them; a v6 route
  failure or a peer that moves to another address leaves a v4 route behind; two
  status refreshes that read in one order and store in the other leave a stale list.
- Spoke: overlapping updates lose one; a cancel during the pause between sessions
  leaves the mesh route; peers that left while the spoke was away stay on its
  roster; the teardown of an old link removes the newer link's entry; an accepted
  link is installed under whatever addresses it announces (`spoke.rs:575`), in the
  place of another peer's link too.
- TUN daemon: a probe that merely timed out unlinks the socket of a live daemon; a
  data plane that fails on its own leaves the worker waiting for its control
  task; a `tun up` that gives up after the OK line leaves its worker running.
- Stream phone: an Accept during a call replaces it, and the old watcher frees the
  phone of the new one; a late unlink makes a serving daemon unreachable.
- Pipes: a target that cannot be read any more looks to the peer like one that has
  ended, since the arm stops the receive half and the dropped send half finishes
  (`pipe.rs:182`), where `pipe.rs:3` says that an error resets the peer; a dead
  connection or a failed target stays unnoticed while the copy that would meet it
  waits for room or for data.
- Files: overlapping `contact` commands lose an edit, and one killed between
  truncation and write an entire book; overlapping runs lose a path sample, or leave
  a long or garbled log when both fill the second file, and a run killed in the
  middle of a line spoils the next one; a failed read of the key file makes a new
  identity over the old one (`identity.rs:314`).
- Devices: two daemons have one address after a failed listing.
- Packet plane: an error of the device ends its task for good; IPv6 flows over a
  path below 1280 bytes never settle, since ICMPv6 cannot announce less.

## 4. Theorems

All are proved for every value of the constants that satisfies the named
assumptions (`HubConstants`, `PhoneConstants`, `ConnSlotConstants`,
`NoneIsNoConn`, `TunDaemonConstants`, `NoneIsNoWorker`, `PlaneAssumption`,
`StreamDaemonConstants`, `ServeConstants`, `SpokeConstants`, `HostConstants`),
which TLC also evaluates on each run. A further condition on the constants is a
hypothesis of the theorem; each one is there because the statement is false
without it, and the model has the counterexample.

- `HubProofs`: `TypeCorrect`, `IndexIsSound` and `NoSlotTakeover`. The inductive
  invariant is `IndexInv == TypeOK /\ Fresh /\ Announced /\ IndexSound`.
  `IndexSound` alone is not inductive: that a slot is written only under an
  announced address needs `Announced` (a task past the exchange has a pair),
  and that accepting does not disturb an existing entry needs `Fresh` (numbers
  above `session_seq` have no task). The argument is local: only `ClaimPeer`
  writes a slot, for its own session, and a session leaves `Holding` only
  through `RemoveIfOwned`. `NoTakeover` follows because `Claimable` rejects a
  foreign entry in either family, under any `Redial`. `IndexKeepsLeases` says the
  same and more as a refinement: initial states map to `AddressLeases!Init`, the
  step of `ClaimPeer` to `Claim` when the claim is taken and to a stutter when it
  is refused, `RemoveIfOwned` to `Release`, and every other step to a stutter.
  `HiddenStaysUnseen` (for `~HelloLost`) adds `Flagged`, that the flag a session
  carries is its peer's wish from the claim on. `NewestKeepsSlots` is from
  `SlotInv`: `Orderly` says how far an older session of a peer has come when
  the peer has dialled again, `PairedSlots` that both families change hands
  together, `LatestHolds` that the newest session past its claim is in both.
  Its hypothesis `LateRedial` is `Redial = "after"`, or `"established"` with peers
  that never change one address of a pair and keep the other; for others
  `MCHub_half_claim.cfg` refutes it. `SuccessorIsSpared` is an action property from
  the same invariant: a teardown takes the host routes for its own only when it
  finds both slots empty, and by `LatestHolds` no newest session past its claim has
  an address then. `RoutesFollowSessions` adds `RouteThere`, `RouteOwned` and
  `Released`, and assumes that a spoke redials after its teardown, that
  peers announce addresses of their own and that no route command fails: a late
  `del_peer_route` deletes by address whoever uses it now, and a failed command
  leaves the first of two routes. `NoRouteOutlivesItsSlot` gives up the first two of
  these hypotheses for half of the conclusion: with any redials, and addresses
  that peers contend for, a route that nobody uses does not stay. Its invariant
  `RouteDue` says that each route stands at an occupied slot, or that a teardown
  of that address has found the slot empty or has yet to look. The hypothesis
  `WholePairs` is that two announced pairs are equal or differ in both addresses: a
  teardown deletes both routes or none, and looks at the index only after its own
  update. Another session may claim in between; then the duty to delete passes to
  it with the slots. If it shared just one of the two addresses, the route of the
  other would be left to nobody.
  `RostersFollowSessions` is the longest
  argument: `FanInv` follows the sender of each session from `InsertFan` to
  `RemoveFan` and the lists a broadcast has cloned; `Rosters` says for every
  listening session and every other peer that the last word on that peer, in its
  view, its channel, its snapshot to be written or a broadcast under way, is
  whether a visible session of that peer is there. `JoiningNeverBlocks` bounds
  the channels, whatever the redials and faults. `SaidTo` counts what a session has
  been sent as a set of (sender, message) pairs; `Spoken` never has the pair that a
  broadcast is about to add, so its cardinality is at most that of `Possible`
  less one, and `QueueBound` says that a channel nobody drains is no longer
  than that. The hypothesis is `FanCap >= 2 * MaxSession - 1`, the bound of
  section 3.
- `PhoneProofs`: `ActiveVipsUnique`, `ActiveMapKeepsLeases` and
  `LeasesAreExclusive`, the last from `AddressLeases` alone. `ClaimInv` adds
  `Ready`: a call at its claim has addresses that passed the exchange's tests. Only
  `Claim` adds an entry, and `Taken` compares it with both families of every other.
  The refinement maps `Claim` to `Claim` and the removals of a call's teardown to
  `Release`. `PendingAlwaysAgrees` and `CallsStayTidy` are from `CallInv`:
  `RingListed` says that the list holds the calls that ring, each once, `Published`
  that the published list lags behind only inside the handler of a new ring,
  `LoopOwns` that the loop reconciles inside a handler only. `RouteOwned` gives
  every host route a call that has not run `del_peer_route` yet; it needs `6 \notin
  RouteFaults`, since a v6 failure leaves the v4 route to nobody, and speaks of the
  families whose deletes do not fail.
- `SpokeProofs`: `TableStaysSound` and `RosterStaysComplete`, both of states that no
  two overlapping `mesh_update` calls led to. `TableInv` has as its core `Fresh`:
  until two updates overlap, the copy a task is about to store is the table itself
  with its own change to come; without it no store can be shown harmless. `Direct`
  places every direct entry in a running link that announced its key; what ties a
  key to a peer is the link's own word alone, so nothing is claimed of it.
  `RosterInv` adds `Told`: the last message under way that mentions a member adds
  it, or none does and it was applied.
- `ConnSlotProofs`: `SlotTypes` unconditionally; `SlotIsRefilled` and
  `WatcherRests` under `Prompt`, from `SlotInv`. `OneLive` says that of the
  connections in the slot, watched or being opened at most one lives, and that
  a watched one that lives is in the slot; `HungOnWatched` that a forwarder about
  to empty the slot hung on just that connection; `Awaited` that an empty slot
  has a forwarder who will not leave before it is filled, so that the next
  `send` is not lost; `RestsFirst` then carries the rest from the sleep to the
  dial.
- `TunDaemonProofs`: `DaemonTypes`, `FilesAreGuarded`, `BindIsClear`,
  `PlanesExclude`, all from `LockInv`. `LockHeld` says the critical section is
  exclusive; `NamedInTurn` says when a worker's name may stand in the files
  (without it a worker that gives the lock back could still be named);
  `ParentWaits` ties the worker's report to its parent, which is why only a
  worker with an interrupted parent can leave with its data plane running;
  `PlaneHeld` then places every data plane under the lock, that worker apart.
  For the packet plane inside a worker `PlaneStaysBounded` and
  `MtuStaysBounded`, from `PlaneInv`: the queues keep to their limit because
  `enqueue_peer` drops and `TunIo::send` waits; the recorded MTU never exceeds
  `--mtu` because a session and a refresh choose at most that and a shrink goes
  down only, and the device never exceeds the greater of `--mtu` and the platform's
  least MTU. That this fits the read buffer is the hypothesis
  `Floor <= UserMtu + Headroom`; `TunPlane_clamp.cfg` violates it.
- `StreamDaemonProofs`: `StreamOneDaemon`, that `StreamDaemon` implements
  `SingleOwner`, and `StreamFilesSound`, both from `StreamInv`. `LockHeld` makes
  the critical section exclusive and `PlaneHeld` places every plane inside it,
  so the acquisition of the lock maps to `Take`, the start of a plane to `Start`
  by the owner, and the release to `Give` with no plane left.
  `NamedWhileUp` says whose name stands on the socket from the bind on: without
  it the reachability of a serving daemon is not inductive. It is weakened by
  `late`, the state after a predecessor unlinked the path it no longer
  guards. `UnspawnedIdle` says that a `call up` that has not probed has no
  worker, so that a spawn never revives one. `OnlyLockHolderRuns` uses the
  refinement: that only the owner runs a plane is shown of `SingleOwner`.
  `PhoneStaysSound` is about the plane inside: `PhoneInv` adds `InHand`, that the
  accept task and the loop hold connections that exist, and the lemmas
  `RingTaken` and `RingsDropped` say what taking one ring out, or the timed-out
  ones at the front, leaves of the others.
- `ServeProofs`: `ServePermits` and `ServePipes`. `Balanced` writes
  `PermitsConserved` with three finite sets, and each step is shown to move one
  element into or out of them together with the permit (Ctrl+C empties two at
  once). `PipesFaithful` is not inductive: `Shape` adds that nothing was seen
  before a pipe starts, that a running copy has not yet shown its end to the
  peer, and that a dead connection leaves no open stream, which is what a copy
  reads when it ends.
- `LocalHostProofs`: one theorem per property of `LocalHost`, each from an invariant
  of the part it is about, since a step of another part leaves that part's variables
  alone. `NudgesComeInTime`: `PaceInv` says that the time gone and what is left of
  the wait never exceed the pace. `LiveSocketStays`: `Linked` ties a probe to its
  connection, so that one that is gone was lost to the end of the accept loop and
  not to a slow answer; the hypothesis `OthersDirect` is that no client of another
  protocol version probes (`MCLocalHost_version.cfg`). `DaemonsKeepApart`: `AddrInv`
  says that an address chosen while daemons set up one at a time is still free
  unless its daemon is `blind`, `RouteInv` that a claimed route is there from the
  moment it is added. `IdentityStays`: `IdInv` relates where a run is, what it has
  read and which of the two files exist (`RunSound`), and what the files may hold
  (`FilesSound`); keys of runs that misread a file are carried along as a set.
  `SavedNamesDial`: `BookInv` says that the file holds what the finished runs were
  told, or the one run at work is about to write it. `LogStays`: `Alone` follows the
  one run at work from what it found to what it leaves: `base` with a part of its
  line, then the second file with a part of what it keeps, then the renamed file; it
  speaks of nothing once another run has opened the log. `NewestBounded` says that
  the newest lines of a log that ends with a line's end are no more than the limit,
  whatever the log holds; it is why a garbled log is repaired by the next run.
  `FilesStay` puts the three together.

Only model-checked: liveness and the timing behind it (it needs fairness and
`ENABLED`, out of the prover's reach): `ChurnCompletes`, `DeadLinkCleared`,
`RingsAndCallsEnd` of both phones, `WritersServed`, `FlowsSettle`, `MtuRecovers`,
`ClientsServed`, `CommandsComplete` of both daemons, `StreamsEnd` and
`CommandsEnd`. What the loops of `ShortCode` compute is checked against its
reference over sampled ids; a proof would need induction over data, which the
installed provers cannot do. Every safety property of a run that holds has a
theorem.

## 5. Not modelled

Checksums and header bytes, JSON and frame encodings, byte counts, statistics and
what commands print, relay measurement, cryptography, installers and Windows
services (state outside the program), command-line parsing and texts. The
Windows pipe variant of the daemon, its supervised mode without a parent and
the forced kill are left out of `TunDaemon`; the SOCKS5 handshake of the client
side, Ctrl+C with its drain, and the slot of a call, which has no watcher, out of
`ConnSlot`; the one-shot `call` without a daemon out of `StreamPhone`. Byte-level
computations are out of TLC's reach beyond toy sizes, and the rest has no
concurrency or failure of its own.

## 6. Plan

Done: every module of section 2, and a proof of every safety property that the
runs check.

Next:

1. Two phones in one model: the 10 s address exchange of the caller against the
   120 s ring of the callee.
2. `Mesh`: `Hub` and `Spoke` composed through the roster messages, with the
   proofs of `RostersAgree` and `RosterComplete` joined.
3. Handshakes of one peer that overlap, and sharper theorems for redials during a
   teardown: what still holds of `RostersAgree` then, as `NoRouteOutlivesItsSlot`
   and `SuccessorIsSpared` say for `RoutesAgree`. A bound on the channels per join
   instead of per connection accepted, so that `JoiningNeverBlocks` covers any
   uptime.
