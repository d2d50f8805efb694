---------------------------- MODULE PathMonitor ----------------------------
(***************************************************************************)
(* The path monitor of one live connection (`spawn_path_monitor` of        *)
(* src/src/runtime.rs) with the classification of its paths                *)
(* (src/src/path_kind.rs).  A select of a periodic sample, a timer that    *)
(* asks the endpoint to look for a direct path again, and the end of the   *)
(* connection.  Time passes in units of fifteen seconds.                   *)
(***************************************************************************)
EXTENDS Naturals, FiniteSetsExt

CONSTANTS RelayOnly,    \* `--relay-only`
          Rates,        \* direct rates, in percent, of the peers in the path log
          Me,           \* the peer of this connection
          StatsEvery,   \* STATS_SECS
          SlowDelay     \* UPGRADE_SECS_PERMANENT

VARIABLES paths,        \* what `Connection::paths` shows
          statsIn,      \* time to the next sample
          nudgeIn,      \* time to the next nudge
          seen,         \* the monitor's memory of earlier samples
          since,        \* time without a direct path and without a nudge
          slowed,       \* a nudge was due at a slowed pace in that time
          sampled       \* path kind recorded when the connection ended

pmVars == <<paths, statsIn, nudgeIn, seen, since, slowed, sampled>>

(* Path snapshots: open paths, each over IP or over a relay; at most one   *)
(* is the selected one.                                                    *)
Path == [ip : BOOLEAN, selected : BOOLEAN]
Snapshot == {S \in SUBSET Path : \A p, q \in S : p.selected /\ q.selected => p = q}

(* `path_kind`.                                                            *)
PathKind(S) ==
    LET ip    == \E p \in S : p.ip
        relay == \E p \in S : ~p.ip
        sel   == {p \in S : p.selected}
    IN CASE \E p \in sel : p.ip                  -> "direct"
         [] (\E p \in sel : ~p.ip) /\ ip         -> "candidate"
         [] (\E p \in sel : ~p.ip) /\ ~ip        -> "relay"
         [] sel = {} /\ ip /\ ~relay             -> "direct"
         [] sel = {} /\ ~ip /\ relay             -> "relay"
         [] sel = {} /\ ip /\ relay              -> "candidate"
         [] OTHER                                -> "unknown"

IsDirect == PathKind(paths) = "direct"

(* `peer_direct_rates`: the share of direct paths, for a peer that is in   *)
(* the log.                                                                *)
Hist == IF Me \in DOMAIN Rates THEN {Rates[Me]} ELSE {}

(* History sets the pace.                                                  *)
UpgradeDelay ==
    CASE \E r \in Hist : r >= 50 -> 2
      [] \E r \in Hist : r < 20  -> 6
      [] OTHER -> 3
PermStreak ==
    CASE \E r \in Hist : r >= 50 -> 6
      [] \E r \in Hist : r < 20  -> 2
      [] OTHER -> 4

Permanent == seen.noIp >= PermStreak

Init ==
    /\ paths = {[ip |-> FALSE, selected |-> TRUE]}
    /\ statsIn = StatsEvery /\ nudgeIn = UpgradeDelay
    /\ seen = [noIp |-> 0, slow |-> 0, permWarned |-> FALSE, slowWarned |-> FALSE,
               wasDirect |-> FALSE]
    /\ since = 0 /\ slowed = FALSE /\ sampled = "-"

(* The saturating counters are only compared: they are cut at their test.  *)
Count(n, top) == Min({n + 1, top})
Delay == IF Permanent THEN SlowDelay ELSE UpgradeDelay

(* The sample.  bps is the traffic since the last one: idle, slow or fast. *)
Sampled(kind, bps) ==
    LET up   == kind = "direct" /\ ~seen.wasDirect
        noIp == CASE kind = "relay"   -> Count(seen.noIp, PermStreak)
                  [] kind = "unknown" -> seen.noIp
                  [] OTHER            -> 0
        slow == IF kind # "direct" /\ bps = "slow" THEN Count(seen.slow, 2) ELSE 0
    IN [noIp |-> noIp, slow |-> slow, wasDirect |-> kind = "direct",
        permWarned |-> (seen.permWarned /\ ~up) \/ noIp >= PermStreak,
        slowWarned |-> (seen.slowWarned /\ ~up) \/ slow >= 2]

StatsTickRearms ==
    /\ sampled = "-" /\ statsIn = 0
    /\ \E bps \in {"idle", "slow", "fast"} : seen' = Sampled(PathKind(paths), bps)
    /\ statsIn' = StatsEvery /\ nudgeIn' = Delay
    /\ UNCHANGED <<paths, since, slowed, sampled>>

StatsTick ==
    /\ sampled = "-" /\ statsIn = 0
    /\ \E bps \in {"idle", "slow", "fast"} : seen' = Sampled(PathKind(paths), bps)
    /\ statsIn' = StatsEvery
    /\ UNCHANGED <<paths, nudgeIn, since, slowed, sampled>>

(* The timer fires at its deadline whatever else the select took; a direct *)
(* path is not nudged, and the timer goes on.                              *)
Nudge ==
    /\ sampled = "-" /\ nudgeIn = 0 /\ ~RelayOnly
    /\ nudgeIn' = Delay
    /\ since' = IF IsDirect THEN since ELSE 0
    /\ slowed' = Permanent
    /\ UNCHANGED <<paths, statsIn, seen, sampled>>

Closed ==
    /\ sampled = "-"
    /\ sampled' = PathKind(paths)
    /\ UNCHANGED <<paths, statsIn, nudgeIn, seen, since, slowed>>

(* The endpoint: paths come, go and are selected at any time.              *)
PathsMove ==
    /\ sampled = "-"
    /\ paths' \in Snapshot \ {paths}
    /\ since' = IF PathKind(paths') = "direct" THEN 0 ELSE since
    /\ UNCHANGED <<statsIn, nudgeIn, seen, slowed, sampled>>

(* Time passes when nothing is due.                                        *)
Elapse ==
    /\ sampled = "-" /\ statsIn > 0 /\ (nudgeIn > 0 \/ RelayOnly)
    /\ statsIn' = statsIn - 1
    /\ nudgeIn' = IF RelayOnly THEN nudgeIn ELSE nudgeIn - 1
    /\ since' = IF IsDirect THEN 0 ELSE Min({since + 1, SlowDelay + 1})
    /\ UNCHANGED <<paths, seen, slowed, sampled>>

Next == StatsTick \/ Nudge \/ Closed \/ PathsMove \/ Elapse

-----------------------------------------------------------------------------
(* Every variable has its type.                                            *)
TypeOK ==
    /\ paths \in Snapshot /\ statsIn \in 0..StatsEvery
    /\ nudgeIn \in 0..SlowDelay /\ since \in 0..(SlowDelay + 1)
    /\ seen.noIp \in 0..PermStreak /\ seen.slow \in 0..2

(* "While not on a direct path and not `--relay-only`: every ~45s" the     *)
(* endpoint is nudged; the samples in between do not put it off, and only  *)
(* a peer that showed no candidate so often is nudged at the slow pace.    *)
NudgedInTime ==
    ~RelayOnly => since <= (IF slowed THEN SlowDelay ELSE UpgradeDelay)

MonitorSound == TypeOK /\ NudgedInTime
=============================================================================
