---------------------------- MODULE SingleOwner ----------------------------
(***************************************************************************)
(* What a daemon's lock file promises: of all the processes started, one   *)
(* at a time owns the daemon, only the owner runs a plane, and it gives    *)
(* the ownership up only with its plane stopped, or by dying.              *)
(***************************************************************************)
CONSTANTS Worker, None

VARIABLES owner, running

vars == <<owner, running>>

Init == owner = None /\ running = {}

Take(w)  == owner = None /\ owner' = w /\ UNCHANGED running
Start(w) == owner = w /\ w \notin running /\ running' = running \cup {w} /\ UNCHANGED owner
Stop(w)  == w \in running /\ running' = running \ {w} /\ UNCHANGED owner
Give(w)  == owner = w /\ w \notin running /\ owner' = None /\ UNCHANGED running
Die(w)   == owner = w /\ owner' = None /\ running' = running \ {w}

Next == \E w \in Worker : Take(w) \/ Start(w) \/ Stop(w) \/ Give(w) \/ Die(w)

Spec == Init /\ [][Next]_vars

(* At most one plane runs, and it is the owner's.                          *)
OnlyOwnerRuns == running \subseteq {owner}
=============================================================================
