--------------------------- MODULE AddressLeases ---------------------------
(***************************************************************************)
(* What a node that admits peers promises about their virtual addresses,   *)
(* the hub with its dual-stack index and the phone with its active map     *)
(* alike: a peer is leased the two addresses it announced together or not  *)
(* at all, only where nobody else holds either, and a lease ends by being  *)
(* given up, never by being handed to someone else.                        *)
(***************************************************************************)
CONSTANTS Peer, Vip4, Vip6

VARIABLES lease4, lease6        \* the <<address, peer>> pairs in force

vars == <<lease4, lease6>>

Init == lease4 = {} /\ lease6 = {}

FreeFor(p, v, lease) == \A q \in Peer \ {p} : <<v, q>> \notin lease

Claim(p, v4, v6) ==
    /\ FreeFor(p, v4, lease4) /\ FreeFor(p, v6, lease6)
    /\ lease4' = lease4 \cup {<<v4, p>>}
    /\ lease6' = lease6 \cup {<<v6, p>>}

(* A peer may hold several pairs for a while, and gives up any of them.     *)
GivesUp(p, lease, rest) == rest \subseteq lease /\ lease \ rest \subseteq {<<l[1], p>> : l \in lease}

Release(p) == GivesUp(p, lease4, lease4') /\ GivesUp(p, lease6, lease6')

Next == \E p \in Peer : Release(p) \/ \E v4 \in Vip4, v6 \in Vip6 : Claim(p, v4, v6)

Spec == Init /\ [][Next]_vars

(* No address is two peers': a packet for it has one recipient.            *)
Exclusive ==
    /\ \A l, k \in lease4 : l[1] = k[1] => l[2] = k[2]
    /\ \A l, k \in lease6 : l[1] = k[1] => l[2] = k[2]
=============================================================================
