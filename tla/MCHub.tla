------------------------------- MODULE MCHub -------------------------------
(* Small instances of the hub. *)
EXTENDS Hub

Two == {"ann", "bob"}
Three == Two \cup {"cyd"}
Four == Three \cup {"dan"}
V4 == {"h4", "a4", "b4", "c4"}
V6 == {"h6", "a6", "b6", "c6"}

(* ann and bob fight over a4, or over a6 alone; ann may also come back      *)
(* under another pair (restarted with --tun-ip and --tun-ip6); bob may      *)
(* announce the hub's own address.                                          *)
Contended ==
    [p \in Peer |-> IF p = "ann" THEN {<<"a4", "a6">>, <<"b4", "c6">>}
                   ELSE {<<"a4", "b6">>, <<"c4", "a6">>, <<"h4", "b6">>}]

(* ann comes back under the same IPv4 address with the IPv6 address bob has *)
(* (restarted with --tun-ip6 alone).                                        *)
HalfShared ==
    [p \in Peer |-> IF p = "ann" THEN {<<"a4", "a6">>, <<"a4", "b6">>} ELSE {<<"b4", "b6">>}]

(* Every peer keeps the pair derived from its EndpointId. *)
Steady ==
    [p \in Peer |-> CASE p = "ann" -> {<<"a4", "a6">>}
                       [] p = "bob" -> {<<"b4", "b6">>}
                       [] OTHER     -> {<<"c4", "c6">>}]
=============================================================================
