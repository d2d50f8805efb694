------------------------------ MODULE MCSpoke ------------------------------
(* Two other spokes: this one dials bob, and is dialed by ann.             *)
EXTENDS Spoke

(* What ann's links may announce: bob's IPv4 address with her own IPv6      *)
(* address, or, in vain, an address of ours.                                *)
Announced == {<<"bob", "ann">>, <<"ann", "own">>}

(* Every property holds for good once two updates overlapped.              *)
OneAtATime == ~overlap'
=============================================================================
