------------------------------ MODULE MCPhone ------------------------------
(* Small instances of the phone. *)
EXTENDS Phone

(* A contact and a stranger, both above our EndpointId; the contact may     *)
(* come back under another address, the stranger may announce ours or the   *)
(* contact's IPv6 address.                                                  *)
Addresses ==
    [p \in Peer |-> IF p = "con" THEN {<<"c4", "c6">>}
                   ELSE {<<"s4", "c6">>, <<"own4", "s6">>}]
=============================================================================
