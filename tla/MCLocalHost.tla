---------------------------- MODULE MCLocalHost ----------------------------
(* Instances of LocalHost and ShortCode for TLC.                           *)
EXTENDS LocalHost, ShortCode

MCEditOp == [a |-> [op |-> "add", name |-> "bob", id |-> "1"],
             b |-> [op |-> "add", name |-> "Bob", id |-> "2"],
             c |-> [op |-> "remove", name |-> "bob", id |-> "-"],
             d |-> [op |-> "add", name |-> "bob", id |-> "3"]]
MCFold == [bob |-> "bob", Bob |-> "bob"]
MCChunks == [r1 |-> 1, r2 |-> 1, r3 |-> 1]
MCRates == [bob |-> 40]
MCOps == {[root |-> "down", ann |-> "call", mute |-> "stall"],
          [root |-> "accept", ann |-> "down", mute |-> "stall"],
          [root |-> "down", ann |-> "peers", mute |-> "reject"]}
MCOpsOther == {[root |-> "down", ann |-> "status", mute |-> "stall"]}
MCDerived == [adhoc |-> <<"v1", "v2">>, system |-> <<"v1", "v2">>]
MCSample == {0, 1, 31, 32, 128, 170, 255}
=============================================================================
