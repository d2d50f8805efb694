------------------------------ MODULE MCServe ------------------------------
(* Two connections with a stream each, and one that is denied.             *)
EXTENDS Serve

OneEach == [s \in Stream |-> IF s = "s3" THEN "c2" ELSE "c1"]
=============================================================================
