------------------------------ MODULE Identity ------------------------------
(***************************************************************************)
(* The identity file (src/src/identity.rs).  Every command of link-p2p     *)
(* that needs the node's key resolves a path, moves a file of an older     *)
(* version to it, and loads the key, creates it, or rewrites it encrypted. *)
(* Several commands may do so at once, and each may die between any two    *)
(* system calls.  A file that is opened for writing is truncated first.    *)
(***************************************************************************)
EXTENDS Naturals, FiniteSets

CONSTANTS Cmd,         \* command runs, each of which loads the key once
          Phrased,     \* the runs that are given the passphrase
          MaxFaults    \* bound on crashes and failing system calls

VARIABLES xdg, legacy, \* the two places of the file
          cmd,         \* where each run is
          first,       \* the first key that was ever completely saved
          rewritten,   \* some run has started to rewrite the file encrypted
          misread,     \* runs that took a file they could not read for a missing one
          faults

idVars == <<xdg, legacy, cmd, first, rewritten, misread, faults>>

None  == [is |-> "none"]
Empty == [is |-> "text", key |-> "nil"]   \* no text, what truncation leaves
Plain(k)  == [is |-> "text", key |-> k]
Sealed(k) == [is |-> "sealed", key |-> k]
Key  == Cmd \union {"old"}
File == {None} \union [is : {"text", "sealed"}, key : Key \union {"nil"}]

(* The states a host can be in before: nothing, a file of an older version *)
(* in the working directory, or a file in its place.                       *)
Nothing == [xdg |-> None, legacy |-> None]
Before == { Nothing,
            [xdg |-> None, legacy |-> Plain("old")],
            [xdg |-> Plain("old"), legacy |-> None],
            [xdg |-> Sealed("old"), legacy |-> None] }

Place == {"off", "legacy", "mread", "mopen", "mwrite", "mremove", "load", "eopen", "ewrite",
          "copen", "cwrite", "done", "refused", "dead"}
Run   == [at : Place, path : {"xdg", "legacy"}, data : File, key : Key \union {"nil"}]
Fresh == [at |-> "off", path |-> "xdg", data |-> None, key |-> "nil"]

InitFrom(b) ==
    /\ xdg = b.xdg /\ legacy = b.legacy
    /\ cmd = [c \in Cmd |-> Fresh]
    /\ first = IF b.xdg = None /\ b.legacy = None THEN "nil" ELSE "old"
    /\ rewritten = FALSE /\ misread = {} /\ faults = MaxFaults

Init == \E b \in Before : InitFrom(b)

-----------------------------------------------------------------------------
At(c, s)    == cmd[c].at = s
Goto(c, s)  == cmd' = [cmd EXCEPT ![c].at = s]
FileOf(c)   == IF cmd[c].path = "xdg" THEN xdg ELSE legacy
Put(c, f)   == IF cmd[c].path = "xdg" THEN xdg' = f /\ legacy' = legacy
                                      ELSE legacy' = f /\ xdg' = xdg
Reads(c, s, f) ==
    cmd' = [cmd EXCEPT ![c] = [at |-> s, path |-> @.path, data |-> f, key |-> @.key]]
Takes(c, k) ==
    cmd' = [cmd EXCEPT ![c] = [at |-> IF k = "nil" THEN "refused" ELSE "done",
                               path |-> @.path, data |-> @.data, key |-> k]]
Running(c)  == cmd[c].at \notin {"off", "done", "refused", "dead"}
Fault       == faults > 0 /\ faults' = faults - 1
Keep        == UNCHANGED <<xdg, legacy>>
Quiet       == UNCHANGED <<first, rewritten, misread>>

(* `resolve_identity_path`: the XDG file wins when it exists, whatever it  *)
(* holds; only then is the older place looked at.                          *)
Resolve(c) ==
    /\ At(c, "off")
    /\ IF xdg # None THEN Goto(c, "load") ELSE Goto(c, "legacy")
    /\ Keep /\ Quiet /\ UNCHANGED faults

ResolveLegacy(c) ==
    /\ At(c, "legacy")
    /\ IF legacy # None THEN Goto(c, "mread") ELSE Goto(c, "load")
    /\ Keep /\ Quiet /\ UNCHANGED faults

(* `migrate_identity`.  Any error falls back to the older file, one of the *)
(* permissions too, which are set after the write and before the removal.  *)
FallBack(c) ==
    cmd' = [cmd EXCEPT ![c] = [at |-> "load", path |-> "legacy", data |-> @.data, key |-> @.key]]

MigrateRead(c) ==
    /\ At(c, "mread")
    /\ IF legacy = None THEN FallBack(c)
                       ELSE Reads(c, "mopen", legacy)
    /\ Keep /\ Quiet /\ UNCHANGED faults

MigrateOpen(c) ==
    /\ At(c, "mopen")
    /\ xdg' = Empty /\ UNCHANGED legacy
    /\ Goto(c, "mwrite") /\ Quiet /\ UNCHANGED faults

MigrateWrite(c) ==
    /\ At(c, "mwrite")
    /\ xdg' = cmd[c].data /\ UNCHANGED legacy
    /\ Goto(c, "mremove") /\ Quiet /\ UNCHANGED faults

MigrateFails(c) ==
    /\ At(c, "mread") \/ At(c, "mopen") \/ At(c, "mwrite") \/ At(c, "mremove")
    /\ Fault /\ FallBack(c) /\ Keep /\ Quiet

(* A copy that cannot be removed is only warned about.                     *)
MigrateRemove(c) ==
    /\ At(c, "mremove")
    /\ \/ legacy' = None /\ UNCHANGED faults
       \/ legacy' = legacy /\ Fault
    /\ Goto(c, "load") /\ Quiet /\ UNCHANGED xdg

-----------------------------------------------------------------------------
(* `load_or_create_secret_key`.  Text is rewritten encrypted when there is *)
(* a passphrase, before it is looked at; a sealed file needs one.  Any     *)
(* error of the read is taken for a missing file.                          *)
Finish(c, f) == Takes(c, f.key)

LoadOrRegenerate(c) ==
    /\ At(c, "load")
    /\ LET f == FileOf(c) IN
       IF f.is = "none" \/ f = Empty THEN Goto(c, "copen") ELSE Finish(c, f)
    /\ Keep /\ Quiet /\ UNCHANGED faults

Load(c) ==
    /\ At(c, "load")
    /\ LET f == FileOf(c) IN
       CASE f.is = "none"   -> Goto(c, "copen")
         [] f.is = "sealed" -> IF c \in Phrased THEN Finish(c, f) ELSE Goto(c, "refused")
         [] f.is = "text"   -> IF c \in Phrased
                                 THEN Reads(c, "eopen", f)
                                 ELSE Finish(c, f)
    /\ Keep /\ Quiet /\ UNCHANGED faults

ReadFails(c) ==
    /\ At(c, "load") /\ FileOf(c).is # "none" /\ Fault
    /\ misread' = misread \union {c}
    /\ Goto(c, "copen")
    /\ Keep /\ UNCHANGED <<first, rewritten>>

(* `write_key_file_encrypted` over a text file, best effort.               *)
EncryptOpen(c) ==
    /\ At(c, "eopen")
    /\ Put(c, Empty) /\ rewritten' = TRUE
    /\ Goto(c, "ewrite") /\ UNCHANGED <<first, misread, faults>>

EncryptWrite(c) ==
    /\ At(c, "ewrite")
    /\ Put(c, Sealed(cmd[c].data.key))
    /\ Finish(c, cmd[c].data) /\ Quiet /\ UNCHANGED faults

EncryptFails(c) ==
    /\ At(c, "eopen") \/ At(c, "ewrite")
    /\ Fault /\ Finish(c, cmd[c].data) /\ Keep /\ Quiet

(* No file, or so it seems: a key of this run, saved in the form asked for *)
(* over what there is.  A run that cannot set the permissions of the       *)
(* written file gives up.                                                  *)
CreateOpen(c) ==
    /\ At(c, "copen")
    /\ Put(c, Empty)
    /\ Goto(c, "cwrite") /\ Quiet /\ UNCHANGED faults

CreateWrite(c) ==
    /\ At(c, "cwrite")
    /\ Put(c, IF c \in Phrased THEN Sealed(c) ELSE Plain(c))
    /\ \/ Takes(c, c) /\ UNCHANGED faults
       \/ Fault /\ Goto(c, "refused")
    /\ first' = IF first = "nil" THEN c ELSE first
    /\ UNCHANGED <<rewritten, misread>>

CreateFails(c) ==
    /\ At(c, "copen") \/ At(c, "cwrite")
    /\ Fault /\ Goto(c, "refused") /\ Keep /\ Quiet

Crash(c) ==
    /\ Running(c) /\ Fault /\ Goto(c, "dead") /\ Keep /\ Quiet

Step(c) ==
    \/ ResolveLegacy(c) \/ MigrateRead(c) \/ MigrateOpen(c) \/ MigrateWrite(c)
    \/ MigrateFails(c) \/ MigrateRemove(c) \/ Load(c) \/ ReadFails(c)
    \/ EncryptOpen(c) \/ EncryptWrite(c) \/ EncryptFails(c) \/ CreateOpen(c) \/ CreateWrite(c)
    \/ CreateFails(c) \/ Crash(c)

(* Runs overlap only once the file has reached its place.                  *)
Settled == first = "old" /\ legacy = None
NextCalm ==
    \E c \in Cmd :
      \/ Resolve(c) /\ (Settled \/ \A d \in Cmd : ~Running(d))
      \/ Step(c)

(* Runs overlap as they please.                                            *)
NextFree == \E c \in Cmd : Resolve(c) \/ Step(c)

-----------------------------------------------------------------------------
(* Every variable has its type.                                            *)
TypeOK ==
    /\ xdg \in File /\ legacy \in File /\ first \in Key \union {"nil"}
    /\ rewritten \in BOOLEAN /\ misread \subseteq Cmd /\ faults \in 0..MaxFaults
    /\ cmd \in [Cmd -> Run]

(* A command that gets a key gets the one first saved: after a crash, a    *)
(* failed write or a half-done move the node refuses to start rather than  *)
(* take a new identity ("existing EndpointIds stay stable").  A key of     *)
(* another origin is that of a run whose read of an existing file failed.  *)
StableOrRefused == \A c \in Cmd : At(c, "done") => cmd[c].key \in {first} \union misread

(* The move from the old place leaves the key in a file at every moment,   *)
(* whatever fails.  Two things only may lose it: rewriting it in place,    *)
(* and a failed read, after which the run creates the file anew.           *)
KeyOnDisk ==
    first # "nil" /\ ~rewritten /\ misread = {}
      => first \in {f.key : f \in {xdg, legacy} \ {None}}

(* "if that write fails the key still loads, it just stays plaintext"      *)
(* (identity.rs:304): while no run is at work, none was ever killed and    *)
(* every read went well, a key that was saved is in one of the two files.  *)
KeySurvives ==
    first # "nil" /\ misread = {} /\ (\A c \in Cmd : ~Running(c) /\ ~At(c, "dead"))
      => first \in {f.key : f \in {xdg, legacy} \ {None}}
=============================================================================
