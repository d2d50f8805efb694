----------------------------- MODULE LocalHost -----------------------------
(***************************************************************************)
(* The parts of link-p2p that work on one host's own state: the identity   *)
(* file, the contact book, the log of path outcomes, the path monitor of a *)
(* connection, the control socket of a daemon, and the devices, addresses  *)
(* and routes.  They share no state, so they are put together as a sum:    *)
(* each behaviour is one of one part, the others at rest, and what holds   *)
(* in all of these holds in every interleaving of them.                    *)
(***************************************************************************)
EXTENDS Naturals, Sequences, FiniteSets

CONSTANTS Cmd, Phrased, MaxFaults,
          Edit, EditOp, Fold,
          Writer, Chunks, MaxLines, MaxOverlap, MaxCrash,
          RelayOnly, Rates, Me, StatsEvery, SlowDelay,
          Client, Ops, Trusted, Other, SystemMode, PhoneMode, CallQueue, MaxPolls,
          Proc, Platforms, Derived, Manual, Prefix,
          Parts          \* the parts to look at

VARIABLES part,          \* the part that is at work
          xdg, legacy, cmd, first, rewritten, misread, faults,
          book, edit, mine, told, alone,
          logName, tmpName, content, writer, kept, by, base, crashed,
          paths, statsIn, nudgeIn, seen, since, slowed, sampled,
          op, sockFile, listening, serving, quit, cancelled, data, peered, calls, conn,
          cli, hurt,
          os, role, proc, vip, addr, route, claim, last, calm, blind

Identity == INSTANCE Identity
Contacts == INSTANCE Contacts
PathLog  == INSTANCE PathLog
Monitor  == INSTANCE PathMonitor
Ctl      == INSTANCE TunCtl
Device   == INSTANCE TunDevice

(* The three platforms, salts that give at least one address, the times of *)
(* the monitor (the slow pace is the slowest), the bounds on faults, queue *)
(* and polls; a key a command generates is not the key of an empty file,   *)
(* and no run of the path log is its line end or absent.                   *)
ASSUME HostConstants ==
    /\ Platforms \subseteq {"linux", "macos", "windows"}
    /\ \A p \in Proc : DOMAIN Derived[p] = 1..Len(Derived[p]) /\ Len(Derived[p]) \in Nat \ {0}
    /\ RelayOnly \in BOOLEAN /\ StatsEvery \in Nat /\ SlowDelay \in Nat /\ SlowDelay >= 6
    /\ MaxFaults \in Nat /\ "nil" \notin Cmd
    /\ MaxLines \in Nat \ {0} /\ Chunks \in [Writer -> Nat]
    /\ {PathLog!NL, PathLog!Nobody} \cap Writer = {}
    /\ {CallQueue, MaxPolls} \subseteq Nat
    /\ Ops \subseteq [Client -> Ctl!Command]

idVars  == <<xdg, legacy, cmd, first, rewritten, misread, faults>>
ctVars  == <<book, edit, mine, told, alone>>
logVars == <<logName, tmpName, content, writer, kept, by, base, crashed>>
pmVars  == <<paths, statsIn, nudgeIn, seen, since, slowed, sampled>>
ctlVars == <<op, sockFile, listening, serving, quit, cancelled, data, peered, calls, conn, cli, hurt>>
devVars == <<os, role, proc, vip, addr, route, claim, last, calm, blind>>
vars    == <<part, idVars, ctVars, logVars, pmVars, ctlVars, devVars>>

Init ==
    /\ part \in Parts
    /\ IF part = "identity" THEN Identity!Init ELSE Identity!InitFrom(Identity!Nothing)
    /\ Contacts!Init /\ PathLog!Init /\ Monitor!Init
    /\ Ctl!Init /\ (part # "ctl" => op = CHOOSE o \in Ops : TRUE)
    /\ Device!Init /\ (part # "device" => os = CHOOSE o \in Platforms : TRUE)
    /\ (part # "device" => role = [p \in Proc |-> "spoke"])

Works(p) == part = p /\ UNCHANGED part

IdentityStep == Works("identity") /\ Identity!NextCalm /\ UNCHANGED <<ctVars, logVars, pmVars, ctlVars, devVars>>
ContactsStep == Works("contacts") /\ Contacts!Next /\ UNCHANGED <<idVars, logVars, pmVars, ctlVars, devVars>>
PathLogStep  == Works("pathlog")  /\ PathLog!Next  /\ UNCHANGED <<idVars, ctVars, pmVars, ctlVars, devVars>>
MonitorStep  == Works("monitor")  /\ Monitor!Next  /\ UNCHANGED <<idVars, ctVars, logVars, ctlVars, devVars>>
CtlStep      == Works("ctl")      /\ Ctl!Next      /\ UNCHANGED <<idVars, ctVars, logVars, pmVars, devVars>>
DeviceStep   == Works("device")   /\ Device!Next   /\ UNCHANGED <<idVars, ctVars, logVars, pmVars, ctlVars>>

(* Commands that load the key at the same moment, as they please.          *)
IdentityFree == Works("identity") /\ Identity!NextFree /\ UNCHANGED <<ctVars, logVars, pmVars, ctlVars, devVars>>

Next == IdentityStep \/ ContactsStep \/ PathLogStep \/ MonitorStep \/ CtlStep \/ DeviceStep

Spec     == Init /\ [][Next]_vars
FairSpec == Spec /\ Ctl!Fairness
FreeSpec == Init /\ [][IdentityFree]_vars

-----------------------------------------------------------------------------
(* The node keeps its identity, its contacts and the newest of its path    *)
(* samples through crashes, failing reads and writes and half-done moves.  *)
FilesKept ==
    /\ Identity!TypeOK /\ Identity!StableOrRefused /\ Identity!KeyOnDisk
    /\ Contacts!SavedNameDials
    /\ PathLog!NewestKept /\ PathLog!LogBounded

(* The control socket: see CtlSound of module TunCtl.                      *)
CtlSound == Ctl!CtlSound

(* Every command ends, whoever else stalls: see module TunCtl.             *)
CommandsEnd == Ctl!CommandsEnd

(* Nudges come in time: see module PathMonitor.                            *)
MonitorSound == Monitor!MonitorSound

(* Addresses and routes of two daemons: see module TunDevice.              *)
DeviceSound == Device!DeviceSound

(* "if that write fails the key still loads, it just stays plaintext"      *)
KeySurvives == Identity!KeySurvives

(* "rather than silently generating a brand-new identity"                  *)
StableOrRefused == Identity!StableOrRefused

(* "do not unlink a live peer's sock"                                      *)
LiveSocketKept == Ctl!LiveSocketKept

(* A route taken over stays with the daemon that took it.                  *)
LastClaimKept == Device!LastClaimKept
=============================================================================
