----------------------------- MODULE TunDevice -----------------------------
(***************************************************************************)
(* TUN devices, virtual addresses and routes on one host, shared by the    *)
(* daemons that run there (an ad-hoc and a system daemon hold different    *)
(* locks).  `allocate_vip` and the wrappers of src/src/tun/mod.rs, and the *)
(* three platforms of src/src/tun/platform: each step is one `ip`,         *)
(* `ifconfig`, `route` or `netsh` command, and each may fail.              *)
(***************************************************************************)
EXTENDS Naturals, Sequences, Functions

CONSTANTS Proc,        \* daemons
          Platforms,   \* the platforms to look at, of "linux", "macos" and "windows"
          Derived,     \* the addresses a daemon's salts give, in order
          Manual,      \* daemons given the first of them by --tun-ip
          Prefix       \* peer addresses to route, and "mesh" for the whole range

Family == {4, 6}
Vip == UNION {Range(Derived[p]) : p \in Proc}

VARIABLES os,          \* the host's platform
          role,        \* whether each daemon routes the mesh, or peer by peer
          proc,        \* where each daemon is in setting up
          vip,         \* the addresses it chose
          addr,        \* addresses on devices: <<family, address, daemon>>
          route,       \* routes: <<family, prefix, daemon>>
          claim,       \* each daemon's session for a prefix
          last,        \* the daemon that claimed a route last
          calm,        \* no two daemons were ever setting up at once
          blind        \* addresses chosen although another had them: <<family, daemon>>

devVars == <<os, role, proc, vip, addr, route, claim, last, calm, blind>>

Init ==
    /\ os \in Platforms /\ role \in [Proc -> {"spoke", "hub"}]
    /\ proc = [p \in Proc |-> "off"]
    /\ vip = [p \in Proc |-> [f \in Family |-> "-"]]
    /\ addr = {} /\ route = {}
    /\ claim = [p \in Proc |-> [x \in Prefix |-> "none"]]
    /\ last = [f \in Family |-> [x \in Prefix |-> "-"]]
    /\ calm = TRUE /\ blind = {}

At(p, s) == proc[p] = s
Goto(p, s) == proc' = [proc EXCEPT ![p] = s]
SettingUp(p) == proc[p] \notin {"off", "ready", "ended"}

StartTun(p) ==
    /\ At(p, "off")
    /\ Goto(p, "alloc4")
    /\ calm' = (calm /\ \A q \in Proc : ~SettingUp(q))
    /\ UNCHANGED <<os, role, vip, addr, route, claim, last, blind>>

(* `ensure_vip_free`, `ensure_vip6_free`: no local interface has it, as    *)
(* far as the listing command tells.  Its exit status is not looked at, so *)
(* a command that fails looks like one that found nothing; one that cannot *)
(* be run is an error, except for IPv6 on Windows.                         *)
Free(f, v) == \A a \in addr : a[1] = f => a[2] # v
Listing == {"read", "failed", "not run"}
Passes(f, v, l) ==
    \/ l = "read" /\ Free(f, v)
    \/ l = "failed"
    \/ l = "not run" /\ os = "windows" /\ f = 6

(* `allocate_vip`: a given address must pass; otherwise the salts are      *)
(* walked until one does.                                                  *)
Tries(p) == IF p \in Manual THEN <<Derived[p][1]>> ELSE Derived[p]
Passing(p, f, list) == {i \in DOMAIN Tries(p) : Passes(f, Tries(p)[i], list[i])}

AllocateVip(p, f) ==
    /\ At(p, IF f = 4 THEN "alloc4" ELSE "alloc6")
    /\ \E list \in [DOMAIN Tries(p) -> Listing] :
         \/ \E i \in Passing(p, f, list) :
              /\ \A j \in Passing(p, f, list) : i <= j
              /\ vip' = [vip EXCEPT ![p] = [@ EXCEPT ![f] = Tries(p)[i]]]
              /\ blind' = IF Free(f, Tries(p)[i]) THEN blind ELSE blind \union {<<f, p>>}
              /\ Goto(p, IF f = 4 THEN "alloc6" ELSE "create")
         \/ Passing(p, f, list) = {} /\ Goto(p, "ended") /\ UNCHANGED <<vip, blind>>
    /\ UNCHANGED <<os, role, addr, route, claim, last, calm>>

(* `create_device`.  Linux: the device, two addresses, the link, each by a *)
(* command of its own.                                                     *)
CreateLinux(p) ==
    /\ os = "linux" /\ At(p, "create")
    /\ Goto(p, "addr4")
    /\ UNCHANGED <<os, role, vip, addr, route, claim, last, calm, blind>>

(* macOS: the IPv4 address comes with the device.                          *)
CreateMacos(p) ==
    /\ os = "macos" /\ At(p, "create")
    /\ addr' = addr \union {<<4, vip[p][4], p>>} /\ Goto(p, "addr6")
    /\ UNCHANGED <<os, role, vip, route, claim, last, calm, blind>>

(* Windows: so it does, and a failing IPv6 address is ignored.             *)
CreateWindows(p) ==
    /\ os = "windows" /\ At(p, "create")
    /\ \E v6 \in SUBSET {<<6, vip[p][6], p>>} : addr' = addr \union {<<4, vip[p][4], p>>} \union v6
    /\ Goto(p, "ready")
    /\ UNCHANGED <<os, role, vip, route, claim, last, calm, blind>>

AddAddress(p, f) ==
    /\ At(p, IF f = 4 THEN "addr4" ELSE "addr6")
    /\ addr' = addr \union {<<f, vip[p][f], p>>}
    /\ Goto(p, IF f = 4 THEN "addr6" ELSE IF os = "linux" THEN "link" ELSE "ready")
    /\ UNCHANGED <<os, role, vip, route, claim, last, calm, blind>>

LinkUp(p) ==
    /\ At(p, "link") /\ Goto(p, "ready")
    /\ UNCHANGED <<os, role, vip, addr, route, claim, last, calm, blind>>

(* A daemon that fails to set up, ends or dies drops its device, and the   *)
(* kernel takes the device's addresses and routes with it.                 *)
Ends(p) ==
    /\ proc[p] \notin {"off", "ended"}
    /\ Goto(p, "ended")
    /\ addr' = {a \in addr : a[3] # p} /\ route' = {r \in route : r[3] # p}
    /\ claim' = [claim EXCEPT ![p] = [x \in Prefix |-> "none"]]
    /\ vip' = [vip EXCEPT ![p] = [f \in Family |-> "-"]]
    /\ blind' = {b \in blind : b[2] # p}
    /\ UNCHANGED <<os, role, last, calm>>

-----------------------------------------------------------------------------
Claims(p, x, s) == claim' = [claim EXCEPT ![p][x] = s]

(* `add_peer_route` (a hub, a phone) and `add_mesh_route` (a spoke).        *)
(* `ip route replace` takes the prefix over from the device that had it.   *)
LinuxAdds(f, x, p) == {r \in route : <<r[1], r[2]>> # <<f, x>>} \union {<<f, x, p>>}

(* macOS deletes whatever route there is and adds its own.                 *)
MacosAdds(f, x, p) == (route \ {<<f, x, q>> : q \in Proc}) \union {<<f, x, p>>}

(* Windows has a route per device.                                         *)
WindowsAdds(f, x, p) == route \union {<<f, x, p>>}

Added(f, x, p) ==
    CASE os = "linux" -> LinuxAdds(f, x, p) [] os = "macos" -> MacosAdds(f, x, p)
      [] OTHER -> WindowsAdds(f, x, p)

AddRoute(p, f, x) ==
    /\ At(p, "ready") /\ (x = "mesh" <=> role[p] = "spoke")
    /\ claim[p][x] = (IF f = 4 THEN "none" ELSE "add6")
    /\ route' = Added(f, x, p)
    /\ last' = [last EXCEPT ![f][x] = p]
    /\ Claims(p, x, IF f = 4 /\ ~(os = "windows" /\ x = "mesh") THEN "add6" ELSE "up")
    /\ UNCHANGED <<os, role, proc, vip, addr, calm, blind>>

(* A session whose IPv6 route cannot be added ends; its IPv4 route stays.  *)
(* Windows goes on without.                                                *)
AddRouteFails(p, x) ==
    /\ At(p, "ready") /\ claim[p][x] = "add6"
    /\ Claims(p, x, IF os = "windows" THEN "up6less" ELSE "none")
    /\ UNCHANGED <<os, role, proc, vip, addr, route, last, calm, blind>>

LinuxDeletesAny(f, x, p) == {<<f, x, q>> : q \in Proc}

(* `del_peer_route`, `del_mesh_route`: Linux names the device.             *)
LinuxDeletes(f, x, p) == {<<f, x, p>>}

(* macOS does not.                                                         *)
MacosDeletes(f, x, p) == {<<f, x, q>> : q \in Proc}

(* Windows names it.                                                       *)
WindowsDeletes(f, x, p) == {<<f, x, p>>}

Deleted(f, x, p) ==
    CASE os = "linux" -> LinuxDeletes(f, x, p) [] os = "macos" -> MacosDeletes(f, x, p)
      [] OTHER -> WindowsDeletes(f, x, p)

(* The IPv6 route of the whole range is never deleted.                     *)
DelRoute(p, f, x) ==
    /\ At(p, "ready")
    /\ IF f = 4 THEN claim[p][x] \in {"up", "up6less"} ELSE claim[p][x] = "del6"
    /\ route' = route \ Deleted(f, x, p)
    /\ Claims(p, x, IF f = 4 /\ x # "mesh" THEN "del6" ELSE "none")
    /\ UNCHANGED <<os, role, proc, vip, addr, last, calm, blind>>

Next ==
    \E p \in Proc :
      \/ StartTun(p) \/ LinkUp(p) \/ Ends(p)
      \/ CreateLinux(p) \/ CreateMacos(p) \/ CreateWindows(p)
      \/ \E f \in Family : AllocateVip(p, f) \/ AddAddress(p, f)
      \/ \E x \in Prefix : AddRouteFails(p, x) \/ \E f \in Family : AddRoute(p, f, x) \/ DelRoute(p, f, x)

-----------------------------------------------------------------------------
(* Every variable has its type.                                            *)
TypeOK ==
    /\ addr \subseteq (Family \X Vip \X Proc)
    /\ route \subseteq (Family \X Prefix \X Proc) /\ blind \subseteq (Family \X Proc)
    /\ \A p \in Proc, x \in Prefix : claim[p][x] \in {"none", "add6", "up", "up6less", "del6"}

(* Two devices with one address, given or derived, came to it in one of    *)
(* two ways, whoever else fails or dies: the address is only looked for,   *)
(* not reserved, and daemons set up at the same moment; or a failed        *)
(* listing hid from a daemon that another had the address.                 *)
VipsDistinct ==
    calm => \A a, b \in addr :
              a[1] = b[1] /\ a[2] = b[2] /\ a[3] # b[3] =>
                <<a[1], a[3]>> \in blind \/ <<b[1], b[3]>> \in blind

(* A daemon that took a route over keeps it until its own session ends:    *)
(* the teardown of the daemon that had it before does not touch it.        *)
LastClaimKept ==
    \A f \in Family, x \in Prefix, p \in Proc :
      last[f][x] = p /\ claim[p][x] = "up" /\ ~(os = "windows" /\ f = 6)
        => <<f, x, p>> \in route

(* That holds where the teardown names the device, on Linux and Windows.   *)
DeviceSound == TypeOK /\ VipsDistinct /\ (os # "macos" => LastClaimKept)
=============================================================================
