---------------------------- MODULE SessionPhase ----------------------------
(* The session lifecycle every TUN role reports through TunLiveState        *)
(* (src/tun/mod.rs: SessionPhase, PhaseEvent, transition, apply_phase).     *)

PhaseName == {"Starting", "Idle", "Dialing", "Ringing", "Connected"}
PhaseEvent == {"Ready", "BeginDial", "Ring", "Connected", "PeerLeft", "Reset"}

(* The legal edges.  A duplicate Ready and a Reset or PeerLeft when already *)
(* idle are no-ops, like every edge that is not listed.                     *)
Edge ==
    { <<"Starting",  "Ready",     "Idle">>,
      <<"Starting",  "Connected", "Connected">>,
      <<"Idle",      "BeginDial", "Dialing">>,
      <<"Idle",      "Ring",      "Ringing">>,
      <<"Idle",      "Connected", "Connected">>,
      <<"Dialing",   "Connected", "Connected">>,
      <<"Dialing",   "PeerLeft",  "Idle">>,
      <<"Dialing",   "Reset",     "Idle">>,
      <<"Dialing",   "Ring",      "Ringing">>,
      <<"Ringing",   "Connected", "Connected">>,
      <<"Ringing",   "PeerLeft",  "Idle">>,
      <<"Ringing",   "Reset",     "Idle">>,
      <<"Connected", "PeerLeft",  "Idle">>,
      <<"Connected", "Reset",     "Idle">>,
      <<"Connected", "BeginDial", "Dialing">>,
      <<"Connected", "Ring",      "Ringing">> }

(* apply_phase: an illegal edge is logged and ignored. *)
ApplyPhase(phase, ev) ==
    IF \E e \in Edge : e[1] = phase /\ e[2] = ev
    THEN (CHOOSE e \in Edge : e[1] = phase /\ e[2] = ev)[3]
    ELSE phase
=============================================================================
