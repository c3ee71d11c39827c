------------------------------ MODULE MCMonitors ------------------------------
(***************************************************************************)
(* The two charms that observe traffic, each on its own pod: a behaviour   *)
(* is one of TrafficMirror or one of NtopngMonitor.                        *)
(***************************************************************************)
EXTENDS TrafficMirror

CONSTANTS Threads, MaxStarted

VARIABLES
    charm,              \* which of them
    monitor, request    \* the variables of NtopngMonitor

ntopngVars == <<monitor, request>>

Ntopng == INSTANCE NtopngMonitor

ASSUME NtopngAssumption == Ntopng!BoundAssumption

MonitorsInit == charm \in {"iptnetflow", "ntopng"} /\ Init /\ Ntopng!Init

MonitorsNext ==
    \/ charm = "iptnetflow" /\ Next /\ UNCHANGED <<charm, ntopngVars>>
    \/ charm = "ntopng" /\ Ntopng!Next /\ UNCHANGED <<charm, vars>>

MonitorsSpec == MonitorsInit /\ [][MonitorsNext]_<<charm, vars, ntopngVars>>

-----------------------------------------------------------------------------
(* The instance of the property that NtopngMonitor states.                 *)
StoppedAreDead == Ntopng!StoppedAreDead
=============================================================================
