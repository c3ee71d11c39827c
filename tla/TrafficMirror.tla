---------------------------- MODULE TrafficMirror ----------------------------
(***************************************************************************)
(* The traffic mirroring of the iptnetflow charm                           *)
(* (juju-charms/iptnetflow/src/charm.py).  An action runs one iptables     *)
(* command for each of two chains and looks at the outcome of neither; the *)
(* pod uses the network of its host, so the rules outlive it.              *)
(***************************************************************************)
EXTENDS Naturals

CONSTANTS
    Gateways,   \* the addresses that traffic can be sent to
    MaxRules,   \* bound: rules for a gateway that are asked for
    MaxLost     \* bound: commands without effect, for a gateway

ASSUME BoundsAssumption == MaxRules \in Nat /\ MaxLost \in Nat

VARIABLES
    rules,      \* for each chain and gateway, how many TEE rules there are
    action,     \* the action that runs, with the chains it has still to do
    asked,      \* history: starts that no stop took back, since the boot
    lost        \* history: commands that failed or did not run

vars == <<rules, action, asked, lost>>

Chains == {"PREROUTING", "POSTROUTING"}
Kinds  == {"start", "stop"}

Idle == [kind |-> "none", left |-> {}]

Actions == [kind : Kinds, gateway : Gateways, left : (SUBSET Chains) \ {{}}]

None == [g \in Gateways |-> 0]

Init ==
    /\ rules = [c \in Chains |-> None]
    /\ action = Idle
    /\ asked = None
    /\ lost = None

(* iptables -A                                                             *)
Append(n) == n + 1

(* iptables -D takes the first such rule away, and fails where none is.    *)
Delete(n) == IF n = 0 THEN 0 ELSE n - 1

(* Variant of Command: a stop flushes the chain (-F).                      *)
CommandFlush(kind, n) == IF kind = "start" THEN Append(n) ELSE 0

Command(kind, n) == IF kind = "start" THEN Append(n) ELSE Delete(n)

Begin(kind, g) ==
    /\ action = Idle
    /\ action' = [kind |-> kind, gateway |-> g, left |-> Chains]
    /\ asked' = [asked EXCEPT ![g] = IF kind = "start" THEN @ + 1
                                     ELSE IF @ = 0 THEN 0 ELSE @ - 1]
    /\ UNCHANGED <<rules, lost>>

(* _on_start_mirroring_action and _on_stop_mirroring_action: two           *)
(* os.system calls one after the other.                                    *)
StartMirroring(g) == asked[g] < MaxRules /\ Begin("start", g)
StopMirroring(g)  == Begin("stop", g)

NextChain == IF "PREROUTING" \in action.left THEN "PREROUTING"
                                             ELSE "POSTROUTING"

Done(c) ==
    action' = IF action.left = {c} THEN Idle
              ELSE [action EXCEPT !.left = @ \ {c}]

RunCommand ==
    /\ action # Idle
    /\ rules' = [rules EXCEPT ![NextChain][action.gateway] =
                    Command(action.kind, @)]
    /\ Done(NextChain)
    /\ UNCHANGED <<asked, lost>>

(* Another program holds the lock of the tables, or the target is missing: *)
(* the exit status says so, and the action goes on.                        *)
CommandFails ==
    /\ action # Idle
    /\ lost[action.gateway] < MaxLost
    /\ lost' = [lost EXCEPT ![action.gateway] = @ + 1]
    /\ Done(NextChain)
    /\ UNCHANGED <<rules, asked>>

(* The action, or its pod, is killed: the commands left do not run.        *)
Killed ==
    /\ action # Idle
    /\ lost[action.gateway] < MaxLost
    /\ lost' = [lost EXCEPT ![action.gateway] = @ + 1]
    /\ action' = Idle
    /\ UNCHANGED <<rules, asked>>

(* The tables are empty when the host has booted.                          *)
Reboot ==
    /\ rules' = [c \in Chains |-> None]
    /\ action' = Idle
    /\ asked' = None
    /\ lost' = None

Next ==
    \/ \E g \in Gateways : StartMirroring(g) \/ StopMirroring(g)
    \/ RunCommand \/ CommandFails \/ Killed \/ Reboot

Spec == Init /\ [][Next]_vars

-----------------------------------------------------------------------------
TypeOK ==
    /\ rules \in [Chains -> [Gateways -> Nat]]
    /\ action \in Actions \cup {Idle}
    /\ asked \in [Gateways -> Nat]
    /\ lost \in [Gateways -> Nat]

Near(m, n, d) == m <= n + d /\ n <= m + d

(* Between actions, each chain has as many rules for a gateway as there    *)
(* were starts that no stop took back: a packet is sent as many times, and *)
(* a stop after two starts leaves one.  A command that is lost, for        *)
(* whatever reason, displaces each chain by one at most, however many      *)
(* actions follow; so the two chains agree where none was.                 *)
MirrorsAsAsked ==
    action = Idle =>
        \A c \in Chains, g \in Gateways : Near(rules[c][g], asked[g], lost[g])
=============================================================================
