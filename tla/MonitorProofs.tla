---------------------------- MODULE MonitorProofs ----------------------------
(***************************************************************************)
(* Proofs about TrafficMirror and NtopngMonitor, for any number of         *)
(* gateways, threads and monitors.                                         *)
(***************************************************************************)
EXTENDS MCMonitors, TLAPS

-----------------------------------------------------------------------------
(***************************************************************************)
(* TrafficMirror.                                                          *)
(***************************************************************************)

(* What MirrorsAsAsked says between actions, for one chain and gateway.    *)
Agree(c, g) == Near(rules[c][g], asked[g], lost[g])

(* While an action runs, a chain that it has still to do will agree once   *)
(* the command is run on it, and also if it is not run.                    *)
WillAgree(c, g) == Near(Command(action.kind, rules[c][g]), asked[g], lost[g])

Pending(c, g) == action # Idle /\ g = action.gateway /\ c \in action.left

Inv ==
    /\ TypeOK
    /\ \A c \in Chains, g \in Gateways :
            IF Pending(c, g) THEN WillAgree(c, g) ELSE Agree(c, g)

-----------------------------------------------------------------------------
(* Near survives a command that is done on both sides, and a command that  *)
(* is done on one side only costs one.                                     *)
LEMMA NearCommand ==
    ASSUME NEW m \in Nat, NEW n \in Nat, NEW d \in Nat, NEW kind \in Kinds
    PROVE  /\ Near(0, 0, 0)
           /\ Command(kind, m) \in Nat
           /\ Near(m, n, d) =>
                Near(Command(kind, m),
                     IF kind = "start" THEN n + 1
                     ELSE IF n = 0 THEN 0 ELSE n - 1, d)
           /\ Near(Command(kind, m), n, d) => Near(m, n, d + 1)
BY DEF Near, Command, Append, Delete, Kinds

LEMMA ChainsAre ==
    ASSUME TypeOK, action # Idle
    PROVE  /\ action \in Actions
           /\ action.kind \in Kinds
           /\ action.gateway \in Gateways
           /\ action.left \subseteq Chains
           /\ NextChain \in action.left
BY DEF TypeOK, Actions, Chains, NextChain

(* An action that does its next chain leaves that chain out.               *)
LEMMA DoneType ==
    ASSUME TypeOK, action # Idle, Done(NextChain)
    PROVE  /\ action' \in Actions \cup {Idle}
           /\ \A c, g : Pending(c, g)' <=> Pending(c, g) /\ c # NextChain
           /\ action' # Idle => action'.kind = action.kind
<1>1. CASE action.left = {NextChain}
    BY <1>1 DEF Done, Pending
<1>2. CASE action.left # {NextChain}
    <2>1. /\ action' = [action EXCEPT !.left = @ \ {NextChain}]
          /\ action.left \ {NextChain} # {}
        BY <1>2, ChainsAre DEF Done
    <2>2. action' = [kind |-> action.kind, gateway |-> action.gateway,
                     left |-> action.left \ {NextChain}]
        BY <2>1, ChainsAre DEF Actions
    <2>3. action' \in Actions
        BY <2>1, <2>2, ChainsAre DEF Actions
    <2>4. action' # Idle
        BY <2>3 DEF Actions, Idle, Kinds
    <2> QED BY <2>2, <2>3, <2>4 DEF Pending
<1> QED BY <1>1, <1>2

LEMMA InvStep == Inv /\ [Next]_vars => Inv'
<1> SUFFICES ASSUME Inv, [Next]_vars PROVE Inv'
    OBVIOUS
<1> USE DEF Inv
<1>1. ASSUME NEW g \in Gateways, NEW kind \in Kinds, Begin(kind, g),
             asked[g] \in Nat
      PROVE  Inv'
    <2>1. TypeOK'
        BY <1>1 DEF Begin, TypeOK, Actions, Chains
    <2>2. ASSUME NEW c \in Chains, NEW h \in Gateways
          PROVE  (IF Pending(c, h) THEN WillAgree(c, h) ELSE Agree(c, h))'
        <3>1. Agree(c, h)
            BY <1>1 DEF Begin, Pending
        <3>2. rules[c][h] \in Nat /\ asked[h] \in Nat /\ lost[h] \in Nat
            BY DEF TypeOK
        <3>3. Pending(c, h)' <=> h = g
            BY <1>1 DEF Begin, Pending, Idle, Kinds
        <3>4. CASE h = g
            BY <1>1, <3>1, <3>2, <3>3, <3>4, NearCommand
            DEF Begin, WillAgree, Agree, TypeOK
        <3>5. CASE h # g
            BY <1>1, <3>1, <3>3, <3>5 DEF Begin, Agree, TypeOK
        <3> QED BY <3>4, <3>5
    <2> QED BY <2>1, <2>2
<1>2. ASSUME NEW g \in Gateways, StartMirroring(g) PROVE Inv'
    BY <1>1, <1>2 DEF StartMirroring, Kinds, TypeOK
<1>3. ASSUME NEW g \in Gateways, StopMirroring(g) PROVE Inv'
    BY <1>1, <1>3 DEF StopMirroring, Kinds, TypeOK
<1>4. CASE RunCommand
    <2>1. Command(action.kind, rules[NextChain][action.gateway]) \in Nat
        BY <1>4, ChainsAre, NearCommand DEF RunCommand, TypeOK
    <2>2. TypeOK'
        BY <1>4, <2>1, ChainsAre, DoneType DEF RunCommand, TypeOK
    <2>3. ASSUME NEW c \in Chains, NEW h \in Gateways
          PROVE  (IF Pending(c, h) THEN WillAgree(c, h) ELSE Agree(c, h))'
        <3>1. CASE c = NextChain /\ h = action.gateway
            <4>1. Pending(c, h) /\ ~Pending(c, h)'
                BY <1>4, <3>1, ChainsAre, DoneType DEF RunCommand, Pending
            <4>2. rules'[c][h] = Command(action.kind, rules[c][h])
                BY <1>4, <3>1, ChainsAre DEF RunCommand, TypeOK
            <4> QED BY <1>4, <4>1, <4>2 DEF RunCommand, WillAgree, Agree
        <3>2. CASE ~(c = NextChain /\ h = action.gateway)
            <4>1. Pending(c, h)' <=> Pending(c, h)
                BY <1>4, <3>2, DoneType DEF RunCommand, Pending
            <4>2. rules'[c][h] = rules[c][h]
                BY <1>4, <3>2, ChainsAre DEF RunCommand, TypeOK
            <4>3. CASE Pending(c, h)
                <5>1. action'.kind = action.kind
                    BY <1>4, <4>1, <4>3, DoneType DEF RunCommand, Pending
                <5> QED BY <1>4, <4>1, <4>2, <4>3, <5>1
                        DEF RunCommand, WillAgree
            <4>4. CASE ~Pending(c, h)
                BY <1>4, <4>1, <4>2, <4>4 DEF RunCommand, Agree
            <4> QED BY <4>3, <4>4
        <3> QED BY <3>1, <3>2
    <2> QED BY <2>2, <2>3
<1>5. ASSUME action # Idle, UNCHANGED <<rules, asked>>,
             lost' = [lost EXCEPT ![action.gateway] = @ + 1],
             action' \in Actions \cup {Idle},
             \A c, g : Pending(c, g)' => Pending(c, g),
             action' # Idle => action'.kind = action.kind
      PROVE  Inv'
    <2>1. TypeOK'
        BY <1>5, ChainsAre DEF TypeOK
    <2>2. ASSUME NEW c \in Chains, NEW h \in Gateways
          PROVE  (IF Pending(c, h) THEN WillAgree(c, h) ELSE Agree(c, h))'
        <3>1. rules[c][h] \in Nat /\ asked[h] \in Nat /\ lost[h] \in Nat
              /\ lost'[h] = IF h = action.gateway THEN lost[h] + 1 ELSE lost[h]
            BY <1>5, ChainsAre DEF TypeOK
        <3>2. CASE Pending(c, h)
            <4>1. WillAgree(c, h) /\ lost'[h] = lost[h] + 1
                BY <3>1, <3>2 DEF Pending
            <4>2. CASE Pending(c, h)'
                <5>1. action'.kind = action.kind
                    BY <1>5, <4>2 DEF Pending
                <5>2. Command(action.kind, rules[c][h]) \in Nat
                    BY <1>5, <3>1, ChainsAre, NearCommand
                <5> QED BY <1>5, <3>1, <4>1, <4>2, <5>1, <5>2
                        DEF WillAgree, Near
            <4>3. CASE ~Pending(c, h)'
                BY <1>5, <3>1, <4>1, <4>3, ChainsAre, NearCommand
                DEF WillAgree, Agree
            <4> QED BY <4>2, <4>3
        <3>3. CASE ~Pending(c, h)
            BY <1>5, <3>1, <3>3 DEF Agree, Near
        <3> QED BY <3>2, <3>3
    <2> QED BY <2>1, <2>2
<1>6. CASE CommandFails
    BY <1>5, <1>6, DoneType DEF CommandFails
<1>7. CASE Killed
    BY <1>5, <1>7 DEF Killed, Pending
<1>8. CASE Reboot
    <2>1. TypeOK'
        BY <1>8 DEF Reboot, TypeOK, None, Chains
    <2> QED BY <1>8, <2>1, NearCommand DEF Reboot, Pending, Agree, None, Near
<1>9. CASE UNCHANGED vars
    BY <1>9 DEF vars, TypeOK, Pending, Agree, WillAgree
<1> QED
    BY <1>2, <1>3, <1>4, <1>6, <1>7, <1>8, <1>9 DEF Next

LEMMA InvInit == Init => Inv
BY DEF Init, Inv, TypeOK, None, Pending, Agree, Near, Chains

LEMMA MirrorAlways == MonitorsSpec => []Inv
<1>1. MonitorsInit => Inv
    BY InvInit DEF MonitorsInit
<1>2. Inv /\ [MonitorsNext]_<<charm, vars, ntopngVars>> => Inv'
    BY InvStep DEF MonitorsNext
<1> QED BY <1>1, <1>2, PTL DEF MonitorsSpec

(* Between actions each chain has the rules that were asked for, up to the *)
(* commands that were lost, for every number of gateways, starts, stops,   *)
(* failures and kills: iptables is called once for each chain, and neither *)
(* call depends on the other's outcome (iptnetflow/src/charm.py:39-40,     *)
(* 90-91).                                                                 *)
THEOREM AskedIsMirrored == MonitorsSpec => []MirrorsAsAsked
<1>1. Inv => MirrorsAsAsked
    BY DEF Inv, Pending, Agree, MirrorsAsAsked
<1> QED BY <1>1, MirrorAlways, PTL

-----------------------------------------------------------------------------
(***************************************************************************)
(* NtopngMonitor.                                                          *)
(***************************************************************************)

(* A monitor that ran when a stop came is not started anew; while the stop *)
(* walks over the processes, it is still to be visited if it lives.        *)
Walked(t) ==
    /\ \A m \in request[t].before : monitor[m] # "none"
    /\ request[t].pc = "walk" =>
            \A m \in request[t].before :
                monitor[m] = "live" => m \in request[t].left
    /\ request[t].pc = "stopped" =>
            \A m \in request[t].before : monitor[m] # "live"

StopInv == Ntopng!TypeOK /\ \A t \in Threads : Walked(t)

(* A step that only lets monitors die keeps what is known of the others.   *)
Decline ==
    \A m \in Ntopng!Monitors :
        /\ monitor[m] # "none" => monitor'[m] # "none"
        /\ monitor[m] \notin {"none", "live"} => monitor'[m] # "live"

LEMMA WalkedKept ==
    ASSUME StopInv, Decline, NEW t \in Threads, request'[t] = request[t]
    PROVE  Walked(t)'
<1>1. request[t].before \subseteq Ntopng!Monitors
    BY DEF StopInv, Ntopng!TypeOK
<1>2. \A m \in request[t].before : monitor[m] # "live" => monitor'[m] # "live"
    BY <1>1 DEF StopInv, Walked, Decline
<1> QED BY <1>1, <1>2 DEF StopInv, Walked, Decline

LEMMA StopTypeStep ==
    Ntopng!TypeOK /\ [Ntopng!Next]_ntopngVars => Ntopng!TypeOK'
<1> SUFFICES ASSUME Ntopng!TypeOK, [Ntopng!Next]_ntopngVars
             PROVE  Ntopng!TypeOK'
    OBVIOUS
<1> DEFINE Requests == [pc : {"idle", "popen", "list", "walk", "started",
                              "stopped", "failed"},
                        left : SUBSET Ntopng!Monitors,
                        before : SUBSET Ntopng!Monitors]
<1>1. /\ monitor \in [Ntopng!Monitors -> Ntopng!States]
      /\ request \in [Threads -> Requests]
    BY DEF Ntopng!TypeOK
<1>2. monitor' \in [Ntopng!Monitors -> Ntopng!States]
    BY <1>1
    DEF Ntopng!Next, Ntopng!States, Ntopng!LaunchNtopng, Ntopng!Popen,
        Ntopng!StopNtopng, Ntopng!List, Ntopng!Visit, Ntopng!Vanished,
        Ntopng!Stopped, Ntopng!Exit, Ntopng!Restart, ntopngVars
<1>3. ASSUME NEW t \in Threads,
             \/ Ntopng!LaunchNtopng(t) \/ Ntopng!Popen(t)
             \/ Ntopng!StopNtopng(t) \/ Ntopng!List(t) \/ Ntopng!Visit(t)
             \/ Ntopng!Vanished(t) \/ Ntopng!Stopped(t)
      PROVE  request' \in [Threads -> Requests]
    <2>1. \A S : Ntopng!In(S) \subseteq Ntopng!Monitors
        BY DEF Ntopng!In
    <2>2. request[t] \in Requests /\ Ntopng!NoRequest \in Requests
        BY <1>1 DEF Ntopng!NoRequest
    <2>3. PICK r \in Requests : request' = [request EXCEPT ![t] = r]
        <3>1. CASE Ntopng!LaunchNtopng(t)
            BY <2>2, <3>1 DEF Ntopng!LaunchNtopng
        <3>2. CASE Ntopng!StopNtopng(t)
            BY <2>1, <2>2, <3>2 DEF Ntopng!StopNtopng
        <3>3. CASE Ntopng!List(t)
            <4>1. [request[t] EXCEPT !.pc = "walk",
                        !.left = Ntopng!In("live") \cup Ntopng!In("zombie")]
                  \in Requests
                BY <2>1, <2>2
            <4> QED BY <1>1, <3>3, <4>1 DEF Ntopng!List
        <3>4. CASE Ntopng!Visit(t)
            <4>1. [request[t] EXCEPT !.left = Ntopng!After(t)] \in Requests
                BY <2>2 DEF Ntopng!After
            <4> QED BY <1>1, <3>4, <4>1 DEF Ntopng!Visit
        <3>5. ASSUME NEW pc \in {"started", "failed", "stopped"},
                     Ntopng!Becomes(t, pc)
              PROVE  \E r \in Requests : request' = [request EXCEPT ![t] = r]
            <4>1. [request[t] EXCEPT !.pc = pc] \in Requests
                BY <2>2
            <4> QED BY <1>1, <3>5, <4>1 DEF Ntopng!Becomes
        <3> QED BY <1>3, <3>1, <3>2, <3>3, <3>4, <3>5
                DEF Ntopng!Popen, Ntopng!Vanished, Ntopng!Stopped
    <2> QED BY <1>1, <2>3
<1>4. request' \in [Threads -> Requests]
    BY <1>1, <1>3
    DEF Ntopng!Next, Ntopng!Exit, Ntopng!Restart, Ntopng!NoRequest, ntopngVars
<1> QED BY <1>2, <1>4 DEF Ntopng!TypeOK

LEMMA StopStep == StopInv /\ [Ntopng!Next]_ntopngVars => StopInv'
<1> SUFFICES ASSUME StopInv, [Ntopng!Next]_ntopngVars
             PROVE  \A t \in Threads : Walked(t)'
    BY StopTypeStep DEF StopInv
<1>1. /\ monitor \in [Ntopng!Monitors -> Ntopng!States]
      /\ request \in [Threads -> [pc : {"idle", "popen", "list", "walk",
                                        "started", "stopped", "failed"},
                                  left : SUBSET Ntopng!Monitors,
                                  before : SUBSET Ntopng!Monitors]]
      /\ \A t \in Threads : Walked(t)
    BY DEF StopInv, Ntopng!TypeOK
<1>2. ASSUME NEW t \in Threads, Decline, Walked(t)',
             \A u \in Threads \ {t} : request'[u] = request[u]
      PROVE  \A u \in Threads : Walked(u)'
    BY <1>2, WalkedKept
<1>3. ASSUME UNCHANGED monitor PROVE Decline
    BY <1>3 DEF Decline
<1>4. ASSUME NEW t \in Threads, Ntopng!LaunchNtopng(t)
      PROVE  \A u \in Threads : Walked(u)'
    <2>1. Walked(t)'
        BY <1>1, <1>4 DEF Ntopng!LaunchNtopng, Ntopng!NoRequest, Walked
    <2> QED BY <1>1, <1>2, <1>3, <1>4, <2>1 DEF Ntopng!LaunchNtopng
<1>5. ASSUME NEW t \in Threads, Ntopng!Popen(t)
      PROVE  \A u \in Threads : Walked(u)'
    <2>1. Decline
        BY <1>1, <1>5 DEF Ntopng!Popen, Ntopng!In, Decline
    <2>2. request'[t] = [request[t] EXCEPT !.pc = "started"]
        BY <1>1, <1>5 DEF Ntopng!Popen, Ntopng!Becomes
    <2>3. Walked(t)'
        BY <1>1, <2>1, <2>2 DEF Walked, Decline
    <2> QED BY <1>1, <1>2, <1>5, <2>1, <2>3 DEF Ntopng!Popen, Ntopng!Becomes
<1>6. ASSUME NEW t \in Threads, Ntopng!StopNtopng(t)
      PROVE  \A u \in Threads : Walked(u)'
    <2>1. Walked(t)'
        BY <1>1, <1>6
        DEF Ntopng!StopNtopng, Ntopng!NoRequest, Ntopng!In, Walked
    <2> QED BY <1>1, <1>2, <1>3, <1>6, <2>1 DEF Ntopng!StopNtopng
<1>7. ASSUME NEW t \in Threads, Ntopng!List(t)
      PROVE  \A u \in Threads : Walked(u)'
    <2>1. Walked(t)'
        BY <1>1, <1>7 DEF Ntopng!List, Ntopng!In, Walked
    <2> QED BY <1>1, <1>2, <1>3, <1>7, <2>1 DEF Ntopng!List
<1>8. ASSUME NEW t \in Threads, Ntopng!Visit(t)
      PROVE  \A u \in Threads : Walked(u)'
    <2> DEFINE first == Ntopng!First(t)
    <2>1. /\ monitor' = IF monitor[first] = "live"
                        THEN [monitor EXCEPT ![first] = "zombie"] ELSE monitor
          /\ request' = [request EXCEPT ![t].left = request[t].left \ {first}]
          /\ request[t].pc = "walk"
        BY <1>8 DEF Ntopng!Visit, Ntopng!After
    <2> HIDE DEF first
    <2>2. Decline
        BY <1>1, <2>1 DEF Decline
    <2>3. Walked(t)'
        BY <1>1, <2>1, <2>2 DEF Walked, Decline
    <2> QED BY <1>1, <1>2, <2>1, <2>2, <2>3
<1>9. ASSUME NEW t \in Threads, Ntopng!Vanished(t) \/ Ntopng!Stopped(t)
      PROVE  \A u \in Threads : Walked(u)'
    <2>1. Walked(t)'
        BY <1>1, <1>9
        DEF Ntopng!Vanished, Ntopng!Stopped, Ntopng!Becomes, Walked
    <2> QED BY <1>1, <1>2, <1>3, <1>9, <2>1
            DEF Ntopng!Vanished, Ntopng!Stopped, Ntopng!Becomes
<1>10. ASSUME NEW m \in Ntopng!Monitors, Ntopng!Exit(m)
       PROVE  \A u \in Threads : Walked(u)'
    <2>1. Decline
        BY <1>1, <1>10 DEF Ntopng!Exit, Decline
    <2> QED BY <1>10, <2>1, WalkedKept DEF Ntopng!Exit
<1>11. CASE Ntopng!Restart
    BY <1>11 DEF Ntopng!Restart, Ntopng!NoRequest, Walked
<1>12. CASE UNCHANGED ntopngVars
    BY <1>3, <1>12, WalkedKept DEF ntopngVars
<1> QED
    BY <1>4, <1>5, <1>6, <1>7, <1>8, <1>9, <1>10, <1>11, <1>12
    DEF Ntopng!Next

LEMMA StopAlways == MonitorsSpec => []StopInv
<1>1. MonitorsInit => StopInv
    BY DEF MonitorsInit, Ntopng!Init, Ntopng!NoRequest, Ntopng!TypeOK,
           Ntopng!States, StopInv, Walked
<1>2. StopInv /\ [MonitorsNext]_<<charm, vars, ntopngVars>> => StopInv'
    <2>1. [MonitorsNext]_<<charm, vars, ntopngVars>> =>
                [Ntopng!Next]_ntopngVars
        BY DEF MonitorsNext
    <2> QED BY <2>1, StopStep
<1> QED BY <1>1, <1>2, PTL DEF MonitorsSpec

(* A stop that says "Ntopng stopped successfully" has ended every monitor  *)
(* that ran when it came, for any number of monitors and of requests that  *)
(* are answered at the same time (ntopng/app.py): the processes are listed *)
(* after the request came, and nothing brings a monitor back to life.      *)
THEOREM StopKillsAll == MonitorsSpec => []StoppedAreDead
<1>1. StopInv => StoppedAreDead
    BY DEF StopInv, Walked, StoppedAreDead, Ntopng!StoppedAreDead
<1> QED BY <1>1, StopAlways, PTL
=============================================================================
