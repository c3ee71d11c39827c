---------------------------- MODULE NtopngMonitor ----------------------------
(***************************************************************************)
(* The API that the ntopng charm starts and stops its monitor with         *)
(* (deployment-images/ntopng/app.py, juju-charms/ntopng/src/charm.py).     *)
(* Flask has a thread for each request.  The charm waits for the answer of *)
(* one before the next, but a request goes on when the charm is killed, so *)
(* that there may be several.  Monitors are numbered as they are started.  *)
(***************************************************************************)
EXTENDS Naturals

CONSTANTS
    Threads,    \* requests that may be answered at a time
    MaxStarted  \* bound: the monitors that are started

BoundAssumption == MaxStarted \in Nat

VARIABLES
    monitor,    \* the state of each monitor
    request     \* what each thread does

vars == <<monitor, request>>

Monitors == 1..MaxStarted

(* A dead child is a zombie until the API waits for it.                    *)
States == {"none", "live", "zombie", "gone"}

In(state) == {m \in Monitors : monitor[m] = state}

NoRequest == [pc |-> "idle", left |-> {}, before |-> {}]

Init ==
    /\ monitor = [m \in Monitors |-> "none"]
    /\ request = [t \in Threads |-> NoRequest]

Free(t) == request[t].pc \in {"idle", "started", "stopped", "failed"}

Becomes(t, pc) == request' = [request EXCEPT ![t].pc = pc]

LaunchNtopng(t) ==
    /\ Free(t)
    /\ request' = [request EXCEPT ![t] = [NoRequest EXCEPT !.pc = "popen"]]
    /\ UNCHANGED monitor

(* subprocess.Popen waits for the children that have died, whose objects   *)
(* were dropped, before it starts another; nothing looks for one that is   *)
(* running already.                                                        *)
Popen(t) ==
    /\ request[t].pc = "popen"
    /\ \E new \in In("none") :
        /\ \A m \in In("none") : new <= m
        /\ monitor' = [m \in Monitors |->
                        IF m = new THEN "live"
                        ELSE IF monitor[m] = "zombie" THEN "gone" ELSE monitor[m]]
    /\ Becomes(t, "started")

(* "before" is history: what ran when the request came.                    *)
StopNtopng(t) ==
    /\ Free(t)
    /\ request' = [request EXCEPT ![t] = [NoRequest EXCEPT !.pc = "list",
                                                          !.before = In("live")]]
    /\ UNCHANGED monitor

(* psutil.process_iter lists the processes when the loop begins, zombies   *)
(* too, and returns them in order.                                         *)
List(t) ==
    /\ request[t].pc = "list"
    /\ request' = [request EXCEPT ![t].pc = "walk",
                                  ![t].left = In("live") \cup In("zombie")]
    /\ UNCHANGED monitor

First(t) == CHOOSE m \in request[t].left : \A n \in request[t].left : m <= n

(* Variant of After: the loop ends with the first process it finds.        *)
AfterFirst(t) == {}

After(t) == request[t].left \ {First(t)}

Visit(t) ==
    /\ request[t].pc = "walk"
    /\ request[t].left # {}
    /\ monitor' = IF monitor[First(t)] = "live"
                  THEN [monitor EXCEPT ![First(t)] = "zombie"] ELSE monitor
    /\ request' = [request EXCEPT ![t].left = After(t)]

(* A process, a monitor or another one of the container, is gone when its  *)
(* name or state is asked for: the exception is printed, the handler       *)
(* returns nothing, and the action of the charm fails.                     *)
Vanished(t) ==
    /\ request[t].pc = "walk"
    /\ Becomes(t, "failed")
    /\ UNCHANGED monitor

Stopped(t) ==
    /\ request[t].pc = "walk"
    /\ request[t].left = {}
    /\ Becomes(t, "stopped")
    /\ UNCHANGED monitor

(* A monitor ends by itself.                                               *)
Exit(m) ==
    /\ monitor[m] = "live"
    /\ monitor' = [monitor EXCEPT ![m] = "zombie"]
    /\ UNCHANGED request

(* The container starts again, with no monitor and no request.             *)
Restart ==
    /\ monitor' = [m \in Monitors |->
                    IF monitor[m] = "none" THEN "none" ELSE "gone"]
    /\ request' = [t \in Threads |-> NoRequest]

Next ==
    \/ \E t \in Threads :
        \/ LaunchNtopng(t) \/ Popen(t) \/ StopNtopng(t) \/ List(t)
        \/ Visit(t) \/ Vanished(t) \/ Stopped(t)
    \/ \E m \in Monitors : Exit(m)
    \/ Restart

Spec == Init /\ [][Next]_vars

-----------------------------------------------------------------------------
TypeOK ==
    /\ monitor \in [Monitors -> States]
    /\ request \in [Threads -> [pc : {"idle", "popen", "list", "walk", "started",
                                      "stopped", "failed"},
                                left : SUBSET Monitors, before : SUBSET Monitors]]

(* "Ntopng stopped successfully" is true of every monitor that ran when    *)
(* the request came, however many were started, whatever other requests    *)
(* were answered meanwhile and whichever monitors ended by themselves.     *)
StoppedAreDead ==
    \A t \in Threads :
        request[t].pc = "stopped" =>
            \A m \in request[t].before : monitor[m] # "live"
=============================================================================
