----------------------------- MODULE IdsService -----------------------------
(***************************************************************************)
(* A unit of the Snort or of the Suricata charm                            *)
(* (juju-charms/ids/{snort,suricata}/src/charm.py): its action handlers,   *)
(* the sensor's processes and the files they share.                        *)
(*                                                                         *)
(* Juju runs the actions of a unit one at a time; the sensor's processes   *)
(* run beside them.  "snort -D" starts a launcher, which forks the daemon  *)
(* and waits until it is ready; Snort's charm finds both by name.          *)
(* Suricata is started and stopped by its init script.  A daemon reads the *)
(* configuration and the rules once, some time after it was started.       *)
(*                                                                         *)
(* A handler rewrites a file by reading it, opening it with "w+", which    *)
(* empties it, and writing the new content.                                *)
(***************************************************************************)
EXTENDS Naturals, Sequences, SequencesExt

CONSTANTS
    Engines,    \* the charms to model: a subset of {"snort", "suricata"}
    Rules,      \* the rules add-rule is called with
    Height,     \* how many lines each of them has
    ShippedSize,\* lines in the image's local.rules
    MaxLines,   \* bound: local.rules grows no longer
    MaxNets,    \* bound: calls of start-configuration on one file
    MaxDaemons, \* bound: sensors at once
    Fault       \* "kill", "restart", "die" and "command" (one that fails)

ASSUME EnginesAssumption == Engines \subseteq {"snort", "suricata"}
ASSUME HeightAssumption  == Height \in [Rules -> Nat \ {0}]
ASSUME SizeAssumption    == ShippedSize \in Nat
ASSUME BoundAssumption   == MaxLines \in Nat /\ MaxNets \in Nat
                            /\ MaxDaemons \in Nat

VARIABLES
    engine,     \* which of the two charms this unit runs
    rules,      \* /etc/{snort,suricata}/rules/local.rules, its lines
    conf,       \* snort.conf or suricata.yaml
    launcher,   \* Snort's foreground process: "none", "started", "waiting"
    daemons,    \* the sensors, oldest first
    filebeat,   \* the log shipper runs
    pc,         \* the next step of the running handler, or "idle"
    held,       \* the content of the file that the handler has read
    text,       \* the lines that add-rule is to write
    reply,      \* the outcome it reported, "none" until it reports one
    want,       \* history: the rules added and not deleted, last one first
    intact      \* history: no rule has been cut in two or lost by a kill, and
                \*   no line of the image's taken off; want grows no more then

vars == <<engine, rules, conf, launcher, daemons, filebeat, pc, held, text,
          reply, want, intact>>

Lines(r)  == [i \in 1..Height[r] |-> <<r, i>>]
Shipped   == [i \in 1..ShippedSize |-> <<"shipped", i>>]
Texts     == {Lines(r) : r \in Rules}

Loading   == [ready |-> FALSE, rules |-> <<>>]

(* A configuration file: how many "HOME_NET" headers start-configuration   *)
(* has put before its text, and whether that text is all there.            *)
ShippedConf == [nets |-> 0, whole |-> TRUE]
EmptyConf   == [nets |-> 0, whole |-> FALSE]

(* Suricata wants a YAML file with one header: the shipped one has none,   *)
(* and a second one is an error.  Snort takes each of them.                *)
Parses == conf.whole /\ (engine = "suricata" => conf.nets = 1)

Sensor   == <<launcher, daemons>>
Locals   == <<held, text>>
NoLocals == held' = <<>> /\ text' = <<>>
History  == <<want, intact>>

(***************************************************************************)
(* Any handler can fail in its first command, which changes nothing: the   *)
(* host's addresses or processes cannot be listed.                         *)
(***************************************************************************)

HandlerFails ==
    /\ pc = "idle"
    /\ "command" \in Fault
    /\ reply' = "failed"
    /\ UNCHANGED <<engine, rules, conf, Sensor, filebeat, pc, Locals, History>>

(***************************************************************************)
(* add-rule and del-rule, the same in both charms.                         *)
(***************************************************************************)

AddRule(r) ==
    /\ pc = "idle"
    /\ Len(rules) + Height[r] <= MaxLines
    /\ held' = rules
    /\ rules' = <<>>
    /\ text' = Lines(r)
    /\ want' = IF intact THEN <<r>> \o want ELSE want
    /\ pc' = "addWrite"
    /\ reply' = "none"
    /\ UNCHANGED <<engine, conf, Sensor, filebeat, intact>>

(* Variant of AddWrite: the file was emptied before it was read.           *)
AddUnread ==
    /\ pc = "addWrite"
    /\ rules' = text
    /\ pc' = "idle"
    /\ reply' = "inserted"
    /\ NoLocals
    /\ UNCHANGED <<engine, conf, Sensor, filebeat, History>>

AddWrite ==
    /\ pc = "addWrite"
    /\ rules' = text \o held
    /\ pc' = "idle"
    /\ reply' = "inserted"
    /\ NoLocals
    /\ UNCHANGED <<engine, conf, Sensor, filebeat, History>>

(* del-rule takes off the first line, whatever it is: one line of a rule   *)
(* that has more, or one of the image's when no rule is left.              *)
DelRule ==
    /\ pc = "idle"
    /\ held' = rules
    /\ rules' = <<>>
    /\ want' = IF want = <<>> THEN <<>> ELSE Tail(want)
    /\ intact' = (intact /\ want # <<>> /\ Height[Head(want)] = 1)
    /\ pc' = "delWrite"
    /\ reply' = "none"
    /\ UNCHANGED <<engine, conf, Sensor, filebeat, text>>

(* Variant of DelWrite: the oldest line is dropped.                        *)
DelOldest ==
    /\ pc = "delWrite"
    /\ rules' = IF held = <<>> THEN <<>> ELSE Front(held)
    /\ pc' = "idle"
    /\ reply' = "removed"
    /\ NoLocals
    /\ UNCHANGED <<engine, conf, Sensor, filebeat, History>>

DelWrite ==
    /\ pc = "delWrite"
    /\ rules' = IF held = <<>> THEN <<>> ELSE Tail(held)
    /\ pc' = "idle"
    /\ reply' = "removed"
    /\ NoLocals
    /\ UNCHANGED <<engine, conf, Sensor, filebeat, History>>

(***************************************************************************)
(* start-configuration: puts a header before the configuration's text;     *)
(* Suricata's charm then rewrites the file line by line to set the         *)
(* interface.                                                              *)
(***************************************************************************)

Configure ==
    /\ pc = "idle"
    /\ conf.nets < MaxNets
    /\ held' = conf
    /\ conf' = EmptyConf
    /\ pc' = "confWrite"
    /\ reply' = "none"
    /\ UNCHANGED <<engine, rules, Sensor, filebeat, text, History>>

(* Variant of ConfWrite: the header is put before and after the text.      *)
ConfWriteTwice ==
    /\ pc = "confWrite"
    /\ conf' = [held EXCEPT !.nets = @ + 2]
    /\ pc' = "confPatch"
    /\ NoLocals
    /\ UNCHANGED <<engine, rules, Sensor, filebeat, reply, History>>

ConfWrite ==
    /\ pc = "confWrite"
    /\ conf' = [held EXCEPT !.nets = @ + 1]
    /\ IF engine = "suricata"
       THEN pc' = "confPatch" /\ UNCHANGED reply
       ELSE pc' = "idle" /\ reply' = "configured"
    /\ NoLocals
    /\ UNCHANGED <<engine, rules, Sensor, filebeat, History>>

ConfPatch ==
    /\ pc = "confPatch"
    /\ held' = conf
    /\ conf' = EmptyConf
    /\ pc' = "confPatched"
    /\ UNCHANGED <<engine, rules, Sensor, filebeat, text, reply, History>>

(* The interfaces cannot be listed: the header stays, the interface is     *)
(* that of the image.                                                      *)
ConfPatchFails ==
    /\ pc = "confPatch"
    /\ "command" \in Fault
    /\ pc' = "idle"
    /\ reply' = "failed"
    /\ UNCHANGED <<engine, rules, conf, Sensor, filebeat, Locals, History>>

ConfPatched ==
    /\ pc = "confPatched"
    /\ conf' = held
    /\ pc' = "idle"
    /\ reply' = "configured"
    /\ NoLocals
    /\ UNCHANGED <<engine, rules, Sensor, filebeat, History>>

(***************************************************************************)
(* start-service and stop-service of Snort's charm.                        *)
(***************************************************************************)

SnortRuns == launcher # "none" \/ daemons # <<>>

(* Variant of SnortStart: only a launcher counts as a running service.     *)
SnortStartBlind ==
    /\ pc = "idle"
    /\ engine = "snort"
    /\ launcher = "none"
    /\ launcher' = "started"
    /\ reply' = "none"
    /\ pc' = "startShipper"
    /\ UNCHANGED <<engine, rules, conf, daemons, filebeat, Locals, History>>

SnortStart ==
    /\ pc = "idle"
    /\ engine = "snort"
    /\ IF SnortRuns
       THEN /\ reply' = "already"
            /\ UNCHANGED <<launcher, pc>>
       ELSE /\ launcher' = "started"
            /\ reply' = "none"
            /\ pc' = "startShipper"
    /\ UNCHANGED <<engine, rules, conf, daemons, filebeat, Locals, History>>

(* Variant of SnortStop: only the daemon is looked for.                    *)
SnortStopDaemon ==
    /\ pc = "idle"
    /\ engine = "snort"
    /\ IF daemons = <<>>
       THEN /\ reply' = "notRunning"
            /\ UNCHANGED <<daemons, pc>>
       ELSE /\ daemons' = Tail(daemons)
            /\ reply' = "none"
            /\ pc' = "stopShipper"
    /\ UNCHANGED <<engine, rules, conf, launcher, filebeat, Locals, History>>

(* The first live process in the process table is killed: processes are    *)
(* ordered by their numbers, which wrap, so it may be the launcher or the  *)
(* daemon.                                                                 *)
SnortStop ==
    /\ pc = "idle"
    /\ engine = "snort"
    /\ IF ~SnortRuns
       THEN /\ reply' = "notRunning"
            /\ UNCHANGED <<launcher, daemons, pc>>
       ELSE /\ \/ /\ launcher # "none"
                  /\ launcher' = "none"
                  /\ UNCHANGED daemons
               \/ /\ \E i \in DOMAIN daemons : daemons' = RemoveAt(daemons, i)
                  /\ UNCHANGED launcher
            /\ reply' = "none"
            /\ pc' = "stopShipper"
    /\ UNCHANGED <<engine, rules, conf, filebeat, Locals, History>>

(***************************************************************************)
(* start-service and stop-service of Suricata's charm.  A command that     *)
(* fails is an exception: the rest of the handler is left out.             *)
(***************************************************************************)

(* Variant of SuricataStart: the service is started, not restarted.        *)
SuricataStartOnly ==
    /\ pc = "idle"
    /\ engine = "suricata"
    /\ daemons' = IF daemons = <<>> THEN <<Loading>> ELSE daemons
    /\ pc' = "startShipper"
    /\ reply' = "none"
    /\ UNCHANGED <<engine, rules, conf, launcher, filebeat, Locals, History>>

SuricataStart ==
    /\ pc = "idle"
    /\ engine = "suricata"
    /\ \/ /\ daemons' = <<Loading>>
          /\ pc' = "startShipper"
          /\ reply' = "none"
       \/ /\ "command" \in Fault
          /\ daemons' \in {<<>>, daemons}
          /\ reply' = "failed"
          /\ UNCHANGED pc
    /\ UNCHANGED <<engine, rules, conf, launcher, filebeat, Locals, History>>

SuricataStop ==
    /\ pc = "idle"
    /\ engine = "suricata"
    /\ \/ /\ daemons' = <<>>
          /\ pc' = "stopShipper"
          /\ reply' = "none"
       \/ /\ "command" \in Fault
          /\ reply' = "failed"
          /\ UNCHANGED <<daemons, pc>>
    /\ UNCHANGED <<engine, rules, conf, launcher, filebeat, Locals, History>>

(***************************************************************************)
(* The second command of both charms' handlers: Filebeat, which ships the  *)
(* sensor's alerts.                                                        *)
(***************************************************************************)

StartShipper ==
    /\ pc = "startShipper"
    /\ \/ filebeat' = TRUE /\ reply' = "started"
       \/ /\ "command" \in Fault
          /\ filebeat' \in {FALSE, filebeat}
          /\ reply' = "failed"
    /\ pc' = "idle"
    /\ UNCHANGED <<engine, rules, conf, Sensor, Locals, History>>

StopShipper ==
    /\ pc = "stopShipper"
    /\ \/ filebeat' = FALSE /\ reply' = "stopped"
       \/ "command" \in Fault /\ filebeat' = filebeat /\ reply' = "failed"
    /\ pc' = "idle"
    /\ UNCHANGED <<engine, rules, conf, Sensor, Locals, History>>

(***************************************************************************)
(* The sensor's processes.                                                 *)
(***************************************************************************)

(* "snort -D" forks the daemon and waits for it.                           *)
Fork ==
    /\ launcher = "started"
    /\ Len(daemons) < MaxDaemons
    /\ launcher' = "waiting"
    /\ daemons' = Append(daemons, Loading)
    /\ UNCHANGED <<engine, rules, conf, filebeat, pc, Locals, reply, History>>

(* A daemon reads its configuration and the rules, as they are now, and    *)
(* the launcher ends.                                                      *)
Load(i) ==
    /\ ~daemons[i].ready
    /\ Parses
    /\ daemons' = [daemons EXCEPT ![i] = [ready |-> TRUE, rules |-> rules]]
    /\ launcher' = IF launcher = "waiting" THEN "none" ELSE launcher
    /\ UNCHANGED <<engine, rules, conf, filebeat, pc, Locals, reply, History>>

(* A daemon ends: its configuration or its rules, which nobody has looked  *)
(* at, do not parse, or it dies later on.                                  *)
Exit(i) ==
    /\ ~daemons[i].ready \/ "die" \in Fault
    /\ daemons' = RemoveAt(daemons, i)
    /\ launcher' = IF launcher = "waiting" THEN "none" ELSE launcher
    /\ UNCHANGED <<engine, rules, conf, filebeat, pc, Locals, reply, History>>

(***************************************************************************)
(* The handler's process dies between two steps; a new container.          *)
(***************************************************************************)

Kill ==
    /\ "kill" \in Fault
    /\ pc # "idle"
    /\ IF pc \in {"addWrite", "delWrite"}
       THEN intact' = FALSE /\ want' = <<>>
       ELSE UNCHANGED History
    /\ pc' = "idle"
    /\ reply' = "none"
    /\ NoLocals
    /\ UNCHANGED <<engine, rules, conf, Sensor, filebeat>>

Restart ==
    /\ "restart" \in Fault
    /\ rules' = Shipped
    /\ conf' = ShippedConf
    /\ launcher' = "none"
    /\ daemons' = <<>>
    /\ filebeat' = FALSE
    /\ pc' = "idle"
    /\ reply' = "none"
    /\ want' = <<>>
    /\ intact' = TRUE
    /\ NoLocals
    /\ UNCHANGED engine

(***************************************************************************)
(* The specification.                                                      *)
(***************************************************************************)

Init ==
    /\ engine \in Engines
    /\ rules = Shipped
    /\ conf = ShippedConf
    /\ launcher = "none"
    /\ daemons = <<>>
    /\ filebeat = FALSE
    /\ pc = "idle"
    /\ held = <<>>
    /\ text = <<>>
    /\ reply = "none"
    /\ want = <<>>
    /\ intact = TRUE

Next ==
    \/ \E r \in Rules : AddRule(r)
    \/ AddWrite
    \/ DelRule
    \/ DelWrite
    \/ HandlerFails
    \/ Configure
    \/ ConfWrite
    \/ ConfPatch
    \/ ConfPatchFails
    \/ ConfPatched
    \/ SnortStart
    \/ SnortStop
    \/ SuricataStart
    \/ SuricataStop
    \/ StartShipper
    \/ StopShipper
    \/ Fork
    \/ \E i \in DOMAIN daemons : Load(i)
    \/ \E i \in DOMAIN daemons : Exit(i)
    \/ Kill
    \/ Restart

Spec == Init /\ [][Next]_vars

(***************************************************************************)
(* Types.                                                                  *)
(***************************************************************************)

RuleLines == (UNION {{<<r, i>> : i \in 1..Height[r]} : r \in Rules})
             \cup {<<"shipped", i>> : i \in 1..ShippedSize}

RuleFiles == Seq(RuleLines)

Confs     == [nets : 0..MaxNets, whole : BOOLEAN]

Steps     == {"idle", "addWrite", "delWrite", "confWrite", "confPatch",
              "confPatched", "startShipper", "stopShipper"}

Outcomes  == {"none", "failed", "inserted", "removed", "configured", "already",
              "started", "notRunning", "stopped"}

(* Every variable has its type; a handler's buffer has the type of the     *)
(* file it is rewriting (snort/src/charm.py:79-82, 151-154, 166-169).      *)
TypeOK ==
    /\ engine \in Engines
    /\ rules \in RuleFiles
    /\ conf \in Confs
    /\ launcher \in {"none", "started", "waiting"}
    /\ daemons \in Seq([ready : BOOLEAN, rules : RuleFiles])
    /\ filebeat \in BOOLEAN
    /\ pc \in Steps
    /\ pc \in {"addWrite", "delWrite"} => held \in RuleFiles
    /\ pc = "confWrite" => held \in Confs /\ held.nets < MaxNets
    /\ pc = "confPatched" => held \in Confs
    /\ text \in RuleFiles
    /\ reply \in Outcomes
    /\ want \in Seq(Rules)
    /\ intact \in BOOLEAN

(***************************************************************************)
(* The sensor.                                                             *)
(***************************************************************************)

(* No order of starts, stops, kills and of the launcher's own steps leaves *)
(* two sensors on one interface: a start finds a daemon that a stop has    *)
(* left behind, and a launcher that has none yet (snort/src/charm.py:37-42)*)
OneSensor ==
    /\ Len(daemons) <= 1
    /\ launcher = "started" => daemons = <<>>

(* After "service started successfully", and until the next action, the    *)
(* sensor enforces the rules in the file, whatever ran before              *)
(* (snort/src/charm.py:37-57, suricata/src/charm.py:160-164).  "Already    *)
(* started" says nothing of the sort.                                      *)
StartedIsCurrent ==
    reply = "started" =>
        /\ filebeat
        /\ \A i \in DOMAIN daemons :
              daemons[i].ready => daemons[i].rules = rules

(* Once Suricata is stopped, or Snort's charm finds no process, nothing    *)
(* that is still under way brings a sensor up before the next start        *)
(* (snort/src/charm.py:94-105, suricata/src/charm.py:172-176).             *)
StoppedStaysDown ==
    (reply = "notRunning" \/ (reply = "stopped" /\ engine = "suricata")) =>
        ~SnortRuns

(***************************************************************************)
(* The rules.                                                              *)
(***************************************************************************)

(* While each del-rule has a one-line rule to take off and none is         *)
(* killed half way, the file is the rules that were added and not deleted, *)
(* last one first, over the image's lines (snort/src/charm.py:147-175).    *)
RulesAreStack ==
    (intact /\ pc \notin {"addWrite", "delWrite"}) =>
        rules = FlattenSeq([i \in DOMAIN want |-> Lines(want[i])]) \o Shipped

(* Each handler's read, truncation and write are one step of a stack, or   *)
(* the loss of the whole file if they are cut short.                       *)
Stack == INSTANCE RuleStack WITH
    stack <- IF pc \in {"addWrite", "delWrite"} THEN held ELSE rules

StackSpec == Stack!Spec

(***************************************************************************)
(* The charm's own words, which do not hold.                               *)
(***************************************************************************)

(* "Stop: Snort service stopped successfully" (snort/src/charm.py:99): no  *)
(* Snort process is left.                                                  *)
StoppedMeansStopped == reply = "stopped" => ~SnortRuns
=============================================================================
