-------------------------- MODULE IdsServiceProofs --------------------------
(***************************************************************************)
(* Proofs about IdsService, for any rules and bounds, both charms and any  *)
(* faults.                                                                 *)
(***************************************************************************)
EXTENDS IdsService, DataInduction

Daemons == [ready : BOOLEAN, rules : RuleFiles]

Rewriting == {"addWrite", "delWrite"}

(***************************************************************************)
(* The inductive invariant.                                                *)
(***************************************************************************)

(* Only Snort has a launcher, and one that has not forked found no daemon. *)
Launching ==
    /\ OneSensor
    /\ engine = "suricata" => launcher = "none"

(* After the start command every daemon has loaded the rules of the file,  *)
(* or has still to load them.                                              *)
Loaded ==
    /\ pc = "startShipper" =>
            \A i \in DOMAIN daemons :
                daemons[i].ready => daemons[i].rules = rules
    /\ StartedIsCurrent

Stopped ==
    /\ pc = "stopShipper" /\ engine = "suricata" => daemons = <<>>
    /\ StoppedStaysDown

(* A handler that has emptied the file holds what it is to write.          *)
Held ==
    /\ pc \in Rewriting => rules = <<>>
    /\ pc = "addWrite" => text \in Texts

Inv == TypeOK /\ Launching /\ Loaded /\ Stopped /\ Held

-----------------------------------------------------------------------------
(* What the sequences are made of.                                         *)
LEMMA EngineIs == TypeOK => engine \in {"snort", "suricata"}
BY EnginesAssumption DEF TypeOK

LEMMA FilesAre ==
    /\ <<>> \in RuleFiles
    /\ Shipped \in RuleFiles
    /\ \A r \in Rules : Lines(r) \in RuleFiles
<1>1. <<>> \in RuleFiles
    BY EmptySeq DEF RuleFiles
<1>2. Shipped \in RuleFiles
    <2>1. \A i \in 1..ShippedSize : <<"shipped", i>> \in RuleLines
        BY DEF RuleLines
    <2>2. Shipped \in [1..ShippedSize -> RuleLines]
        BY <2>1 DEF Shipped
    <2> QED BY <2>2, SizeAssumption, SeqDef DEF RuleFiles
<1>3. ASSUME NEW r \in Rules PROVE Lines(r) \in RuleFiles
    <2>1. {<<r, i>> : i \in 1..Height[r]} \subseteq RuleLines
        BY DEF RuleLines
    <2>2. Lines(r) \in [1..Height[r] -> RuleLines]
        BY <2>1 DEF Lines
    <2>3. Height[r] \in Nat
        BY HeightAssumption
    <2> QED BY <2>2, <2>3, SeqDef DEF RuleFiles
<1> QED BY <1>1, <1>2, <1>3

LEMMA TailIs ==
    ASSUME NEW S, NEW s \in Seq(S)
    PROVE  (IF s = <<>> THEN <<>> ELSE Tail(s)) \in Seq(S)
BY HeadTailProperties, EmptySeq

LEMMA RemoveAtIs ==
    ASSUME NEW S, NEW s \in Seq(S), NEW i \in DOMAIN s
    PROVE  /\ RemoveAt(s, i) \in Seq(S)
           /\ Len(RemoveAt(s, i)) = Len(s) - 1
           /\ \A j \in DOMAIN RemoveAt(s, i) :
                    \E k \in DOMAIN s : RemoveAt(s, i)[j] = s[k]
<1> DEFINE a == SubSeq(s, 1, i - 1)
           b == SubSeq(s, i + 1, Len(s))
<1>1. Len(s) \in Nat /\ DOMAIN s = 1..Len(s) /\ i \in 1..Len(s)
    BY LenProperties
<1>2. \A j \in 1..Len(s) : s[j] \in S
    BY ElementOfSeq
<1>3. /\ a \in Seq(S) /\ Len(a) = i - 1
      /\ \A j \in 1..(i - 1) : a[j] = s[j]
    <2>1. \A j \in 1..(i - 1) : s[j] \in S
        BY <1>1, <1>2
    <2> QED BY <1>1, <2>1, SubSeqProperties
<1>4. /\ b \in Seq(S) /\ Len(b) = Len(s) - i
      /\ \A j \in 1..(Len(s) - i) : b[j] = s[i + j]
    <2>1. \A j \in (i + 1)..Len(s) : s[j] \in S
        BY <1>1, <1>2
    <2> QED BY <1>1, <2>1, SubSeqProperties
<1>5. RemoveAt(s, i) = a \o b
    BY DEF RemoveAt
<1> HIDE DEF a, b
<1>6. /\ a \o b \in Seq(S) /\ Len(a \o b) = Len(s) - 1
      /\ \A j \in 1..(Len(s) - 1) :
            (a \o b)[j] = IF j <= i - 1 THEN a[j] ELSE b[j - (i - 1)]
    <2>1. Len(a) + Len(b) = Len(s) - 1
        BY <1>1, <1>3, <1>4
    <2>2. /\ a \o b \in Seq(S) /\ Len(a \o b) = Len(a) + Len(b)
          /\ \A j \in 1..(Len(a) + Len(b)) :
                (a \o b)[j] = IF j <= Len(a) THEN a[j] ELSE b[j - Len(a)]
        BY <1>3, <1>4, ConcatProperties
    <2> QED BY <1>3, <2>1, <2>2
<1>7. ASSUME NEW j \in 1..(Len(s) - 1)
      PROVE  \E k \in DOMAIN s : (a \o b)[j] = s[k]
    <2>1. CASE j <= i - 1
        <3>1. (a \o b)[j] = s[j] /\ j \in DOMAIN s
            BY <1>1, <1>3, <1>6, <2>1
        <3> QED BY <3>1
    <2>2. CASE ~(j <= i - 1)
        <3>1. j - (i - 1) \in 1..(Len(s) - i) /\ i + (j - (i - 1)) = j + 1
            BY <1>1, <2>2
        <3>2. (a \o b)[j] = b[j - (i - 1)]
            BY <1>6, <2>2
        <3>3. b[j - (i - 1)] = s[j + 1]
            BY <1>4, <3>1
        <3>4. j + 1 \in DOMAIN s
            BY <1>1
        <3> QED BY <3>2, <3>3, <3>4
    <2> QED BY <2>1, <2>2
<1>8. DOMAIN (a \o b) = 1..(Len(s) - 1)
    BY <1>6, LenProperties
<1> QED BY <1>5, <1>6, <1>7, <1>8

-----------------------------------------------------------------------------
LEMMA TypeStep == TypeOK /\ [Next]_vars => TypeOK'
<1> SUFFICES ASSUME TypeOK, [Next]_vars PROVE TypeOK'
    OBVIOUS
<1> USE DEF TypeOK, Next, vars, Sensor, Locals, NoLocals, History,
            AddRule, AddWrite, DelRule, DelWrite, HandlerFails, Configure,
            ConfWrite, ConfPatch, ConfPatchFails, ConfPatched, SnortStart,
            SnortStop, SuricataStart, SuricataStop, StartShipper, StopShipper,
            Fork, Load, Exit, Kill, Restart
<1>1. engine' \in Engines /\ filebeat' \in BOOLEAN /\ intact' \in BOOLEAN
    OBVIOUS
<1>2. pc' \in Steps
    BY DEF Steps
<1>3. reply' \in Outcomes
    BY DEF Outcomes
<1>4. launcher' \in {"none", "started", "waiting"}
    OBVIOUS
<1>5. conf' \in Confs
    <2>1. EmptyConf \in Confs /\ ShippedConf \in Confs
        BY BoundAssumption DEF Confs, EmptyConf, ShippedConf
    <2>2. CASE ConfWrite
        <3>1. held \in Confs /\ held.nets + 1 \in 0..MaxNets
            BY <2>2, BoundAssumption DEF Confs
        <3> QED BY <2>2, <3>1 DEF Confs
    <2>3. CASE ConfPatched
        BY <2>3
    <2>4. CASE conf' \in {conf, EmptyConf, ShippedConf}
        BY <2>1, <2>4
    <2> QED BY <2>2, <2>3, <2>4
<1>6. /\ pc' \in Rewriting => held' \in RuleFiles
      /\ pc' = "confWrite" => held' \in Confs /\ held'.nets < MaxNets
      /\ pc' = "confPatched" => held' \in Confs
    BY DEF Rewriting
<1>7. text' \in RuleFiles
    BY FilesAre
<1>8. rules' \in RuleFiles
    <2>1. CASE AddWrite
        BY <2>1, ConcatProperties DEF RuleFiles
    <2>2. CASE DelWrite
        BY <2>2, TailIs DEF RuleFiles
    <2>3. CASE rules' \in {rules, <<>>, Shipped}
        BY <2>3, FilesAre
    <2> QED BY <2>1, <2>2, <2>3
<1>9. want' \in Seq(Rules)
    <2>1. CASE \E r \in Rules : AddRule(r)
        <3>1. PICK r \in Rules : AddRule(r)
            BY <2>1
        <3>2. <<r>> \in Seq(Rules) /\ <<r>> \o want \in Seq(Rules)
            BY ConcatProperties
        <3> QED BY <3>1, <3>2
    <2>2. CASE DelRule
        BY <2>2, TailIs
    <2>3. CASE want' \in {want, <<>>}
        BY <2>3, EmptySeq
    <2> QED BY <2>1, <2>2, <2>3
<1>10. daemons' \in Seq(Daemons)
    <2> USE DEF Daemons
    <2>1. Loading \in Daemons
        BY FilesAre DEF Loading
    <2>2. CASE \E i \in DOMAIN daemons : daemons' = RemoveAt(daemons, i)
        BY <2>2, RemoveAtIs
    <2>3. CASE Fork
        BY <2>1, <2>3, AppendProperties
    <2>4. ASSUME NEW i \in DOMAIN daemons, Load(i)
          PROVE  daemons' \in Seq(Daemons)
        <3>1. /\ i \in 1..Len(daemons)
              /\ [ready |-> TRUE, rules |-> rules] \in Daemons
            BY LenProperties
        <3> QED BY <2>4, <3>1, ExceptSeq
    <2>5. CASE daemons' \in {daemons, <<>>, <<Loading>>}
        <3>1. <<>> \in Seq(Daemons) /\ <<Loading>> \in Seq(Daemons)
            BY <2>1, EmptySeq
        <3> QED BY <2>5, <3>1
    <2> QED BY <2>2, <2>3, <2>4, <2>5
<1> QED BY <1>1, <1>2, <1>3, <1>4, <1>5, <1>6, <1>7, <1>8, <1>9, <1>10
        DEF Rewriting, Daemons

(* The daemons that a step leaves are those before it, with one of them    *)
(* loaded, one more, one less, or a list of none or of one that loads.     *)
LEMMA DaemonsStep ==
    ASSUME TypeOK, [Next]_vars
    PROVE  \/ UNCHANGED daemons
           \/ daemons' = <<>>
           \/ daemons' = <<Loading>> /\ SuricataStart
           \/ daemons' = Append(daemons, Loading) /\ Fork
           \/ \E i \in DOMAIN daemons : daemons' = RemoveAt(daemons, i)
           \/ \E i \in DOMAIN daemons : Load(i)
BY DEF Next, vars, Sensor, AddRule, AddWrite, DelRule, DelWrite, HandlerFails,
       Configure, ConfWrite, ConfPatch, ConfPatchFails, ConfPatched,
       SnortStart, SnortStop, SuricataStart, SuricataStop, StartShipper,
       StopShipper, Fork, Load, Exit, Kill, Restart

LEMMA LengthStep ==
    ASSUME TypeOK, OneSensor, [Next]_vars
    PROVE  /\ Len(daemons') <= 1
           /\ daemons = <<>> => daemons' = <<>> \/ SuricataStart \/ Fork
<1>1. daemons \in Seq(Daemons) /\ Len(daemons) \in 0..1 /\ Loading \in Daemons
    <2>1. daemons \in Seq(Daemons)
        BY DEF TypeOK, Daemons
    <2>2. Len(daemons) \in Nat
        BY <2>1, LenProperties
    <2>3. Loading \in Daemons
        BY FilesAre DEF Loading, Daemons
    <2> QED BY <2>1, <2>2, <2>3 DEF OneSensor
<1>2. daemons = <<>> => DOMAIN daemons = {}
    OBVIOUS
<1>3. ASSUME NEW i \in DOMAIN daemons, daemons' = RemoveAt(daemons, i)
      PROVE  Len(daemons') <= 1
    BY <1>1, <1>3, RemoveAtIs
<1>4. ASSUME NEW i \in DOMAIN daemons, Load(i) PROVE Len(daemons') <= 1
    BY <1>1, <1>4, LenProperties, ExceptSeq DEF Load
<1>5. ASSUME Fork PROVE Len(daemons') <= 1
    BY <1>5 DEF Fork, OneSensor
<1>6. Len(<<>>) <= 1 /\ Len(<<Loading>>) <= 1
    OBVIOUS
<1>7. Len(daemons') <= 1
    <2>1. CASE UNCHANGED daemons
        BY <2>1, Zenon DEF OneSensor
    <2>2. CASE daemons' \in {<<>>, <<Loading>>}
        BY <1>6, <2>2, Zenon
    <2> QED BY <1>3, <1>4, <1>5, <2>1, <2>2, DaemonsStep
<1>8. daemons = <<>> => daemons' = <<>> \/ SuricataStart \/ Fork
    BY <1>2, DaemonsStep
<1> QED BY <1>7, <1>8

LEMMA LaunchingStep == Inv /\ [Next]_vars => Launching'
<1> SUFFICES ASSUME Inv, [Next]_vars PROVE Launching'
    OBVIOUS
<1>1. Len(daemons') <= 1
    BY LengthStep DEF Inv, Launching
<1>2. launcher' = "started" => daemons' = <<>>
    <2>1. CASE /\ launcher = "started" /\ daemons = <<>>
               /\ ~SuricataStart /\ ~Fork
        BY <2>1, LengthStep DEF Inv, Launching
    <2>2. CASE SuricataStart
        BY <2>2 DEF SuricataStart, Inv, Launching
    <2>3. CASE Fork
        BY <2>3 DEF Fork
    <2>4. CASE launcher # "started"
        BY <2>4
        DEF Next, vars, Sensor, AddRule, AddWrite, DelRule, DelWrite,
            HandlerFails, Configure, ConfWrite, ConfPatch, ConfPatchFails,
            ConfPatched, SnortStart, SnortRuns, SnortStop, SuricataStart,
            SuricataStop, StartShipper, StopShipper, Fork, Load, Exit, Kill,
            Restart
    <2> QED BY <2>1, <2>2, <2>3, <2>4 DEF Inv, Launching, OneSensor
<1>3. (engine = "suricata" => launcher = "none")'
    BY DEF Inv, Launching, Next, vars, Sensor, AddRule, AddWrite, DelRule,
           DelWrite, HandlerFails, Configure, ConfWrite, ConfPatch,
           ConfPatchFails, ConfPatched, SnortStart, SnortStop, SuricataStart,
           SuricataStop, StartShipper, StopShipper, Fork, Load, Exit, Kill,
           Restart
<1> QED BY <1>1, <1>2, <1>3 DEF Launching, OneSensor

LEMMA StoppedStep == Inv /\ [Next]_vars => Stopped'
<1> SUFFICES ASSUME Inv, [Next]_vars PROVE Stopped'
    OBVIOUS
<1>1. daemons = <<>> => daemons' = <<>> \/ SuricataStart \/ Fork
    BY LengthStep DEF Inv, Launching
<1> USE DEF Inv, Launching, Stopped, StoppedStaysDown, SnortRuns, Next, vars,
            Sensor, AddRule, AddWrite, DelRule, DelWrite, HandlerFails,
            Configure, ConfWrite, ConfPatch, ConfPatchFails, ConfPatched,
            SnortStart, SnortStop, SuricataStart, SuricataStop, StartShipper,
            StopShipper, Fork, Kill, Restart
<1>2. CASE \E i \in DOMAIN daemons : Load(i) \/ Exit(i)
    <2>1. daemons # <<>> /\ UNCHANGED <<engine, pc, reply>>
        BY <1>2 DEF Load, Exit
    <2> QED BY <2>1
<1>3. CASE ~ \E i \in DOMAIN daemons : Load(i) \/ Exit(i)
    BY <1>1, <1>3
<1> QED BY <1>2, <1>3

LEMMA HeldStep == Inv /\ [Next]_vars => Held'
BY DEF Inv, Held, Rewriting, Texts, Next, vars, Locals, NoLocals, AddRule,
       AddWrite, DelRule, DelWrite, HandlerFails, Configure, ConfWrite,
       ConfPatch, ConfPatchFails, ConfPatched, SnortStart, SnortStop,
       SuricataStart, SuricataStop, StartShipper, StopShipper, Fork, Load,
       Exit, Kill, Restart

LEMMA LoadedStep == Inv /\ [Next]_vars => Loaded'
<1> SUFFICES ASSUME Inv, [Next]_vars PROVE Loaded'
    OBVIOUS
<1> DEFINE Fit(ds, file) ==
                \A i \in DOMAIN ds : ds[i].ready => ds[i].rules = file
<1>1. daemons \in Seq(Daemons) /\ Loading \in Daemons /\ ~Loading.ready
    BY FilesAre DEF Inv, TypeOK, Daemons, Loading
<1>2. Fit(<<>>, rules') /\ Fit(<<Loading>>, rules')
    BY <1>1
<1>3. CASE Fork
    <2>1. Fit(daemons, rules) => Fit(daemons', rules')
        BY <1>1, <1>3, LenProperties, AppendProperties DEF Fork
    <2> QED BY <1>3, <2>1 DEF Fork, Inv, Loaded, StartedIsCurrent
<1>4. ASSUME NEW i \in DOMAIN daemons, Load(i) PROVE Loaded'
    <2>1. Fit(daemons, rules) => Fit(daemons', rules')
        BY <1>1, <1>4, LenProperties, ExceptSeq DEF Load
    <2> QED BY <1>4, <2>1 DEF Load, Inv, Loaded, StartedIsCurrent
<1>5. ASSUME NEW i \in DOMAIN daemons, Exit(i) PROVE Loaded'
    <2>1. Fit(daemons, rules) => Fit(daemons', rules')
        BY <1>1, <1>5, RemoveAtIs DEF Exit
    <2> QED BY <1>5, <2>1 DEF Exit, Inv, Loaded, StartedIsCurrent
<1>6. CASE SnortStart
    BY <1>2, <1>6 DEF SnortStart, SnortRuns, Loaded, StartedIsCurrent
<1>7. CASE SuricataStart
    BY <1>2, <1>7 DEF SuricataStart, Loaded, StartedIsCurrent
<1>8. CASE StartShipper
    BY <1>8 DEF StartShipper, Sensor, Inv, Loaded, StartedIsCurrent
<1>9. CASE /\ ~Fork /\ ~SnortStart /\ ~SuricataStart /\ ~StartShipper
           /\ ~ \E i \in DOMAIN daemons : Load(i) \/ Exit(i)
    BY <1>9
    DEF Inv, Loaded, StartedIsCurrent, Next, vars, Sensor, AddRule, AddWrite,
        DelRule, DelWrite, HandlerFails, Configure, ConfWrite, ConfPatch,
        ConfPatchFails, ConfPatched, SnortStop, SuricataStop, StopShipper,
        Kill, Restart
<1> QED BY <1>3, <1>4, <1>5, <1>6, <1>7, <1>8, <1>9

LEMMA InvInit == Init => Inv
<1> SUFFICES ASSUME Init PROVE Inv
    OBVIOUS
<1>1. TypeOK
    <2>1. /\ <<>> \in Seq([ready : BOOLEAN, rules : RuleFiles])
          /\ <<>> \in Seq(Rules)
        BY EmptySeq
    <2>2. ShippedConf \in Confs
        BY BoundAssumption DEF ShippedConf, Confs
    <2>3. pc \in Steps /\ reply \in Outcomes
        BY DEF Init, Steps, Outcomes
    <2> QED BY <2>1, <2>2, <2>3, FilesAre DEF Init, TypeOK
<1>2. Launching /\ Loaded /\ Stopped /\ Held
    BY EmptySeq
    DEF Init, Launching, OneSensor, Loaded, StartedIsCurrent, Stopped,
        StoppedStaysDown, Held, Rewriting
<1> QED BY <1>1, <1>2 DEF Inv

LEMMA InvAlways == Spec => []Inv
<1>1. Inv /\ [Next]_vars => Inv'
    BY TypeStep, LaunchingStep, LoadedStep, StoppedStep, HeldStep DEF Inv
<1> QED BY <1>1, InvInit, PTL DEF Spec

-----------------------------------------------------------------------------
(* Every variable has its type, for any rules, charms and faults.          *)
THEOREM TypeCorrect == Spec => []TypeOK
<1>1. Inv => TypeOK
    BY DEF Inv
<1> QED BY <1>1, InvAlways, PTL

(* There is one sensor at most, in every order of starts, stops, kills and *)
(* steps of the launcher: start-service looks for both of Snort's          *)
(* processes before it starts one (snort/src/charm.py:37-42).              *)
THEOREM NeverTwoSensors == Spec => []OneSensor
<1>1. Inv => OneSensor
    BY DEF Inv, Launching
<1> QED BY <1>1, InvAlways, PTL

(* A sensor that was reported started enforces the rules in the file: no   *)
(* handler writes the file between the start and the report, and those     *)
(* after it take the report back (snort/src/charm.py:37-57).               *)
THEOREM StartedHasRules == Spec => []StartedIsCurrent
<1>1. Inv => StartedIsCurrent
    BY DEF Inv, Loaded
<1> QED BY <1>1, InvAlways, PTL

(* After a stop of Suricata, and where Snort's charm found no process,     *)
(* nothing comes up by itself (snort/src/charm.py:94-105,                  *)
(* suricata/src/charm.py:172-176).                                         *)
THEOREM NothingComesBack == Spec => []StoppedStaysDown
<1>1. Inv => StoppedStaysDown
    BY DEF Inv, Stopped
<1> QED BY <1>1, InvAlways, PTL

(* A step of the charm is a push, a pop, a loss or a reset of the rules,   *)
(* or leaves them alone: between truncation and write the handler holds    *)
(* the file (snort/src/charm.py:147-175).                                  *)
LEMMA StackStep ==
    Inv /\ [Next]_vars =>
        [Stack!Next]_(IF pc \in {"addWrite", "delWrite"} THEN held ELSE rules)
<1> SUFFICES ASSUME Inv, [Next]_vars
             PROVE  [Stack!Next]_(IF pc \in {"addWrite", "delWrite"}
                                  THEN held ELSE rules)
    OBVIOUS
<1> DEFINE stack == IF pc \in {"addWrite", "delWrite"} THEN held ELSE rules
<1>1. CASE AddWrite
    <2>1. text \in Texts /\ stack' = text \o stack
        BY <1>1 DEF AddWrite, Inv, Held
    <2> QED BY <2>1 DEF Stack!Next, Stack!Push
<1>2. CASE DelWrite
    BY <1>2 DEF DelWrite, Stack!Next, Stack!Pop
<1>3. CASE Kill
    <2>1. stack' = rules
        BY <1>3 DEF Kill
    <2>2. CASE pc \in {"addWrite", "delWrite"}
        <3>1. stack' = <<>>
            BY <2>1, <2>2 DEF Inv, Held, Rewriting
        <3> QED BY <3>1 DEF Stack!Next, Stack!Lose
    <2>3. CASE pc \notin {"addWrite", "delWrite"}
        BY <2>1, <2>3
    <2> QED BY <2>2, <2>3
<1>4. CASE Restart
    BY <1>4 DEF Restart, Stack!Next, Stack!Reset
<1>5. CASE ~(AddWrite \/ DelWrite \/ Kill \/ Restart)
    <2>1. stack' = stack
        BY <1>5
        DEF Next, vars, AddRule, DelRule, HandlerFails, Configure, ConfWrite,
            ConfPatch, ConfPatchFails, ConfPatched, SnortStart, SnortStop,
            SuricataStart, SuricataStop, StartShipper, StopShipper, Fork,
            Load, Exit, Locals, NoLocals
    <2> QED BY <2>1
<1> QED BY <1>1, <1>2, <1>3, <1>4, <1>5

(* The rules file of either charm is a stack that is changed at once or    *)
(* lost as a whole, whatever is killed when.                               *)
THEOREM RulesRefineStack == Spec => StackSpec
<1>1. Init => Stack!Init
    BY DEF Init, Stack!Init
<1> QED BY <1>1, StackStep, InvAlways, PTL DEF Spec, StackSpec, Stack!Spec

-----------------------------------------------------------------------------
(***************************************************************************)
(* The stack of rules.  What the file is, or will be once the handler that *)
(* holds its content has written it, is what the rules in force amount to. *)
(***************************************************************************)
Content(w) == FlattenSeq([i \in DOMAIN w |-> Lines(w[i])]) \o Shipped

Coming ==
    CASE pc = "addWrite" -> text \o held
      [] pc = "delWrite" -> IF held = <<>> THEN <<>> ELSE Tail(held)
      [] OTHER           -> rules

Stacked == intact => Coming = Content(want)

LEMMA LinesOf ==
    ASSUME NEW w \in Seq(Rules)
    PROVE  [i \in DOMAIN w |-> Lines(w[i])] \in Seq(Seq(RuleLines))
<1>1. Len(w) \in Nat /\ DOMAIN w = 1..Len(w) /\ \A i \in 1..Len(w) : w[i] \in Rules
    BY LenProperties, ElementOfSeq
<1>2. \A i \in 1..Len(w) : Lines(w[i]) \in Seq(RuleLines)
    BY <1>1, FilesAre DEF RuleFiles
<1>3. [i \in DOMAIN w |-> Lines(w[i])] \in [1..Len(w) -> Seq(RuleLines)]
    BY <1>1, <1>2
<1> QED BY <1>1, <1>3, SeqDef

(* A rule more in front is its lines in front.                             *)
LEMMA ContentOfPush ==
    ASSUME NEW w \in Seq(Rules), NEW r \in Rules
    PROVE  /\ Content(<<r>> \o w) = Lines(r) \o Content(w)
           /\ Content(w) \in RuleFiles
<1> DEFINE ls == [i \in DOMAIN w |-> Lines(w[i])]
           v  == <<r>> \o w
           ms == [i \in DOMAIN v |-> Lines(v[i])]
<1>1. ls \in Seq(Seq(RuleLines)) /\ Lines(r) \in Seq(RuleLines)
    BY LinesOf, FilesAre DEF RuleFiles
<1>2. /\ Len(w) \in Nat /\ DOMAIN w = 1..Len(w)
      /\ DOMAIN v = 1..(Len(w) + 1) /\ v[1] = r
      /\ \A i \in 2..(Len(w) + 1) : v[i] = w[i - 1]
    BY LenProperties
<1> HIDE DEF v
<1>3. ms = <<Lines(r)>> \o ls
    <2> DEFINE ns == <<Lines(r)>> \o ls
    <2>1. Len(ls) = Len(w) /\ DOMAIN ls = 1..Len(w)
        BY <1>1, <1>2
    <2>2. /\ ns \in Seq(Seq(RuleLines)) /\ Len(ns) = Len(w) + 1
          /\ ns[1] = Lines(r)
          /\ \A i \in 2..(Len(w) + 1) : ns[i] = ls[i - 1]
        <3> HIDE DEF ls
        <3>1. <<Lines(r)>> \in Seq(Seq(RuleLines))
            BY <1>1
        <3>2. /\ ns \in Seq(Seq(RuleLines))
              /\ Len(ns) = 1 + Len(ls)
              /\ \A i \in 1..(1 + Len(ls)) :
                    ns[i] = IF i <= 1 THEN <<Lines(r)>>[i] ELSE ls[i - 1]
            BY <1>1, <3>1, ConcatProperties
        <3> QED BY <1>2, <2>1, <3>2
    <2> HIDE DEF ns
    <2>3. DOMAIN ns = 1..(Len(w) + 1) /\ ns = [i \in 1..(Len(w) + 1) |-> ns[i]]
        BY <1>2, <2>2
    <2>4. ASSUME NEW i \in 1..(Len(w) + 1) PROVE ns[i] = Lines(v[i])
        <3>1. CASE i = 1
            BY <1>2, <2>2, <3>1
        <3>2. CASE i # 1
            <4>1. i \in 2..(Len(w) + 1) /\ i - 1 \in 1..Len(w)
                BY <1>2, <3>2
            <4> QED BY <1>2, <2>2, <4>1
        <3> QED BY <3>1, <3>2
    <2> QED BY <1>2, <2>3, <2>4 DEF ns
<1> HIDE DEF ls, ms
<1>4. FlattenSeq(ms) = Lines(r) \o FlattenSeq(ls)
    BY <1>1, <1>3, FlattenFront
<1>5. FlattenSeq(ls) \in Seq(RuleLines)
    <2>1. PICK h \in [0..Len(ls) -> Seq(RuleLines)] : Flattens(h, ls)
        BY <1>1, FlattenExists
    <2> QED BY <1>1, <2>1, FlattenIs
<1>6. /\ (Lines(r) \o FlattenSeq(ls)) \o Shipped
            = Lines(r) \o (FlattenSeq(ls) \o Shipped)
      /\ FlattenSeq(ls) \o Shipped \in Seq(RuleLines)
    <2>1. Shipped \in Seq(RuleLines)
        BY FilesAre DEF RuleFiles
    <2> QED BY <1>1, <1>5, <2>1, ConcatAssociative, ConcatProperties
<1> QED BY <1>4, <1>6 DEF Content, RuleFiles, v, ls, ms

(* The first line of a rule of one line is the rule.                       *)
LEMMA ContentOfPop ==
    ASSUME NEW w \in Seq(Rules), w # <<>>, Height[Head(w)] = 1
    PROVE  Content(w) # <<>> /\ Tail(Content(w)) = Content(Tail(w))
<1>1. /\ Head(w) \in Rules /\ Tail(w) \in Seq(Rules)
      /\ w = <<Head(w)>> \o Tail(w)
    OBVIOUS
<1>2. /\ Content(w) = Lines(Head(w)) \o Content(Tail(w))
      /\ Content(Tail(w)) \in Seq(RuleLines)
    BY <1>1, ContentOfPush DEF RuleFiles
<1>3. Lines(Head(w)) = << <<Head(w), 1>> >>
    BY DEF Lines
<1>4. <<Head(w), 1>> \in RuleLines
    BY <1>1 DEF RuleLines
<1>5. ASSUME NEW c \in Seq(RuleLines), NEW x \in RuleLines
      PROVE  <<x>> \o c # <<>> /\ Tail(<<x>> \o c) = c
    OBVIOUS
<1> QED BY <1>2, <1>3, <1>4, <1>5

LEMMA StackedStep == TypeOK /\ Stacked /\ [Next]_vars => Stacked'
<1> SUFFICES ASSUME TypeOK, Stacked, [Next]_vars, intact'
             PROVE  Coming' = Content(want')
    BY DEF Stacked
<1>1. ASSUME NEW r \in Rules, AddRule(r) PROVE Coming' = Content(want')
    <2>1. want \in Seq(Rules)
        BY DEF TypeOK
    <2>2. Coming' = Lines(r) \o rules /\ want' = <<r>> \o want
          /\ rules = Content(want)
        BY <1>1 DEF AddRule, Coming, Stacked
    <2> QED BY <2>1, <2>2, ContentOfPush
<1>2. CASE DelRule
    <2>1. want \in Seq(Rules)
        BY DEF TypeOK
    <2>2. /\ Coming' = IF rules = <<>> THEN <<>> ELSE Tail(rules)
          /\ intact /\ want # <<>> /\ Height[Head(want)] = 1
          /\ want' = Tail(want) /\ rules = Content(want)
        BY <1>2 DEF DelRule, Coming, Stacked
    <2> QED BY <2>1, <2>2, ContentOfPop
<1>3. CASE Restart
    <2>1. Coming' = Shipped /\ want' = <<>>
        BY <1>3 DEF Restart, Coming
    <2>2. FlattenSeq(<<>>) = <<>>
        BY DEF FlattenSeq
    <2>3. Content(<<>>) = <<>> \o Shipped
        <3>1. [i \in DOMAIN <<>> |-> Lines(<<>>[i])] = <<>>
            OBVIOUS
        <3> QED BY <2>2, <3>1 DEF Content
    <2>4. Shipped \in Seq(RuleLines)
        BY FilesAre DEF RuleFiles
    <2> QED BY <2>1, <2>3, <2>4, ConcatEmptySeq
<1>4. CASE Kill
    BY <1>4 DEF Kill, Coming, Stacked, History
<1>5. CASE ~((\E r \in Rules : AddRule(r)) \/ DelRule \/ Restart \/ Kill)
    <2>1. Coming' = Coming /\ UNCHANGED <<want, intact>>
        BY <1>5
        DEF Next, vars, AddWrite, DelWrite, HandlerFails, Configure, ConfWrite,
            ConfPatch, ConfPatchFails, ConfPatched, SnortStart, SnortStop,
            SuricataStart, SuricataStop, StartShipper, StopShipper, Fork,
            Load, Exit, Locals, NoLocals, History, Coming
    <2> QED BY <2>1 DEF Stacked
<1> QED BY <1>1, <1>2, <1>3, <1>4, <1>5

(* Whatever rules of whatever heights are added and taken off, and         *)
(* whatever else is called, fails, dies or is restarted in between, the    *)
(* file is the rules in force over the image's lines, as long as each      *)
(* del-rule found a one-line rule and none was killed half way             *)
(* (snort/src/charm.py:147-175).                                           *)
THEOREM FileIsStack == Spec => []RulesAreStack
<1>1. Init => Stacked
    <2> SUFFICES ASSUME Init PROVE Coming = Content(want)
        BY DEF Stacked
    <2>1. Coming = Shipped /\ want = <<>>
        BY DEF Init, Coming
    <2>2. Content(<<>>) = Shipped
        <3>1. FlattenSeq(<<>>) = <<>>
            BY DEF FlattenSeq
        <3>2. [i \in DOMAIN <<>> |-> Lines(<<>>[i])] = <<>>
            OBVIOUS
        <3>3. Shipped \in Seq(RuleLines)
            BY FilesAre DEF RuleFiles
        <3> QED BY <3>1, <3>2, <3>3, ConcatEmptySeq DEF Content
    <2> QED BY <2>1, <2>2
<1>2. Stacked => RulesAreStack
    BY DEF Stacked, RulesAreStack, Coming, Content
<1> QED BY <1>1, <1>2, StackedStep, TypeCorrect, PTL DEF Spec
=============================================================================
