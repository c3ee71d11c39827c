--------------------------- MODULE WazuhBootProofs ---------------------------
(***************************************************************************)
(* Proofs about WazuhBoot, for any volumes, secrets, releases and agents,  *)
(* and any number of faults.                                               *)
(***************************************************************************)
EXTENDS WazuhBoot, TLAPS

Mounting  == {"down", "mount"}
Excluding == Mounting \cup {"exclude"}
Moving    == Excluding \cup {"move"}
Keying    == Moving \cup {"key", "cert"}
Preparing == Keying \cup {"config", "sed"}
Migrating == {"migrateClients", "migrateCert", "migrateKey", "migrateFlag"}
UserSet   == {"disable", "removeJson", "start", "running"}
Locked    == {"removeJson", "start", "running"}
LeftJson  == {"start", "running"}
Migrated  == {"writeJson", "createUser", "setRole"} \cup UserSet

(***************************************************************************)
(* The inductive invariant: what holds at each command on the way to the   *)
(* properties, one part for each of them.                                  *)
(***************************************************************************)

(* What create_user.py has done so far.                                    *)
Credentials ==
    /\ pc \in {"setRole"} \cup UserSet => db[ApiUser].pw = secret
    /\ pc \in Locked => \A u \in DefaultUsers \ {ApiUser} : db[u].pw = "random"
    /\ pc \in LeftJson => ~json

Role ==
    "role" \notin damage =>
        /\ pc # "setRole" /\ db[ApiUser].pw # Absent => db[ApiUser].admin
        /\ pc \in UserSet => db[ApiUser].admin

(* What 0-wazuh-init has done so far.                                      *)
Fresh ==
    ~aborted => /\ pc \notin Excluding => excl = image
                /\ pc = "sed" => conf = "template"
                /\ pc \notin Preparing /\ "sed" \notin damage =>
                       conf \in {"final", "migrated"}

Volumes ==
    "data" \notin damage =>
        /\ \A d \in DirSet : vol[d] # "partial"
        /\ pc = "mount" => \A i \in 1..(cursor - 1) : vol[Dirs[i]] = "full"
        /\ pc \notin Mounting => \A d \in DirSet : vol[d] = "full"
        /\ legacy \in {"none", "old", "renamed"}
        /\ pc \notin Moving => legacy # "old"

(* A migration that is cut short between certificate and key is repeated   *)
(* before the manager runs.                                                *)
Pair ==
    /\ pc = "cert" => key = "own"
    /\ "tls" \notin damage /\ "migration" \notin damage =>
        /\ key # "broken"
        /\ pc = "migrateKey" => cert = "migrated"
        /\ pc = "migrateFlag" => cert = "migrated" /\ key = "migrated"
        /\ pc # "cert" /\ (mig # "pending" \/ pc \in Migrated) => key = cert
        /\ ~aborted /\ pc \notin Keying => key # Absent

Agents ==
    /\ pc \in Migrating => mig = "pending"
    /\ "migration" \notin damage =>
        /\ pc \in Migrating \ {"migrateClients"} => OldAgent \in agents
        /\ mig = "done" => OldAgent \in agents

(* Nobody enrols before the migration is flagged, if it can be.            *)
Enrolled ==
    "readonly" \notin Fault =>
        /\ enrolled \subseteq agents
        /\ mig = "pending" => enrolled = {}
        /\ pc \in Migrated => mig # "pending"

Inv == /\ TypeOK /\ Credentials /\ Role /\ Fresh /\ Volumes
       /\ Pair /\ Agents /\ Enrolled

-----------------------------------------------------------------------------
LEMMA InterruptedIs == Interrupted \subseteq {"tls", "role"}
BY DEF Interrupted

LEMMA CurrentIn ==
    ASSUME cursor \in 1..Len(Dirs) PROVE Current \in DirSet
BY DirsAssumption DEF Current, DirSet

LEMMA LengthNat == Len(Dirs) \in Nat \ {0}
BY DirsAssumption

(* No command gives a variable a value of another type.                    *)
LEMMA TypeStep == TypeOK /\ [Next]_vars => TypeOK'
<1> SUFFICES ASSUME TypeOK, [Next]_vars PROVE TypeOK'
    OBVIOUS
<1> USE DEF TypeOK, Next, BootStep, vars, Goto, Abort, CopyFails, MayFail,
            StartContainer, MountSkip, MountCopy, MountEnd, ApplyExclusion,
            MoveData, MakeKey, MakeCert, MountFiles, SetCustom, MigrateConf,
            MigrateClients, MigrateCert, MigrateKey, MigrateFlag, WriteJson,
            CreateUser, SetUserRole, DisableDefaults, RemoveJson,
            StartManager, UserFails, Enrol, Crash, Deploy
<1>1. pc' \in Steps /\ aborted' \in BOOLEAN
    BY DEF boot, Steps
<1>2. cursor' \in 1..(Len(Dirs) + 1)
    BY LengthNat DEF boot
<1>3. faults' \in 0..MaxFaults
    BY BoundAssumption DEF ghosts
<1>4. damage' \in SUBSET {"data", "tls", "migration", "role", "sed"}
    BY InterruptedIs DEF ghosts, Damaged
<1>5. /\ image' \in 1..Images /\ secret' \in Secrets
      /\ mig' \in {"none", "pending", "done"}
    BY BoundAssumption DEF deploy
<1>6. vol' \in [DirSet -> {"empty", "partial", "full"}]
    BY CurrentIn, LengthNat DEF data
<1>7. /\ excl' \in 0..Images
      /\ legacy' \in {"none", "old", "both", "renamed", "nested"}
    BY BoundAssumption DEF data
<1>8. key' \in {Absent, "own", "migrated", "broken"}
    BY DEF tls
<1>9. cert' \in {Absent, "own", "migrated"}
    BY DEF tls
<1>10. conf' \in {Absent, "image", "template", "final", "migrated"}
    OBVIOUS
<1>11. /\ agents' \in SUBSET (NewAgents \cup {OldAgent})
       /\ enrolled' \in SUBSET NewAgents
    BY DEF clients
<1>12. db' \in [Users -> [pw : Passwords, admin : BOOLEAN]]
    <2> DEFINE Records == [pw : Passwords, admin : BOOLEAN]
    <2>1. ApiUser \in Users /\ db[ApiUser] \in Records
        BY UserAssumption
    <2>2. CASE CreateUser
        <3>1. [db[ApiUser] EXCEPT !.pw = secret] \in Records
            BY <2>1 DEF Passwords
        <3>2. db' = [db EXCEPT ![ApiUser] = [@ EXCEPT !.pw = secret]]
            BY <2>2
        <3> QED BY <2>1, <3>1, <3>2 DEF Users
    <2>3. CASE SetUserRole
        <3>1. [db[ApiUser] EXCEPT !.admin = TRUE] \in Records
            BY <2>1
        <3>2. db' = [db EXCEPT ![ApiUser] = [@ EXCEPT !.admin = TRUE]]
            BY <2>3
        <3> QED BY <2>1, <3>1, <3>2
    <2>4. CASE DisableDefaults
        <3>1. ASSUME NEW u \in Users
              PROVE  [db[u] EXCEPT !.pw = "random"] \in Records /\ db[u] \in Records
            BY DEF Passwords
        <3> QED BY <2>4, <3>1
    <2>5. CASE UNCHANGED db
        BY <2>5
    <2> QED BY <2>2, <2>3, <2>4, <2>5 DEF api
<1>13. json' \in BOOLEAN
    BY DEF api
<1> QED
    BY <1>1, <1>2, <1>3, <1>4, <1>5, <1>6, <1>7, <1>8, <1>9, <1>10, <1>11,
       <1>12, <1>13

(* Most parts are disturbed by a few commands only, each with its guard on  *)
(* the command before it.                                                  *)
LEMMA ScriptStep ==
    Inv /\ [Next]_vars => (Credentials /\ Role /\ Fresh /\ Agents /\ Enrolled)'
<1> SUFFICES ASSUME Inv, [Next]_vars
             PROVE  (Credentials /\ Role /\ Fresh /\ Agents /\ Enrolled)'
    OBVIOUS
<1> USE DEF Inv, Next, BootStep, vars, Goto, Abort, CopyFails, MayFail,
            StartContainer, MountSkip, MountCopy, MountEnd, ApplyExclusion,
            MoveData, MakeKey, MakeCert, MountFiles, SetCustom, MigrateConf,
            MigrateClients, MigrateCert, MigrateKey, MigrateFlag, WriteJson,
            CreateUser, SetUserRole, DisableDefaults, RemoveJson,
            StartManager, UserFails, Enrol, Crash, Deploy
<1>1. Credentials'
    BY UserAssumption
    DEF Credentials, UserSet, Locked, LeftJson, TypeOK, boot, deploy, api, Users
<1>2. Role'
    BY UserAssumption
    DEF Role, UserSet, TypeOK, boot, api, ghosts, Damaged, Interrupted, Users
<1>3. Fresh'
    BY InterruptedIs
    DEF Fresh, Excluding, Mounting, Preparing, Keying, Moving, boot,
        deploy, data, ghosts, Damaged
<1>4. Agents'
    BY DEF Agents, Migrating, boot, deploy, clients, ghosts, Damaged,
           Interrupted
<1>5. Enrolled'
    BY DEF Enrolled, Agents, Migrating, Migrated, UserSet, boot,
           deploy, clients
<1> QED BY <1>1, <1>2, <1>3, <1>4, <1>5

(* A volume that nothing was interrupted in is full once it was mounted.    *)
LEMMA VolumesStep == Inv /\ [Next]_vars => Volumes'
<1> SUFFICES ASSUME Inv, [Next]_vars, "data" \notin damage'
             PROVE  Volumes'
    BY DEF Volumes
<1> USE DEF Volumes, Mounting, Moving, Excluding, data
<1>1. CASE MountCopy
    <2>1. Current = Dirs[cursor] /\ Current \in DirSet
        BY <1>1, CurrentIn DEF MountCopy, Inv, TypeOK, Current
    <2>2. /\ vol' = [vol EXCEPT ![Current] = "full"]
          /\ cursor' = cursor + 1
          /\ UNCHANGED <<pc, legacy, damage>>
        BY <1>1 DEF MountCopy, Damaged, ghosts
    <2>3. "data" \notin damage /\ pc = "mount"
        BY <1>1, <2>2 DEF MountCopy
    <2>4. \A d \in DirSet : vol'[d] = IF d = Current THEN "full" ELSE vol[d]
        BY <2>2 DEF Inv, TypeOK
    <2>5. ASSUME NEW i \in 1..(cursor' - 1) PROVE vol'[Dirs[i]] = "full"
        <3>1. i \in 1..Len(Dirs) /\ (i = cursor \/ i \in 1..(cursor - 1))
            BY <1>1, <2>2 DEF MountCopy, Inv, TypeOK
        <3>2. Dirs[i] \in DirSet
            BY <3>1, DirsAssumption DEF DirSet
        <3> QED BY <2>1, <2>3, <2>4, <3>1, <3>2 DEF Inv
    <2> QED BY <2>2, <2>3, <2>4, <2>5 DEF Inv
<1>2. CASE MountEnd
    <2>1. ASSUME NEW d \in DirSet PROVE vol[d] = "full"
        <3>1. PICK i \in 1..Len(Dirs) : d = Dirs[i]
            BY DirsAssumption DEF DirSet
        <3>2. cursor = Len(Dirs) + 1 /\ pc = "mount" /\ "data" \notin damage
            BY <1>2, DirsAssumption DEF MountEnd, Goto, ghosts, Inv, TypeOK
        <3> QED BY <3>1, <3>2 DEF Inv
    <2> QED BY <1>2, <2>1 DEF MountEnd, Goto, ghosts, Inv
<1>3. CASE MountSkip
    <2>1. /\ cursor \in 1..Len(Dirs) /\ cursor' = cursor + 1 /\ pc = "mount"
          /\ UNCHANGED <<pc, vol, legacy, damage>>
        BY <1>3 DEF MountSkip, ghosts, Inv, TypeOK
    <2>2. Dirs[cursor] \in DirSet /\ vol[Dirs[cursor]] # "empty"
        BY <1>3, <2>1, CurrentIn DEF MountSkip, Current
    <2>3. vol[Dirs[cursor]] = "full"
        BY <2>1, <2>2 DEF Inv, TypeOK
    <2>4. \A i \in 1..(cursor' - 1) : i \in 1..(cursor - 1) \/ i = cursor
        BY <2>1
    <2> QED BY <2>1, <2>3, <2>4 DEF Inv
<1>4. CASE WriteJson \/ StartManager
    <2>1. \A d \in DirSet : vol[d] = "full" /\ vol'[d] = "full"
        BY <1>4 DEF WriteJson, StartManager, Goto, ghosts, Inv, TypeOK
    <2> QED BY <1>4, <2>1 DEF WriteJson, StartManager, Goto, ghosts, Inv
<1>5. CASE Crash
    BY <1>5 DEF Crash, Damaged, Inv
<1>6. CASE StartContainer
    BY <1>6 DEF StartContainer, ghosts, Inv
<1>7. CASE MoveData
    BY <1>7 DEF MoveData, Goto, Damaged, ghosts, Inv
<1>8. CASE ~(\/ MountCopy \/ MountEnd \/ MountSkip \/ WriteJson
            \/ StartManager \/ Crash \/ StartContainer \/ MoveData)
    BY <1>8
    DEF Inv, boot, ghosts, Damaged, Next, BootStep, vars, Goto, Abort,
        CopyFails, MayFail, ApplyExclusion, MakeKey, MakeCert, MountFiles,
        SetCustom, MigrateConf, MigrateClients, MigrateCert, MigrateKey,
        MigrateFlag, CreateUser, SetUserRole, DisableDefaults, RemoveJson,
        UserFails, Enrol, Deploy
<1> QED BY <1>1, <1>2, <1>3, <1>4, <1>5, <1>6, <1>7, <1>8

(* Key and certificate are written one after the other, in two places.      *)
LEMMA PairStep == Inv /\ [Next]_vars => Pair'
<1> SUFFICES ASSUME Inv, [Next]_vars PROVE Pair'
    OBVIOUS
<1> USE DEF Pair, Migrated, UserSet, Keying, Moving, Excluding, Mounting,
            Absent, tls
<1>1. CASE MakeKey
    BY <1>1 DEF MakeKey, Goto, Abort, Damaged, deploy, ghosts, Inv, TypeOK
<1>2. CASE MakeCert
    <2>1. key = "own" /\ key' = key /\ pc' # "cert"
        BY <1>2 DEF MakeCert, Goto, Abort, Inv
    <2>2. CASE cert' = "own" /\ Goto("config")
        BY <1>2, <2>1, <2>2 DEF Goto, MakeCert, ghosts, deploy, Inv
    <2>3. CASE Abort /\ Damaged("tls")
        BY <2>1, <2>3 DEF Damaged
    <2> QED BY <1>2, <2>2, <2>3 DEF MakeCert
<1>3. CASE MigrateCert
    BY <1>3
    DEF MigrateCert, Goto, CopyFails, Damaged, deploy, ghosts, Inv, TypeOK,
        Agents, Migrating
<1>4. CASE MigrateKey
    BY <1>4
    DEF MigrateKey, Goto, CopyFails, Damaged, deploy, ghosts, Inv, TypeOK,
        Agents, Migrating
<1>5. CASE Crash
    BY <1>5 DEF Crash, Interrupted, Damaged, deploy, Inv
<1>6. CASE UserFails
    BY <1>6 DEF UserFails, Interrupted, deploy, Inv
<1>7. CASE ~(\/ MakeKey \/ MakeCert \/ MigrateCert \/ MigrateKey
            \/ Crash \/ UserFails)
    BY <1>7
    DEF Inv, Agents, Migrating, boot, deploy, ghosts, Damaged, Next,
        BootStep, vars, Goto, Abort, CopyFails, MayFail, StartContainer,
        MountSkip, MountCopy, MountEnd, ApplyExclusion, MoveData, MountFiles,
        SetCustom, MigrateConf, MigrateClients, MigrateFlag, WriteJson,
        CreateUser, SetUserRole, DisableDefaults, RemoveJson, StartManager,
        Enrol, Deploy
<1> QED BY <1>1, <1>2, <1>3, <1>4, <1>5, <1>6, <1>7

(* Fresh volumes and those of an older release satisfy the invariant.       *)
LEMMA InvInit == Init => Inv
<1> SUFFICES ASSUME Init PROVE Inv
    OBVIOUS
<1> USE DEF Init
<1>1. TypeOK
    <2>1. db \in [Users -> [pw : Passwords, admin : BOOLEAN]]
        BY DEF NewDb, Passwords, Users
    <2>2. cursor \in 1..(Len(Dirs) + 1) /\ image \in 1..Images
          /\ excl \in 0..Images /\ faults \in 0..MaxFaults
        BY LengthNat, BoundAssumption
    <2> QED BY <2>1, <2>2 DEF TypeOK, Steps, Absent
<1>2. Credentials /\ Role
    BY UserAssumption
    DEF Credentials, Role, UserSet, Locked, LeftJson, NewDb, Users, Absent
<1>3. Fresh /\ Volumes
    BY DEF Fresh, Volumes, Mounting, Excluding, Moving, Keying, Preparing
<1>4. Pair /\ Agents /\ Enrolled
    BY DEF Pair, Agents, Enrolled, Migrating, Migrated, UserSet,
           Keying, Moving, Excluding, Mounting, Absent
<1> QED BY <1>1, <1>2, <1>3, <1>4 DEF Inv

LEMMA InvAlways == Spec => []Inv
<1>1. Inv /\ [Next]_vars => Inv'
    BY TypeStep, ScriptStep, VolumesStep, PairStep DEF Inv
<1> QED BY <1>1, InvInit, PTL DEF Spec

-----------------------------------------------------------------------------
(* Every variable has its type, for any volumes, secrets and releases.     *)
THEOREM TypeCorrect == Spec => []TypeOK
<1>1. Inv => TypeOK
    BY DEF Inv
<1> QED BY <1>1, InvAlways, PTL

(* However many boots are cut short, a manager that runs has the password  *)
(* of its deployment, no default one and no admin.json: each boot sets     *)
(* them all again (create_user.py:76-103, 2-manager:83-102).               *)
THEOREM RunsWithCredentials == Spec => []CredentialsCurrent
<1>1. Inv => CredentialsCurrent
    BY DEF Inv, Credentials, CredentialsCurrent, Running, UserSet, Locked,
           LeftJson
<1> QED BY <1>1, InvAlways, PTL

(* An interruption damages what it was in the middle of, and nothing else, *)
(* for any volumes and any number of faults (0-wazuh-init:42-123, 218,     *)
(* 2-manager:38-74, create_user.py:76-90).                                 *)
THEOREM DamageStaysLocal == Spec => []DamageIsLocal
<1>1. ASSUME Inv, Running PROVE DamageIsLocal
    <2> USE <1>1 DEF Running, Inv
    <2>1. "data" \notin damage => /\ \A d \in DirSet : vol[d] = "full"
                                  /\ legacy \in {"none", "renamed"}
        BY DEF Volumes, Mounting, Moving, Excluding
    <2>2. ~aborted /\ damage \cap {"tls", "migration"} = {} => Usable
        BY DEF Pair, Migrated, UserSet, Keying, Moving, Excluding, Mounting,
               TypeOK, Usable
    <2>3. "migration" \notin damage /\ mig = "done" => OldAgent \in agents
        BY DEF Agents
    <2>4. "role" \notin damage => db[ApiUser].admin
        BY DEF Role, UserSet
    <2> QED BY <2>1, <2>2, <2>3, <2>4 DEF DamageIsLocal
<1>2. Inv => DamageIsLocal
    BY <1>1 DEF DamageIsLocal
<1> QED BY <1>2, InvAlways, PTL

(* A boot whose 0-wazuh-init came to its end has its own release's files   *)
(* and, unless one of its own sed commands failed, a configuration without *)
(* placeholders, whatever earlier boots and their sed commands left        *)
(* (0-wazuh-init:67-81, 134-175).                                          *)
THEOREM BootRenews == Spec => []BootIsFresh
<1>1. Inv => BootIsFresh
    BY DEF Inv, Fresh, BootIsFresh, Running, Preparing, Keying, Moving,
           Excluding, Mounting
<1> QED BY <1>1, InvAlways, PTL

(* Enrolled agents stay enrolled if the volume that is migrated can be     *)
(* flagged: the migration, which replaces client.keys, is repeated at each *)
(* boot otherwise (2-manager:30-81).                                       *)
THEOREM AgentsStayEnrolled ==
    ASSUME "readonly" \notin Fault
    PROVE  Spec => []EnrolledKept
<1>1. Inv => EnrolledKept
    BY DEF Inv, Enrolled, EnrolledKept
<1> QED BY <1>1, InvAlways, PTL
=============================================================================
