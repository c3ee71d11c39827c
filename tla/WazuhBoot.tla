------------------------------ MODULE WazuhBoot ------------------------------
(***************************************************************************)
(* How the container of the Wazuh manager boots                            *)
(* (deployment-images/wazuh-manager/config).  s6 runs two scripts:         *)
(* 0-wazuh-init fills the persistent volumes from the image and prepares   *)
(* keys and configuration; 2-manager migrates an older installation once,  *)
(* configures the API user with create_user.py and starts the manager.     *)
(*                                                                         *)
(* A failing command ends 0-wazuh-init but not the boot: s6 goes on with   *)
(* 2-manager.  A failing create_user.py ends the container.  The kubelet   *)
(* starts a new container, with the files of its image, whenever one ends; *)
(* only the volumes stay, and so does what was half done in them.          *)
(***************************************************************************)
EXTENDS Naturals, Sequences

CONSTANTS
    Dirs,       \* PERMANENT_DATA: the directories on volumes, in order
    ApiUser,    \* API_USERNAME: "custom", or one of the default users
    Secrets,    \* the values API_PASSWORD takes over the deployments
    Images,     \* 1..Images: the releases that are deployed
    NewAgents,  \* agents that enrol with this manager
    Fault,      \* "crash", "fail", "userfail", "readonly"
    MaxFaults   \* bound on stops, crashes and failing commands

DefaultUsers == {"wazuh", "wazuh-wui"}
Users        == DefaultUsers \cup {"custom"}
OldAgent     == "migrated-agent"

ASSUME DirsAssumption  == Dirs \in Seq(STRING) /\ Len(Dirs) > 0
ASSUME UserAssumption  == ApiUser \in Users
ASSUME AgentAssumption == OldAgent \notin NewAgents
ASSUME BoundAssumption == Images \in Nat \ {0} /\ MaxFaults \in Nat

VARIABLES
    pc, cursor,     \* the next command, and the directory it is at
    aborted,        \* 0-wazuh-init ended early in this boot
    image, secret,  \* what is deployed: release and API_PASSWORD
    vol,            \* what each directory of PERMANENT_DATA holds
    excl,           \* release of the files in PERMANENT_DATA_EXCP
    legacy,         \* where queue/ossec of an older release is
    key, cert,      \* etc/sslmanager.key, etc/sslmanager.cert
    conf,           \* etc/ossec.conf
    mig,            \* /wazuh-migration: "none", "pending", "done" (flagged)
    agents,         \* etc/client.keys
    db,             \* the API's users
    json,           \* api/configuration/admin.json exists
    faults,         \* counts stops, crashes and failures
    damage,         \* history: what an interruption has left half done,
                    \*   "sed": the placeholders in this boot's ossec.conf
    enrolled        \* history: agents enrolled since the last migration

boot    == <<pc, cursor, aborted>>
deploy  == <<image, secret, mig>>
data    == <<vol, excl, legacy>>
tls     == <<key, cert>>
api     == <<db, json>>
clients == <<agents, enrolled>>
ghosts  == <<faults, damage>>

vars == <<boot, deploy, data, tls, conf, api, clients, ghosts>>

DirSet == {Dirs[i] : i \in DOMAIN Dirs}
Absent == "absent"

NewDb == [u \in Users |->
            IF u \in DefaultUsers THEN [pw |-> "default", admin |-> TRUE]
                                  ELSE [pw |-> Absent, admin |-> FALSE]]

(***************************************************************************)
(* Failures.                                                               *)
(***************************************************************************)

MayFail(f) == f \in Fault /\ faults < MaxFaults

Damaged(part) == damage' = damage \cup {part}

(* exec_cmd: the command failed, 0-wazuh-init exits and s6 goes on.        *)
Abort ==
    /\ MayFail("fail")
    /\ faults' = faults + 1
    /\ aborted' = TRUE
    /\ pc' = "migrateConf"

(* In 2-manager a failing cp is not noticed.                               *)
CopyFails(step) ==
    /\ MayFail("fail")
    /\ faults' = faults + 1
    /\ Damaged("migration")
    /\ pc' = step
    /\ UNCHANGED aborted

Goto(step) == pc' = step /\ UNCHANGED <<aborted, ghosts>>

(***************************************************************************)
(* 0-wazuh-init                                                            *)
(***************************************************************************)

StartContainer ==
    /\ pc = "down"
    /\ pc' = "mount" /\ cursor' = 1 /\ aborted' = FALSE
    /\ damage' = damage \ {"sed"}
    /\ UNCHANGED <<deploy, data, tls, conf, api, clients, faults>>

Current == Dirs[cursor]

(* Variant of MountSkip: the entry after a mounted one is passed over.     *)
MountSkipTwo ==
    /\ pc = "mount" /\ cursor <= Len(Dirs)
    /\ vol[Current] # "empty"
    /\ cursor' = cursor + 2
    /\ UNCHANGED <<pc, aborted, deploy, data, tls, conf, api, clients, ghosts>>

(* A directory that holds anything is taken to be complete.                *)
MountSkip ==
    /\ pc = "mount" /\ cursor <= Len(Dirs)
    /\ vol[Current] # "empty"
    /\ cursor' = cursor + 1
    /\ UNCHANGED <<pc, aborted, deploy, data, tls, conf, api, clients, ghosts>>

(* "cp -a": etc comes with the ossec.conf of the image.                    *)
MountCopy ==
    /\ pc = "mount" /\ cursor <= Len(Dirs)
    /\ vol[Current] = "empty"
    /\ \/ /\ vol' = [vol EXCEPT ![Current] = "full"]
          /\ conf' = IF Current = "etc" THEN "image" ELSE conf
          /\ cursor' = cursor + 1
          /\ UNCHANGED <<pc, aborted, ghosts>>
       \/ /\ Abort
          /\ \E rest \in {"empty", "partial"} :
                vol' = [vol EXCEPT ![Current] = rest]
          /\ Damaged("data")
          /\ UNCHANGED <<cursor, conf>>
    /\ UNCHANGED <<deploy, excl, legacy, tls, api, clients>>

MountEnd ==
    /\ pc = "mount" /\ cursor > Len(Dirs)
    /\ Goto("exclude")
    /\ UNCHANGED <<cursor, deploy, data, tls, conf, api, clients>>

(* Variant of ApplyExclusion: only files that are missing are copied.      *)
ApplyExclusionOnce ==
    /\ pc = "exclude"
    /\ Goto("move")
    /\ excl' = IF excl = 0 THEN image ELSE excl
    /\ UNCHANGED <<cursor, deploy, vol, legacy, tls, conf, api, clients>>

ApplyExclusion ==
    /\ pc = "exclude"
    /\ \/ Goto("move") /\ excl' = image
       \/ Abort /\ Damaged("data") /\ UNCHANGED excl
    /\ UNCHANGED <<cursor, deploy, vol, legacy, tls, conf, api, clients>>

(* "mv -f queue/ossec queue/sockets": into a directory that exists, the    *)
(* old one is moved as an entry of it.                                     *)
MoveData ==
    /\ pc = "move"
    /\ \/ /\ Goto("key")
          /\ legacy' = CASE legacy = "old"  -> "renamed"
                         [] legacy = "both" -> "nested"
                         [] OTHER           -> legacy
       \/ Abort /\ Damaged("data") /\ UNCHANGED legacy
    /\ UNCHANGED <<cursor, deploy, vol, excl, tls, conf, api, clients>>

(* Only a missing key makes key and certificate (the image has neither;    *)
(* AUTO_ENROLLMENT_ENABLED is left at its default).                        *)
MakeKey ==
    /\ pc = "key"
    /\ \/ key # Absent /\ Goto("config") /\ UNCHANGED key
       \/ key = Absent /\ Goto("cert") /\ key' = "own"
       \/ /\ key = Absent /\ Abort
          /\ key' \in {Absent, "broken"}
          /\ Damaged("tls")
    /\ UNCHANGED <<cursor, deploy, data, cert, conf, api, clients>>

MakeCert ==
    /\ pc = "cert"
    /\ \/ Goto("config") /\ cert' = "own"
       \/ Abort /\ Damaged("tls") /\ UNCHANGED cert
    /\ UNCHANGED <<cursor, deploy, data, key, conf, api, clients>>

(* The mounted ossec.conf, with placeholders, replaces the one there.      *)
MountFiles ==
    /\ pc = "config"
    /\ \/ Goto("sed") /\ conf' = "template"
       \/ Abort /\ conf' \in {conf, "template"} /\ UNCHANGED damage
    /\ UNCHANGED <<cursor, deploy, data, tls, api, clients>>

(* Three "sed -i", without exec_cmd: one that fails goes unnoticed and     *)
(* leaves its placeholder.                                                 *)
SetCustom ==
    /\ pc = "sed"
    /\ pc' = "migrateConf"
    /\ \/ /\ conf' = IF conf = "template" THEN "final" ELSE conf
          /\ UNCHANGED ghosts
       \/ /\ MayFail("fail")
          /\ faults' = faults + 1
          /\ Damaged("sed")
          /\ UNCHANGED conf
    /\ UNCHANGED <<cursor, aborted, deploy, data, tls, api, clients>>

(***************************************************************************)
(* 2-manager: migration                                                    *)
(***************************************************************************)

(* Variant of MigrateConf: the volume is flagged first.                    *)
MigrateFlagFirst ==
    /\ pc = "migrateConf"
    /\ IF mig = "pending"
       THEN Goto("migrateClients") /\ conf' = "migrated" /\ mig' = "done"
       ELSE Goto("writeJson") /\ UNCHANGED <<conf, mig>>
    /\ UNCHANGED <<cursor, image, secret, data, tls, api, clients>>

MigrateConf ==
    /\ pc = "migrateConf"
    /\ IF mig = "pending"
       THEN Goto("migrateClients") /\ conf' = "migrated"
       ELSE Goto("writeJson") /\ UNCHANGED conf
    /\ UNCHANGED <<cursor, deploy, data, tls, api, clients>>

MigrateClients ==
    /\ pc = "migrateClients"
    /\ \/ Goto("migrateCert") /\ agents' = {OldAgent}
       \/ CopyFails("migrateCert") /\ UNCHANGED agents
    /\ UNCHANGED <<cursor, deploy, data, tls, conf, api, enrolled>>

MigrateCert ==
    /\ pc = "migrateCert"
    /\ \/ Goto("migrateKey") /\ cert' = "migrated"
       \/ CopyFails("migrateKey") /\ UNCHANGED cert
    /\ UNCHANGED <<cursor, deploy, data, key, conf, api, clients>>

MigrateKey ==
    /\ pc = "migrateKey"
    /\ \/ Goto("migrateFlag") /\ key' = "migrated"
       \/ CopyFails("migrateFlag") /\ UNCHANGED key
    /\ UNCHANGED <<cursor, deploy, data, cert, conf, api, clients>>

(* Variant of MigrateFlag: the volume is never flagged.                    *)
MigrateNoFlag ==
    /\ pc = "migrateFlag"
    /\ Goto("writeJson")
    /\ UNCHANGED <<cursor, deploy, data, tls, conf, api, clients>>

(* The flag is written, or cannot be: "completed" is printed either way.   *)
MigrateFlag ==
    /\ pc = "migrateFlag"
    /\ Goto("writeJson")
    /\ mig' = IF "readonly" \in Fault THEN "pending" ELSE "done"
    /\ UNCHANGED <<cursor, image, secret, data, tls, conf, api, clients>>

(***************************************************************************)
(* 2-manager: the API user                                                 *)
(***************************************************************************)

WriteJson ==
    /\ pc = "writeJson"
    /\ Goto("createUser")
    /\ json' = TRUE
    /\ vol' = IF "api" \in DirSet /\ vol["api"] = "empty"
              THEN [vol EXCEPT !["api"] = "partial"] ELSE vol
    /\ UNCHANGED <<cursor, deploy, excl, legacy, tls, conf, db, clients>>

(* Variant of CreateUser: a user that is there is left alone.              *)
CreateUserOnce ==
    /\ pc = "createUser"
    /\ IF db[ApiUser].pw = Absent
       THEN Goto("setRole") /\ db' = [db EXCEPT ![ApiUser].pw = secret]
       ELSE Goto("disable") /\ UNCHANGED db
    /\ UNCHANGED <<cursor, deploy, data, tls, conf, json, clients>>

(* Variant of CreateUser: creating a user that is there raises.            *)
CreateUserAlways ==
    /\ pc = "createUser"
    /\ IF db[ApiUser].pw = Absent
       THEN Goto("setRole") /\ db' = [db EXCEPT ![ApiUser].pw = secret]
       ELSE Goto("down") /\ UNCHANGED db
    /\ UNCHANGED <<cursor, deploy, data, tls, conf, json, clients>>

CreateUser ==
    /\ pc = "createUser"
    /\ IF db[ApiUser].pw = Absent THEN Goto("setRole") ELSE Goto("disable")
    /\ db' = [db EXCEPT ![ApiUser].pw = secret]
    /\ UNCHANGED <<cursor, deploy, data, tls, conf, json, clients>>

SetUserRole ==
    /\ pc = "setRole"
    /\ Goto("disable")
    /\ db' = [db EXCEPT ![ApiUser].admin = TRUE]
    /\ UNCHANGED <<cursor, deploy, data, tls, conf, json, clients>>

DisableDefaults ==
    /\ pc = "disable"
    /\ Goto("removeJson")
    /\ db' = [u \in Users |-> IF u \in DefaultUsers \ {ApiUser}
                              THEN [db[u] EXCEPT !.pw = "random"] ELSE db[u]]
    /\ UNCHANGED <<cursor, deploy, data, tls, conf, json, clients>>

(* create_user.py raises: the container is terminated.                     *)
Interrupted == CASE pc = "setRole" -> {"role"}
                 [] pc = "cert"    -> {"tls"}
                 [] OTHER          -> {}

UserFails ==
    /\ MayFail("userfail")
    /\ pc \in {"createUser", "setRole", "disable"}
    /\ pc' = "down"
    /\ faults' = faults + 1
    /\ damage' = damage \cup Interrupted
    /\ UNCHANGED <<cursor, aborted, deploy, data, tls, conf, api, clients>>

RemoveJson ==
    /\ pc = "removeJson"
    /\ Goto("start")
    /\ json' = FALSE
    /\ UNCHANGED <<cursor, deploy, data, tls, conf, db, clients>>

(* The manager makes files of its own where it finds nothing.  "running"   *)
(* is the container with both scripts at their end.                        *)
StartManager ==
    /\ pc = "start"
    /\ Goto("running")
    /\ \E S \in SUBSET {d \in DirSet : vol[d] = "empty"} :
          vol' = [d \in DirSet |-> IF d \in S THEN "partial" ELSE vol[d]]
    /\ legacy' = IF legacy = "old" THEN "both" ELSE legacy
    /\ UNCHANGED <<cursor, deploy, excl, tls, conf, api, clients>>

(***************************************************************************)
(* The environment.                                                        *)
(***************************************************************************)

Usable == key = cert /\ key \in {"own", "migrated"}

Enrol(a) ==
    /\ pc = "running"
    /\ Usable
    /\ agents' = agents \cup {a}
    /\ enrolled' = enrolled \cup {a}
    /\ UNCHANGED <<boot, deploy, data, tls, conf, api, ghosts>>

(* The pod is stopped, or dies, between two commands or in one: a copy or  *)
(* a key may be half written.                                              *)
Crash ==
    /\ pc # "down"
    /\ MayFail("crash")
    /\ faults' = faults + 1
    /\ pc' = "down"
    /\ \/ /\ pc = "mount" /\ cursor <= Len(Dirs) /\ vol[Current] = "empty"
          /\ vol' = [vol EXCEPT ![Current] = "partial"]
          /\ Damaged("data")
          /\ UNCHANGED key
       \/ /\ pc = "key" /\ key = Absent
          /\ key' = "broken"
          /\ Damaged("tls")
          /\ UNCHANGED vol
       \/ damage' = damage \cup Interrupted /\ UNCHANGED <<vol, key>>
    /\ UNCHANGED <<cursor, aborted, deploy, excl, legacy, cert, conf, api,
                   clients>>

(* A new release or password is deployed, or a volume to migrate mounted.  *)
Deploy ==
    /\ pc = "down"
    /\ \/ image < Images /\ image' = image + 1 /\ UNCHANGED <<secret, mig, enrolled>>
       \/ secret' \in Secrets \ {secret} /\ UNCHANGED <<image, mig, enrolled>>
       \/ /\ mig = "none" /\ mig' = "pending"
          /\ enrolled' = {}
          /\ UNCHANGED <<image, secret>>
    /\ UNCHANGED <<boot, data, tls, conf, api, agents, ghosts>>

(***************************************************************************)
(* The specification: fresh volumes, or those of an older release.         *)
(***************************************************************************)

Init ==
    /\ pc = "down" /\ cursor = 1 /\ aborted = FALSE
    /\ image = 1 /\ secret \in Secrets /\ mig \in {"none", "pending"}
    /\ \/ /\ vol = [d \in DirSet |-> "empty"]
          /\ legacy = "none" /\ key = Absent /\ cert = Absent /\ conf = Absent
       \/ /\ vol = [d \in DirSet |-> "full"]
          /\ legacy = "old" /\ key = "own" /\ cert = "own" /\ conf = "final"
    /\ excl = 0
    /\ agents = {} /\ enrolled = {}
    /\ db = NewDb /\ json = FALSE
    /\ faults = 0 /\ damage = {}

BootStep ==
    \/ StartContainer
    \/ MountSkip \/ MountCopy \/ MountEnd
    \/ ApplyExclusion \/ MoveData
    \/ MakeKey \/ MakeCert
    \/ MountFiles \/ SetCustom
    \/ MigrateConf \/ MigrateClients \/ MigrateCert \/ MigrateKey \/ MigrateFlag
    \/ WriteJson \/ CreateUser \/ SetUserRole \/ DisableDefaults \/ RemoveJson
    \/ StartManager

Next ==
    \/ BootStep
    \/ UserFails
    \/ \E a \in NewAgents : Enrol(a)
    \/ Crash
    \/ Deploy

(* s6 runs the scripts and the kubelet starts containers without end.      *)
Spec == Init /\ [][Next]_vars /\ WF_vars(BootStep)

(***************************************************************************)
(* Properties.                                                             *)
(***************************************************************************)

Steps == {"down", "mount", "exclude", "move", "key", "cert", "config", "sed",
          "migrateConf", "migrateClients", "migrateCert", "migrateKey",
          "migrateFlag", "writeJson", "createUser", "setRole", "disable",
          "removeJson", "start", "running"}
Passwords == Secrets \cup {Absent, "default", "random"}

(* Every variable has its type.                                            *)
TypeOK ==
    /\ pc \in Steps /\ cursor \in 1..(Len(Dirs) + 1) /\ aborted \in BOOLEAN
    /\ image \in 1..Images /\ secret \in Secrets
    /\ mig \in {"none", "pending", "done"}
    /\ vol \in [DirSet -> {"empty", "partial", "full"}]
    /\ excl \in 0..Images
    /\ legacy \in {"none", "old", "both", "renamed", "nested"}
    /\ key \in {Absent, "own", "migrated", "broken"}
    /\ cert \in {Absent, "own", "migrated"}
    /\ conf \in {Absent, "image", "template", "final", "migrated"}
    /\ agents \in SUBSET (NewAgents \cup {OldAgent})
    /\ enrolled \in SUBSET NewAgents
    /\ db \in [Users -> [pw : Passwords, admin : BOOLEAN]]
    /\ json \in BOOLEAN
    /\ faults \in 0..MaxFaults
    /\ damage \in SUBSET {"data", "tls", "migration", "role", "sed"}

Running == pc = "running"

(* However often boots are cut short, a manager that runs has the password *)
(* of its deployment, default users with passwords nobody knows, and no    *)
(* admin.json left on the volume (create_user.py:76-103, 2-manager:83-102).*)
CredentialsCurrent ==
    Running => /\ db[ApiUser].pw = secret
               /\ \A u \in DefaultUsers \ {ApiUser} : db[u].pw = "random"
               /\ ~json

(* What an interruption can leave behind for good is only what it was in   *)
(* the middle of: a copy into a volume or the renaming after it            *)
(* (0-wazuh-init:42-97), the pair of key and certificate (119-123, 218),   *)
(* a file of the migration (2-manager:38-74), the role of the API user     *)
(* (create_user.py:76-90).  Everything else the next boot repairs.         *)
DamageIsLocal ==
    Running =>
        /\ "data" \notin damage => /\ \A d \in DirSet : vol[d] = "full"
                                   /\ legacy \in {"none", "renamed"}
        /\ ~aborted /\ damage \cap {"tls", "migration"} = {} => Usable
        /\ "migration" \notin damage /\ mig = "done" => OldAgent \in agents
        /\ "role" \notin damage => db[ApiUser].admin

(* A boot whose 0-wazuh-init came to its end, whatever happened to earlier *)
(* ones, runs with the files of its own release that are not permanent     *)
(* and, unless a sed of this very boot failed unnoticed, with a            *)
(* configuration without placeholders: what an earlier boot's sed left is  *)
(* repaired (0-wazuh-init:67-81, 134-175).                                 *)
BootIsFresh ==
    Running /\ ~aborted =>
        /\ excl = image
        /\ "sed" \notin damage => conf \in {"final", "migrated"}

(* An agent that enrols stays enrolled over restarts, crashes and new      *)
(* releases: a migration is repeated only until it was flagged, and the    *)
(* manager does not run before (2-manager:30-81, 116-125).                 *)
EnrolledKept == enrolled \subseteq agents

(* Once the faults stop, the manager runs and stays up: no half-done boot  *)
(* makes every later one fail.                                             *)
EventuallyRunning == <>[]Running

(* What the comments say and the code does not do.  "If the path is empty  *)
(* means permanent data volume is also empty, so a backup will be copied   *)
(* into it" (0-wazuh-init:37-38): every directory of PERMANENT_DATA is     *)
(* installed when the manager runs.                                        *)
DataIsInstalled == Running => \A d \in DirSet : vol[d] = "full"
=============================================================================
