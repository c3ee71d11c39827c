-------------------------------- MODULE VpnPki --------------------------------
(***************************************************************************)
(* The VPN charm (juju-charms/vpn/src/charm.py) and the ovpn_* scripts it  *)
(* and its operator call: the configuration, the certificate authority,    *)
(* its revocation list and the server that reads them.                     *)
(*                                                                         *)
(* The actions of a unit and the commands given in its container run one   *)
(* at a time.  Each is a sequence of commands under "set -e" or            *)
(* check=True, which the container, or the operator, can end between two   *)
(* of them.  The server runs beside them.                                  *)
(*                                                                         *)
(* easyrsa and openvpn are not in the repository: what is said of them is  *)
(* what the scripts rely on, and, where they do not rely on one thing, a   *)
(* choice (see KeepsFiles).  config/vars makes easyrsa ask for nothing.    *)
(***************************************************************************)
EXTENDS Naturals, FiniteSets

CONSTANTS
    Domains,    \* the server names init-vpnconfig is called with
    Names,      \* the clients' names
    NoName,     \* neither a domain nor a name
    MaxCAs,     \* bound: authorities made, one after the other
    MaxSerial,  \* bound: certificates signed for one name
    KeepsFiles, \* whether easyrsa leaves the files of a revoked certificate
                \*   in their place: a subset of BOOLEAN
    Fault       \* "kill", "restart", "recreate", "die" and "command"

ASSUME NamesAssumption == {NoName, "cut"} \cap (Domains \cup Names) = {}
ASSUME BoundAssumption == MaxCAs \in Nat /\ MaxSerial \in Nat

VARIABLES
    env,        \* the domain in ovpn_env.sh; NoName: no such file; "cut": one
                \*   that ends before the domain
    conf,       \* the domain whose key and certificate openvpn.conf names
    cas,        \* history: how many authorities have been made
    ca,         \* the one in pki/, by number; 0: none
    made,       \* the files dh.pem ("dh") and ta.key ("ta") of pki/
    cn,         \* the domain of pki/'s server certificate
    key,        \* the clients that have a private key in pki/
    crt,        \* the serial of the certificate in issued/; 0: none
    issued,     \* the database of pki/: the certificates signed
    revoked,    \*   and those marked as revoked
    crl,        \* pki/crl.pem; its ca is 0 when there is no such file
    copy,       \* $OPENVPN/crl.pem, the server's copy, likewise
    newer,      \* pki/crl.pem is newer than the copy, or there is no copy
    target,     \* the server keys in $OPENVPN/server, <<ca, domain>>
    daemon,     \* the server that runs: its ca (0: none) and whether it was
                \*   started with --crl-verify
    pc,         \* the next command of what runs, or "idle"
    arg,        \* the domain or the name it was called with, or the
                \*   certificate that it revokes
    reply,      \* the success it reported last, and with what client
                \*   configuration; "none" for a failure
    denied      \* history: revocations reported as done, <<ca, certificate>>

(* The files of pki/, all the files, and what a handler has in hand.       *)
pki    == <<ca, made, cn, key, crt, issued, revoked, crl>>
files  == <<env, conf, copy, newer, target>>
locals == <<pc, arg>>
vars   == <<pki, files, cas, daemon, locals, reply, denied>>

Cert      == Names \X (1..MaxSerial)
NoCrl     == [ca |-> 0, certs |-> {}]
NoDaemon  == [ca |-> 0, crl |-> FALSE]
NoConfig  == <<0, NoName, 0>>
Says(w)   == [is |-> w, of |-> NoConfig]

(* The serials of a name count up, in the order they were signed.          *)
Last(n)   == Cardinality({c \in issued : c[1] = n})

(* What ovpn_getclient prints: the files of a client.  A certificate that  *)
(* is not there leaves its section empty (serial 0) and is no error.       *)
Config(n) == <<ca, n, crt[n]>>

Done(r) == pc' = "idle" /\ arg' = NoName /\ reply' = r

(* Calls refused before they change anything: a domain that is not one, a  *)
(* client without a key, scripts without ovpn_env.sh, easyrsa without an   *)
(* authority or with files of that name; or a first command that fails.    *)
(* ovpn_getclient by itself changes nothing either.                        *)
Refuse ==
    /\ pc = "idle"
    /\ reply' = Says("none")
    /\ UNCHANGED <<pki, files, cas, daemon, locals, denied>>

(***************************************************************************)
(* init-vpnconfig: ovpn_genconfig, then ovpn_initpki.                      *)
(***************************************************************************)

(* The old ovpn_env.sh is moved away, then the new one written.            *)
InitVpnConfig(d) ==
    /\ pc = "idle"
    /\ cas < MaxCAs
    /\ env' = NoName
    /\ pc' = "writeEnv" /\ arg' = d
    /\ reply' = Says("none")
    /\ UNCHANGED <<pki, conf, copy, newer, target, cas, daemon, denied>>

WriteEnv ==
    /\ pc = "writeEnv"
    /\ env' = arg
    /\ pc' = "backupConf"
    /\ UNCHANGED <<pki, conf, copy, newer, target, cas, daemon, arg, reply,
                   denied>>

(* Variant of BackupConf: a configuration that is there is left alone.     *)
BackupConfUnless ==
    /\ pc = "backupConf"
    /\ pc' = IF conf = NoName THEN "writeConf" ELSE "initPki"
    /\ UNCHANGED <<pki, files, cas, daemon, arg, reply, denied>>

BackupConf ==
    /\ pc = "backupConf"
    /\ conf' = NoName
    /\ pc' = "writeConf"
    /\ UNCHANGED <<pki, env, copy, newer, target, cas, daemon, arg, reply,
                   denied>>

WriteConf ==
    /\ pc = "writeConf"
    /\ conf' = arg
    /\ pc' = "initPki"
    /\ UNCHANGED <<pki, env, copy, newer, target, cas, daemon, arg, reply,
                   denied>>

EmptyPki ==
    /\ ca' = 0 /\ made' = {} /\ cn' = NoName
    /\ key' = {} /\ crt' = [n \in Names |-> 0]
    /\ issued' = {} /\ revoked' = {}

(* Variant of InitPki: the revocation list outlives its authority.         *)
InitPkiSoft ==
    /\ pc = "initPki"
    /\ EmptyPki
    /\ pc' = "buildCa"
    /\ UNCHANGED <<crl, files, cas, daemon, arg, reply, denied>>

(* easyrsa init-pki removes what there is: nothing is asked.               *)
InitPki ==
    /\ pc = "initPki"
    /\ EmptyPki
    /\ crl' = NoCrl /\ newer' = FALSE
    /\ pc' = "buildCa"
    /\ UNCHANGED <<env, conf, copy, target, cas, daemon, arg, reply, denied>>

BuildCa ==
    /\ pc = "buildCa"
    /\ cas' = cas + 1 /\ ca' = cas + 1
    /\ pc' = "dh"
    /\ UNCHANGED <<made, cn, key, crt, issued, revoked, crl, files, daemon, arg,
                   reply, denied>>

(* easyrsa gen-dh, then openvpn --genkey.                                  *)
MakeParameters ==
    /\ pc \in {"dh", "ta"}
    /\ made' = made \cup {pc}
    /\ pc' = IF pc = "dh" THEN "ta" ELSE "buildServer"
    /\ UNCHANGED <<ca, cn, key, crt, issued, revoked, crl, files, cas, daemon,
                   arg, reply, denied>>

BuildServer ==
    /\ pc = "buildServer"
    /\ cn' = arg
    /\ pc' = "firstCrl"
    /\ UNCHANGED <<ca, made, key, crt, issued, revoked, crl, files, cas, daemon,
                   arg, reply, denied>>

(* easyrsa gen-crl: the list names what the database has as revoked.       *)
GenCrl ==
    /\ crl' = [ca |-> ca, certs |-> revoked]
    /\ newer' = TRUE

FirstCrl ==
    /\ pc = "firstCrl"
    /\ GenCrl
    /\ Done(Says("generated"))
    /\ UNCHANGED <<ca, made, cn, key, crt, issued, revoked, env, conf, copy,
                   target, cas, daemon, denied>>

(***************************************************************************)
(* start-vpn: ovpn_run --daemon.                                           *)
(***************************************************************************)

(* The copy is renewed if pki/ has a later list, whether or not the server *)
(* can then be started.                                                    *)
StartVpn ==
    /\ pc = "idle"
    /\ env \in Domains
    /\ copy' = IF newer THEN crl ELSE copy
    /\ newer' = FALSE
    /\ pc' = "openvpn"
    /\ reply' = Says("none")
    /\ UNCHANGED <<pki, env, conf, target, cas, daemon, arg, denied>>

(* openvpn needs each file its configuration names, and the address and    *)
(* the device, which a server that runs has taken.                         *)
Usable == ca # 0 /\ made = {"dh", "ta"} /\ conf # NoName /\ conf = cn

RunOpenvpn ==
    /\ pc = "openvpn"
    /\ IF Usable /\ daemon = NoDaemon
       THEN /\ daemon' = [ca |-> ca, crl |-> copy.ca # 0]
            /\ Done(Says("started"))
       ELSE /\ Done(Says("none"))
            /\ UNCHANGED daemon
    /\ UNCHANGED <<pki, files, cas, denied>>

(***************************************************************************)
(* create-clientcert: easyrsa build-client-full, then ovpn_getclient.      *)
(***************************************************************************)

(* The variants of CreateClientcert share what follows its guards.         *)
MakeKey(n) ==
    /\ pc = "idle"
    /\ ca # 0
    /\ Last(n) < MaxSerial
    /\ key' = key \cup {n}
    /\ pc' = "sign" /\ arg' = n
    /\ reply' = Says("none")
    /\ UNCHANGED <<ca, made, cn, crt, issued, revoked, crl, files, cas, daemon,
                   denied>>

(* Variant of CreateClientcert: a name can be taken again.                 *)
CreateAgain(n) == MakeKey(n)

(* Variant of CreateClientcert: run without check=True, so that an easyrsa *)
(* that refuses the name is followed by ovpn_getclient.                    *)
CreateUnchecked(n) ==
    \/ n \notin key /\ crt[n] = 0 /\ MakeKey(n)
    \/ /\ pc = "idle"
       /\ n \in key
       /\ pc' = "getClient" /\ arg' = n
       /\ reply' = Says("none")
       /\ UNCHANGED <<pki, files, cas, daemon, denied>>

(* The key is made first.  easyrsa refuses a name that has files.          *)
CreateClientcert(n) == n \notin key /\ crt[n] = 0 /\ MakeKey(n)

Sign ==
    /\ pc = "sign"
    /\ issued' = issued \cup {<<arg, Last(arg) + 1>>}
    /\ crt' = [crt EXCEPT ![arg] = Last(arg) + 1]
    /\ pc' = "getClient"
    /\ UNCHANGED <<ca, made, cn, key, revoked, crl, files, cas, daemon, arg,
                   reply, denied>>

GetClient ==
    /\ pc = "getClient"
    /\ Done(IF env = NoName THEN Says("none")
            ELSE [is |-> "created", of |-> Config(arg)])
    /\ UNCHANGED <<pki, files, cas, daemon, denied>>

(***************************************************************************)
(* ovpn_revokeclient, which the operator calls in the container.           *)
(***************************************************************************)

(* easyrsa revoke fails if the database has the certificate as revoked.    *)
RevokeClient(n) ==
    /\ pc = "idle"
    /\ env # NoName
    /\ n \in key /\ crt[n] # 0
    /\ <<n, crt[n]>> \notin revoked
    /\ revoked' = revoked \cup {<<n, crt[n]>>}
    /\ \E keeps \in KeepsFiles :
          /\ key' = IF keeps THEN key ELSE key \ {n}
          /\ crt' = IF keeps THEN crt ELSE [crt EXCEPT ![n] = 0]
    /\ pc' = "genCrl" /\ arg' = <<n, crt[n]>>
    /\ reply' = Says("none")
    /\ UNCHANGED <<ca, made, cn, issued, crl, files, cas, daemon, denied>>

RevokeGenCrl ==
    /\ pc = "genCrl"
    /\ GenCrl
    /\ pc' = "copyCrl"
    /\ UNCHANGED <<ca, made, cn, key, crt, issued, revoked, env, conf, copy,
                   target, cas, daemon, arg, reply, denied>>

(* What the variants of CopyCrl share.                                     *)
RevokeReported ==
    /\ pc = "copyCrl"
    /\ denied' = denied \cup {<<ca, arg>>}
    /\ Done(Says("revoked"))
    /\ UNCHANGED <<pki, env, conf, target, cas, daemon>>

(* Variant of CopyCrl: the list stays in pki/.                             *)
CopyNoCrl == RevokeReported /\ UNCHANGED <<copy, newer>>

CopyCrl == RevokeReported /\ copy' = crl /\ newer' = FALSE

(***************************************************************************)
(* ovpn_copy_server_files: what a second machine needs to be the server.   *)
(***************************************************************************)

(* Variant of CopyServerFiles: the keys of an earlier call stay.           *)
CopyServerOver ==
    /\ pc = "idle"
    /\ env # NoName
    /\ pc' = "tar"
    /\ reply' = Says("none")
    /\ UNCHANGED <<pki, files, cas, daemon, arg, denied>>

CopyServerFiles ==
    /\ pc = "idle"
    /\ env # NoName
    /\ target' = {}
    /\ pc' = "tar"
    /\ reply' = Says("none")
    /\ UNCHANGED <<pki, env, conf, copy, newer, cas, daemon, arg, denied>>

(* A file that is not there is an error of the first tar of a pipe, which  *)
(* the script does not see.                                                *)
Tar ==
    /\ pc = "tar"
    /\ target' = IF env = cn /\ ca # 0
                 THEN {t \in target : t[2] # cn} \cup {<<ca, cn>>}
                 ELSE target
    /\ Done(Says("copied"))
    /\ UNCHANGED <<pki, env, conf, copy, newer, cas, daemon, denied>>

(***************************************************************************)
(* ovpn_listclients: openssl verifies the certificates of issued/ with the *)
(* list of pki/, and finds them invalid when there is none.                *)
(***************************************************************************)

(* Variant of Status: verified without -crl_check.                         *)
StatusUnchecked(n) == "VALID"

Status(n) ==
    CASE crl.ca = 0                   -> "INVALID"
      [] <<n, crt[n]>> \in crl.certs  -> "REVOKED"
      [] OTHER                        -> "VALID"

(***************************************************************************)
(* The server reads its copy of the list whenever a client connects.  A    *)
(* list of another authority says nothing of its own certificates.         *)
(***************************************************************************)

Admits(a, c) ==
    /\ daemon.ca = a
    /\ ~(daemon.crl /\ copy.ca = a /\ c \in copy.certs)

(***************************************************************************)
(* What can go wrong.                                                      *)
(***************************************************************************)

(* A command of the script or the handler fails, which ends both.  easyrsa *)
(* may have taken the key of a certificate it could not sign away.         *)
CommandFails ==
    /\ "command" \in Fault
    /\ pc # "idle"
    /\ key' \in IF pc = "sign" THEN {key, key \ {arg}} ELSE {key}
    /\ Done(Says("none"))
    /\ UNCHANGED <<ca, made, cn, crt, issued, revoked, crl, files, cas, daemon,
                   denied>>

Kill ==
    /\ "kill" \in Fault
    /\ pc # "idle"
    /\ env' \in IF pc = "writeEnv" THEN {env, "cut"} ELSE {env}
    /\ Done(Says("none"))
    /\ UNCHANGED <<pki, conf, copy, newer, target, cas, daemon, denied>>

DaemonDies ==
    /\ "die" \in Fault
    /\ daemon # NoDaemon
    /\ daemon' = NoDaemon
    /\ UNCHANGED <<pki, files, cas, locals, reply, denied>>

(* The container starts again, with its volume.                            *)
Restart ==
    /\ "restart" \in Fault
    /\ daemon' = NoDaemon
    /\ Done(Says("none"))
    /\ UNCHANGED <<pki, files, cas, denied>>

NoFiles ==
    /\ EmptyPki
    /\ crl' = NoCrl /\ copy' = NoCrl /\ newer' = FALSE
    /\ env' = NoName /\ conf' = NoName /\ target' = {}

(* The pod gets a new container: the charm gives it no volume.             *)
Recreate ==
    /\ "recreate" \in Fault
    /\ NoFiles
    /\ daemon' = NoDaemon
    /\ Done(Says("none"))
    /\ UNCHANGED <<cas, denied>>

(***************************************************************************)
(* The specification.                                                      *)
(***************************************************************************)

Init ==
    /\ env = NoName /\ conf = NoName
    /\ cas = 0 /\ ca = 0 /\ made = {} /\ cn = NoName
    /\ key = {} /\ crt = [n \in Names |-> 0]
    /\ issued = {} /\ revoked = {}
    /\ crl = NoCrl /\ copy = NoCrl /\ newer = FALSE
    /\ target = {}
    /\ daemon = NoDaemon
    /\ pc = "idle" /\ arg = NoName /\ reply = Says("none")
    /\ denied = {}

Handler ==
    \/ Refuse
    \/ \E d \in Domains : InitVpnConfig(d)
    \/ WriteEnv \/ BackupConf \/ WriteConf
    \/ InitPki \/ BuildCa \/ MakeParameters \/ BuildServer \/ FirstCrl
    \/ StartVpn \/ RunOpenvpn
    \/ \E n \in Names : CreateClientcert(n) \/ RevokeClient(n)
    \/ Sign \/ GetClient
    \/ RevokeGenCrl \/ CopyCrl
    \/ CopyServerFiles \/ Tar

Next ==
    \/ Handler
    \/ CommandFails \/ Kill \/ DaemonDies \/ Restart \/ Recreate

Spec == Init /\ [][Next]_vars

(***************************************************************************)
(* Properties.                                                             *)
(***************************************************************************)

CrlType == [ca : 0..MaxCAs, certs : SUBSET Cert]

Replies == {Says(w) : w \in {"none", "generated", "started", "revoked", "copied"}}
           \cup [is : {"created"}, of : (1..MaxCAs) \X Names \X (0..MaxSerial)]

Steps == {"idle", "writeEnv", "backupConf", "writeConf", "initPki", "buildCa",
          "dh", "ta", "buildServer", "firstCrl", "openvpn", "sign",
          "getClient", "genCrl", "copyCrl", "tar"}

(* Every file and process is of its kind, and pki/ holds a list of its own *)
(* authority only (ovpn_initpki, ovpn_revokeclient).                       *)
TypeOK ==
    /\ env \in Domains \cup {NoName, "cut"} /\ conf \in Domains \cup {NoName}
    /\ cas \in 0..MaxCAs /\ ca \in {0, cas}
    /\ made \subseteq {"dh", "ta"} /\ cn \in Domains \cup {NoName}
    /\ key \subseteq Names /\ crt \in [Names -> 0..MaxSerial]
    /\ issued \subseteq Cert /\ revoked \subseteq issued
    /\ crl \in CrlType /\ crl.ca \in {0, ca}
    /\ copy \in CrlType
    /\ newer \in BOOLEAN /\ (newer => crl.ca # 0)
    /\ target \subseteq (1..MaxCAs) \X Domains
    /\ daemon \in [ca : 0..MaxCAs, crl : BOOLEAN]
    /\ pc \in Steps /\ arg \in Domains \cup Names \cup Cert \cup {NoName}
    /\ reply \in Replies
    /\ denied \subseteq (1..MaxCAs) \X Cert

(* The server turns away every client whose revocation was reported as     *)
(* done, through restarts, retries and handlers cut short, as long as it   *)
(* serves the authority of pki/ and was started with a list                *)
(* (ovpn_revokeclient:31-37 with ovpn_run:79-86).                          *)
RevokedStaysOut ==
    daemon.ca = ca /\ daemon.crl => \A d \in denied : ~Admits(d[1], d[2])

(* ovpn_listclients and such a server agree on who is revoked, unless the  *)
(* list in pki/ is newer than the server's copy: then the next start-vpn   *)
(* brings it up to date (ovpn_listclients:31-49 with ovpn_run:79-82).      *)
ListMatchesServer ==
    daemon.ca = ca /\ ca # 0 /\ daemon.crl /\ crl.ca = ca /\ ~newer =>
        \A n \in Names : crt[n] # 0 =>
            (Status(n) = "VALID" <=> Admits(ca, <<n, crt[n]>>))

(* The configuration that create-clientcert returns opens a server of the  *)
(* same authority: it has a certificate, and no earlier revocation of the  *)
(* name concerns it (charm.py:64-76).                                      *)
CreatedIsAdmitted ==
    reply.is = "created" =>
        /\ reply.of[3] # 0
        /\ daemon.ca = reply.of[1] =>
              Admits(reply.of[1], <<reply.of[2], reply.of[3]>>)

(* After an init-vpnconfig that reports success, whatever earlier ones did *)
(* or left undone, the three programs that read the configuration agree:   *)
(* a server can be started, with a list (charm.py:38-50).                  *)
GeneratedIsUsable ==
    reply.is = "generated" => Usable /\ env = cn /\ crl.ca = ca /\ newer

(* The directory for the second machine has the key of one server at most  *)
(* (ovpn_copy_server_files:21-22, "Ensure that no other keys then the one  *)
(* for the server is present").                                            *)
OneServerKey == Cardinality(target) <= 1

(* The scripts implement the authority: a name has one certificate in      *)
(* force, and what the server's copy names was revoked and published.      *)
Authority == INSTANCE CertAuthority WITH
    Name      <- Names,
    Serial    <- 1..MaxSerial,
    issued    <- issued,
    revoked   <- revoked,
    published <- crl.certs,
    enforced  <- IF copy.ca = ca THEN copy.certs ELSE {}

AuthoritySpec == Authority!Spec

(* docs/clients.md:43: "The OpenVPN server will read this change every     *)
(* time a client connects (no need to restart server) and deny clients     *)
(* access using revoked certificates."                                     *)
RevokedIsDenied == \A d \in denied : ~Admits(d[1], d[2])
=============================================================================
