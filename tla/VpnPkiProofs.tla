---------------------------- MODULE VpnPkiProofs ----------------------------
(***************************************************************************)
(* Theorems about the VPN charm and its scripts, for any domains, clients, *)
(* authorities and faults.                                                 *)
(*                                                                         *)
(* They all follow from one inductive invariant, Inv.  What it adds to the *)
(* properties is what a handler can count on in the middle (Handlers), how *)
(* the files of pki/ and its database belong together (Database), and that *)
(* the two copies of the revocation list are stages of one that only grows *)
(* (Lists): a later stage can take the place of an earlier one without     *)
(* readmitting anybody.                                                    *)
(***************************************************************************)
EXTENDS VpnPki, FiniteSetTheorems, TLAPS

(* What holds between two commands of a handler.                           *)
Handlers ==
    /\ pc # "idle" => reply = Says("none")
    /\ pc \in {"writeEnv", "backupConf", "writeConf", "initPki", "buildCa"}
          => cas < MaxCAs
    /\ pc \in {"writeEnv", "backupConf", "writeConf", "initPki", "buildCa",
               "dh", "ta", "buildServer", "firstCrl"} => arg \in Domains
    /\ pc \in {"backupConf", "writeConf", "initPki", "buildCa", "dh", "ta",
               "buildServer", "firstCrl"} => env = arg
    /\ pc \in {"initPki", "buildCa", "dh", "ta", "buildServer", "firstCrl"}
          => conf = arg
    /\ pc = "buildCa" => ca = 0
    /\ pc \in {"dh", "ta", "buildServer", "firstCrl", "sign", "getClient",
               "genCrl", "copyCrl"} => ca # 0
    /\ pc \in {"ta", "buildServer", "firstCrl"} => "dh" \in made
    /\ pc \in {"buildServer", "firstCrl"} => "ta" \in made
    /\ pc = "firstCrl" => cn = arg
    /\ pc \in {"sign", "getClient"} => arg \in Names
    /\ pc = "sign" => crt[arg] = 0 /\ Last(arg) < MaxSerial
    /\ pc = "getClient" => crt[arg] # 0 /\ <<arg, crt[arg]>> \notin revoked
    /\ pc \in {"genCrl", "copyCrl"} => arg \in revoked
    /\ pc = "copyCrl" => crl = [ca |-> ca, certs |-> revoked]
    /\ pc = "tar" => target = {} /\ env # NoName

(* The certificates in force are those in issued/, and no serial of a name *)
(* is above the number of those that were signed for it.                   *)
Database ==
    /\ IsFiniteSet(issued)
    /\ \A c \in issued : c[2] <= Last(c[1])
    /\ \A c \in issued \ revoked : crt[c[1]] = c[2]
    /\ \A n \in Names : crt[n] # 0 => <<n, crt[n]>> \in issued
    /\ ca = 0 => key = {} /\ issued = {}

(* The server's copy is an earlier stage of the list in pki/, which is one *)
(* of the database's.                                                      *)
Lists ==
    /\ copy.ca <= cas
    /\ crl.ca = 0 => crl.certs = {}
    /\ copy.ca = 0 => copy.certs = {}
    /\ crl.certs \subseteq revoked
    /\ copy.ca = ca => copy.certs \subseteq crl.certs
    /\ crl.ca # 0 /\ ~newer => copy = crl

(* What was reported as revoked is in the server's copy, as long as the    *)
(* authority is the one in pki/.                                           *)
Denied ==
    \A d \in denied : d[1] <= cas /\ (d[1] = ca => copy.ca = ca /\ d[2] \in copy.certs)

(* The certificate that was returned is not in a list of its authority.    *)
Created ==
    reply.is = "created" =>
        /\ reply.of[3] # 0
        /\ copy.ca = reply.of[1] => <<reply.of[2], reply.of[3]>> \notin copy.certs

OneTarget == target = {} \/ \E t \in target : target = {t}

Inv ==
    /\ TypeOK /\ Handlers /\ Database /\ Lists /\ Denied
    /\ Created /\ GeneratedIsUsable /\ OneTarget

USE NamesAssumption, BoundAssumption
    DEF pki, files, locals, Says, NoConfig, Done

(***************************************************************************)
(* Each action keeps the invariant.                                        *)
(***************************************************************************)

(* A refused call changes nothing but the reply.                           *)
LEMMA RefuseKeeps ==
  ASSUME Inv, Refuse
  PROVE  Inv'
  <1>1. TypeOK'
    BY DEF Inv, TypeOK, Replies, Refuse
  <1>2. Handlers'
    BY DEF Inv, Handlers, Refuse
  <1>3. Created'
    BY DEF Inv, Created, Refuse
  <1>4. GeneratedIsUsable'
    BY DEF Inv, GeneratedIsUsable, Refuse
  <1>5. Database' /\ Lists' /\ Denied' /\ OneTarget'
    BY DEF Inv, Database, Lists, Denied, OneTarget, Last, Refuse
  <1> QED BY <1>1, <1>2, <1>3, <1>4, <1>5 DEF Inv

(* ovpn_genconfig moves the old ovpn_env.sh away.                          *)
LEMMA InitVpnConfigKeeps ==
  ASSUME Inv, NEW d \in Domains, InitVpnConfig(d)
  PROVE  Inv'
  <1>1. TypeOK'
    BY DEF Inv, TypeOK, Replies, Steps, InitVpnConfig
  <1>2. Handlers'
    BY DEF Inv, Handlers, InitVpnConfig
  <1>3. Created'
    BY DEF Inv, Created, InitVpnConfig
  <1>4. GeneratedIsUsable'
    BY DEF Inv, GeneratedIsUsable, InitVpnConfig
  <1>5. Database' /\ Lists' /\ Denied' /\ OneTarget'
    BY DEF Inv, Database, Lists, Denied, OneTarget, Last, InitVpnConfig
  <1> QED BY <1>1, <1>2, <1>3, <1>4, <1>5 DEF Inv

(* The new ovpn_env.sh has the domain of the call.                         *)
LEMMA WriteEnvKeeps ==
  ASSUME Inv, WriteEnv
  PROVE  Inv'
  <1>1. TypeOK'
    BY DEF Inv, TypeOK, Handlers, Steps, WriteEnv
  <1>2. Handlers'
    BY DEF Inv, Handlers, WriteEnv
  <1>3. GeneratedIsUsable'
    BY DEF Inv, GeneratedIsUsable, Handlers, WriteEnv
  <1>4. Database' /\ Lists' /\ Denied' /\ Created' /\ OneTarget'
    BY DEF Inv, Database, Lists, Denied, Created, OneTarget, Last, WriteEnv
  <1> QED BY <1>1, <1>2, <1>3, <1>4 DEF Inv

(* ovpn_genconfig moves the old openvpn.conf away.                         *)
LEMMA BackupConfKeeps ==
  ASSUME Inv, BackupConf
  PROVE  Inv'
  <1>1. TypeOK'
    BY DEF Inv, TypeOK, Steps, BackupConf
  <1>2. Handlers'
    BY DEF Inv, Handlers, BackupConf
  <1>3. GeneratedIsUsable'
    BY DEF Inv, GeneratedIsUsable, Handlers, BackupConf
  <1>4. Database' /\ Lists' /\ Denied' /\ Created' /\ OneTarget'
    BY DEF Inv, Database, Lists, Denied, Created, OneTarget, Last, BackupConf
  <1> QED BY <1>1, <1>2, <1>3, <1>4 DEF Inv

(* The new openvpn.conf has the domain of the call.                        *)
LEMMA WriteConfKeeps ==
  ASSUME Inv, WriteConf
  PROVE  Inv'
  <1>1. TypeOK'
    BY DEF Inv, TypeOK, Handlers, Steps, WriteConf
  <1>2. Handlers'
    BY DEF Inv, Handlers, WriteConf
  <1>3. GeneratedIsUsable'
    BY DEF Inv, GeneratedIsUsable, Handlers, WriteConf
  <1>4. Database' /\ Lists' /\ Denied' /\ Created' /\ OneTarget'
    BY DEF Inv, Database, Lists, Denied, Created, OneTarget, Last, WriteConf
  <1> QED BY <1>1, <1>2, <1>3, <1>4 DEF Inv

(* An empty pki/ has no authority, hence nothing to revoke.                *)
LEMMA InitPkiKeeps ==
  ASSUME Inv, InitPki
  PROVE  Inv'
  <1>1. TypeOK'
    <2>1. NoCrl \in CrlType /\ NoCrl.ca = 0
      BY DEF NoCrl, CrlType
    <2>2. crt' \in [Names -> 0..MaxSerial]
      BY DEF InitPki, EmptyPki
    <2> QED
      BY <2>1, <2>2 DEF Inv, TypeOK, Steps, InitPki, EmptyPki
  <1>2. Handlers'
    BY DEF Inv, Handlers, InitPki, EmptyPki
  <1>3. Database'
    BY FS_EmptySet DEF Database, TypeOK, Inv, InitPki, EmptyPki
  <1>4. Lists'
    BY DEF Inv, Lists, InitPki, EmptyPki, NoCrl
  <1>5. Denied'
    BY DEF Inv, Denied, TypeOK, InitPki, EmptyPki
  <1>6. GeneratedIsUsable'
    BY DEF Inv, GeneratedIsUsable, Handlers, InitPki
  <1>7. Created' /\ OneTarget'
    BY DEF Inv, Created, OneTarget, InitPki, EmptyPki, NoCrl
  <1> QED BY <1>1, <1>2, <1>3, <1>4, <1>5, <1>6, <1>7 DEF Inv

(* The new authority has a number that no copy or reply has.               *)
LEMMA BuildCaKeeps ==
  ASSUME Inv, BuildCa
  PROVE  Inv'
  <1>1. TypeOK'
    BY DEF Inv, TypeOK, Handlers, Steps, BuildCa
  <1>2. Handlers'
    BY DEF Inv, Handlers, TypeOK, BuildCa
  <1>3. Database'
    BY DEF Inv, Database, TypeOK, Last, BuildCa
  <1>4. Lists'
    BY DEF Inv, Lists, TypeOK, CrlType, BuildCa
  <1>5. Denied'
    BY DEF Inv, Denied, TypeOK, BuildCa
  <1>6. GeneratedIsUsable'
    BY DEF Inv, GeneratedIsUsable, Handlers, BuildCa
  <1>7. Created' /\ OneTarget'
    BY DEF Inv, Created, OneTarget, BuildCa
  <1> QED BY <1>1, <1>2, <1>3, <1>4, <1>5, <1>6, <1>7 DEF Inv

(* dh.pem and ta.key are there once their steps are past.                  *)
LEMMA MakeParametersKeeps ==
  ASSUME Inv, MakeParameters
  PROVE  Inv'
  <1>1. TypeOK'
    BY DEF Inv, TypeOK, Steps, MakeParameters
  <1>2. Handlers'
    BY DEF Inv, Handlers, MakeParameters
  <1>3. GeneratedIsUsable'
    BY DEF Inv, GeneratedIsUsable, Usable, MakeParameters
  <1>4. Database' /\ Lists' /\ Denied' /\ Created' /\ OneTarget'
    BY DEF Inv, Database, Lists, Denied, Created, OneTarget, Last,
           MakeParameters
  <1> QED BY <1>1, <1>2, <1>3, <1>4 DEF Inv

(* The server's certificate is that of the configuration.                  *)
LEMMA BuildServerKeeps ==
  ASSUME Inv, BuildServer
  PROVE  Inv'
  <1>1. TypeOK'
    BY DEF Inv, TypeOK, Handlers, Steps, BuildServer
  <1>2. Handlers'
    BY DEF Inv, Handlers, BuildServer
  <1>3. GeneratedIsUsable'
    BY DEF Inv, GeneratedIsUsable, Handlers, BuildServer
  <1>4. Database' /\ Lists' /\ Denied' /\ Created' /\ OneTarget'
    BY DEF Inv, Database, Lists, Denied, Created, OneTarget, Last, BuildServer
  <1> QED BY <1>1, <1>2, <1>3, <1>4 DEF Inv

(* The first list makes the configuration complete.                        *)
LEMMA FirstCrlKeeps ==
  ASSUME Inv, FirstCrl
  PROVE  Inv'
  <1>1. TypeOK'
    BY DEF Inv, TypeOK, Handlers, Replies, CrlType, Steps, FirstCrl, GenCrl
  <1>2. Handlers'
    BY DEF Inv, Handlers, FirstCrl
  <1>3. Lists'
    BY DEF Inv, Lists, Handlers, FirstCrl, GenCrl
  <1>4. Created'
    BY DEF Inv, Created, FirstCrl
  <1>5. GeneratedIsUsable'
    BY DEF Inv, GeneratedIsUsable, Usable, Handlers, TypeOK, FirstCrl, GenCrl
  <1>6. Database' /\ Denied' /\ OneTarget'
    BY DEF Inv, Database, Denied, OneTarget, Last, FirstCrl, GenCrl
  <1> QED BY <1>1, <1>2, <1>3, <1>4, <1>5, <1>6 DEF Inv

(* The list that takes the copy's place is a later stage of it.            *)
LEMMA StartVpnKeeps ==
  ASSUME Inv, StartVpn
  PROVE  Inv'
  <1>1. TypeOK'
    BY DEF Inv, TypeOK, Replies, Steps, StartVpn
  <1>2. Handlers'
    BY DEF Inv, Handlers, StartVpn
  <1>3. Lists'
    BY DEF Inv, Lists, TypeOK, StartVpn
  <1>4. Denied'
    BY DEF Inv, Denied, TypeOK, Lists, StartVpn
  <1>5. Created'
    BY DEF Inv, Created, StartVpn
  <1>6. GeneratedIsUsable'
    BY DEF Inv, GeneratedIsUsable, StartVpn
  <1>7. Database' /\ OneTarget'
    BY DEF Inv, Database, OneTarget, Last, StartVpn
  <1> QED BY <1>1, <1>2, <1>3, <1>4, <1>5, <1>6, <1>7 DEF Inv

(* A server that starts is of the authority in pki/.                       *)
LEMMA RunOpenvpnKeeps ==
  ASSUME Inv, RunOpenvpn
  PROVE  Inv'
  <1>1. TypeOK'
    <2>1. [ca |-> ca, crl |-> copy.ca # 0] \in [ca : 0..MaxCAs, crl : BOOLEAN]
      BY DEF Inv, TypeOK
    <2>2. daemon' \in [ca : 0..MaxCAs, crl : BOOLEAN]
      BY <2>1 DEF Inv, TypeOK, RunOpenvpn
    <2> QED
      BY <2>2 DEF Inv, TypeOK, Steps, Replies, RunOpenvpn
  <1>2. Handlers'
    BY DEF Inv, Handlers, RunOpenvpn
  <1>3. Created'
    BY DEF Inv, Created, RunOpenvpn
  <1>4. GeneratedIsUsable'
    BY DEF Inv, GeneratedIsUsable, RunOpenvpn
  <1>5. Database' /\ Lists' /\ Denied' /\ OneTarget'
    BY DEF Inv, Database, Lists, Denied, OneTarget, Last, RunOpenvpn, Usable,
           NoDaemon
  <1> QED BY <1>1, <1>2, <1>3, <1>4, <1>5 DEF Inv

(* easyrsa refuses the name of a client that has files.                    *)
LEMMA CreateClientcertKeeps ==
  ASSUME Inv, NEW n \in Names, CreateClientcert(n)
  PROVE  Inv'
  <1>1. TypeOK'
    BY DEF Inv, TypeOK, Replies, Steps, CreateClientcert, MakeKey
  <1>2. Handlers'
    BY DEF Inv, Handlers, Last, CreateClientcert, MakeKey
  <1>3. Database'
    BY DEF Inv, Database, Last, CreateClientcert, MakeKey
  <1>4. Created'
    BY DEF Inv, Created, CreateClientcert, MakeKey
  <1>5. GeneratedIsUsable'
    BY DEF Inv, GeneratedIsUsable, CreateClientcert, MakeKey
  <1>6. Lists' /\ Denied' /\ OneTarget'
    BY DEF Inv, Lists, Denied, OneTarget, CreateClientcert, MakeKey
  <1> QED BY <1>1, <1>2, <1>3, <1>4, <1>5, <1>6 DEF Inv

(* The serial that is signed is a new one, and it is the last of its name. *)
LEMMA SignCounts ==
  ASSUME Inv, Sign
  PROVE  /\ \A n \in Names : Last(n) \in Nat
         /\ <<arg, Last(arg) + 1>> \notin issued
         /\ \A n \in Names : Last(n)' = IF n = arg THEN Last(n) + 1 ELSE Last(n)
  <1> DEFINE new == <<arg, Last(arg) + 1>>
             Of(n) == {c \in issued : c[1] = n}
  <1>1. ASSUME NEW n \in Names
        PROVE  IsFiniteSet(Of(n)) /\ Last(n) = Cardinality(Of(n)) /\ Last(n) \in Nat
    <2>1. IsFiniteSet(issued) /\ Of(n) \in SUBSET issued
      BY DEF Inv, Database
    <2> QED BY <2>1, FS_Subset, FS_CardinalityType DEF Last
  <1>2. arg \in Names
    BY DEF Inv, Handlers, Sign
  <1>3. new \notin issued
    <2>1. SUFFICES ASSUME new \in issued PROVE FALSE
      OBVIOUS
    <2>2. new[2] <= Last(new[1])
      BY <2>1 DEF Inv, Database
    <2>3. new[1] = arg /\ new[2] = Last(arg) + 1
      OBVIOUS
    <2>4. Last(arg) + 1 <= Last(arg) /\ Last(arg) \in Nat
      BY <2>2, <2>3, <1>1, <1>2
    <2> QED BY <2>4
  <1>4. ASSUME NEW n \in Names
        PROVE  Last(n)' = IF n = arg THEN Last(n) + 1 ELSE Last(n)
    <2>1. {c \in issued' : c[1] = n} = IF n = arg THEN Of(n) \cup {new} ELSE Of(n)
      BY DEF Sign
    <2>2. Cardinality(Of(n) \cup {new}) = Cardinality(Of(n)) + 1
      BY <1>1, <1>3, FS_AddElement
    <2> QED BY <2>1, <2>2, <1>1 DEF Last
  <1> QED BY <1>1, <1>2, <1>3, <1>4

(* A new serial is neither revoked nor in any list.                        *)
LEMMA SignKeeps ==
  ASSUME Inv, Sign
  PROVE  Inv'
  <1>1. TypeOK'
    <2>1. Last(arg) + 1 \in 1..MaxSerial
      BY SignCounts DEF Inv, Handlers, TypeOK, Sign
    <2>2. issued' \subseteq Cert
      BY <2>1 DEF Inv, Handlers, TypeOK, Cert, Sign
    <2>3. Last(arg) + 1 \in 0..MaxSerial
      BY <2>1
    <2>4. crt' \in [Names -> 0..MaxSerial]
      BY <2>3 DEF Inv, TypeOK, Sign
    <2> QED
      BY <2>2, <2>4 DEF Inv, TypeOK, Steps, Sign
  <1>2. Handlers'
    <2>1. crt'[arg] = Last(arg) + 1 /\ Last(arg) + 1 # 0
      BY SignCounts DEF Inv, Handlers, TypeOK, Sign
    <2>2. <<arg, Last(arg) + 1>> \notin revoked
      BY SignCounts DEF Inv, TypeOK
    <2> QED
      BY <2>1, <2>2 DEF Inv, Handlers, Sign
  <1>3. Database'
    <2> DEFINE new == <<arg, Last(arg) + 1>>
    <2>1. IsFiniteSet(issued')
      BY FS_AddElement DEF Inv, Database, Sign
    <2>2. ASSUME NEW c \in issued' PROVE c[2] <= Last(c[1])'
      <3>1. c \in Cert \/ c = new
        BY DEF Inv, TypeOK, Sign
      <3>2. c[1] \in Names
        BY <3>1 DEF Cert, Inv, Handlers, Sign
      <3>3. CASE c = new
        BY <3>2, <3>3, SignCounts
      <3>4. CASE c \in issued
        <4>1. c[2] <= Last(c[1]) /\ c[2] \in Nat
          BY <3>4 DEF Inv, Database, TypeOK, Cert
        <4> QED BY <4>1, <3>2, SignCounts
      <3> QED BY <3>3, <3>4 DEF Sign
    <2>3. ASSUME NEW c \in issued' \ revoked' PROVE crt'[c[1]] = c[2]
      <3>1. CASE c = new
        BY <3>1 DEF Inv, Handlers, TypeOK, Sign
      <3>2. CASE c \in issued
        <4>1. crt[c[1]] = c[2] /\ c[2] # 0
          BY <3>2 DEF Inv, Database, TypeOK, Cert, Sign
        <4>2. c[1] # arg
          BY <4>1 DEF Inv, Handlers, Sign
        <4> QED BY <4>1, <4>2, <3>2 DEF Inv, TypeOK, Cert, Sign
      <3> QED BY <3>1, <3>2 DEF Sign
    <2>4. ASSUME NEW n \in Names, crt'[n] # 0 PROVE <<n, crt'[n]>> \in issued'
      BY <2>4 DEF Inv, Database, TypeOK, Sign
    <2>5. ca' # 0
      BY DEF Inv, Handlers, Sign
    <2> QED BY <2>1, <2>2, <2>3, <2>4, <2>5 DEF Database
  <1>4. Lists' /\ Denied' /\ Created' /\ GeneratedIsUsable' /\ OneTarget'
    BY DEF Inv, Lists, Denied, Created, GeneratedIsUsable, OneTarget, Usable,
           Sign
  <1> QED BY <1>1, <1>2, <1>3, <1>4 DEF Inv

(* What create-clientcert returns is a certificate in force.               *)
LEMMA GetClientKeeps ==
  ASSUME Inv, GetClient
  PROVE  Inv'
  <1>1. TypeOK'
    BY DEF Inv, TypeOK, Handlers, Replies, Steps, GetClient, Config
  <1>2. Handlers'
    BY DEF Inv, Handlers, GetClient
  <1>3. Created'
    BY DEF Inv, Created, Handlers, Lists, GetClient, Config
  <1>4. GeneratedIsUsable'
    BY DEF Inv, GeneratedIsUsable, GetClient
  <1>5. Database' /\ Lists' /\ Denied' /\ OneTarget'
    BY DEF Inv, Database, Lists, Denied, OneTarget, Last, GetClient, Config
  <1> QED BY <1>1, <1>2, <1>3, <1>4, <1>5 DEF Inv

(* The files of a revoked certificate stay, or go.                         *)
LEMMA RevokedFiles ==
  ASSUME NEW n \in Names, RevokeClient(n)
  PROVE  \/ key' = key /\ crt' = crt
         \/ key' = key \ {n} /\ crt' = [crt EXCEPT ![n] = 0]
  <1>1. PICK keeps \in KeepsFiles :
           /\ key' = IF keeps THEN key ELSE key \ {n}
           /\ crt' = IF keeps THEN crt ELSE [crt EXCEPT ![n] = 0]
    BY DEF RevokeClient
  <1>2. CASE keeps
    BY <1>1, <1>2
  <1>3. CASE ~keeps
    BY <1>1, <1>3
  <1> QED BY <1>2, <1>3

(* A certificate that is marked is not in force any more.                  *)
LEMMA RevokeClientKeeps ==
  ASSUME Inv, NEW n \in Names, RevokeClient(n)
  PROVE  Inv'
  <1>1. TypeOK'
    <2>1. <<n, crt[n]>> \in Cert /\ <<n, crt[n]>> \in issued
      BY DEF Inv, Database, TypeOK, RevokeClient
    <2>2. crt' \in [Names -> 0..MaxSerial] /\ key' \subseteq Names
      BY RevokedFiles DEF Inv, TypeOK
    <2> QED
      BY <2>1, <2>2 DEF Inv, TypeOK, Steps, Replies, RevokeClient
  <1>2. Handlers'
    <2>1. ca # 0
      BY DEF Inv, Database, RevokeClient
    <2> QED
      BY <2>1 DEF Inv, Handlers, RevokeClient
  <1>3. Database'
    <2>1. ASSUME NEW c \in issued \ revoked' PROVE crt'[c[1]] = c[2]
      <3>1. c \in Cert /\ c \notin revoked /\ crt[c[1]] = c[2]
        BY DEF Inv, Database, TypeOK, RevokeClient
      <3>2. c[1] # n
        BY <3>1 DEF Cert, RevokeClient
      <3> QED BY <3>1, <3>2, RevokedFiles DEF Cert, Inv, TypeOK
    <2>2. ASSUME NEW m \in Names, crt'[m] # 0 PROVE <<m, crt'[m]>> \in issued
      BY <2>2, RevokedFiles DEF Inv, Database, TypeOK
    <2> QED
      BY <2>1, <2>2, RevokedFiles DEF Inv, Database, Last, RevokeClient
  <1>4. Lists'
    BY DEF Inv, Lists, RevokeClient
  <1>5. Created'
    BY DEF Inv, Created, RevokeClient
  <1>6. GeneratedIsUsable'
    BY DEF Inv, GeneratedIsUsable, RevokeClient
  <1>7. Denied' /\ OneTarget'
    BY DEF Inv, Denied, OneTarget, RevokeClient
  <1> QED BY <1>1, <1>2, <1>3, <1>4, <1>5, <1>6, <1>7 DEF Inv

(* The list in pki/ becomes all that is marked.                            *)
LEMMA RevokeGenCrlKeeps ==
  ASSUME Inv, RevokeGenCrl
  PROVE  Inv'
  <1>1. TypeOK'
    BY DEF Inv, TypeOK, Handlers, CrlType, Steps, RevokeGenCrl, GenCrl
  <1>2. Handlers'
    BY DEF Inv, Handlers, RevokeGenCrl, GenCrl
  <1>3. Lists'
    BY DEF Inv, Lists, Handlers, RevokeGenCrl, GenCrl
  <1>4. GeneratedIsUsable'
    BY DEF Inv, GeneratedIsUsable, Usable, RevokeGenCrl, GenCrl
  <1>5. Database' /\ Denied' /\ Created' /\ OneTarget'
    BY DEF Inv, Database, Denied, Created, OneTarget, Last, RevokeGenCrl,
           GenCrl
  <1> QED BY <1>1, <1>2, <1>3, <1>4, <1>5 DEF Inv

(* The revocation is reported once the copy has it.                        *)
LEMMA CopyCrlKeeps ==
  ASSUME Inv, CopyCrl
  PROVE  Inv'
  <1>1. TypeOK'
    <2>1. <<ca, arg>> \in (1..MaxCAs) \X Cert
      BY DEF Inv, TypeOK, Handlers, CopyCrl, RevokeReported
    <2>2. denied' \subseteq (1..MaxCAs) \X Cert
      BY <2>1 DEF Inv, TypeOK, CopyCrl, RevokeReported
    <2> QED
      BY <2>2 DEF Inv, TypeOK, Steps, Replies, CopyCrl, RevokeReported
  <1>2. Handlers'
    BY DEF Inv, Handlers, CopyCrl, RevokeReported
  <1>3. Lists'
    BY DEF Inv, Lists, TypeOK, CopyCrl, RevokeReported
  <1>4. Denied'
    BY DEF Inv, Denied, TypeOK, Lists, Handlers, CopyCrl, RevokeReported
  <1>5. Created'
    BY DEF Inv, Created, CopyCrl, RevokeReported
  <1>6. GeneratedIsUsable'
    BY DEF Inv, GeneratedIsUsable, CopyCrl, RevokeReported
  <1>7. Database' /\ OneTarget'
    BY DEF Inv, Database, OneTarget, Last, CopyCrl, RevokeReported
  <1> QED BY <1>1, <1>2, <1>3, <1>4, <1>5, <1>6, <1>7 DEF Inv

(* The directory is emptied before a key is put into it.                   *)
LEMMA CopyServerFilesKeeps ==
  ASSUME Inv, CopyServerFiles
  PROVE  Inv'
  <1>1. TypeOK'
    BY DEF Inv, TypeOK, Replies, Steps, CopyServerFiles
  <1>2. Handlers'
    BY DEF Inv, Handlers, CopyServerFiles
  <1>3. Created'
    BY DEF Inv, Created, CopyServerFiles
  <1>4. GeneratedIsUsable'
    BY DEF Inv, GeneratedIsUsable, CopyServerFiles
  <1>5. OneTarget'
    BY DEF Inv, OneTarget, CopyServerFiles
  <1>6. Database' /\ Lists' /\ Denied'
    BY DEF Inv, Database, Lists, Denied, Last, CopyServerFiles
  <1> QED BY <1>1, <1>2, <1>3, <1>4, <1>5, <1>6 DEF Inv

(* One key is put into the empty directory.                                *)
LEMMA TarKeeps ==
  ASSUME Inv, Tar
  PROVE  Inv'
  <1>1. TypeOK'
    <2>1. env = cn /\ ca # 0 => <<ca, cn>> \in (1..MaxCAs) \X Domains
      BY DEF Inv, TypeOK, Handlers, Tar
    <2>2. target' \subseteq (1..MaxCAs) \X Domains
      BY <2>1 DEF Inv, TypeOK, Tar
    <2> QED
      BY <2>2 DEF Inv, TypeOK, Steps, Replies, Tar
  <1>2. Handlers'
    BY DEF Inv, Handlers, Tar
  <1>3. Created'
    BY DEF Inv, Created, Tar
  <1>4. GeneratedIsUsable'
    BY DEF Inv, GeneratedIsUsable, Tar
  <1>5. OneTarget'
    BY DEF Inv, OneTarget, Handlers, Tar
  <1>6. Database' /\ Lists' /\ Denied'
    BY DEF Inv, Database, Lists, Denied, Last, Tar
  <1> QED BY <1>1, <1>2, <1>3, <1>4, <1>5, <1>6 DEF Inv

(* A handler that fails leaves what it had done.                           *)
LEMMA CommandFailsKeeps ==
  ASSUME Inv, CommandFails
  PROVE  Inv'
  <1>1. TypeOK'
    BY DEF Inv, TypeOK, Replies, Steps, CommandFails
  <1>2. Handlers'
    BY DEF Inv, Handlers, CommandFails
  <1>3. Database'
    BY DEF Inv, Database, Last, CommandFails
  <1>4. Created'
    BY DEF Inv, Created, CommandFails
  <1>5. GeneratedIsUsable'
    BY DEF Inv, GeneratedIsUsable, CommandFails
  <1>6. Lists' /\ Denied' /\ OneTarget'
    BY DEF Inv, Lists, Denied, OneTarget, CommandFails
  <1> QED BY <1>1, <1>2, <1>3, <1>4, <1>5, <1>6 DEF Inv

(* A handler that is killed leaves what it had done.                       *)
LEMMA KillKeeps ==
  ASSUME Inv, Kill
  PROVE  Inv'
  <1>1. TypeOK'
    BY DEF Inv, TypeOK, Replies, Steps, Kill
  <1>2. Handlers'
    BY DEF Inv, Handlers, Kill
  <1>3. Created'
    BY DEF Inv, Created, Kill
  <1>4. GeneratedIsUsable'
    BY DEF Inv, GeneratedIsUsable, Kill
  <1>5. Database' /\ Lists' /\ Denied' /\ OneTarget'
    BY DEF Inv, Database, Lists, Denied, OneTarget, Last, Kill
  <1> QED BY <1>1, <1>2, <1>3, <1>4, <1>5 DEF Inv

(* A server that is gone admits nobody.                                    *)
LEMMA DaemonDiesKeeps ==
  ASSUME Inv, DaemonDies
  PROVE  Inv'
  <1>1. TypeOK'
    BY DEF Inv, TypeOK, DaemonDies, NoDaemon
  <1>2. Handlers' /\ Database' /\ Lists' /\ Denied' /\ Created'
        /\ GeneratedIsUsable' /\ OneTarget'
    BY DEF Inv, Handlers, Database, Lists, Denied, Created, GeneratedIsUsable,
           OneTarget, Usable, Last, DaemonDies, NoDaemon
  <1> QED BY <1>1, <1>2 DEF Inv

(* A restart leaves the files, and no handler or server.                   *)
LEMMA RestartKeeps ==
  ASSUME Inv, Restart
  PROVE  Inv'
  <1>1. TypeOK'
    BY DEF Inv, TypeOK, Replies, Steps, Restart, NoDaemon
  <1>2. Handlers'
    BY DEF Inv, Handlers, Restart
  <1>3. Created'
    BY DEF Inv, Created, Restart
  <1>4. GeneratedIsUsable'
    BY DEF Inv, GeneratedIsUsable, Restart
  <1>5. Database' /\ Lists' /\ Denied' /\ OneTarget'
    BY DEF Inv, Database, Lists, Denied, OneTarget, Last, Restart, NoDaemon
  <1> QED BY <1>1, <1>2, <1>3, <1>4, <1>5 DEF Inv

(* A new container has no files: no authority is in pki/.                  *)
LEMMA RecreateKeeps ==
  ASSUME Inv, Recreate
  PROVE  Inv'
  <1>1. TypeOK'
    <2>1. NoCrl \in CrlType /\ NoCrl.ca = 0
      BY DEF NoCrl, CrlType
    <2>2. crt' \in [Names -> 0..MaxSerial]
      BY DEF Recreate, NoFiles, EmptyPki
    <2>3. NoDaemon \in [ca : 0..MaxCAs, crl : BOOLEAN]
      BY DEF NoDaemon
    <2> QED
      BY <2>1, <2>2, <2>3
         DEF Inv, TypeOK, Steps, Replies, Recreate, NoFiles, EmptyPki
  <1>2. Handlers'
    BY DEF Inv, Handlers, Recreate, NoFiles
  <1>3. Database'
    BY FS_EmptySet DEF Database, TypeOK, Inv, Recreate, NoFiles, EmptyPki
  <1>4. Lists'
    BY DEF Inv, Lists, TypeOK, Recreate, NoFiles, NoCrl
  <1>5. Denied'
    BY DEF Inv, Denied, TypeOK, Recreate, NoFiles, EmptyPki
  <1>6. Created'
    BY DEF Inv, Created, Recreate, NoFiles
  <1>7. GeneratedIsUsable'
    BY DEF Inv, GeneratedIsUsable, Recreate, NoFiles
  <1>8. OneTarget'
    BY DEF Inv, OneTarget, Recreate, NoFiles
  <1> QED BY <1>1, <1>2, <1>3, <1>4, <1>5, <1>6, <1>7, <1>8 DEF Inv

(***************************************************************************)
(* The theorems.                                                           *)
(***************************************************************************)

(* The image has no configuration and no authority.                        *)
LEMMA InitInv == Init => Inv
  <1> SUFFICES ASSUME Init PROVE Inv
    OBVIOUS
  <1>1. TypeOK
    <2>1. NoCrl \in CrlType /\ NoCrl.ca = 0 /\ NoDaemon \in [ca : 0..MaxCAs, crl : BOOLEAN]
      BY DEF NoCrl, CrlType, NoDaemon
    <2>2. crt \in [Names -> 0..MaxSerial] /\ arg \in Domains \cup Names \cup Cert \cup {NoName}
      BY DEF Init
    <2>3. reply \in Replies
      BY DEF Init, Replies
    <2>4. pc \in Steps
      BY DEF Init, Steps
    <2>5. /\ crl \in CrlType /\ crl.ca \in {0, ca} /\ copy \in CrlType
          /\ daemon \in [ca : 0..MaxCAs, crl : BOOLEAN]
      BY <2>1 DEF Init
    <2>6. cas \in 0..MaxCAs /\ ca \in {0, cas}
      BY DEF Init
    <2>7. newer \in BOOLEAN /\ (newer => crl.ca # 0)
      BY Zenon DEF Init
    <2> QED BY <2>2, <2>3, <2>4, <2>5, <2>6, <2>7 DEF Init, TypeOK
  <1>2. Database
    BY FS_EmptySet DEF Init, Database
  <1>3. Lists /\ Denied
    BY DEF Init, Lists, Denied, NoCrl
  <1>4. Handlers /\ Created /\ GeneratedIsUsable /\ OneTarget
    BY DEF Init, Handlers, Created, GeneratedIsUsable, OneTarget
  <1> QED BY <1>1, <1>2, <1>3, <1>4 DEF Inv

(* A step of nothing keeps the invariant.                                  *)
LEMMA StutterKeeps == Inv /\ UNCHANGED vars => Inv'
  <1> SUFFICES ASSUME Inv, UNCHANGED vars PROVE Inv'
    OBVIOUS
  <1>1. TypeOK'
    BY DEF vars, Inv, TypeOK
  <1>2. Handlers' /\ Database' /\ Lists'
    BY DEF vars, Inv, Handlers, Database, Lists, Last
  <1>3. Denied' /\ Created' /\ GeneratedIsUsable' /\ OneTarget'
    BY DEF vars, Inv, Denied, Created, GeneratedIsUsable, Usable, OneTarget
  <1> QED BY <1>1, <1>2, <1>3 DEF Inv

(* Every step of the charm, of the scripts and every fault keeps it.       *)
LEMMA NextKeeps == Inv /\ [Next]_vars => Inv'
  <1> SUFFICES ASSUME Inv, [Next]_vars PROVE Inv'
    OBVIOUS
  <1>1. CASE Handler
    BY <1>1, RefuseKeeps, InitVpnConfigKeeps, WriteEnvKeeps, BackupConfKeeps,
       WriteConfKeeps, InitPkiKeeps, BuildCaKeeps, MakeParametersKeeps,
       BuildServerKeeps, FirstCrlKeeps, StartVpnKeeps, RunOpenvpnKeeps,
       CreateClientcertKeeps, SignKeeps, GetClientKeeps, RevokeClientKeeps,
       RevokeGenCrlKeeps, CopyCrlKeeps, CopyServerFilesKeeps, TarKeeps
       DEF Handler
  <1> QED
    BY <1>1, CommandFailsKeeps, KillKeeps, DaemonDiesKeeps, RestartKeeps,
       RecreateKeeps, StutterKeeps DEF Next

(* The invariant holds in every state of every execution.                  *)
THEOREM Invariance == Spec => []Inv
  BY InitInv, NextKeeps, PTL DEF Spec

(***************************************************************************)
(* The properties.                                                         *)
(***************************************************************************)

(* Every file and process stays of its kind, and pki/ never holds the list *)
(* of another authority.                                                   *)
THEOREM TypeCorrect == Spec => []TypeOK
  <1>1. Inv => TypeOK
    BY DEF Inv
  <1> QED BY <1>1, Invariance, PTL

(* A revocation that was reported as done is enforced by every server of   *)
(* the authority that reads a list, whatever is retried, cut short or      *)
(* restarted afterwards.                                                   *)
THEOREM RevocationsAreEnforced == Spec => []RevokedStaysOut
  <1>1. Inv => RevokedStaysOut
    BY DEF Inv, Denied, RevokedStaysOut, Admits
  <1> QED BY <1>1, Invariance, PTL

(* The list that the operator is shown and what such a server does differ  *)
(* only while a newer list waits in pki/.                                  *)
THEOREM ListingIsTrue == Spec => []ListMatchesServer
  <1>1. Inv => ListMatchesServer
    BY DEF Inv, Lists, ListMatchesServer, Status, Admits
  <1> QED BY <1>1, Invariance, PTL

(* The certificate that create-clientcert returns is there, is not revoked *)
(* and is let in.                                                          *)
THEOREM CreatedCertificateWorks == Spec => []CreatedIsAdmitted
  <1>1. Inv => CreatedIsAdmitted
    BY DEF Inv, Created, CreatedIsAdmitted, Admits
  <1> QED BY <1>1, Invariance, PTL

(* An init-vpnconfig that succeeds leaves a configuration and an authority *)
(* of one set-up, whatever was left from earlier ones.                     *)
THEOREM GenerationIsUsable == Spec => []GeneratedIsUsable
  <1>1. Inv => GeneratedIsUsable
    BY DEF Inv
  <1> QED BY <1>1, Invariance, PTL

(* The second machine's directory has the key of one server at most.       *)
THEOREM CopyHasOneKey == Spec => []OneServerKey
  <1>1. Inv => OneServerKey
    <2> SUFFICES ASSUME Inv PROVE Cardinality(target) <= 1
      BY DEF OneServerKey
    <2>1. CASE target = {}
      BY <2>1, FS_EmptySet
    <2>2. CASE \E t \in target : target = {t}
      BY <2>2, FS_Singleton
    <2> QED BY <2>1, <2>2 DEF Inv, OneTarget
  <1> QED BY <1>1, Invariance, PTL

(***************************************************************************)
(* Each command is a step of the abstract authority, or none.              *)
(***************************************************************************)

(* Without a pki/ nothing is issued or revoked.                            *)
LEMMA AuthorityInit == Init => Authority!Init
  BY DEF Init, Authority!Init, NoCrl

(* Signing is Issue: the name's other certificates are revoked.            *)
LEMMA SignIssues ==
  ASSUME Inv, Sign
  PROVE  \E c \in Authority!Cert : Authority!Issue(c)
  <1> DEFINE new == <<arg, Last(arg) + 1>>
  <1>1. new \in Authority!Cert /\ new \notin issued
    BY SignCounts DEF Inv, Handlers, TypeOK, Sign, Authority!Cert
  <1>2. ASSUME NEW d \in issued, d[1] = arg PROVE d \in revoked
    <2>1. d \notin revoked => crt[arg] = d[2]
      BY <1>2 DEF Inv, Database
    <2>2. d[2] # 0
      BY DEF Inv, TypeOK, Cert
    <2> QED BY <2>1, <2>2 DEF Inv, Handlers, Sign
  <1>3. Authority!Issue(new)
    BY <1>1, <1>2 DEF Authority!Issue, Sign
  <1> QED BY <1>1, <1>3

(* easyrsa revoke is Revoke, of a certificate in force.                    *)
LEMMA RevokeRevokes ==
  ASSUME Inv, NEW n \in Names, RevokeClient(n)
  PROVE  \E c \in Authority!Cert : Authority!Revoke(c)
  <1>1. <<n, crt[n]>> \in issued /\ <<n, crt[n]>> \in Authority!Cert
    BY DEF Inv, Database, TypeOK, Cert, RevokeClient, Authority!Cert
  <1>2. Authority!Revoke(<<n, crt[n]>>)
    BY <1>1 DEF RevokeClient, Authority!Revoke
  <1> QED BY <1>1, <1>2

(* Both uses of easyrsa gen-crl are Publish.                               *)
LEMMA ListsArePublished ==
  ASSUME Inv, FirstCrl \/ RevokeGenCrl
  PROVE  Authority!Publish
  BY DEF FirstCrl, RevokeGenCrl, GenCrl, Authority!Publish

(* Both copies of the list are Enforce, or change nothing.                 *)
LEMMA CopiesAreEnforced ==
  ASSUME Inv, StartVpn \/ CopyCrl
  PROVE  Authority!Enforce \/ UNCHANGED Authority!vars
  <1>1. CASE StartVpn /\ newer
    BY <1>1 DEF Inv, TypeOK, StartVpn, Authority!Enforce
  <1>2. CASE StartVpn /\ ~newer
    BY <1>2 DEF StartVpn, Authority!vars
  <1>3. CASE CopyCrl
    BY <1>3 DEF Inv, Handlers, CopyCrl, RevokeReported, Authority!Enforce
  <1> QED BY <1>1, <1>2, <1>3

(* A pki/ that is emptied is Replace.                                      *)
LEMMA PkiIsReplaced ==
  ASSUME Inv, InitPki \/ Recreate
  PROVE  Authority!Replace
  BY DEF Inv, Lists, InitPki, Recreate, NoFiles, EmptyPki, NoCrl,
         Authority!Replace

(* The new authority has a number of its own, which no copy has.           *)
LEMMA NewCaStutters ==
  ASSUME Inv, BuildCa
  PROVE  UNCHANGED Authority!vars
  <1>1. copy.ca # cas + 1
    BY DEF Inv, Lists, TypeOK, CrlType
  <1>2. ca = 0 /\ (copy.ca = 0 => copy.certs = {})
    BY DEF Inv, Handlers, Lists, BuildCa
  <1> QED BY <1>1, <1>2 DEF BuildCa, Authority!vars

(* Every step of the scripts is one of the authority, or none.             *)
LEMMA AuthorityStep ==
  ASSUME Inv, [Next]_vars
  PROVE  [Authority!Next]_(Authority!vars)
  <1>1. CASE Sign
    BY <1>1, SignIssues DEF Authority!Next
  <1>2. ASSUME NEW n \in Names, RevokeClient(n)
        PROVE  Authority!Next
    BY <1>2, RevokeRevokes DEF Authority!Next
  <1>3. CASE FirstCrl \/ RevokeGenCrl
    BY <1>3, ListsArePublished DEF Authority!Next
  <1>4. CASE StartVpn \/ CopyCrl
    BY <1>4, CopiesAreEnforced DEF Authority!Next
  <1>5. CASE InitPki \/ Recreate
    BY <1>5, PkiIsReplaced DEF Authority!Next
  <1>6. CASE BuildCa
    BY <1>6, NewCaStutters
  <1>7. CASE UNCHANGED <<ca, issued, revoked, crl, copy>>
    BY <1>7 DEF Authority!vars
  <1>8. CASE Handler
    BY <1>1, <1>2, <1>3, <1>4, <1>5, <1>6, <1>7, <1>8
       DEF Handler, Refuse, InitVpnConfig, WriteEnv, BackupConf, WriteConf,
           MakeParameters, BuildServer, RunOpenvpn, CreateClientcert, MakeKey,
           GetClient, CopyServerFiles, Tar
  <1> QED
    BY <1>5, <1>7, <1>8
       DEF Next, vars, CommandFails, Kill, DaemonDies, Restart

(* The scripts implement the authority of CertAuthority.                   *)
THEOREM ScriptsImplementAuthority == Spec => AuthoritySpec
  <1>1. Inv /\ [Next]_vars => [Authority!Next]_(Authority!vars)
    BY AuthorityStep
  <1> QED
    BY <1>1, AuthorityInit, Invariance, PTL
       DEF Spec, AuthoritySpec, Authority!Spec

(* However certificates are issued, revoked and published, a name has at   *)
(* most one certificate of the authority in force, and only revoked ones   *)
(* are turned away.                                                        *)
THEOREM OneCertificateInForce ==
    AuthoritySpec => [](Authority!OneCertificate /\ Authority!Ordered)
  <1> DEFINE Sound == Authority!OneCertificate /\ Authority!Ordered
  <1>1. Authority!Init => Sound
    BY DEF Authority!Init, Authority!OneCertificate, Authority!Ordered
  <1>2. Sound /\ [Authority!Next]_(Authority!vars) => Sound'
    <2> SUFFICES ASSUME Sound, [Authority!Next]_(Authority!vars)
                 PROVE  Sound'
      OBVIOUS
    <2>1. ASSUME NEW c \in Authority!Cert, Authority!Issue(c) PROVE Sound'
      BY <2>1 DEF Authority!Issue, Authority!OneCertificate,
                  Authority!Ordered
    <2>2. ASSUME NEW c \in Authority!Cert, Authority!Revoke(c) PROVE Sound'
      BY <2>2 DEF Authority!Revoke, Authority!OneCertificate,
                  Authority!Ordered
    <2>3. CASE Authority!Publish
      BY <2>3 DEF Authority!Publish, Authority!OneCertificate,
                  Authority!Ordered
    <2>4. CASE Authority!Enforce
      BY <2>4 DEF Authority!Enforce, Authority!OneCertificate,
                  Authority!Ordered
    <2>5. CASE Authority!Replace
      BY <2>5 DEF Authority!Replace, Authority!OneCertificate,
                  Authority!Ordered
    <2>6. CASE UNCHANGED Authority!vars
      BY <2>6 DEF Authority!vars, Authority!OneCertificate,
                  Authority!Ordered
    <2> QED
      BY <2>1, <2>2, <2>3, <2>4, <2>5, <2>6 DEF Authority!Next
  <1> QED BY <1>1, <1>2, PTL DEF AuthoritySpec, Authority!Spec

(* So the scripts never leave a name with two certificates that are in     *)
(* force, and a server that reads the list turns no other one away.        *)
COROLLARY NamesHaveOneCertificate ==
    Spec => [](Authority!OneCertificate /\ Authority!Ordered)
  BY ScriptsImplementAuthority, OneCertificateInForce, PTL
=============================================================================
