----------------------- MODULE WireguardServerProofs -----------------------
(***************************************************************************)
(* Theorems about WireguardServer, for any number of clients, addresses    *)
(* and keys and any set of faults.                                         *)
(***************************************************************************)
EXTENDS WireguardServer, TLAPS

(* The empty file and the absent interface are typed.                      *)
LEMMA EmptyType == EmptyConf \in Confs /\ NoDev \in Devs
  <1>1. NoPeers \in Peers
    BY DEF NoPeers, Peers
  <1> QED
    BY <1>1 DEF EmptyConf, NoDev, Confs, Devs, FileKeys, ConfKeys

(* The commands that rebuild the interface or its file keep their types.   *)
LEMMA DownType ==
    ASSUME TypeOK, WgQuickDown
    PROVE  /\ conf' \in Confs
           /\ dev' \in Devs
           /\ ~dev'.up => dev' = NoDev
           /\ ~conf'.save => conf' = EmptyConf
  <1>1. CASE dev.up /\ conf.save
    <2>1. conf' = [save |-> TRUE, key |-> dev.key,
                   peers |-> dev.peers, seen |-> dev.seen] /\ dev' = NoDev
      BY <1>1 DEF WgQuickDown
    <2>2. conf' \in Confs
      BY <2>1 DEF TypeOK, Confs, Devs, FileKeys, ConfKeys
    <2>3. conf'.save
      BY <2>1
    <2> QED BY <2>1, <2>2, <2>3, EmptyType
  <1>2. CASE dev.up /\ ~conf.save
    BY <1>2, EmptyType DEF WgQuickDown, TypeOK
  <1>3. CASE ~dev.up
    BY <1>3 DEF WgQuickDown, TypeOK
  <1> QED BY <1>1, <1>2, <1>3

LEMMA UpType ==
    ASSUME TypeOK, WgQuickUp
    PROVE  dev' \in Devs /\ (~dev'.up => dev' = NoDev)
  <1>1. CASE /\ CanComeUp
             /\ dev' = [up |-> TRUE, key |-> conf.key,
                        peers |-> conf.peers, seen |-> conf.seen]
    <2>1. conf.key \in FileKeys
      BY <1>1 DEF TypeOK, Confs, CanComeUp, FileKeys, ConfKeys
    <2> QED BY <1>1, <2>1 DEF TypeOK, Confs, Devs
  <1>2. CASE UNCHANGED dev
    BY <1>2 DEF TypeOK
  <1> QED BY <1>1, <1>2 DEF WgQuickUp

LEMMA SetPeerType ==
    ASSUME TypeOK, NEW k, NEW a \in Addr, SetPeer(k, a)
    PROVE  dev' \in Devs /\ (~dev'.up => dev' = NoDev)
  <1>1. CASE dev.up /\ k \in Client
    <2> DEFINE p == [c \in Client |-> IF c = k THEN a
                                      ELSE IF dev.peers[c] = a THEN NoAddr
                                      ELSE dev.peers[c]]
    <2>1. p \in Peers
      BY DEF TypeOK, Devs, Peers, NoAddr
    <2>2. dev' = [dev EXCEPT !.peers = p]
      BY <1>1 DEF SetPeer
    <2> HIDE DEF p
    <2> QED BY <1>1, <2>1, <2>2 DEF TypeOK, Devs
  <1>2. CASE ~(dev.up /\ k \in Client)
    BY <1>2 DEF SetPeer, TypeOK
  <1> QED BY <1>1, <1>2

LEMMA RemovePeerType ==
    ASSUME TypeOK, NEW k, NEW a, MayBeFound(k, a), RemovePeer(k)
    PROVE  dev.up /\ dev' \in Devs /\ dev'.up
  <1>1. dev.up
    BY DEF MayBeFound, ClientFound, TypeOK, NoDev, NoPeers
  <1>2. CASE k \in Client
    <2>1. [dev.peers EXCEPT ![k] = NoAddr] \in Peers
      BY DEF TypeOK, Devs, Peers, NoAddr
    <2> QED BY <1>1, <1>2, <2>1 DEF TypeOK, RemovePeer, Devs
  <1>3. CASE k \notin Client
    BY <1>1, <1>3 DEF TypeOK, RemovePeer
  <1> QED BY <1>1, <1>2, <1>3

(* TypeOK is inductive.                                                    *)
LEMMA TypeInit == Init => TypeOK
  BY EmptyType DEF Init, TypeOK, Requests, Steps, Outcomes, FileKeys,
                   ConfKeys, NoAddr, AnyAddr

LEMMA TypeStep == TypeOK /\ [Next]_vars => TypeOK'
  <1> SUFFICES ASSUME TypeOK, [Next]_vars PROVE TypeOK'
    OBVIOUS
  <1>1. ASSUME NEW n \in ServerKey, InitKeys(n) PROVE TypeOK'
    BY <1>1 DEF TypeOK, InitKeys, Requests, Steps, Outcomes, FileKeys, ConfKeys
  <1>2. CASE InitTruncate
    BY <1>2, EmptyType DEF TypeOK, InitTruncate, Steps, EmptyConf
  <1>3. CASE InitWrite
    <2>1. conf' \in Confs /\ conf'.save
      BY <1>3, EmptyType
         DEF TypeOK, InitWrite, Confs, Requests, EmptyConf
    <2> QED BY <1>3, <2>1 DEF TypeOK, InitWrite, Steps
  <1>4. CASE InitUp
    BY <1>4, UpType DEF TypeOK, InitUp, Steps, Outcomes
  <1>5. ASSUME NEW k \in Client \cup {Malformed}, AddClient(k) PROVE TypeOK'
    <2> PICK a \in Addr \ Used :
             /\ SetPeer(k, a)
             /\ req' = [client |-> k, addr |-> a, key |-> NoKey,
                        live |-> dev.up /\ conf.save]
      BY <1>5 DEF AddClient
    <2>1. dev' \in Devs /\ (~dev'.up => dev' = NoDev)
      BY SetPeerType
    <2>2. (dev.up /\ conf.save) \in BOOLEAN
      OBVIOUS
    <2>3. req' \in Requests
      BY <2>2 DEF Requests, ConfKeys
    <2>4. granted' \in SUBSET Client
      BY <1>5 DEF AddClient, TypeOK
    <2> QED BY <1>5, <2>1, <2>3, <2>4 DEF TypeOK, AddClient, Steps, Outcomes
  <1>6. ASSUME NEW k \in Client \cup {Malformed}, AddClientFull(k)
        PROVE  TypeOK'
    BY <1>6 DEF TypeOK, AddClientFull, Requests, ConfKeys, Outcomes
  <1>7. CASE AddDown
    BY <1>7, DownType DEF TypeOK, AddDown, Steps
  <1>8. CASE AddUp
    BY <1>8, UpType DEF TypeOK, AddUp, Steps, Outcomes
  <1>9. ASSUME NEW k \in Client \cup {Malformed},
               NEW a \in Addr \cup {AnyAddr}, DisconnectClient(k, a)
        PROVE  TypeOK'
    <2>1. dev' \in Devs /\ dev'.up
      BY <1>9, RemovePeerType DEF DisconnectClient
    <2>2. req' \in Requests
      <3>1. (dev.up /\ conf.save) \in BOOLEAN
        OBVIOUS
      <3> QED BY <1>9, <3>1
              DEF DisconnectClient, RemoveRequest, Requests, ConfKeys
    <2> QED BY <1>9, <2>1, <2>2 DEF TypeOK, DisconnectClient, Steps, Outcomes
  <1>10. ASSUME NEW k \in Client \cup {Malformed},
                NEW a \in Addr \cup {AnyAddr}, DisconnectClientRefused(k, a)
         PROVE  TypeOK'
    <2>1. (dev.up /\ conf.save) \in BOOLEAN
      OBVIOUS
    <2>2. req' \in Requests
      BY <1>10, <2>1
         DEF DisconnectClientRefused, RemoveRequest, Requests, ConfKeys
    <2> QED BY <1>10, <2>2 DEF TypeOK, DisconnectClientRefused, Outcomes
  <1>11. CASE RemoveDown
    BY <1>11, DownType DEF TypeOK, RemoveDown, Steps
  <1>12. CASE RemoveUp
    BY <1>12, UpType DEF TypeOK, RemoveUp, Steps, Outcomes
  <1>13. CASE DisconnectServer
    BY <1>13, DownType DEF TypeOK, DisconnectServer, Steps, Outcomes,
                           Requests, ConfKeys
  <1>14. CASE StopTruncate
    BY <1>14, EmptyType DEF TypeOK, StopTruncate, Steps, Outcomes
  <1>15. ASSUME NEW c \in Client, ClientHandshake(c) PROVE TypeOK'
    <2>1. dev.up
      BY <1>15, KeyAssumption DEF ClientHandshake, TypeOK, NoDev
    <2>2. dev' \in Devs /\ dev'.up
      BY <1>15, <2>1 DEF ClientHandshake, TypeOK, Devs
    <2> QED BY <1>15, <2>2 DEF ClientHandshake, TypeOK
  <1>16. CASE Kill
    BY <1>16 DEF TypeOK, Kill, Steps, Outcomes
  <1>17. CASE Restart
    BY <1>17, EmptyType DEF TypeOK, Restart, Steps, Outcomes, FileKeys
  <1>18. CASE UNCHANGED vars
    BY <1>18 DEF TypeOK, vars
  <1>19. ASSUME NEW k \in Client \cup {Malformed}, NEW a \in Addr \cup {AnyAddr},
                DisconnectClientFails(k, a)
         PROVE  TypeOK'
    <2>1. (dev.up /\ conf.save) \in BOOLEAN
      OBVIOUS
    <2>2. req' \in Requests
      BY <1>19, <2>1
         DEF DisconnectClientFails, RemoveRequest, Requests, ConfKeys
    <2> QED BY <1>19, <2>2 DEF TypeOK, DisconnectClientFails, Outcomes
  <1> QED
    BY <1>1, <1>2, <1>3, <1>4, <1>5, <1>6, <1>7, <1>8, <1>9, <1>10, <1>11,
       <1>12, <1>13, <1>14, <1>15, <1>16, <1>17, <1>18, <1>19 DEF Next

(* Every reachable state is typed, an interface that is down keeps nothing *)
(* and a file that is not saved to is empty.                               *)
THEOREM TypeCorrect == Spec => []TypeOK
  BY TypeInit, TypeStep, PTL DEF Spec

(***************************************************************************)
(* Revocation and installation.  Neither is inductive: while a handler     *)
(* cycles the tunnel, the peer is in the interface before wg-quick down    *)
(* and only in the file after it, which HandlerProgress says.              *)
(***************************************************************************)
ClientInv == /\ TypeOK
             /\ RevokedStaysOut
             /\ HandlerProgress
             /\ AddedIsInstalled

(* What the two wg-quick commands do to the address of one client.         *)
LEMMA DownPeers ==
    ASSUME TypeOK, WgQuickDown, NEW c \in Client
    PROVE  /\ dev.up /\ dev.peers[c] = NoAddr => conf'.peers[c] = NoAddr
           /\ dev.up /\ conf.save => conf'.peers[c] = dev.peers[c]
           /\ ~dev'.up
           /\ dev'.peers[c] = NoAddr
           /\ ~dev.up => UNCHANGED <<conf, dev>>
  BY DEF TypeOK, WgQuickDown, NoDev, EmptyConf, NoPeers

LEMMA DownIsDown ==
    ASSUME TypeOK, WgQuickDown PROVE ~dev'.up
  BY DEF TypeOK, WgQuickDown, NoDev

LEMMA UpPeers ==
    ASSUME TypeOK, WgQuickUp, NEW c \in Client
    PROVE  \/ UNCHANGED dev
           \/ ~dev.up /\ dev'.up /\ dev'.peers[c] = conf.peers[c]
  BY DEF TypeOK, WgQuickUp, CanComeUp

LEMMA SetPeerPeers ==
    ASSUME TypeOK, NEW k, NEW a \in Addr, SetPeer(k, a), NEW c \in Client
    PROVE  /\ dev'.up = dev.up
           /\ dev.up /\ c = k => dev'.peers[c] = a
           /\ c # k => dev'.peers[c] \in {NoAddr, dev.peers[c]}
           /\ c # k /\ a \notin Used => dev'.peers[c] = dev.peers[c]
           /\ ~dev.up \/ k \notin Client => UNCHANGED dev
  <1>1. CASE dev.up /\ k \in Client
    <2> DEFINE p == [d \in Client |-> IF d = k THEN a
                                      ELSE IF dev.peers[d] = a THEN NoAddr
                                      ELSE dev.peers[d]]
    <2>1. dev' = [dev EXCEPT !.peers = p]
      BY <1>1 DEF SetPeer
    <2>2. dev'.peers = p /\ dev'.up = dev.up
      BY <2>1 DEF TypeOK, Devs
    <2>3. dev'.peers[c] = IF c = k THEN a
                          ELSE IF dev.peers[c] = a THEN NoAddr
                          ELSE dev.peers[c]
      BY <2>2
    <2>4. dev.peers[c] = a => a \in Used
      BY DEF Used, Addr, NoAddr
    <2> QED BY <1>1, <2>2, <2>3, <2>4
  <1>2. CASE ~(dev.up /\ k \in Client)
    <2>1. dev' = dev
      BY <1>2 DEF SetPeer
    <2>2. CASE ~dev.up
      BY <2>1, <2>2
    <2>3. CASE k \notin Client
      BY <2>1, <2>3
    <2> QED BY <1>2, <2>2, <2>3
  <1> QED BY <1>1, <1>2

LEMMA RemovePeerPeers ==
    ASSUME TypeOK, NEW k, RemovePeer(k), NEW c \in Client
    PROVE  /\ dev'.up = dev.up
           /\ dev'.peers[c] = IF c = k THEN NoAddr ELSE dev.peers[c]
  <1> DEFINE p == [dev.peers EXCEPT ![k] = NoAddr]
  <1>k. CASE k \notin Client
    BY <1>k DEF RemovePeer
  <1> SUFFICES ASSUME k \in Client
               PROVE  /\ dev'.up = dev.up
                      /\ dev'.peers[c] = IF c = k THEN NoAddr ELSE dev.peers[c]
    BY <1>k
  <1>1. p[c] = IF c = k THEN NoAddr ELSE dev.peers[c]
    BY DEF TypeOK, Devs, Peers
  <1>2. dev' = [dev EXCEPT !.peers = p, !.seen = dev.seen \ {k}]
    BY DEF RemovePeer
  <1> HIDE DEF p
  <1>3. dev'.peers = p /\ dev'.up = dev.up
    BY <1>2 DEF TypeOK, Devs
  <1> QED BY <1>1, <1>3

ClientsKept == RevokedStaysOut /\ HandlerProgress /\ AddedIsInstalled

LEMMA ClientInit == Init => ClientInv
  BY TypeInit DEF Init, ClientInv, RevokedStaysOut, HandlerProgress,
                  AddedIsInstalled, NoDev, EmptyConf, NoPeers

(* Every step of a handler, of a client and of the environment keeps them. *)
LEMMA ClientStep == ClientInv /\ [Next]_vars => ClientInv'
  <1> SUFFICES ASSUME TypeOK, RevokedStaysOut, HandlerProgress,
                      AddedIsInstalled, [Next]_vars
               PROVE  ClientsKept'
    BY TypeStep DEF ClientInv, ClientsKept
  <1>e. \A c \in Client : EmptyConf.peers[c] = NoAddr /\ NoDev.peers[c] = NoAddr
    BY DEF EmptyConf, NoDev, NoPeers
  <1>1. ASSUME NEW n \in ServerKey, InitKeys(n) PROVE ClientsKept'
    BY <1>1, ClientAssumption
       DEF InitKeys, ClientsKept, RevokedStaysOut, HandlerProgress, AddedIsInstalled
  <1>2. CASE InitTruncate
    BY <1>2, <1>e
       DEF InitTruncate, ClientsKept, RevokedStaysOut, HandlerProgress, AddedIsInstalled
  <1>3. CASE InitWrite
    <2>1. conf'.peers = EmptyConf.peers
      BY <1>3 DEF InitWrite, EmptyConf
    <2> QED
      BY <1>3, <1>e, <2>1
         DEF InitWrite, ClientsKept, RevokedStaysOut, HandlerProgress, AddedIsInstalled
  <1>4. CASE InitUp
    BY <1>4, UpPeers
       DEF InitUp, ClientsKept, RevokedStaysOut, HandlerProgress, AddedIsInstalled
  <1>5. ASSUME NEW k \in Client \cup {Malformed}, AddClient(k) PROVE ClientsKept'
    <2> PICK a \in Addr \ Used :
             /\ SetPeer(k, a)
             /\ req' = [client |-> k, addr |-> a, key |-> NoKey,
                        live |-> dev.up /\ conf.save]
      BY <1>5 DEF AddClient
    <2>1. pc' = "addDown" /\ reply' = "none" /\ UNCHANGED conf
      BY <1>5 DEF AddClient
    <2>2. RevokedStaysOut'
      <3> SUFFICES ASSUME NEW c \in Client, c \notin granted'
                   PROVE  dev'.peers[c] = NoAddr /\ conf'.peers[c] = NoAddr
        BY DEF RevokedStaysOut
      <3>1. c # k /\ c \notin granted
        BY <1>5 DEF AddClient
      <3>2. dev'.peers[c] \in {NoAddr, dev.peers[c]}
        BY <3>1, SetPeerPeers
      <3> QED BY <2>1, <3>1, <3>2 DEF RevokedStaysOut
    <2>3. HandlerProgress'
      <3>1. req'.client = k /\ req'.addr = a /\ req'.live = (dev.up /\ conf.save)
        OBVIOUS
      <3>2. k \in Client /\ dev.up => dev'.up /\ dev'.peers[k] = a
        BY SetPeerPeers DEF TypeOK, Devs
      <3> QED BY <2>1, <3>1, <3>2 DEF HandlerProgress
    <2> QED BY <2>1, <2>2, <2>3 DEF ClientsKept, AddedIsInstalled
  <1>6. ASSUME NEW k \in Client \cup {Malformed}, AddClientFull(k) PROVE ClientsKept'
    BY <1>6 DEF AddClientFull, ClientsKept, RevokedStaysOut, HandlerProgress,
                AddedIsInstalled
  <1>7. CASE AddDown
    <2>1. RevokedStaysOut'
      BY <1>7, DownPeers DEF AddDown, RevokedStaysOut
    <2>2. HandlerProgress' /\ AddedIsInstalled'
      BY <1>7, DownPeers DEF AddDown, HandlerProgress, AddedIsInstalled
    <2> QED BY <2>1, <2>2 DEF ClientsKept
  <1>8. CASE AddUp
    <2>1. RevokedStaysOut'
      BY <1>8, UpPeers DEF AddUp, RevokedStaysOut
    <2>2. HandlerProgress' /\ AddedIsInstalled'
      BY <1>8, UpPeers DEF AddUp, HandlerProgress, AddedIsInstalled
    <2> QED BY <2>1, <2>2 DEF ClientsKept
  <1>9. ASSUME NEW k \in Client \cup {Malformed},
               NEW a \in Addr \cup {AnyAddr}, DisconnectClient(k, a)
        PROVE  ClientsKept'
    <2>1. RemovePeer(k) /\ MayBeFound(k, a)
      BY <1>9 DEF DisconnectClient
    <2>2. dev.up
      BY <2>1, RemovePeerType
    <2>3. RevokedStaysOut'
      BY <1>9, <2>1, RemovePeerPeers DEF DisconnectClient, RevokedStaysOut
    <2>4. /\ req'.client = k /\ dev'.up
          /\ k \in Client => dev'.peers[k] = NoAddr
      BY <1>9, <2>1, RemovePeerType, RemovePeerPeers
         DEF DisconnectClient, RemoveRequest
    <2> QED BY <1>9, <2>3, <2>4
            DEF DisconnectClient, ClientsKept, HandlerProgress, AddedIsInstalled
  <1>10. ASSUME NEW k \in Client \cup {Malformed},
                NEW a \in Addr \cup {AnyAddr}, DisconnectClientRefused(k, a)
         PROVE  ClientsKept'
    BY <1>10 DEF DisconnectClientRefused, ClientsKept, RevokedStaysOut,
                 HandlerProgress, AddedIsInstalled
  <1>11. CASE RemoveDown
    <2>1. RevokedStaysOut'
      BY <1>11, DownPeers DEF RemoveDown, RevokedStaysOut
    <2>2. HandlerProgress' /\ AddedIsInstalled'
      BY <1>11, DownPeers, DownIsDown
         DEF RemoveDown, HandlerProgress, AddedIsInstalled
    <2> QED BY <2>1, <2>2 DEF ClientsKept
  <1>12. CASE RemoveUp
    <2>1. RevokedStaysOut'
      <3> SUFFICES ASSUME NEW c \in Client, c \notin granted'
                   PROVE  dev'.peers[c] = NoAddr /\ conf'.peers[c] = NoAddr
        BY DEF RevokedStaysOut
      <3>1. conf.peers[c] = NoAddr /\ dev.peers[c] = NoAddr
        <4>1. CASE c = req.client
          BY <1>12, <4>1, <1>e DEF RemoveUp, HandlerProgress, TypeOK
        <4>2. CASE c # req.client
          BY <1>12, <4>2 DEF RemoveUp, RevokedStaysOut
        <4> QED BY <4>1, <4>2
      <3> QED BY <1>12, <3>1, UpPeers DEF RemoveUp
    <2> QED BY <1>12, <2>1
            DEF RemoveUp, ClientsKept, HandlerProgress, AddedIsInstalled
  <1>13. CASE DisconnectServer
    <2>1. RevokedStaysOut'
      BY <1>13, DownPeers DEF DisconnectServer, RevokedStaysOut
    <2> QED BY <1>13, <2>1
            DEF DisconnectServer, ClientsKept, HandlerProgress, AddedIsInstalled
  <1>14. CASE StopTruncate
    BY <1>14, <1>e
       DEF StopTruncate, ClientsKept, RevokedStaysOut, HandlerProgress, AddedIsInstalled
  <1>15. ASSUME NEW c \in Client, ClientHandshake(c) PROVE ClientsKept'
    <2>1. dev'.peers = dev.peers /\ dev'.up = dev.up
      BY <1>15 DEF ClientHandshake, TypeOK, Devs
    <2> QED BY <1>15, <2>1 DEF ClientHandshake, ClientsKept, RevokedStaysOut,
                               HandlerProgress, AddedIsInstalled
  <1>16. CASE Kill
    BY <1>16 DEF Kill, ClientsKept, RevokedStaysOut, HandlerProgress, AddedIsInstalled
  <1>17. CASE Restart
    BY <1>17, <1>e
       DEF Restart, ClientsKept, RevokedStaysOut, HandlerProgress, AddedIsInstalled
  <1>18. CASE UNCHANGED vars
    BY <1>18 DEF vars, ClientsKept, RevokedStaysOut, HandlerProgress, AddedIsInstalled
  <1>19. ASSUME NEW k \in Client \cup {Malformed}, NEW a \in Addr \cup {AnyAddr},
                DisconnectClientFails(k, a)
         PROVE  ClientsKept'
    BY <1>19 DEF DisconnectClientFails, ClientsKept, RevokedStaysOut,
                 HandlerProgress, AddedIsInstalled
  <1> QED
    BY <1>1, <1>2, <1>3, <1>4, <1>5, <1>6, <1>7, <1>8, <1>9, <1>10, <1>11,
       <1>12, <1>13, <1>14, <1>15, <1>16, <1>17, <1>18, <1>19 DEF Next

LEMMA ClientInvariant == Spec => []ClientInv
  BY ClientInit, ClientStep, PTL DEF Spec

(* A client that was removed by its whole key stays out of the interface   *)
(* and of the file until it is added again, under any kills, restarts and  *)
(* failures of wg-quick, and whatever parameters that are no client's key  *)
(* disconnect-client is called with in between.                            *)
THEOREM RevocationIsDurable == Spec => []RevokedStaysOut
  <1>1. ClientInv => RevokedStaysOut
    BY DEF ClientInv
  <1> QED BY <1>1, ClientInvariant, PTL

(* A client added to a server that is up and saves its file is installed   *)
(* when the reply says so.                                                 *)
THEOREM AdditionIsInstalled == Spec => []AddedIsInstalled
  <1>1. ClientInv => AddedIsInstalled
    BY DEF ClientInv
  <1> QED BY <1>1, ClientInvariant, PTL

(***************************************************************************)
(* The registry.  Cycling the tunnel moves the leases between interface    *)
(* and file and is a stutter of the registry, or, when the file is not one *)
(* that is saved to, loses all of it at once.                              *)
(***************************************************************************)
MappedKey == IF dev.up THEN dev.key ELSE conf.key

Same == UNCHANGED <<Lease, MappedKey, conf.save>>
Wiped == Lease' = NoPeers /\ MappedKey' = NoKey /\ ~conf'.save

LEMMA DownMaps ==
    ASSUME TypeOK, WgQuickDown
    PROVE  (conf.save \/ ~dev.up => Same) /\ (~conf.save /\ dev.up => Wiped)
  <1>1. CASE ~dev.up
    BY <1>1 DEF WgQuickDown, Same, Lease, MappedKey
  <1>2. CASE dev.up /\ conf.save
    <2>1. conf.save = TRUE
      BY <1>2 DEF TypeOK, Confs
    <2>2. /\ conf'.save = TRUE /\ conf'.peers = dev.peers
          /\ conf'.key = dev.key /\ ~dev'.up
      BY <1>2 DEF WgQuickDown, NoDev
    <2>3. Lease = dev.peers /\ MappedKey = dev.key
      BY <1>2 DEF Lease, MappedKey
    <2>4. Lease' = dev.peers /\ MappedKey' = dev.key
      BY <2>2 DEF Lease, MappedKey
    <2> QED BY <1>2, <2>1, <2>2, <2>3, <2>4 DEF Same
  <1>3. CASE dev.up /\ ~conf.save
    BY <1>3 DEF WgQuickDown, Wiped, Lease, MappedKey, NoDev, TypeOK, EmptyConf
  <1> QED BY <1>1, <1>2, <1>3

LEMMA UpMaps ==
    ASSUME TypeOK, WgQuickUp, UNCHANGED conf PROVE Same
  BY DEF WgQuickUp, CanComeUp, Same, Lease, MappedKey

(* The lease that add-client gives is free and changes no other.           *)
LEMMA SetPeerMaps ==
    ASSUME TypeOK, NEW k, NEW a \in Addr \ Used, SetPeer(k, a), UNCHANGED conf
    PROVE  \/ Same
           \/ /\ k \in Client /\ dev.up
              /\ \A c \in Client : Lease[c] # a
              /\ Lease' = [Lease EXCEPT ![k] = a]
              /\ UNCHANGED <<MappedKey, conf.save>>
  <1>1. CASE dev.up /\ k \in Client
    <2> DEFINE p == [d \in Client |-> IF d = k THEN a
                                      ELSE IF dev.peers[d] = a THEN NoAddr
                                      ELSE dev.peers[d]]
    <2>1. dev' = [dev EXCEPT !.peers = p]
      BY <1>1 DEF SetPeer
    <2>2. \A c \in Client : dev.peers[c] # a
      BY DEF Used, Addr, NoAddr
    <2>3. p = [dev.peers EXCEPT ![k] = a]
      BY <2>2 DEF TypeOK, Devs, Peers
    <2> HIDE DEF p
    <2>4. dev'.peers = p /\ dev'.up /\ dev'.key = dev.key
      BY <1>1, <2>1 DEF TypeOK, Devs
    <2> QED BY <1>1, <2>2, <2>3, <2>4 DEF Lease, MappedKey
  <1>2. CASE ~(dev.up /\ k \in Client)
    BY <1>2 DEF SetPeer, Same, Lease, MappedKey
  <1> QED BY <1>1, <1>2

LEMMA RemovePeerMaps ==
    ASSUME TypeOK, NEW k \in Client, dev.peers[k] # NoAddr, RemovePeer(k),
           UNCHANGED conf
    PROVE  /\ Lease' = [Lease EXCEPT ![k] = NoAddr]
           /\ UNCHANGED <<MappedKey, conf.save>>
  <1> DEFINE p == [dev.peers EXCEPT ![k] = NoAddr]
  <1>1. dev.up
    BY DEF TypeOK, NoDev, NoPeers
  <1>2. dev' = [dev EXCEPT !.peers = p, !.seen = dev.seen \ {k}]
    BY DEF RemovePeer
  <1> HIDE DEF p
  <1>3. dev'.peers = p /\ dev'.up = dev.up /\ dev'.key = dev.key
    BY <1>2 DEF TypeOK, Devs
  <1> QED BY <1>1, <1>3 DEF Lease, MappedKey, p

LEMMA TruncateMaps ==
    ASSUME TypeOK, conf' = EmptyConf, UNCHANGED dev
    PROVE  IF dev.up THEN UNCHANGED <<Lease, MappedKey>> /\ ~conf'.save
                     ELSE Wiped
  BY DEF Lease, MappedKey, Wiped, EmptyConf

(* What LossIsDeliberate asks of a step, for one client.                   *)
LossKept(c) ==
    (Lease[c] # NoAddr /\ Lease'[c] # Lease[c]) =>
        \/ pc = "idle" /\ pc' \in {"addDown", "rmDown"} /\ req'.client = c
        \/ Truncates /\ ~dev.up
        \/ Restart
        \/ ~conf.save

LEMMA LossStep ==
    ASSUME ClientInv, [Next]_vars, NEW c \in Client PROVE LossKept(c)
  <1>0. TypeOK /\ HandlerProgress
    BY DEF ClientInv
  <1>a. Same => LossKept(c)
    BY DEF Same, LossKept
  <1>1. ASSUME NEW n \in ServerKey, InitKeys(n) PROVE LossKept(c)
    BY <1>1 DEF InitKeys, Lease, LossKept
  <1>2. CASE InitTruncate
    BY <1>0, <1>2, TruncateMaps DEF InitTruncate, Truncates, LossKept
  <1>3. CASE InitWrite
    <2>1. CASE dev.up
      BY <1>3, <2>1 DEF InitWrite, Lease, LossKept
    <2>2. CASE ~dev.up
      BY <1>0, <1>3, <2>2 DEF InitWrite, Lease, HandlerProgress, EmptyConf, NoPeers, LossKept
    <2> QED BY <2>1, <2>2
  <1>4. CASE InitUp
    BY <1>0, <1>4, <1>a, UpMaps DEF InitUp
  <1>5. ASSUME NEW k \in Client \cup {Malformed}, AddClient(k) PROVE LossKept(c)
    <2> PICK a \in Addr \ Used :
             /\ SetPeer(k, a)
             /\ req' = [client |-> k, addr |-> a, key |-> NoKey,
                        live |-> dev.up /\ conf.save]
      BY <1>5 DEF AddClient
    <2>1. pc = "idle" /\ pc' = "addDown" /\ UNCHANGED conf /\ req'.client = k
      BY <1>5 DEF AddClient
    <2>2. CASE c # k
      <3>1. UNCHANGED dev \/ (dev.up /\ dev'.up /\ dev'.peers[c] = dev.peers[c])
        BY <1>0, <2>2, SetPeerPeers DEF TypeOK, Devs
      <3> QED BY <2>1, <3>1 DEF Lease, LossKept
    <2> QED BY <2>1, <2>2 DEF LossKept
  <1>6. ASSUME NEW k \in Client \cup {Malformed}, AddClientFull(k) PROVE LossKept(c)
    BY <1>6 DEF AddClientFull, Lease, LossKept
  <1>7. CASE AddDown
    BY <1>0, <1>7, <1>a, DownMaps DEF AddDown, LossKept
  <1>8. CASE AddUp
    BY <1>0, <1>8, <1>a, UpMaps DEF AddUp
  <1>9. ASSUME NEW k \in Client \cup {Malformed},
               NEW a \in Addr \cup {AnyAddr}, DisconnectClient(k, a)
        PROVE  LossKept(c)
    <2>1. /\ RemovePeer(k) /\ UNCHANGED conf
          /\ pc = "idle" /\ pc' = "rmDown" /\ req'.client = k
      BY <1>9 DEF DisconnectClient, RemoveRequest
    <2>2. c # k => Lease'[c] = Lease[c]
      BY <1>0, <2>1, RemovePeerPeers DEF Lease
    <2> QED BY <2>1, <2>2 DEF LossKept
  <1>10. ASSUME NEW k \in Client \cup {Malformed},
                NEW a \in Addr \cup {AnyAddr}, DisconnectClientRefused(k, a)
         PROVE  LossKept(c)
    BY <1>10 DEF DisconnectClientRefused, Lease, LossKept
  <1>11. CASE RemoveDown
    BY <1>0, <1>11, <1>a, DownMaps DEF RemoveDown, LossKept
  <1>12. CASE RemoveUp
    BY <1>0, <1>12, <1>a, UpMaps DEF RemoveUp
  <1>13. CASE DisconnectServer
    BY <1>0, <1>13, <1>a, DownMaps DEF DisconnectServer, LossKept
  <1>14. CASE StopTruncate
    BY <1>0, <1>14, TruncateMaps DEF StopTruncate, Truncates, LossKept
  <1>15. ASSUME NEW d \in Client, ClientHandshake(d) PROVE LossKept(c)
    BY <1>0, <1>15 DEF ClientHandshake, Lease, TypeOK, Devs, LossKept
  <1>16. CASE Kill
    BY <1>16 DEF Kill, Lease, LossKept
  <1>17. CASE Restart
    BY <1>17 DEF LossKept
  <1>18. CASE UNCHANGED vars
    BY <1>18 DEF vars, Lease, LossKept
  <1>19. ASSUME NEW k \in Client \cup {Malformed}, NEW a \in Addr \cup {AnyAddr},
                DisconnectClientFails(k, a)
         PROVE  LossKept(c)
    BY <1>19 DEF DisconnectClientFails, Lease, LossKept
  <1> QED
    BY <1>1, <1>2, <1>3, <1>4, <1>5, <1>6, <1>7, <1>8, <1>9, <1>10, <1>11,
       <1>12, <1>13, <1>14, <1>15, <1>16, <1>17, <1>18, <1>19 DEF Next

(* Every step but that of a handler that says so leaves the clients' leases *)
(* alone (charm.py:143-146, 181-183, 194-198).                              *)
THEOREM LossesAreDeliberate == Spec => LossIsDeliberate
  <1>1. ClientInv /\ [Next]_vars =>
           [\A c \in Client :
              (Lease[c] # NoAddr /\ Lease'[c] # Lease[c]) =>
                 \/ pc = "idle" /\ pc' \in {"addDown", "rmDown"} /\ req'.client = c
                 \/ Truncates /\ ~dev.up
                 \/ Restart
                 \/ ~conf.save]_vars
    BY LossStep DEF LossKept
  <1> QED BY <1>1, ClientInvariant, PTL DEF Spec, LossIsDeliberate

(* The server implements the registry.                                     *)
LEMMA RegistryStep ==
    ASSUME TypeOK, HandlerProgress, [Next]_vars
    PROVE  [Registry!Next]_(Registry!vars)
  <1> DEFINE Goal == Registry!Next \/ UNCHANGED Registry!vars
  <1> SUFFICES Goal
    OBVIOUS
  <1>s. Same => Goal
    BY DEF Same, MappedKey, Registry!vars
  <1>w. Wiped => Goal
    BY KeyAssumption DEF Wiped, MappedKey, Registry!Next, Registry!Wipe,
          Registry!NoLease, NoPeers, TypeOK, Confs
  <1>d. UNCHANGED <<Lease, MappedKey>> /\ ~conf'.save /\ conf' = EmptyConf => Goal
    BY DEF MappedKey, Registry!Next, Registry!Detach, EmptyConf
  <1>1. ASSUME NEW n \in ServerKey, InitKeys(n) PROVE Goal
    BY <1>1, <1>s DEF InitKeys, Same, Lease, MappedKey
  <1>2. CASE InitTruncate
    BY <1>2, <1>w, <1>d, TruncateMaps DEF InitTruncate
  <1>3. CASE InitWrite
    <2>1. conf = EmptyConf /\ req.key \in ConfKeys
      BY <1>3 DEF InitWrite, HandlerProgress, TypeOK, Requests
    <2>2. conf'.save = TRUE /\ conf'.peers = NoPeers /\ conf'.key = req.key
      BY <1>3 DEF InitWrite, EmptyConf
    <2>3. UNCHANGED dev
      BY <1>3 DEF InitWrite
    <2>4. CASE dev.up
      BY <2>2, <2>3, <2>4
         DEF Lease, Registry!Next, Registry!Attach
    <2>5. CASE ~dev.up
      <3>1. Lease = NoPeers /\ Lease' = NoPeers
        BY <2>1, <2>2, <2>3, <2>5 DEF Lease, EmptyConf
      <3>2. MappedKey = NoKey /\ MappedKey' = req.key
        BY <2>1, <2>2, <2>3, <2>5 DEF MappedKey, EmptyConf
      <3>3. Registry!Configure(req.key)
        BY <2>2, <3>1, <3>2
           DEF Registry!Configure, Registry!NoLease, NoPeers, MappedKey
      <3> QED BY <2>1, <3>3 DEF Registry!Next
    <2> QED BY <2>4, <2>5
  <1>4. CASE InitUp
    BY <1>4, <1>s, UpMaps DEF InitUp
  <1>5. ASSUME NEW k \in Client \cup {Malformed}, AddClient(k) PROVE Goal
    <2> PICK a \in Addr \ Used : SetPeer(k, a)
      BY <1>5 DEF AddClient
    <2>1. UNCHANGED conf
      BY <1>5 DEF AddClient
    <2>2. CASE Same
      BY <2>2, <1>s
    <2>3. CASE /\ k \in Client
               /\ \A c \in Client : Lease[c] # a
               /\ Lease' = [Lease EXCEPT ![k] = a]
               /\ UNCHANGED <<MappedKey, conf.save>>
      <3>1. Registry!Grant(k, a)
        BY <2>3 DEF Registry!Grant, MappedKey
      <3> QED BY <2>3, <3>1 DEF Registry!Next
    <2> QED BY <2>1, <2>2, <2>3, SetPeerMaps
  <1>6. ASSUME NEW k \in Client \cup {Malformed}, AddClientFull(k) PROVE Goal
    BY <1>6, <1>s DEF AddClientFull, Same, Lease, MappedKey
  <1>7. CASE AddDown
    BY <1>7, <1>s, <1>w, DownMaps DEF AddDown
  <1>8. CASE AddUp
    BY <1>8, <1>s, UpMaps DEF AddUp
  <1>9. ASSUME NEW k \in Client \cup {Malformed},
               NEW a \in Addr \cup {AnyAddr}, DisconnectClient(k, a)
        PROVE  Goal
    <2>1. RemovePeer(k) /\ MayBeFound(k, a) /\ UNCHANGED conf
      BY <1>9 DEF DisconnectClient
    <2>2. CASE k \in Client
      <3>1. dev.peers[k] # NoAddr
        BY <2>1, <2>2 DEF MayBeFound, ClientFound
      <3>2. Registry!Revoke(k)
        BY <2>1, <2>2, <3>1, RemovePeerMaps DEF Registry!Revoke, MappedKey
      <3> QED BY <2>2, <3>2 DEF Registry!Next
    <2>3. CASE k \notin Client
      BY <2>1, <2>3, <1>s DEF RemovePeer, Same, Lease, MappedKey
    <2> QED BY <2>2, <2>3
  <1>10. ASSUME NEW k \in Client \cup {Malformed},
                NEW a \in Addr \cup {AnyAddr}, DisconnectClientRefused(k, a)
         PROVE  Goal
    BY <1>10, <1>s DEF DisconnectClientRefused, Same, Lease, MappedKey
  <1>11. CASE RemoveDown
    BY <1>11, <1>s, <1>w, DownMaps DEF RemoveDown
  <1>12. CASE RemoveUp
    BY <1>12, <1>s, UpMaps DEF RemoveUp
  <1>13. CASE DisconnectServer
    BY <1>13, <1>s, <1>w, DownMaps DEF DisconnectServer
  <1>14. CASE StopTruncate
    BY <1>14, <1>w, <1>d, TruncateMaps DEF StopTruncate
  <1>15. ASSUME NEW c \in Client, ClientHandshake(c) PROVE Goal
    <2>1. UNCHANGED <<dev.up, dev.key, dev.peers, conf>>
      BY <1>15 DEF ClientHandshake, TypeOK, Devs
    <2> QED BY <2>1, <1>s DEF Same, Lease, MappedKey
  <1>16. CASE Kill
    BY <1>16, <1>s DEF Kill, Same, Lease, MappedKey
  <1>17. CASE Restart
    <2>1. conf' = EmptyConf /\ dev' \in {dev, NoDev}
      BY <1>17 DEF Restart
    <2>2. CASE dev' = dev
      BY <2>1, <2>2, <1>w, <1>d, TruncateMaps
    <2>3. CASE dev' = NoDev
      BY <2>1, <2>3, <1>w DEF Wiped, Lease, MappedKey, NoDev, EmptyConf
    <2> QED BY <2>1, <2>2, <2>3
  <1>18. CASE UNCHANGED vars
    BY <1>18, <1>s DEF vars, Same, Lease, MappedKey
  <1>19. ASSUME NEW k \in Client \cup {Malformed}, NEW a \in Addr \cup {AnyAddr},
                DisconnectClientFails(k, a)
         PROVE  Goal
    BY <1>19, <1>s DEF DisconnectClientFails, Same, Lease, MappedKey
  <1> HIDE DEF Goal
  <1> QED
    BY <1>1, <1>2, <1>3, <1>4, <1>5, <1>6, <1>7, <1>8, <1>9, <1>10, <1>11,
       <1>12, <1>13, <1>14, <1>15, <1>16, <1>17, <1>18, <1>19 DEF Next

(* The charm keeps the promise of ClientRegistry: leases are granted from  *)
(* free addresses, change one at a time or go all at once, and the key is  *)
(* not changed under a lease.                                              *)
THEOREM ServerImplementsRegistry == Spec => RegistrySpec
  <1>1. Init => Registry!Init
    BY DEF Init, Registry!Init, Registry!NoLease, Lease, NoDev, EmptyConf,
           NoPeers
  <1>2. ClientInv /\ [Next]_vars => [Registry!Next]_(Registry!vars)
    BY RegistryStep DEF ClientInv
  <1> QED
    BY <1>1, <1>2, ClientInvariant, PTL DEF Spec, RegistrySpec, Registry!Spec

(* However leases are granted, revoked and wiped, an address of the        *)
(* registry has at most one holder.                                        *)
THEOREM LeasesAreDistinct == RegistrySpec => []Registry!DistinctLeases
  <1> DEFINE RegistryInv == Registry!LeaseType /\ Registry!DistinctLeases
  <1>1. Registry!Init => RegistryInv
    BY DEF Registry!Init, Registry!NoLease, Registry!LeaseType,
           Registry!DistinctLeases
  <1>2. RegistryInv /\ [Registry!Next]_(Registry!vars) => RegistryInv'
    <2> SUFFICES ASSUME Registry!LeaseType, Registry!DistinctLeases,
                        [Registry!Next]_(Registry!vars)
                 PROVE  RegistryInv'
      OBVIOUS
    <2>1. ASSUME NEW k \in Client, NEW a \in Addr, Registry!Grant(k, a)
          PROVE  RegistryInv'
      <3>1. Registry!LeaseType'
        BY <2>1 DEF Registry!Grant, Registry!LeaseType
      <3>2. \A c \in Client : Lease'[c] = IF c = k THEN a ELSE Lease[c]
        BY <2>1 DEF Registry!Grant, Registry!LeaseType
      <3>3. \A c \in Client : Lease[c] # a
        BY <2>1 DEF Registry!Grant
      <3> QED BY <3>1, <3>2, <3>3 DEF Registry!DistinctLeases
    <2>2. ASSUME NEW k \in Client, Registry!Revoke(k) PROVE RegistryInv'
      <3>1. Registry!LeaseType'
        BY <2>2 DEF Registry!Revoke, Registry!LeaseType
      <3>2. \A c \in Client : Lease'[c] = IF c = k THEN NoAddr ELSE Lease[c]
        BY <2>2 DEF Registry!Revoke, Registry!LeaseType
      <3> QED BY <3>1, <3>2 DEF Registry!DistinctLeases
    <2>3. CASE Lease' = Lease
      BY <2>3 DEF Registry!LeaseType, Registry!DistinctLeases
    <2>4. CASE Registry!Wipe
      BY <2>4 DEF Registry!Wipe, Registry!NoLease, Registry!LeaseType,
                  Registry!DistinctLeases
    <2> QED
      BY <2>1, <2>2, <2>3, <2>4
         DEF Registry!Next, Registry!vars, Registry!Configure,
             Registry!Detach, Registry!Attach
  <1> QED BY <1>1, <1>2, PTL DEF RegistrySpec, Registry!Spec

(* So no two clients share an address, in the interface while it is up and *)
(* in the file it comes back from while it is down.                        *)
COROLLARY AddressesAreDistinct == Spec => []Registry!DistinctLeases
  BY ServerImplementsRegistry, LeasesAreDistinct, PTL

=============================================================================
