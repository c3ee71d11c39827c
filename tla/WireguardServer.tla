--------------------------- MODULE WireguardServer ---------------------------
(***************************************************************************)
(* The WireGuard charm (juju-charms/wireguard/src/charm.py): the action    *)
(* handlers that create the tunnel wg0, add and remove its clients and     *)
(* take it down.                                                           *)
(*                                                                         *)
(* Juju runs the actions of a unit one at a time, each as a new process in *)
(* the workload container, so nothing is remembered between two actions    *)
(* but what the container's files and the host's kernel keep.  A handler   *)
(* is a sequence of commands whose exit status is never looked at          *)
(* (subprocess.run without check); pc is the command that runs next.       *)
(*                                                                         *)
(* conf     /etc/wireguard/wg0.conf.  The image holds an empty one, and    *)
(*          disconnect-server empties it; only the text that init-config   *)
(*          writes has "SaveConfig = true" (save).                         *)
(* privkey  /etc/wireguard/private_key.key.                                *)
(* dev      the kernel's interface wg0: the pod uses the network of its    *)
(*          host, so wg0 outlives the container that made it.              *)
(*                                                                         *)
(* A peer's address is its one allowed IP; seen are the peers that have an *)
(* endpoint, i.e. whose client has connected at least once.                *)
(***************************************************************************)
EXTENDS Naturals

CONSTANTS
    Client,     \* the public keys that add-client can be called with
    Malformed,  \* a public-key parameter that is no client's whole key
    PoolSize,   \* addresses in free_IP_list (10 in the code)
    ServerKey,  \* the private keys that "wg genkey" can print
    NoKey,      \* no private key: an empty file or a keyless interface
    Garbled,    \* a PrivateKey line that wg cannot parse
    Fault       \* the environment's faults: "kill", "restart", "upfail"

ASSUME PoolAssumption  == PoolSize \in Nat \ {0}
ASSUME KeyAssumption   == NoKey \notin ServerKey /\ Garbled \notin ServerKey
                          /\ NoKey # Garbled
ASSUME ClientAssumption == Malformed \notin Client

VARIABLES
    conf, privkey, dev,
    pc,         \* the next command of the running handler, or "idle"
    req,        \* the running (or last) handler's parameters and locals
    reply,      \* the outcome it reported, "none" until it reports one
    granted     \* history: clients added, or being added, since last removed

vars == <<conf, privkey, dev, pc, req, reply, granted>>

Addr      == 1..PoolSize
NoAddr    == 0
AnyAddr   == PoolSize + 1   \* the parameter "", a substring of every line
NoPeers   == [c \in Client |-> NoAddr]
Peers     == [Client -> Addr \cup {NoAddr}]

EmptyConf == [save |-> FALSE, key |-> NoKey, peers |-> NoPeers, seen |-> {}]
NoDev     == [up |-> FALSE, key |-> NoKey, peers |-> NoPeers, seen |-> {}]

(***************************************************************************)
(* wg and wg-quick, as the handlers use them.                              *)
(***************************************************************************)

(* "wg-quick down": fails without an interface; otherwise saves the        *)
(* running key and peers over the file if the file says so, and deletes    *)
(* the interface.                                                          *)
WgQuickDown ==
    IF dev.up
    THEN /\ conf' = IF conf.save
                    THEN [save |-> TRUE, key |-> dev.key,
                          peers |-> dev.peers, seen |-> dev.seen]
                    ELSE conf
         /\ dev' = NoDev
    ELSE UNCHANGED <<conf, dev>>

(* "wg-quick up": refuses an interface that exists and a file it cannot    *)
(* parse; an empty file makes an interface without key, address or peers.  *)
CanComeUp == ~dev.up /\ conf.key # Garbled

WgQuickUp ==
    \/ /\ CanComeUp
       /\ dev' = [up |-> TRUE, key |-> conf.key,
                  peers |-> conf.peers, seen |-> conf.seen]
    \/ /\ ~CanComeUp \/ "upfail" \in Fault
       /\ UNCHANGED dev

(* "wg set wg0 peer k allowed-ips a": an address has one peer, so it is    *)
(* taken from the peer that has it.                                        *)
SetPeer(k, a) ==
    dev' = IF dev.up /\ k \in Client
           THEN [dev EXCEPT !.peers =
                    [c \in Client |-> IF c = k THEN a
                                      ELSE IF dev.peers[c] = a THEN NoAddr
                                      ELSE dev.peers[c]]]
           ELSE dev

(* "wg set wg0 peer k remove": a key that is not whole is refused, and one *)
(* that no peer has changes nothing.                                       *)
RemovePeer(k) ==
    dev' = IF k \in Client
           THEN [dev EXCEPT !.peers = [dev.peers EXCEPT ![k] = NoAddr],
                            !.seen = @ \ {k}]
           ELSE dev

(* Variant of Used: the pattern matches no line of "wg show".              *)
UsedUnseen == {}

(* The addresses that "wg show | grep" finds: none without an interface.   *)
Used == {dev.peers[c] : c \in Client} \ {NoAddr}

(***************************************************************************)
(* init-config                                                             *)
(***************************************************************************)

(* generate_keys starts a pipeline and sleeps; the file is then read       *)
(* whether or not tee has replaced its content: the line may be the new    *)
(* key n, the old one, or nothing, which makes the next line of the        *)
(* configuration part of the key.  A file that is not there yet, or no     *)
(* answer from dig, is an exception.                                       *)
InitKeys(n) ==
    /\ pc = "idle"
    /\ n # privkey
    /\ privkey' = n
    /\ \E line \in {n, privkey, NoKey} :
          /\ req' = [client |-> Malformed, addr |-> NoAddr, live |-> FALSE,
                     key |-> IF line = NoKey THEN Garbled ELSE line]
          /\ \/ pc' = "initTruncate" /\ reply' = "none"
             \/ pc' = "idle" /\ reply' = "failed"
    /\ UNCHANGED <<conf, dev, granted>>

InitTruncate ==
    /\ pc = "initTruncate"
    /\ conf' = EmptyConf
    /\ pc' = "initWrite"
    /\ UNCHANGED <<privkey, dev, req, reply, granted>>

InitWrite ==
    /\ pc = "initWrite"
    /\ conf' = [EmptyConf EXCEPT !.save = TRUE, !.key = req.key]
    /\ pc' = "initUp"
    /\ UNCHANGED <<privkey, dev, req, reply, granted>>

(* Variant of InitUp: an interface that exists is replaced.                *)
InitUpReplacing ==
    /\ pc = "initUp"
    /\ dev' = [up |-> TRUE, key |-> conf.key, peers |-> conf.peers, seen |-> {}]
    /\ pc' = "idle"
    /\ reply' = "started"
    /\ UNCHANGED <<conf, privkey, req, granted>>

InitUp ==
    /\ pc = "initUp"
    /\ WgQuickUp
    /\ pc' = "idle"
    /\ reply' = "started"
    /\ UNCHANGED <<conf, privkey, req, granted>>

(***************************************************************************)
(* add-client                                                              *)
(***************************************************************************)

AddClient(k) ==
    /\ pc = "idle"
    /\ \E a \in Addr \ Used :
          /\ \A b \in Addr \ Used : a <= b
          /\ SetPeer(k, a)
          /\ req' = [client |-> k, addr |-> a, key |-> NoKey,
                     live |-> dev.up /\ conf.save]
    /\ granted' = granted \cup ({k} \cap Client)
    /\ pc' = "addDown"
    /\ reply' = "none"
    /\ UNCHANGED <<conf, privkey>>

AddClientFull(k) ==
    /\ pc = "idle"
    /\ Addr \subseteq Used
    /\ req' = [client |-> k, addr |-> NoAddr, key |-> NoKey, live |-> FALSE]
    /\ reply' = "full"
    /\ UNCHANGED <<conf, privkey, dev, pc, granted>>

(* Variant of AddDown: the interface is deleted, not taken down.           *)
AddDelete ==
    /\ pc = "addDown"
    /\ dev' = NoDev
    /\ pc' = "addUp"
    /\ UNCHANGED <<conf, privkey, req, reply, granted>>

AddDown ==
    /\ pc = "addDown"
    /\ WgQuickDown
    /\ pc' = "addUp"
    /\ UNCHANGED <<privkey, req, reply, granted>>

AddUp ==
    /\ pc = "addUp"
    /\ WgQuickUp
    /\ pc' = "idle"
    /\ reply' = "added"
    /\ UNCHANGED <<conf, privkey, req, granted>>

(***************************************************************************)
(* disconnect-client                                                       *)
(***************************************************************************)

(* The handler looks in "wg show" for a line that contains the parameter,  *)
(* and for the address two lines below it.  "wg show" prints the endpoint, *)
(* if there is one, in between.  (An incomplete address, which matches     *)
(* several, is not modelled, but for "".)  A key that wg does not know is  *)
(* one that holds no address here.                                         *)
AddressLineIs(k, a) == a = AnyAddr \/ (k \in dev.seen /\ dev.peers[k] = a)

ClientFound(k, a) == dev.peers[k] # NoAddr /\ AddressLineIs(k, a)

(* What is no whole key of a client may still be in a line: a part of a    *)
(* key, or nothing, is in the lines of any peer, and the server's own key  *)
(* is in the interface's.  Then the address is looked for below a line     *)
(* that is not the one meant, or below the last one (an IndexError).       *)
SomeLineIs(a) ==
    \/ \E c \in Client : dev.peers[c] # NoAddr /\ a \in {AnyAddr, dev.peers[c]}
    \/ a = AnyAddr /\ dev.key # NoKey

MayBeFound(k, a) ==
    IF k \in Client THEN ClientFound(k, a) ELSE dev.up /\ SomeLineIs(a)

RemoveRequest(k, a) == [client |-> k, addr |-> a, key |-> NoKey,
                        live |-> dev.up /\ conf.save]

DisconnectClient(k, a) ==
    /\ pc = "idle"
    /\ MayBeFound(k, a)
    /\ RemovePeer(k)
    /\ req' = RemoveRequest(k, a)
    /\ pc' = "rmDown"
    /\ reply' = "none"
    /\ UNCHANGED <<conf, privkey, granted>>

DisconnectClientRefused(k, a) ==
    /\ pc = "idle"
    /\ k \in Client => ~ClientFound(k, a)
    /\ req' = RemoveRequest(k, a)
    /\ reply' = "incorrect"
    /\ UNCHANGED <<conf, privkey, dev, pc, granted>>

(* The second line below is past the end of what "wg show" printed: below  *)
(* the last peer, if it has not connected yet, or below another last line. *)
DisconnectClientFails(k, a) ==
    /\ pc = "idle"
    /\ dev.up
    /\ k \in Client => dev.peers[k] # NoAddr /\ k \notin dev.seen
    /\ req' = RemoveRequest(k, a)
    /\ reply' = "failed"
    /\ UNCHANGED <<conf, privkey, dev, pc, granted>>

(* Variant of RemoveDown: the interface is deleted, not taken down.        *)
RemoveDelete ==
    /\ pc = "rmDown"
    /\ dev' = NoDev
    /\ pc' = "rmUp"
    /\ UNCHANGED <<conf, privkey, req, reply, granted>>

RemoveDown ==
    /\ pc = "rmDown"
    /\ WgQuickDown
    /\ pc' = "rmUp"
    /\ UNCHANGED <<privkey, req, reply, granted>>

RemoveUp ==
    /\ pc = "rmUp"
    /\ WgQuickUp
    /\ pc' = "idle"
    /\ reply' = "removed"
    /\ granted' = granted \ {req.client}
    /\ UNCHANGED <<conf, privkey, req>>

(***************************************************************************)
(* disconnect-server                                                       *)
(***************************************************************************)

DisconnectServer ==
    /\ pc = "idle"
    /\ WgQuickDown
    /\ req' = [client |-> Malformed, addr |-> NoAddr, key |-> NoKey,
               live |-> FALSE]
    /\ pc' = "stopTruncate"
    /\ reply' = "none"
    /\ UNCHANGED <<privkey, granted>>

(* Variant of StopTruncate: only the SaveConfig line is removed.           *)
StopUnsave ==
    /\ pc = "stopTruncate"
    /\ conf' = [conf EXCEPT !.save = FALSE]
    /\ pc' = "idle"
    /\ reply' = "stopped"
    /\ UNCHANGED <<privkey, dev, req, granted>>

StopTruncate ==
    /\ pc = "stopTruncate"
    /\ conf' = EmptyConf
    /\ pc' = "idle"
    /\ reply' = "stopped"
    /\ UNCHANGED <<privkey, dev, req, granted>>

(***************************************************************************)
(* The environment.                                                        *)
(***************************************************************************)

(* A client connects: the kernel learns its endpoint.                      *)
ClientHandshake(c) ==
    /\ dev.key \in ServerKey
    /\ dev.peers[c] # NoAddr
    /\ c \notin dev.seen
    /\ dev' = [dev EXCEPT !.seen = @ \cup {c}]
    /\ UNCHANGED <<conf, privkey, pc, req, reply, granted>>

(* The handler's process dies between two commands.  A wg-quick that was   *)
(* started still finishes.                                                 *)
Kill ==
    /\ "kill" \in Fault
    /\ pc # "idle"
    /\ pc' = "idle"
    /\ reply' = "none"
    /\ UNCHANGED <<conf, privkey, dev, req, granted>>

(* A new container starts from the image: its files are as built.  The     *)
(* interface is still there unless the host restarted or the pod moved.    *)
Restart ==
    /\ "restart" \in Fault
    /\ conf' = EmptyConf
    /\ privkey' = NoKey
    /\ dev' \in {dev, NoDev}
    /\ pc' = "idle"
    /\ reply' = "none"
    /\ UNCHANGED <<req, granted>>

(***************************************************************************)
(* The specification.                                                      *)
(***************************************************************************)

Init ==
    /\ conf = EmptyConf
    /\ privkey = NoKey
    /\ dev = NoDev
    /\ pc = "idle"
    /\ req = [client |-> Malformed, addr |-> NoAddr, key |-> NoKey,
              live |-> FALSE]
    /\ reply = "none"
    /\ granted = {}

Next ==
    \/ \E n \in ServerKey : InitKeys(n)
    \/ InitTruncate
    \/ InitWrite
    \/ InitUp
    \/ \E k \in Client \cup {Malformed} : AddClient(k)
    \/ \E k \in Client \cup {Malformed} : AddClientFull(k)
    \/ AddDown
    \/ AddUp
    \/ \E k \in Client \cup {Malformed}, a \in Addr \cup {AnyAddr} :
          \/ DisconnectClient(k, a)
          \/ DisconnectClientRefused(k, a)
          \/ DisconnectClientFails(k, a)
    \/ RemoveDown
    \/ RemoveUp
    \/ DisconnectServer
    \/ StopTruncate
    \/ \E c \in Client : ClientHandshake(c)
    \/ Kill
    \/ Restart

Spec == Init /\ [][Next]_vars

(***************************************************************************)
(* Types.                                                                  *)
(***************************************************************************)

FileKeys  == ServerKey \cup {NoKey}
ConfKeys  == ServerKey \cup {NoKey, Garbled}
Confs     == [save : BOOLEAN, key : ConfKeys, peers : Peers,
              seen : SUBSET Client]
Devs      == [up : BOOLEAN, key : FileKeys, peers : Peers,
              seen : SUBSET Client]
Requests  == [client : Client \cup {Malformed},
              addr : Addr \cup {NoAddr, AnyAddr}, key : ConfKeys,
              live : BOOLEAN]
Steps     == {"idle", "initTruncate", "initWrite", "initUp", "addDown",
              "addUp", "rmDown", "rmUp", "stopTruncate"}
Outcomes  == {"none", "failed", "started", "added", "full", "removed",
              "incorrect", "stopped"}

(* Every variable has its type; an interface that is down has no state,    *)
(* and a file that wg-quick would not save to is an empty one              *)
(* (charm.py:80-89, 198).                                                  *)
TypeOK ==
    /\ conf \in Confs
    /\ privkey \in FileKeys
    /\ dev \in Devs
    /\ pc \in Steps
    /\ req \in Requests
    /\ reply \in Outcomes
    /\ granted \in SUBSET Client
    /\ ~dev.up => dev = NoDev
    /\ ~conf.save => conf = EmptyConf

(***************************************************************************)
(* Safety.                                                                 *)
(***************************************************************************)

(* A client whose whole key disconnect-client was called with, and that    *)
(* was reported as "Client removed" (charm.py:181-186), is no peer, and no *)
(* later action, kill or restart brings it back from an older file: only a *)
(* new add-client does.  (For a parameter that is not a whole key the same *)
(* reply says nothing: it may come back although no client was removed.)   *)
RevokedStaysOut ==
    \A c \in Client \ granted : dev.peers[c] = NoAddr /\ conf.peers[c] = NoAddr

(* A client added to a server that was up with a file it saves to is a     *)
(* peer with the address in the reply, unless the interface did not come   *)
(* up again; then the file has it (charm.py:143-150).                      *)
AddedIsInstalled ==
    (reply = "added" /\ req.live /\ req.client \in Client) =>
        IF dev.up THEN dev.peers[req.client] = req.addr
                  ELSE conf.peers[req.client] = req.addr

(* What makes the two inductive: where the client of the running handler   *)
(* is between its commands.  Checked with them, and used by the proofs.    *)
HandlerProgress ==
    /\ pc = "rmDown" => dev.up
    /\ pc = "rmUp" => ~dev.up
    /\ (req.client \in Client /\ pc = "rmDown") =>
          dev.peers[req.client] = NoAddr
    /\ (req.client \in Client /\ pc = "rmUp") =>
          conf.peers[req.client] = NoAddr
    /\ (req.client \in Client /\ req.live /\ pc = "addDown") =>
          dev.up /\ conf.save /\ dev.peers[req.client] = req.addr
    /\ (req.client \in Client /\ req.live /\ pc = "addUp") =>
          ~dev.up /\ conf.peers[req.client] = req.addr
    /\ pc = "initWrite" => conf = EmptyConf
    /\ pc # "idle" => reply = "none"

(* A client loses its address only by its own disconnect-client or         *)
(* add-client, by disconnect-server, by init-config of a server that is    *)
(* down, by a restart, or because the server runs from a file it does not  *)
(* save to (charm.py:143-146, 181-183, 194-198).  Cycling the tunnel for   *)
(* one client, or for a key that is no client's, never costs another       *)
(* client its peer.                                                        *)
Lease == IF dev.up THEN dev.peers ELSE conf.peers

Truncates == InitTruncate \/ StopTruncate

LossIsDeliberate ==
    [][\A c \in Client :
         (Lease[c] # NoAddr /\ Lease'[c] # Lease[c]) =>
            \/ pc = "idle" /\ pc' \in {"addDown", "rmDown"} /\ req'.client = c
            \/ Truncates /\ ~dev.up
            \/ Restart
            \/ ~conf.save]_vars

(***************************************************************************)
(* The abstract specification.                                             *)
(***************************************************************************)

(* The handlers, their kills and the restarts implement a registry that    *)
(* grants only free addresses, changes one lease at a time or drops all of *)
(* them, and never changes the server's key under a client that keeps its  *)
(* lease: a second init-config of a running server changes nothing, as the *)
(* next wg-quick down saves the old key over the new one.                  *)
Registry == INSTANCE ClientRegistry WITH
    lease <- Lease,
    Key <- ConfKeys,
    key <- IF dev.up THEN dev.key ELSE conf.key,
    durable <- conf.save

RegistrySpec == Registry!Spec
=============================================================================
