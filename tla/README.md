# Verification of the PALANTIR security capabilities

TLA+ models of the programs in this repository that keep state: the Juju charms
of the security capabilities, the scripts of the OpenVPN image, the boot
scripts of the Wazuh manager, and the shared-object rules of the Snort image
that remember something from one packet to the next. TLC checks them on small
instances, and theorems about them are proved with TLAPS for every size.

    tlc -config MCWireguard.cfg MCWireguard.tla      # one run
    tlapm WireguardServerProofs.tla                  # the proofs of one module

## 1. Inventory

All charms have the same shape: a class observes Juju actions and one lifecycle
event; each action is a new process in the workload container that runs a
sequence of commands, replies with `set_results` or `fail`, and ends. Juju runs
a unit's actions one at a time. So two handlers never interleave; what makes
the code hard is that a handler can die between two of its commands, that
commands fail unnoticed, that nothing but files, processes and the kernel is
remembered from one action to the next, and that those change by themselves
(daemons start late, clients connect, containers restart).

| Component | State | Operations | What makes it correct |
|---|---|---|---|
| WireGuard charm (`juju-charms/wireguard`) | wg0.conf, key files, the kernel's interface | init-config, add-client, disconnect-client, disconnect-server | removed clients stay out, added ones get in, addresses are not shared, no client is lost by another one's action |
| Wazuh manager boot (`deployment-images/wazuh-manager`) | persistent volumes, API users, migration flag | 0-wazuh-init, 2-manager, create_user.py | what one boot leaves half done the next one repairs; credentials are current; agents are kept; it comes up |
| Snort charm (`juju-charms/ids/snort`) | local.rules, snort.conf, launcher and daemon, Filebeat | start/stop-service, start-configuration, add/del-rule | one sensor, with the rules of the file; stopped means stopped; rules are a stack |
| Suricata charm (`juju-charms/ids/suricata`) | local.rules, suricata.yaml, init script's service, Filebeat | the same | the same |
| Combined IDS charm (`juju-charms/ids/ids`) | those of both | those of both | the file does not parse (lines 128-130) |
| VPN charm, `ovpn_*` scripts | PKI, configuration, CRL, daemon | init-vpnconfig, start-vpn, create-clientcert, revocation | configuration and PKI belong together; a certificate can be had again; a revocation is enforced |
| Shared-object rules (`deployment-images/snort/snort2/so_rules`) | tables for all streams; a block for each stream | evaluate a packet | what is kept is what the history of packets says: recent queries, repetitions, handshakes, fragments |
| Their readers (`so-util_*.c`) | none | unfold, decode, read elements, skip names | they return what is in the packet, and stay in it |
| ntopng charm and Flask API | ntopng processes, databases it reads | launch, stop, top talkers, alerts, rrd | a stop stops all; the reports are of the right records |
| iptnetflow charm | iptables' TEE rules; an HTTP service that is not in the repository | start/stop mirroring, collectors | a stop undoes the starts |
| Wazuh proxy charm | none (client of the Wazuh API) | restart, health-check, active response | replies say what the API said |
| Pod specification (`configure_pod` in each charm) | leadership, the applied specification | config-changed | a specification is eventually applied |
| Helm charts, descriptors, agent tools | declarative | | |

How they interact: the operator calls a charm's actions through Juju; charms
call tools (`wg`, `wg-quick`, `service`, `easyrsa`, `iptables`) or a local HTTP
service; sensors and Filebeat write to and ship from the same log directory;
agents enrol with the Wazuh manager, whose volumes come from the Helm chart.
Snort calls a shared-object rule's function for each packet that its fast
pattern lets through; rules share no state with each other, apart from two pairs
and the four of the challenge list, and use the readers as a library. The image
has the rules (`COPY`), but in the snort.conf it ships the lines that include
them are commented out (674 and the following), so they run where an operator
turns them on.

Hard behaviours, with their lines, are the `hazards` of PROJECT.json.

## 2. Modules

| Module | Role |
|---|---|
| `ClientRegistry` | what the WireGuard charm promises: leases of addresses |
| `WireguardServer` | the charm, command by command; refines `ClientRegistry` |
| `WireguardServerProofs` | its theorems |
| `WazuhBoot` | the container's boot |
| `WazuhBootProofs` | its theorems |
| `RuleStack` | what add-rule and del-rule promise |
| `IdsService` | a unit of the Snort or Suricata charm; its rules file refines `RuleStack` |
| `IdsServiceProofs` | its theorems |
| `CertAuthority` | what the OpenVPN scripts promise: certificates issued, revoked, published, enforced |
| `VpnPki` | the VPN charm and the `ovpn_*` scripts, command by command; refines `CertAuthority` |
| `VpnPkiProofs` | its theorems |
| `RecentRecords` | what a table that is filled round robin promises |
| `DnsSpoof` | rules 21354 and 21355: queries of all streams in a ring; refines `RecentRecords` |
| `SmbReflex` | rules 15009, 15453, 15847, 15124: challenges of all streams in a list |
| `StreamData` | the block that a rule has for a stream |
| `RepeatRules` | rules 13835, 13667, 13803, 15125: they count in a stream |
| `HandshakeRules` | rules 59879/59880, 41547/41548, 13475, 31361: they compare with what the stream said before |
| `StreamRules` | both, on one stream after another |
| `StreamProofs` | its theorems |
| `PayloadReaders`, `CharmLoops` | algorithms as operators: so-util_*.c; loops of charms over lists that they shorten |
| `Readers` | each of them on its inputs, against reference definitions |
| `RuleProofs` | the theorems of both tables, of the sensor that runs both (`MCTables`), and of `Readers` |
| `TrafficMirror` | iptnetflow's mirroring rules |
| `NtopngMonitor` | ntopng's processes and the requests of its API |
| `MonitorProofs` | the theorems of these two |
| `DataInduction` | lemmas about numbers, remainders, runs, folds and joined sequences that the proofs share |
| `MCWireguard`, `MCWazuhBoot`, `MCIds`, `MCVpn`, `MCTables`, `MCStreams`, `MCReaders`, `MCMonitors` | the instances that TLC checks |

**WireguardServer.** `conf` is wg0.conf (its SaveConfig line, key, peers),
`dev` the kernel's interface, `privkey` the key file. `pc` names the command
that runs next, so an action of the charm is several actions of the module
(`AddClient`, `AddDown`, `AddUp` are the `wg set`, `wg-quick down` and
`wg-quick up` of add-client), and `Kill` may come between any two. `WgQuickDown`,
`WgQuickUp`, `SetPeer` and `RemovePeer` say what the tools do, `wg-quick down`
saving the running peers over the file among it. `Restart` is a container with the
files of its image on a host where wg0 may still be up (hostNetwork). `seen` is
there because `wg show` prints a line more for a client that has connected, which
is what disconnect-client trips over. `Malformed` stands for a public-key parameter
that is no client's whole key: add-client's `wg set` refuses it, and disconnect-client,
which looks for it anywhere in a line, may take a part of a key, or nothing, for a
client's (`MayBeFound`) and may look below the last line (`DisconnectClientFails`). `granted` is a history variable. Actions
killed between commands are never resumed: Juju reports them as failed.

**WazuhBoot.** One action per command group of the scripts. `Abort` is
`error_and_exit`: the script ends and s6 goes on. `SetCustom` is the three `sed`
commands, which nothing looks after: one that fails leaves its placeholder and the
script goes on (`"sed"` in `damage`, until the next boot). `UserFails` ends the
container. The volumes' content is "empty", "partial" or "full"; keys,
certificates and configuration by their origin. `damage` records which
non-atomic operation was cut short, and `DamageIsLocal` says that this is all
that can be wrong later. `Deploy` changes release or password, or mounts a
volume to migrate, while the container is down.

**IdsService.** `engine` tells the charms apart; add-rule and del-rule are the
same in both. A handler reads a file, empties it (`open(..., "w+")`) and writes
it: two actions each. Snort's `launcher` forks the daemon and waits for it
(`Fork`, `Load`, `Exit` are steps of its processes); Suricata's init script
starts the daemon. A sensor reads configuration and rules in `Load`, whatever
they are at that time. `want` and `intact` are history.

**VpnPki.** The files: `env` and `conf` are ovpn_env.sh and openvpn.conf, by the
domain they name (`"cut"` is an environment that ends before its domain); `ca`,
`made`, `cn`, `key`, `crt`, `issued`, `revoked` and `crl` are pki/; `copy` is the
revocation list next to it, which the server reads, and `newer` what
`[ -nt ]` says of the two; `target` is the directory that
ovpn_copy_server_files fills. `daemon` is the server: the authority it was
started with, which stays with it when pki/ changes. As in WireguardServer each
command is an action (`InitVpnConfig` to `FirstCrl` are init-vpnconfig, that is
ovpn_genconfig and ovpn_initpki), and `CommandFails` and `Kill` come between any
two: the scripts run under `set -e` and the charm with check=True. `denied` and
`cas` are history. What is said of the programs that are not in the repository:

- easyrsa asks nothing and overwrites, because config/vars:209 sets batch mode. It
  refuses a name that has a key, a request or a certificate. Whether it moves
  the files of a revoked certificate away depends on its version, which the
  image does not fix: `KeepsFiles` is both.
- openvpn reads its list at each connection, and a list of another authority
  says nothing of the certificates of its own. It refuses to start without a file
  its configuration names, or beside another server.
- `Restart` keeps the files (the volume of docs/docker.md); `Recreate` loses
  them, as the pod that the charm asks for has no volume.

A copy of the list is taken to be written at once, and a configuration file
that is only half written is not distinguished from one that is not there.

**DnsSpoof, SmbReflex.** An action is the evaluation of one packet, whole: Snort
evaluates one at a time. Which packets come to it (flow, content, header fields)
is abstracted to which questions, ids, challenges and sources there are.
`Truncated` is the `uint8_t` that a 16-bit id is put through, `SearchEnd` the
maximum of the indexes of *next* places, which is one too high until the ring is
full. `asked` and `heard` are history: the last packets by age, whole. They are
what the properties compare the tables with. `MCTables` puts the two beside each
other; they share nothing, so a behaviour has traffic of one kind.

**StreamData, RepeatRules, HandshakeRules, StreamRules.** `data` is the block of
the rule for the stream, or `NoData`; `NotStored` is an allocation or a
`storeRuleData` that fails, `NewStream` frees the block. A rule's whole evaluation
is one operator (`Cookie`, `Drawing`, `Srp`, `Datagram`, ...), with the loop over the
records, fragments or control words of the packet as a fold. Counters of eight
bits wrap. `seen` is history. A checksum is a number, and equal checksums are
equal contents.

**PayloadReaders, CharmLoops, Readers.** A payload is a sequence of bytes, base64
text a sequence of decode64tab's values; integers are taken modulo
`256 ^ IntBytes` where the code adds in 32 bits. The references are written from
the other side: `Encoded` and `ElementHead` build what the readers should take
apart, `Unfolded` is a longest prefix. Of the loops, `LoopsLoseNothing` says what must
not get lost.

**TrafficMirror.** An action of the charm is two `os.system` calls whose status
nobody looks at: `RunCommand` and `CommandFails` are one call, `Killed` leaves
the rest out. `asked` and `lost` are history. The pod has the host's network, so
only `Reboot` empties the tables.

**NtopngMonitor.** Flask answers requests in threads, and one goes on when the
charm that sent it is killed, so `Threads` requests may overlap. `Popen` waits for
the dead children first, as Python's does; `List` and `Visit` are the loop over
`psutil.process_iter`; `Vanished` is a process, any one of the container, that ends before its
name is asked for, which ends the handler without a reply.

## 3. Runs

| Run | Shows | Bounds |
|---|---|---|
| `wireguard` | revocation, addition, no accidental loss, refinement of `ClientRegistry` | 3 clients, 2 addresses (the pool runs out and addresses are reused; the code has 10), 3 keys (file, configuration and interface may all differ), all faults, any number of them; clients and keys are symmetric |
| `wazuh_boot` | credentials, locality of damage, fresh files, kept agents, liveness | 3 directories (the two the scripts write into and one other), 2 releases, 2 passwords, 1 agent, at most 2 faults in any place: enough for a repair that is itself cut short |
| `ids` | one sensor, current rules, rules as a stack, refinement of `RuleStack` | both charms, rules of one and of two lines, files of up to 3 lines, room for 2 sensors, 3 calls of start-configuration, faults without limit |
| `vpn` | revocation, agreement of the list and the server, returned certificates, one set-up, one server key, refinement of `CertAuthority` | 2 domains (a set-up replaced by another), 2 clients, 2 authorities one after the other, 2 certificates for a name (one revoked, one in force), both kinds of easyrsa, all faults, any number of them; clients are symmetric, and so are domains, because no definition names one |
| `snort_tables` | answers pass, mismatches and reflections alert, refinement of `RecentRecords` | a ring of 3 with questions of up to 3 symbols, cut at 2; ids 1, 256 and 257, of which two are the same in eight bits and one is 0; a list of 2 with an index that wraps at 4, 3 challenges and the one that is passed over, 2 sources: rings and index wrap several times |
| `snort_streams` | repetitions, groups, handshakes, sessions, searches, fragments | thresholds of 3 and 4 for 50 and 150, up to 9 packets (twice over each threshold); 3 packets of up to 2 RTF words; 6 records of TLS, of which 2 are looked at in a packet for 5; 3 searches; 4 datagrams of up to 2 fragments, a table of 2 for 5, a window of 2 seconds and steps of 0 to 3 |
| `readers` | readers against their references; loops lose nothing | every header of up to 5 characters, data of up to 4 bytes in buffers of 1 to 6, elements with sizes at the bounds of integers of 2 bytes (the code has 4) in 0 to 3 bytes, names of up to 2 labels cut anywhere, up to 5 addresses, up to 7 lines |
| `monitors` | stops undo starts; a stop has killed what ran | 2 gateways or fewer, 3 rules asked for and 2 commands lost for each; 4 monitors and 2 requests at a time |

Four more runs look for a disagreement between the code and its own words and
find it; none of them needs more than one fault:

| Run | The code's words | What happens |
|---|---|---|
| `wazuh_data` | "the path is empty means permanent data volume is also empty" | a crash during the copy leaves a directory that no boot completes |
| `ids_stopped` | "Snort service stopped successfully" | the launcher is killed and the daemon stays |
| `vpn_denied` | "deny clients access using revoked certificates" (docs/clients.md) | after a second init-vpnconfig and a refused start-vpn the old server reads the list of the new authority |
| `dns_alert` | "If we find matches for the query but no matching query with a matching txid, alert" | while the ring fills, the zeros after its last entry match every response |

Others are in the models and are not given a run:

- disconnect-client says "Client removed" (charm.py:185) when its parameter is an
  incomplete key, or empty: `client_key_string in line` (173) finds it, `wg set ...
  remove` (181) refuses it, nobody looks at the status, and no client is removed
  (`MayBeFound`, `RemovePeer`). `RevokedStaysOut` is therefore about whole keys.
- A placeholder that a failing `sed` leaves in ossec.conf stays for that boot, and
  0-wazuh-init ends normally (`SetCustom`). A WAZUH_CLUSTER_KEY with a slash in it
  makes the `sed` of line 170 fail at each boot: then every boot is such a one, and
  `BootIsFresh`, which says that a boot does not inherit an earlier one's
  placeholders, says nothing of the configuration.
- add-client says "Client added" when no interface exists or wg refuses the key
  (`AddUp` ignores both), and disconnect-client refuses the right address of a client that never
  connected (`AddressLineIs`).
- A user that create_user.py made before it failed is taken for an existing one
  and never gets its role (`CreateUser`).
- del-rule removes the file's first line, which may be one of the image's
  (`DelRule`); a second start-configuration leaves Suricata a file that does not
  parse (`Parses`).
- "Get the last 3 top talkers" (ntopng charm.py:141) returns all but the first three:
  more than three of seven rows, fewer of four or five, an exception for less
  (`TopTalkers`). "Get the last element since <params>" (69) looks for `<rra>` (`Rrd`).
  HOME_NET keeps every other of adjacent IPv6 addresses, and an IPv4 address just after
  one is not widened to its network (`Visit`). `LoopsLoseNothing` demands none of
  this, and allows it.
- The smallest element is "|02 01 01|" by a comment (so-util_ber.c:142), and the line
  below refuses packets of three bytes. ber_get_size fails "if not enough payload to
  read size" (44-46), and also if there is enough but nothing after a long size (67):
  an empty element at the packet's end is not read. `BerIsRead` allows both
  (`missed`).
- A public value of an SRP key exchange may be compared with the prime of an earlier
  handshake: if the length of its own was past the packet's end (the state advances
  before it is read, openssl-srp-bof.c:409-419), or if a hello without SRP has begun
  another handshake (it returns at 367-371 and leaves the state).
  `SrpFollowsHandshake` tells these cases apart.
- "sets the pointer ... to the byte after the element" (so-util_ber.c:252) is not
  so for an identifier of several bytes: it counts as one (`GetElement`).
- base64decode returns 0 and one byte less when the data end exactly at the
  buffer's end, although a positive value is promised for a truncated output
  (so-util_base64-decode.c:108; `Quad`, `Written`).

The documents also give ovpn_revokeclient a parameter `remove`, which the script
ignores; no run is spent on it.

`MCWazuhBoot` sets CHECK_DEADLOCK FALSE: with the faults used up, the last
release deployed and every agent enrolled, the system rests. So does
`MCReaders`, where a behaviour is one call. The others check deadlock.

**Fairness.** Only `WazuhBoot` states one, weak fairness of the boot's own steps:
s6 runs the scripts to their end, and the kubelet starts a new container whenever
one has ended (restartPolicy Always of a StatefulSet). Crashes, failures, enrolments
and deployments are not fair. `EventuallyRunning` therefore says that no half-done
boot makes the later ones fail for good once faults and deployments have ended,
which the bounds make them. In the other modules nothing must happen: actions
and packets come when they come.

**Mutants.** Each property of a passing run has a variant of one definition
("Variant of ..." in the modules): a plausible bug that breaks it.

## 4. Proofs

`WireguardServerProofs` proves, for any finite or infinite set of clients, any
pool, any keys and any faults:

- `TypeCorrect`: `Spec => []TypeOK`.
- `RevocationIsDurable`, `AdditionIsInstalled`: `RevokedStaysOut` and
  `AddedIsInstalled` are invariants. Neither is inductive: between the commands
  of a handler the peer list is in the kernel, or in the file, or in both with
  the file out of date. `HandlerProgress` says where it is at each `pc`. The
  inductive invariant is
  `TypeOK /\ RevokedStaysOut /\ AddedIsInstalled /\ HandlerProgress`; the step
  has one case per action of `Next`.
- `LossesAreDeliberate`: the action property `LossIsDeliberate`, from the same
  invariant.
- `ServerImplementsRegistry`: `Spec => Registry!Spec`. The mapping takes the
  leases from the interface while it is up and from the file while it is down;
  the commands that cycle the tunnel stutter, because the file was saved.
- `AddressesAreDistinct`: no two clients ever hold an address. The abstract
  registry has this (`LeasesAreDistinct`), and the refinement carries it over.

`VpnPkiProofs` proves each property of the run `vpn`, for any domains, clients,
number of authorities and certificates, and any faults: `TypeCorrect`,
`RevocationsAreEnforced`, `ListingIsTrue`, `CreatedCertificateWorks`,
`GenerationIsUsable`, `CopyHasOneKey` and the refinement
`ScriptsImplementAuthority`. All follow from one inductive invariant, `Inv`. The
properties alone are not inductive, because a revocation that was reported must
outlive every later copy of a list. `Lists` says why it does: the server's copy
is an earlier stage of the list in pki/, and that one of the database, which only
grows; or the copy is of an authority that will not come back. `Database` ties
issued/ to the database (a serial counts the certificates of its name, so a new
one is in no list), `Handlers` says what a handler can count on between two
commands. The step has one lemma per action. The abstract
authority has one certificate of a name in force (`OneCertificateInForce`), which
the refinement carries over (`NamesHaveOneCertificate`).

`WazuhBootProofs` proves the five invariants of the run `wazuh_boot` for any
volumes, secrets, releases, agents and number of faults. The inductive invariant
has a part for each property (`Credentials`, `Role`, `Fresh`, `Volumes`, `Pair`,
`Agents`, `Enrolled`) that says how far the property is established at each
command of the boot: the sets `Mounting`, `Moving`, `Keying`, ... name how much of
the boot is still to come. What is excused by a damage stands under it, so that
the step of a fault is the step that adds the damage. `Pair` is the delicate one:
the manager's key and certificate do not match between two commands, twice, and a
boot that dies there is only repaired because the flag file is written last.
`AgentsStayEnrolled` needs the volume that is migrated to be writable
(`"readonly" \notin Fault`); section 5 says what happens otherwise.

`IdsServiceProofs` proves, for both charms and any rules and bounds, that there is
one sensor, that it has the rules of the file after a start, and that nothing comes
back after a stop. `Launching`, `Loaded` and `Stopped` are these properties with
what holds while the handler is between two commands. `Held` says that an
emptied file is one that a handler is about to write; with it the file refines
`RuleStack` (`RulesRefineStack`): emptying it is a stutter, writing it the push or
the pop, and a handler that dies in between the loss.

`FileIsStack` goes further: the file's lines are those of the rules in force, one
after the other over the image's (`RulesAreStack`). `Stacked` says it of the file or, while
the file is empty, of the text that is about to be written. Its steps are
`ContentOfPush` and `ContentOfPop`, induction over the list of rules (below).

`RuleProofs` proves, first, the properties of both tables for any size, where TLC has a
ring of 3 and a list of 2. Of the queries: `Aged` identifies the entry *a* queries
back with the packet of then, `Reached` says that the search comes to every entry
written; the arithmetic of the wrap is in `SlotIs` and `SlotMoves`. Of the challenges
(`ReflectionsReported`): the place is a counter modulo 256, masked to the list's
size, so the list's order survives the wrap of the counter only because the size
divides 256, which is what `PlaceMoves` needs and `SizeAssumption` says.
`HeardInList` identifies the challenge of *a* new ones ago with an entry, and
`OncePerChallenge` says that no challenge is stored twice: without it the first
entry that the search finds need not be the one whose source differs.
`TablesAreApart` says that each table behaves as if the other were not there, so that the
theorems about `DnsSpoof` hold of the sensor that the run checks.

`StreamProofs` proves all six properties of the run `snort_streams`, for any
thresholds from 3 to 254, packets with any number of words, records or fragments,
any size of the table of fragments, and streams of any length. The properties say what a
rule reports in terms of the stream's history; the rule has one small block. The
inductive invariant `Inv` says, rule by rule, what the block knows of the history:

| Rule | Part | The block, in terms of the history |
|---|---|---|
| 13835, 13667 | `CookieCounted`, `ResponseCounted` | the last checksum; how often it came in a row, as the count says it that the threshold starts over |
| 13803 | `WordsCounted` | below the limit, the total; from there on, that it was reached |
| 15125 | `GroupsCounted` | the balance of groups after all words read, as long as none was unpaired |
| 59879 | `SrpKept` | which of SRP hello, prime, public value came last, and the prime read last |
| 41547 | `SessionKept` | the last id given |
| 13475 | `PagesKept` | the first search that could be stored |
| 31361 | `FragmentsKept` | for each sequence number the last fragment logged without an alert; and of each fragment logged, whether it had to raise one |

`Types` gives the kinds. It is part of the invariant because a counting byte does
not wrap only while it is at most its threshold. The steps that are not obvious are those
where a packet has several parts: a packet may end a handshake and begin another
(`SrpQuiet`, `SrpServer`, `SrpClient`), a text may open and close groups and be cut
(`WalkIs`), a datagram may log two fragments of one number (`FragmentKeeps`).

The rest of `RuleProofs` is about `Readers`, for the inputs that its assumptions
describe, which have no bound on their length. A behaviour is one call, so the
inductive invariants (`LoopInv`, `TextInv`, `ElementInv`) only add which inputs
a reader has; the work is a lemma for each function that says what it returns.

- `NothingIsLost` (`LoopsLoseNothing`). The loops of the charms walk a list that
  they make shorter. `Walked` is what relates the list after *i* visits to the
  list before: what the first *m* addresses become, and then the rest, with the walk at
  the end of the first part (`HomeNetIs`). `Left` says which addresses are passed
  over and stay as they are: the one after an odd number of IPv6 addresses, since a
  removal moves it to a place already passed. So an address that is taken out is an
  IPv6 one, by induction over the addresses (`KeptOne`, `HomeNetKeeps`). `TakenIs` says
  from where on a dump's last lines are taken (`TalkersAre`, `RrdIs`).
- `TextHolds` (`TextIsRecovered`). Unfolding is a machine of three states; up to
  where it stops it has put out what is no folding (`Going`), and once it has
  stopped or the buffer is full, no more of it comes to count (`Over`); `UnfoldIs`
  follows with the reference's longest prefix found by `LongestIs`. For base64, the bits of each byte are
  regrouped (`SextetsAre`) and put together again (`QuadIs`) for all bytes, and
  after *g* groups the decoder has their bytes or has ended for a reason
  (`Decoded`, `GroupDecodes`). A character of no meaning leaves the decoder as it
  was, so it does not matter which of the first four it comes before
  (`JunkIsPassed`, `DecodeIs`).
- `ElementsHold` (`ElementsAreRead`). The digits of a size make its number
  again (`DigitsAre`), leading zeros are no part of it (`GetIntIs`), and so
  `ber_get_element` reads what the packet begins with (`ElementIs`). A sum that
  overflows an integer is seen, because it differs from the sum of what there is:
  that needs packets shorter than `256 ^ IntBytes`, and nothing else about them.
  The invariant says what
  the functions return to the letter (`ReturnsAre`), the refused elements included; the
  property follows (`ReturnsAreRead`).
  An element of any identifier ends in the packet (`BeyondIs`, `SkipStays`). A DNS
  name's labels lead from one to the next (`Labelled`), and the walk comes to
  what ends the name or leaves the packet (`NameIsWalked`).

**Induction over data.** The library's induction theorems take an operator as a
parameter, which no prover here can instantiate. `DataInduction` states what is
needed with sets and functions in its place. A set of numbers has a least one
(`LeastNat`, from `WFMin`), so a set with 0 that is closed under successors
has all numbers up to any bound (`InductionTo`). From that: a run of N steps exists
as a function (`RunExists`); the fold of the community modules, which is a
`CHOOSE` of a recursive function over *sets* of places, is such a run through the
places in order (`FoldExists`, `FoldRuns`); `FlattenSeq` joins one sequence after the
other (`FlattenIs`, `FlattenAppend`, `FlattenFront`). The loop over a packet's parts
is then a function from places to accumulators (`WalkRuns`, `FragmentRuns`,
`TotalRuns`; `VisitRuns`, `UnfoldRuns`, `DecodeRuns`, `NumberRuns` for the readers), and
what it does is an induction over places. Remainders by a variable are
proved from the quotient (`ModIs`, `ModSuccessor`).

`MonitorProofs` proves the two properties of the run `monitors` for its
specification, which sets both components beside each other. While a mirroring
action has a chain left to do, `WillAgree` says what its command will make of it,
run or lost. A stop of ntopng keeps `Walked`: a monitor that ran when the request came
and still lives is yet to be visited.

Assumptions, all of which TLC evaluates on the instances: `PoolAssumption`,
`KeyAssumption`, `ClientAssumption` of `WireguardServer` (the pool is not empty,
the special keys are none of the real ones); `NamesAssumption`,
`BoundAssumption` of `VpnPki` (special names are no names, bounds are numbers);
`DirsAssumption`, `UserAssumption`, `AgentAssumption` and `BoundAssumption` of
`WazuhBoot`; `EnginesAssumption`, `HeightAssumption` (a rule has a line at least),
`SizeAssumption` and `BoundAssumption` of `IdsService`; `EntriesAssumption`,
`MaxLenAssumption`, `QuestionsAssumption` and `TxIdsAssumption` (16 bits) of
`DnsSpoof`; `ReflexAssumption` of `MCTables` (a size that divides the wrap of the
index, challenges are numbers, and no source is the zero of an empty entry);
`RulesAssumption`, `LimitAssumption`, `RepeatPacketsAssumption`,
`HandshakePacketsAssumption` and `BoundsAssumption` of the stream rules (a rule's
packets are of its kind, thresholds fit in a byte with room for one more);
`BoundsAssumption` of `TrafficMirror`; `IntBytesAssumption` of `PayloadReaders`
(an integer has one to four bytes); `LinesAssumption` of `CharmLoops`,
`TextsAssumption`, `DumpsAssumption`, `NamesAssumption`, `HostsAssumption` and
`ElementsAssumption` of `Readers` (sequences of bytes, lines or addresses; a label is
no pointer; a size is written in bytes that are enough for it; a packet has fewer
bytes than an integer of the machine can count, as every IP packet has). Nothing else is assumed; what
the tools do (`wg-quick`, easyrsa, `iptables`, the daemons) is in the models, read
off how the code uses them.

Only model-checked:

- `EventuallyRunning`: liveness is out of TLAPS's reach.
- The four violated properties, where a counterexample is what is wanted.

## 5. Not modelled

- Read-only actions and the wording of replies (`to_bytes`, which has no case for
  bytes, `convert_bytes` and `get_size` among it; the Wazuh proxy's health-check, which
  compares with a word that wazuh.py does not return).
- The run action of the charms: it executes any command, so nothing holds after it.
- wg0's PostUp firewall rules, which a container restart leaves behind.
- An incomplete address given to disconnect-client, which matches several.
- Ownership and permissions in the boot, and a migration volume that is mounted
  read-only (`"readonly"` in `Fault` is defined, no run uses it: the migration is
  then repeated at each boot, over the agents enrolled since). Which ossec.conf
  is meant to win, the mounted or the migrated one, is not said anywhere.
- A handler killed inside one write: a file of a few KiB is written at once.
- Of the VPN: options of ovpn_genconfig that the charm does not pass, pushes,
  routes and iptables, the directory of ovpn_getclient_all, one-time passwords,
  the expiry of certificates and lists (time is not modelled).
- Two addresses for one WireGuard client; there is no action that gives it one.
- `configure_pod`: one call, guarded by leadership. When Juju sends the event to
  which unit is not in the repository, so nothing could be said of its liveness.
- iptnetflow's collectors: they are requests to a service that is not in the
  repository.
- The shared-object rules that keep nothing. The directory is vendored and there
  twice (`ids/so_rules` and `snort/snort2/so_rules` are the same); its C files have
  112070 lines, which is nearly all the C there is, and all but about an eighth of
  a copy's lines are licences, declarations of patterns and option structures,
  and tables (of a random-forest classifier, of domain names). The functions of
  the rules without state are tests of one packet against such tables. The rules
  that keep data between packets are all modelled, but for 16408, whose first
  test (os-windows_kb974145-tcp-sack-invalid-range.c:166) rejects every packet. So
  the share of C lines with a model is small, and stays so.
- Of the modelled rules: the tests that turn a packet away before the kept data
  are looked at, and the checksums' collisions; more than 3 fragments in a DTLS
  record and more than 2 records in a datagram, which the code does not look at.
- An address that `hostname -I` names as IPv6 without an "f" in it: the handler
  fails.

## 6. Plan

The order was: what an operator loses if it is wrong first (WireGuard's clients, the
VPN's revocations, the manager's volumes), then the sensors, then the code that
remembers packets, then the small charms. Of the plan, this is left:

1. The pure parts of the rules without state that are algorithms and not tables:
   the normalisation of `${...}` in server-webapp_log4j-rce.c, and the counting of
   letters in protocol-dns_dga-detector.c. They would go beside `PayloadReaders`,
   with references of their own.
2. Liveness of the sensors' start. It needs a statement of when operators call
   actions, which no code justifies yet.
