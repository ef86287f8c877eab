# A TLA+ model of the reverse firewall

The program is a three-party key exchange and record layer: a **client**, a
**reverse firewall** between it and the network, and a **server**. The firewall
re-randomises what the client sends, so that the client's own randomness never
reaches the server, and the three still end on common keys: `kcs` between
client and server, `kcfs` between all three. This directory holds the
specification of that protocol as the code implements it, of the start-up and
the key files it depends on and of the byte streams it runs over, the TLC runs
that check it and the TLAPS proofs of its theorems. Source paths below are
relative to the crate's `src/`; the scripts are at the root of the repository.

## 1. The system

### Components

| Component | Code | State | Operations |
|---|---|---|---|
| Primitives | `crypto.rs` | none | group, hashed ElGamal, kdf, H1/H2, HMAC, AEAD |
| Client | `client.rs`, `bin/client_bin.rs` | `x`, `c`, two public keys, `kcs`, `kcfs`, `seq`, the stream | send init, finalize, seal and send a line |
| Firewall | `firewall.rs`, `bin/firewall_bin.rs` | key pair, `pk_server`, `FirewallSession`, two streams | check and forward the init, check and relay the response, check and re-blind a record |
| Server | `server.rs`, `bin/server_bin.rs` | signing key, `kcs`, `kcfs`, `seq`, the stream | answer the init, open a record |
| Messages, framing | `messages.rs`, `net.rs` | bytes in flight | serialise, length-prefixed send and receive |
| Key loading | `pki/pki.rs` | files of `pki/` | check certificates, read keys, publish `pk_fw` |
| Key generation and deployment | `setup_pki.sh`, `deploy_reverse_firewall_3nodes.sh`, `docker/` | the files on three machines | generate, copy, start, wait |
| Configuration | `config.rs` | none | read addresses |
| In-process demonstration, tests | `main.rs`, `tests/` | none | the same handlers in one process, with assertions |

### Interaction

    client --ClientInit-->       firewall --FirewallToServer--> server
    client <--FirewallToClient-- firewall <--ServerResponse---  server
    client --RecordMessage-->    firewall --RecordMessage-->    server   (repeated)

Three single-threaded processes, two TCP connections, blocking reads without
time limits. Each binary serves one connection and ends. In the key exchange a
handler's `Err` ends the process; in the record loops a rejected record is
reported and dropped and the loop goes on. A read that fails ends the process,
and the closed connection is what its peers notice.

### What is hard

* Three parties compute the same key from different scalars; a factor missing
  at one of them shows only when the keys are compared, and no message compares
  them.
* Keys are stored before the message that follows is sent (server, firewall),
  so a failure there leaves parties with keys and others without.
* Each process loads keys from files, one read at a time, while a script may be
  clearing and filling the directory, or has failed half-way before.
* Everyone waits for someone, without time limits; each program accepts once, a
  second connection stays in a backlog that nobody reads, and the firewall
  connects before it can be connected to.
* A frame's length is cut to 32 bits, and the frame arrives in pieces.
* The two sequence counters of the record layer are never exchanged: the client
  counts sends, the server counts successes.
* Records may be altered on either connection, and the client leaves with
  records still in flight.

`PROJECT.json` lists each of these at its line, with the properties that watch
over it or the reason none does.

## 2. Modules

| Module | Models | Built on |
|---|---|---|
| `SymbolicCrypto` | hashes, MAC, AEAD, XOR with key streams, signatures | |
| `Ristretto` | the group, `kdf`, `concat_points`, hashed ElGamal | `SymbolicCrypto` |
| `Handshake` | the key exchange | `Ristretto` |
| `KeyExchange` | what it promises: who chooses and who shares which key (abstract) | |
| `RecordLayer` | the three record loops | `SymbolicCrypto` |
| `SecureChannel` | what the record layer promises (abstract) | |
| `Framing` | `send_msg` and `recv_msg` over a byte stream | |
| `FrameChannel` | what they promise: whole messages in order (abstract) | |
| `Startup` | the three programs from their start to their end | |
| `Deployment` | the key files: generation, deployment, loading | |
| `MCHandshake`, `MCRecordLayer`, `MCFraming`, `MCStartup` | small instances for TLC | |
| `HandshakeProofs` | types, agreement, stale keys, checks, turns, refinement | `Handshake` |
| `HandshakeHonestProofs` | honest peers are never rejected, and succeed | `HandshakeProofs` |
| `RecordLayerProofs` | types, order, gaps, refinement | `RecordLayer` |
| `RecordLayerHonestProofs` | intact records are accepted, and none is left behind | `RecordLayerProofs` |
| `StartupProofs` | types, sessions kept apart | `Startup` |
| `StartupProgressProofs` | nobody left waiting at rest | `StartupProofs` |
| `DeploymentProofs` | types, one generation, matched keys | `Deployment` |
| `FramingProofs` | types, causes of failures, refinement, rest | `Framing` |

The modules meet at named states. `Deployment` says which keys a program ends
up with; `Handshake` starts from any such choice. `Startup` says who is
connected to whom when the exchange begins, and its `established` is
`Handshake`'s and the start of `RecordLayer`. Both take a frame as one step,
which is what `Framing` shows to be sound (`ImplementsFrameChannel`).

### Cryptography

A tag, a sealed record, a hash and a signature are records that hold their
inputs. Two are equal only if their inputs are, and one exists only if some
process computed it. What stays concrete is everything the protocol code
decides: which key, over which bytes, compared with what. A byte string under
XOR is a plaintext and the set of key streams on it; XORing a stream twice
cancels, in any order, as on bytes. When the firewall decrypts bytes on which a
stream is left, the resulting scalar is *any* scalar, because
`from_bytes_mod_order` refuses nothing.

Ristretto255 has prime order, so a point is represented by its discrete
logarithm. The scalars are a constant set with a constant product, about which
only closure, commutativity and associativity are assumed. That leaves out
inverses and units on purpose: the theorems then hold for zero scalars too,
which `random_scalar` may return. TLC takes the integers modulo 2 or 3.

### `Handshake`

`client`, `firewall`, `session` and `server` are the structs of the same names.
`pc[p]` is the read a process is blocked in (named by the link), or `connected`
(client before its first send), `established` (in its record loop), `rejected`
(`exit(1)` after a handler's `Err`) or `exited`. `wire` holds at most one frame
on each of the four directions, which is all the exchange ever has: whoever is
about to send finds the direction empty (`NothingBeforeSend`, proved).

| Action | Code |
|---|---|
| `ClientSendsInit` | `init_message` and the send, `client_bin.rs:44-47` |
| `FirewallForwardsInit`, `FirewallRejectsInit` | `process_client_init`, `firewall_bin.rs:37-45` |
| `ServerResponds` | `process_firewall_init`, `server_bin.rs:34-44` |
| `FirewallRelaysResponse`, `FirewallRejectsResponse` | `process_server_response`, `firewall_bin.rs:47-56` |
| `ClientFinalizes`, `ClientRejects` | `finalize`, `client_bin.rs:49-55` |
| `RecvError` | a `recv_msg` that returns an error, `?` |
| `WireFault`, `Killed` | the environment |

An action is one receive, its handler and the send that follows. `SendMsg` has
two outcomes when the reader is gone: the bytes reach nobody, or the send fails
and ends the sender *after* the handler stored its keys. Merging the three
loses no interleaving that matters, because no other process sees a handler's
variables; a kill between handler and send is covered by the kill after the
action with the frame then unread.

`WireFault` replaces one field of a frame by any value of its type, or turns
the frame into one that does not decode (`Undecodable`) or whose length prefix
announces bytes that never come (`Unfinished`). Of a signature only its
destruction is possible. The field `enc_c_tilde` is left alone, for the server
never opens it.

Initially the processes are connected and hold any keys: `pk_fw` at the client
and the two copies of `pk_server` need not belong to the others' key pairs.

### `RecordLayer`

Starts with the three in their loops on agreed keys, which is what
`KeyAgreement` grants a client that got there. `clientSeq` and `serverSeq` are
the two `seq` variables, `wire` the two connections as queues. `sent`,
`delivered` and `rejected` are history: no action reads them.

| Action | Code |
|---|---|
| `ClientSendsLine`, `ClientEnds` | `client_bin.rs:64-88` |
| `FirewallForwards`, `FirewallRejects`, `FirewallSendFails`, `FirewallEnds` | `firewall_bin.rs:60-78`, `process_record_message` |
| `ServerAccepts`, `ServerRejects`, `ServerEnds` | `server_bin.rs:48-70`, `process_record_message` |
| `WireFault`, `Killed` | the environment |

Empty lines are skipped by the client (`client_bin.rs:66`) and are not among
the lines. A fault alters a field of a frame, makes it undecodable or raises its
length prefix. A raised prefix that covers the next frame swallows it
(`NextSwallowed`): `recv_msg` reads both as one body, and bincode ignores what
follows the first record. If only a part of the next frame is covered, what is
left of it is read as a length, which is the next frame being undecodable; if
the bytes announced have not been sent yet, the frame has not arrived until they
are, or its writer ends. A lowered prefix cuts a record, which does not decode.

### `Framing`

One direction of one connection. A byte is the number of its frame and its
place in it. `writing` is what `write_all` has left, `wire` what the system
holds (at most `Capacity` bytes, so a writer may be blocked), `buf` and `need`
what `read_exact` has and wants; `reader` says whether that is the prefix or
the body, or how the receiver ended.

| Action | Code |
|---|---|
| `SendMsg`, `Write`, `WriteToNobody` | `send_msg`, `net.rs:5-13` |
| `Read`, `ReadHitsEnd` | the two `read_exact`, `net.rs:17,21` |
| `TakeLength`, `TakeBody` | `net.rs:18,23` |
| `Close`, `Abort`, `Leave` | the ends of the two processes |

`Announced` is `bytes.len() as u32`, with `Modulus` for 2^32. A message that is
cut does not decode: only a `RecordMessage` can be that long, and its byte
string announces more than the buffer has. The callers end at an `Err`
(`ReaderAfterError`), and the lost boundary is never read past.

### `Startup`

Several instances of each program, each of which runs once; a program started
again is another instance. `pc[p]` is what it does next or is blocked in,
`peer`, `backlog` and `serving` are the connection it opened, those its
listener holds and the one it accepted; `up` and `down` are the frame in flight
on each connection, `published` the key file.

| Action | Code |
|---|---|
| `Start` | keys loaded; the firewall publishes, `firewall_bin.rs:20`; a client without the file ends, `client_bin.rs:26` |
| `Connect`, `Bind`, `Accept` | `firewall_bin.rs:26,30,33`, `client_bin.rs:38`, `server_bin.rs:28,31` |
| `ClientSendsInit`, `FirewallForwardsInit`, `ServerResponds`, `FirewallRelaysResponse`, `ClientFinalizes` | the exchange, without contents |
| `RecvError` | a read that finds the other end gone |
| `FirewallSendFails`, `ClientLeaves`, `Fails` | in the record loop; rejected messages and kills |

A connection is open as soon as the listening side's system has queued it, and
what is queued is accepted even if its initiator has gone. A listening socket
lives until its process ends.

### `Deployment`

Each file of each of the three `pki` directories is `Absent`, `Torn` (created
or truncated, not written yet) or of a generation. `script` is the next command
of the deployment script, `at[m]` the next read of the program on machine `m`
and `holds[m]` what it has read. `disturbed` and `straggler` are history.

| Action | Code |
|---|---|
| `RunsScript`, `ScriptFails` | `main` of the script; any command of it failing (`set -e`) |
| `Generate` | `generate_pki_once` with `setup_pki.sh` |
| `Clear`, `Copy` | `deploy_pki`: `rm -rf pki/*` file by file, then each copy, not atomic |
| `StartFirewall`, `AwaitPk`, `CheckPk`, `SendPk`, `VerifyPk` | `start_firewall`, `send_firewall_pk_to_client` |
| `LoadStep` | the next read of a loader of `pki.rs`, or the error that ends the program |
| `Publish` | `publish_firewall_pk`, empty for a moment |
| `Begin`, `Stop` | the user, kills |

`Reads` is the order in which the loaders open the files. A certificate passes
if it is of the generation of the `ca.crt` read before it, everything else if
it is whole: that is all the code compares.

## 3. Properties and runs

| Run | Instance | Properties | Distinct states |
|---|---|---|---|
| `handshake_faults` | 2 scalars, 2 key pairs, 2 faults, 1 kill | `TypeOK`, `KeyAgreement`, `StaleServerKeyBlocks`, `ServerKeyedAfterCheck` | 2.2 million |
| `handshake_prime3` | 3 scalars, 1 key pair, 1 fault | `KeyAgreement`, `HonestNeverRejected` | 1.4 million |
| `handshake_live` | 2 scalars, 1 key pair, 1 fault, 1 kill | `HandshakeSettles`, `HonestHandshakeCompletes`, `QuietMeansSettled`, `QuietMeansEstablished`, `ImplementsKeyExchange` | 93 thousand |
| `record_faults` | 3 lines of 2 kinds, 2 nonces, 2 faults, 1 kill | `TypeOK`, `DeliveredInOrder`, `GapEndsDelivery`, `UndisturbedAccepted`, `QuietMeansDelivered` | 58 thousand (symmetry) |
| `record_live` | 3 lines, 1 fault, 1 kill | `SentIsDelivered`, `ClientEndEndsAll`, `ImplementsChannel` | 45 thousand |
| `framing` | 4 messages of 3 sizes, 1 that fits | `TypeOK`, `FailureHasCause`, `ImplementsFrameChannel`, `EverySendSettles`, `QuietMeansReceived` | 12 thousand |
| `startup_faults` | 2 of each program, 2 failures | `TypeOK`, `SessionChain`, `QuietMeansServed`, `QuietMeansEndsNoticed`, `QuietMeansSession` | 49 thousand (symmetry) |
| `startup_live` | 1 server, 2 firewalls, 2 clients, 1 failure | `NobodyLeftWaiting`, `EndTravels`, `ServedIsEstablished` | 22 thousand |
| `startup_addresses` | the same with an address for each firewall, a client for each | `SessionChain`, `QuietMeansEndsNoticed`, `EndTravels` | 7 thousand |
| `startup_demo` | 1 of each, no failure | `FirewallAwaitsServer` (violated) | |
| `deploy` | 2 generations, server and firewall also started by hand | `TypeOK`, `DirectoryOfOneGeneration`, `UndisturbedLoad`, `ReadyMeansMatched` | 1.9 million |
| `deploy_mixed` | 2 generations, client started by hand | `KeysFromCertificates` (violated) | |

* `KeyAgreement` is the three assertions of `main.rs`, for every run instead of
  the undisturbed one.
* `HonestNeverRejected` is its three `.expect()`s, whatever the scalars.
* `StaleServerKeyBlocks`: an old `pk_server` at client or firewall prevents the
  client from finishing.
* `ServerKeyedAfterCheck`: the test `g^c = C` comes before the server has keys.
* `HandshakeSettles`, `HonestHandshakeCompletes`: no exchange hangs, and an
  undisturbed one succeeds.
* `QuietMeansSettled`, `QuietMeansEstablished`: the same of every state in which
  no process can act. It is one in which each has finished or ended (or one
  waits for bytes that do not come), and on matching keys, undisturbed, one in
  which all three are in their record loops.
* `ImplementsKeyExchange`: the handshake refines `KeyExchange`: the firewall
  checks, then the server chooses two keys, then the firewall shares one of them
  and after it the client both; no key ever changes.
* `DeliveredInOrder`, `GapEndsDelivery`: what is printed is a prefix of what
  was typed, and a record turned away is never skipped over: the client counts
  every send (`client_bin.rs:85`), the server every success
  (`server_bin.rs:64`), both loops go on, and each later record is refused.
* `ImplementsChannel`: the record layer refines `SecureChannel`, with `lost`
  read off `rejected`.
* `UndisturbedAccepted`: on an intact wire no record is refused, whatever `r`
  is drawn (the client's own again at the firewall included).
* `QuietMeansDelivered`: on an intact wire and without kills, firewall and
  server come to rest, or to their end, only with every line delivered.
* `SentIsDelivered`, `ClientEndEndsAll`: the lines sent just before the client
  leaves are delivered, and its end ends the other two.
* `FailureHasCause`, `EverySendSettles`: a receive fails only because the
  connection ended or a message was too long; and every message is received, or
  its receiver is told. Together: a message that fits is delivered, one that
  does not makes nobody wait.
* `QuietMeansReceived`: a writer before a full buffer and a reader of an empty
  one do not wait for each other; both rest only between messages.
* `ImplementsFrameChannel`: the bytes add up to `FrameChannel`.
* `SessionChain`: an established client has its firewall and its server to
  itself, also with others in both backlogs.
* `NobodyLeftWaiting`: a client in a backlog that nobody will accept from is
  freed when the session before it ends. It is freed by the end of the process,
  never by an answer.
* `EndTravels`: the end of an initiator reaches the process that serves it; a
  firewall that could not bind frees the server it had occupied. A firewall in
  the server's backlog is included only if all firewalls have one address
  (`OneFirewallAddress`): it reads from the server alone, and with an address of
  its own it can be bound while the server serves another. Then the end of its
  client is not seen until that session ends. `startup_addresses` is such an
  instance; without the premise TLC finds this case there.
* `ServedIsEstablished`: if nothing fails, a client whose firewall has been
  accepted by a server gets to its record loop.
* `QuietMeansServed`, `QuietMeansEndsNoticed`, `QuietMeansSession`: these three
  of every state in which no started process can go on: nobody waits if there
  is no session to wait behind (with one address for all firewalls), nobody
  serves a connection that has ended (with the same premise for a firewall in a
  server's backlog), and a client with a chain of two is in a session.
* `DirectoryOfOneGeneration`: clearing before filling keeps generations apart,
  through any number of aborted runs.
* `UndisturbedLoad`: server and firewall never compare key and certificate;
  they still match if the script left the directory alone since the start.
* `ReadyMeansMatched`: what the script may promise when it tells the user to
  start. The premise that no firewall was loading while its directory was
  cleared is needed: one that has read its old key publishes it afterwards, the
  script takes that file for the new one and sends it to the client.

**Bounds.** Two faults allow one to hide another (a frame altered on each leg);
one kill may come before or after any step. With two scalars every product is a
conjunction, so a factor used twice would go unseen: that is what the instance
with three scalars is for. Three lines are the least for a record to be
delivered, one turned away and one to follow. Of the three message sizes one
fits its prefix, one is cut to nothing and one to less than the message; with
four messages a cut one has others before and after it. Two of each program put
one in service and one in a backlog, on either side of a firewall, and the
second server is one that is started when the first has gone. An address for each
of two firewalls is the least for both to be bound at once. Two generations
are an old one and the one being deployed. The proofs have none of these bounds.

**Fairness.** Weak fairness of each process: the system runs a process that is
not blocked. Reads are the only thing the code blocks on. Nothing is assumed of
the user, of kills or of the wire, so the liveness properties say what happens
*if* the client ends or *as long as* nothing is disturbed. `HandshakeSettles`
has the premise that no frame is left unfinished: reads have no time limit, and
with a length prefix altered upwards all three do wait for ever (`Stalled`).
`Finished` lets TLC tell these final states from a real deadlock. In `Startup`
nobody has to start a program, type or leave, so `NobodyLeftWaiting` has the
premise that established clients leave some time, and it is stated for firewalls
that share an address: a client of a firewall on another address can wait for as
long as that firewall waits in the server's backlog, behind one that no client
may ever come to. `EndTravels` has the same premise for the firewall itself. In
`Framing` a write with room and a read with bytes proceed. Where a cfg says
`CHECK_DEADLOCK FALSE` the programs may all have ended, or the user may do
nothing more.

**Rest.** The `QuietMeans...` invariants are what the liveness properties come to
in a single state, where they can be proved. `Quiet` spells out the guards of
the steps that fairness is assumed of, since the prover does not know `ENABLED`;
TLC finds it equivalent to "none of them is enabled" in every state of each
instance. What they leave to the liveness properties is that the steps run out.

**The violated runs.** `startup_demo`: the script starts the firewall, waits for
its key file and then asks for the server to be started (line 372), and the
client asks for "server et firewall déjà démarrés" (`client_bin.rs:5`). The
firewall connects right after publishing, once, and is gone by then. The order
that works is the server first, which the script does not offer.

`deploy_mixed`: `client_bin.rs:22,34` say that pk_server is extracted from the
certificate and that both keys are verified by the authority. They are read from
two other files (`pki.rs:301,308`) that nothing compares with the certificates,
and a client can load them from another generation. `Handshake` says what
follows: the exchange fails (`StaleServerKeyBlocks`, `ServerKeyedAfterCheck`).

Each property has a mutant: a variant of one definition, next to it in the
module, that breaks the property the way a slip in the code would.

## 4. Proofs

All for every value of the constants: any scalars with an associative and
commutative product, any key pairs, lines and nonces, any number of lines,
faults and kills. The assumptions are `ScalarProduct`, `Sentinels` (the special
values are none of the ordinary ones), `Bounds` and `FailureBound` (the bounds
are naturals), `Sizes` (below), `Instances` and `Addresses` (no instance is of two programs;
firewalls are not pointed at firewalls nor clients at servers) and `Generations`
and `Users` (a file's special contents are no generation; programs are started
on the three machines only).

| Theorem | States |
|---|---|
| `HandshakeProofs!TypeCorrect` | `Spec => []TypeOK` |
| `HandshakeProofs!ExchangeInvariant` | `Spec => []ExchangeInv` |
| `HandshakeProofs!KeysAgree` | `Spec => []KeyAgreement` |
| `HandshakeProofs!StaleKeyBlocks` | `Spec => []StaleServerKeyBlocks` |
| `HandshakeProofs!ServerKeyedOnlyAfterCheck` | `Spec => []ServerKeyedAfterCheck` |
| `HandshakeProofs!TurnInvariant` | `Spec => []TurnInv` |
| `HandshakeProofs!QuietWhenSettled` | `Spec => []QuietMeansSettled` |
| `HandshakeProofs!ExchangeImplemented` | `Spec => ImplementsKeyExchange` |
| `HandshakeHonestProofs!HonestInvariant` | `Spec => []HonestInv` |
| `HandshakeHonestProofs!HonestAccepted` | `Spec => []HonestNeverRejected` |
| `HandshakeHonestProofs!QuietWhenEstablished` | `Spec => []QuietMeansEstablished` |
| `RecordLayerProofs!TypeCorrect` | `Spec => []TypeOK` |
| `RecordLayerProofs!RecordInvariant` | `Spec => []RecordInv` |
| `RecordLayerProofs!InOrder` | `Spec => []DeliveredInOrder` |
| `RecordLayerProofs!GapIsFinal` | `Spec => []GapEndsDelivery` |
| `RecordLayerProofs!Implements` | `Spec => ImplementsChannel` |
| `RecordLayerHonestProofs!IntactInvariant` | `Spec => []IntactInv` |
| `RecordLayerHonestProofs!IntactAccepted` | `Spec => []UndisturbedAccepted` |
| `RecordLayerHonestProofs!QuietWhenDelivered` | `Spec => []QuietMeansDelivered` |
| `StartupProofs!TypeCorrect` | `Spec => []TypeOK` |
| `StartupProofs!StartupInvariant` | `Spec => []StartupInv` |
| `StartupProofs!SessionsKeptApart` | `Spec => []SessionChain` |
| `StartupProgressProofs!WaitingInvariant` | `Spec => []WaitingInv` |
| `StartupProgressProofs!RestMeansServed` | `Spec => []QuietMeansServed` |
| `StartupProgressProofs!RestMeansEndsNoticed` | `Spec => []QuietMeansEndsNoticed` |
| `StartupProgressProofs!LivesInvariant` | `Spec => []LivesInv` |
| `StartupProgressProofs!RestMeansSession` | `Spec => []QuietMeansSession` |
| `DeploymentProofs!TypeCorrect` | `Spec => []TypeOK` |
| `DeploymentProofs!NoMixedDirectory` | `Spec => []DirectoryOfOneGeneration` |
| `DeploymentProofs!UndisturbedLoadMatches` | `Spec => []UndisturbedLoad` |
| `DeploymentProofs!DeploymentInvariant` | `Spec => []DeploymentInv` |
| `DeploymentProofs!ReadyMatches` | `Spec => []ReadyMeansMatched` |
| `FramingProofs!TypeCorrect` | `Spec => []TypeOK` |
| `FramingProofs!FramingInvariant` | `Spec => [](TypeOK /\ FramingInv)` |
| `FramingProofs!FailuresHaveCauses` | `Spec => []FailureHasCause` |
| `FramingProofs!ChannelImplemented` | `Spec => ImplementsFrameChannel` |
| `FramingProofs!QuietWhenReceived` | `Spec => []QuietMeansReceived` |

**Key agreement.** `KeyAgreement` speaks of keys after the fact; what makes it
inductive is `SignaturesBindKeys`: a good signature in flight is the server's,
over a transcript from which the server's two keys can be read
(`KeyedBy`: the exponent of Y times the third point, the exponent of D times
the fourth). Whoever verifies the signature over the transcript it rebuilt has,
by commutativity, multiplied the same scalars. `FramesHaveOrigin` and
`WaitingHasNotActed` add that each step happens once and in order, so that the
server's keys do not change under a signature.

**Turns.** `TurnInv` says, link by link, that before its writer's turn nothing
is on the wire and its reader is not past it (`NothingBeforeSend`), and that
whoever waits on an empty link waits for a writer that has yet to send or has
ended (`SomebodyOwes`). The order client, firewall, server, firewall, client then
leaves no cycle: with nothing to do, the firewall is past the init because the
client is, the server past its message because the firewall is, and so on
(`QuietSettled`). With `KeyedOnce` it also gives the refinement: the server
chooses from no keys, after the check, for the frame it reads has its origin in
a session; that the firewall shares *its* key is `SessionSound` after the step,
and the client `KeyAgreement`.

**Honest runs.** `HonestInv` says of each frame in flight that it passes the
check of its reader: the init decrypts to the client's `c`, the server's
signature is over what the firewall will rebuild, the relayed one over what the
client will. It is conditional on an undisturbed wire and matching keys, and it
leans on `ExchangeInv` for the order of steps. `AliveInv` adds that nothing to
fail on arises by itself: sent frames decode, and nobody ends as long as nobody
has ended. With `TurnInv`, rest is then success (`QuietWhenEstablished`).

**Record layer.** `RecordInv`: the counters are the lengths of the two
histories; a frame in flight seals the line its number says, at or past the
server's counter and not rejected; numbers grow along each connection, and what
the firewall forwarded precedes what it has yet to read. A fault may take a frame
out of the middle, which leaves the others in order. Order and gaps follow,
and so does the refinement step by step: a send is `Send`, an accepted record
is `Deliver`, a rejected one is `Lose`, everything else stutters.

**Intact records.** `IntactInv`: without faults each record in flight is one that
the client or the firewall built around the bytes sealed for its number, the
first one due at the server has the server's number and each next one the next.
None is missing between what was delivered and what was sent while the firewall
runs, or if nobody was killed (`NothingMissing`), and without kills a process
ends only after the one it reads from (`EndsAfterWriter`).
`RoundTrip` (unblinding what was blinded, under any two nonces) is what lets the
firewall pass on and the server open it.

**Start-up.** `SessionChain` follows from `AnswersLinked`: an answer, in flight
or received, comes from a listener that has accepted this connection, has
answered and so is past its only accept. What makes that inductive is
`ConnectionsKept` (a connection is in the backlog or the hands of the listener
it was opened to) with `NotYetConnected`. That a client's listener is a firewall
is part of `TypeOK`, by the assumption on addresses (`ReachableTyped`).

**Waiting.** `WaitingInv` adds what is owed: an open connection is in the backlog
or the hands of its living peer (`PeersHold`), an init is in flight until it is
handled (`InitArrives`), an established listener has answered
(`AnswerArrives`), and an address has one listener (`BoundApart`). At rest,
whoever is served is in a session or still without a client (`ServedAtRest`). So
a firewall that waits would wait for a server that serves another bound firewall
(`NoFirewallWaits`), and with one address for all of them there is no other; on
any addresses it would be in that server's backlog (`WaitsInBacklog`); a
client that waits would wait for a firewall whose client is in a session
(`RestServed`). For `QuietMeansSession`, `EndsHaveCause` says that a listener that has
accepted ends, if nothing failed, only after one of its neighbours; by
itself that would allow firewall and server to end because of each other, which
`ChainLives` excludes.

**Deployment.** `DirectoryOfOneGeneration` is inductive with `FillingFromEmpty`:
the directory being filled holds nothing but the last generation, because the
script left clearing it only when it was empty. `ReadsStand` says that what an
undisturbed program has read is still there; with one generation per directory
that is `UndisturbedLoad`. For `ReadyMeansMatched`, `CopiedSoFar` says which
files have been replaced by where the script is, and `NoOldKey` that without a
straggler no older `pk_fw` is published after the firewall's directory was
cleared, nor reaches the client, for which `NothingHeld` (a program that does
not run holds nothing) is needed.

**Framing.** `Pending` is what was read, what is on the wire and what is still
to be written, in this order. Writes and reads move bytes inside it and leave it
as it is; a send appends a frame, taking a prefix or a body drops its beginning,
and a reset keeps its beginning. `Consecutive` says that after each byte comes
the next of its frame, or the first of the next frame; `ReceiveInStep` where the
first one belongs, and `NothingLost` that with an open connection the last one
is the last of the last message. So a body that was read whole holds the next
message or, if its length was cut, less than that (`BodyRead`), which gives both
`FailureHasCause` and the step of the refinement. `Sizes` (messages, the prefix
and the buffer are not empty) is all that is assumed.

**Rest between messages.** At rest in `Framing` all that is pending is what the
receiver has read so far (`QuietBetweenMessages`): the first bytes of the next
message and fewer than it has, as the read is not complete (`ReceiveInStep`). By
`NothingLost` the last byte pending is the last of the last message sent, so
nothing is pending and every message sent has been received.

**Only model-checked.** The liveness properties (`HandshakeSettles`,
`HonestHandshakeCompletes`, `SentIsDelivered`, `ClientEndEndsAll`,
`EverySendSettles`, `NobodyLeftWaiting`, `EndTravels`, `ServedIsEstablished`):
fairness and `ENABLED` are outside the prover's reach. What they claim of states
of rest is proved (`ClientEndEndsAll` has no such half: with the client gone, a
firewall or a server that runs can always read or fail). Every invariant and
every refinement that a run checks is a theorem.

## 5. Limits

* No collisions and no forgeries, by construction of the values.
* PEM, DER and point decoding are the condition that a file is whole; expiry of
  certificates is left out, and so are files that somebody edits.
* `Startup` leaves out what messages say: a rejected message is a `Fails`.
  `Handshake` and `RecordLayer` have one instance of each program.
* Logging is left out. (`firewall_bin.rs:63` logs a message as sent before it
  was checked.)
* The claim that a cut message does not decode is read off the types of
  `messages.rs`; bincode itself is not modelled.

**Not modelled.** The containers: `docker-entrypoint.sh` waits for `/bin/pki`,
the binaries read `pki/` below their working directory, and the firewall's
entrypoint runs the deployment script, which builds with a `cargo` that the
image lacks; there is no behaviour of the three programs to state there. `main.rs`
and the tests run the same handlers in one process, and what they assert are
properties above. `--init-ssh` and `--check-config` change nothing that the
programs read.

**Seen on the way**, and not modelled: `client.rs:49-50` speaks of encrypting the
point C where the code encrypts the scalar c; `PKI_DIR` of `server_bin.rs:4` is
not read; the deployment script's `--create-env` calls a function that does not
exist; the list that `setup_pki.sh` prints for the client (line 96) lacks the
two certificates that `load_client_trust_bundle` needs.

## 6. Plan

Done: the modules, runs and theorems above. What is left: `Session`, which is
`Handshake` and `RecordLayer` composed on the connections of `Startup`, so that
the record layer's start is a consequence and not an assumption.
