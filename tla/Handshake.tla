------------------------------ MODULE Handshake -----------------------------
(***************************************************************************)
(* The key exchange of src/client.rs, src/firewall.rs and src/server.rs,   *)
(* run by the three processes of src/bin over their two TCP connections:   *)
(*                                                                         *)
(*    client --ClientInit-->      firewall --FirewallToServer--> server    *)
(*    client <--FirewallToClient-- firewall <--ServerResponse---  server   *)
(*                                                                         *)
(* The processes start connected, with the keys their start-up loaded,     *)
(* which need not belong to the same PKI deployment.  A step is one        *)
(* receive, the handler it feeds and the send of its result.  Frames may   *)
(* be altered on the wire and any process may stop at any point.           *)
(***************************************************************************)
EXTENDS Ristretto, Naturals

CONSTANTS
    SigningKey,     \* Ed25519 key pairs of the PKI deployments
    Null,           \* None of an Option, and "no frame on the wire"
    Undecodable,    \* a frame on which recv_msg returns an error
    Unfinished,     \* a frame whose length prefix announces bytes that never come
    BadSignature,   \* 64 bytes that nobody's signing produced
    MaxFaults,      \* bound on the frames altered or garbled on the wire
    MaxCrashes      \* bound on the processes killed from outside

VARIABLES
    client,     \* struct Client
    firewall,   \* struct Firewall
    session,    \* struct FirewallSession, Null before process_client_init
    server,     \* struct Server
    pc,         \* what each process is blocked on, or how it ended
    wire,       \* the frame in flight on each direction of the connections
    faults,     \* how many frames were altered or garbled so far
    crashes     \* how many processes were killed so far

vars == <<client, firewall, session, server, pc, wire, faults, crashes>>

-----------------------------------------------------------------------------
(* Messages (src/messages.rs) *)

Signature == [by : SigningKey, over : Transcript] \cup {BadSignature}

ClientInit == [big_x : Point, big_c : Point, enc_c : ElGamalCiphertext]

FirewallToServer ==
    [big_x_tilde : Point, big_c_tilde : Point, enc_c_tilde : ElGamalCiphertext]

ServerResponse ==
    [big_y : Point, big_d : Point, beta1 : Scalar, beta2 : Scalar,
     signature : Signature]

FirewallToClient ==
    [big_y : Point, big_d : Point, gamma1 : Scalar, gamma2 : Scalar,
     signature : Signature]

Session ==
    [alpha1 : Scalar, alpha2 : Scalar, c : Scalar, big_x : Point,
     big_c : Point, kcfs : SessionKey \cup {Null}]

(***************************************************************************)
(* The four directions and what travels on each.  In the key exchange a    *)
(* process sends on a direction once, so one frame is all it ever holds.   *)
(***************************************************************************)
Proc == {"client", "firewall", "server"}

Link == {"c2f", "f2s", "s2f", "f2c"}

Frame == [c2f |-> ClientInit, f2s |-> FirewallToServer,
          s2f |-> ServerResponse, f2c |-> FirewallToClient]

Writer == [c2f |-> "client", f2s |-> "firewall",
           s2f |-> "server", f2c |-> "firewall"]

Reader == [c2f |-> "firewall", f2s |-> "server",
           s2f |-> "firewall", f2c |-> "client"]

(***************************************************************************)
(* What a wire may hold that recv_msg returns no message for.              *)
(***************************************************************************)
NoMessage == {Null, Undecodable, Unfinished}

(***************************************************************************)
(* The sentinels are no keys, pairs of keys, sessions or frames.           *)
(***************************************************************************)
ASSUME Sentinels ==
    /\ Null \notin SessionKey
    /\ Null \notin [kcs : SessionKey, kcfs : SessionKey]
    /\ Null \notin Session
    /\ \A l \in Link : NoMessage \cap Frame[l] = {}
    /\ Null \notin {Undecodable, Unfinished}
    /\ Undecodable # Unfinished
    /\ BadSignature \notin [by : SigningKey, over : Transcript]

ASSUME Bounds == MaxFaults \in Nat /\ MaxCrashes \in Nat

-----------------------------------------------------------------------------
(* Control *)

(***************************************************************************)
(* A process is blocked in recv_msg on one of the links, or is about to    *)
(* start the exchange ("connected", the client only), or has entered its   *)
(* record loop ("established"), or is gone: "rejected" is the exit(1)      *)
(* after a handler's Err, "exited" the end by an I/O error or a kill.      *)
(***************************************************************************)
Ended == {"exited", "rejected"}

PC == Link \cup Ended \cup {"connected", "established"}

Gone(p) == pc[p] \in Ended

(***************************************************************************)
(* net::recv_msg fails on bytes that do not decode, and once the peer's    *)
(* end is closed: after the bytes still in flight or, when the close was a *)
(* reset, instead of them.  An unfinished frame keeps it waiting until     *)
(* then: no read has a time limit.                                         *)
(***************************************************************************)
Received(p, l) == pc[p] = l /\ wire[l] \notin NoMessage

\* Mutant: the end of the peer goes unnoticed.
RecvFailsOnGarbageOnly(l) == wire[l] = Undecodable

RecvFails(l) == wire[l] = Undecodable \/ Gone(Writer[l])

(***************************************************************************)
(* net::send_msg after the frame on link "from" was handled ("from" is     *)
(* empty for the client's first send).  Writing to a peer that is gone may *)
(* still succeed, the bytes then reaching nobody, or fail, which ends the  *)
(* sender.                                                                 *)
(***************************************************************************)
Consume(from) == [l \in Link |-> IF l \in from THEN Null ELSE wire[l]]

SendMsg(p, from, to, m, next) ==
    \/ /\ wire' = [Consume(from) EXCEPT ![to] = m]
       /\ pc' = [pc EXCEPT ![p] = next]
    \/ /\ Gone(Reader[to])
       /\ wire' = Consume(from)
       /\ pc' = [pc EXCEPT ![p] = "exited"]

(***************************************************************************)
(* A handler returned Err: the binary reports it and exits.                *)
(***************************************************************************)
Reject(p, from) ==
    /\ wire' = Consume({from})
    /\ pc' = [pc EXCEPT ![p] = "rejected"]

(***************************************************************************)
(* A step of the program itself, neither a fault nor a kill.               *)
(***************************************************************************)
Undisturbed == UNCHANGED <<faults, crashes>>

-----------------------------------------------------------------------------
(* Client (src/client.rs, src/bin/client_bin.rs) *)

(***************************************************************************)
(* Client::new: fresh x and c, the two public keys of the trust bundle, no *)
(* session keys yet.                                                       *)
(***************************************************************************)
NewClient ==
    [x : RandomScalar, c : RandomScalar, pk_fw : Point, pk_server : SigningKey,
     kcs : {Null}, kcfs : {Null}]

InitMessage(r) ==
    [big_x |-> BasePoint(client.x),
     big_c |-> BasePoint(client.c),
     enc_c |-> ElGamalEncrypt(client.pk_fw, client.c, r)]

ClientSendsInit ==
    /\ pc["client"] = "connected"
    /\ \E r \in RandomScalar :
          SendMsg("client", {}, "c2f", InitMessage(r), "f2c")
    /\ UNCHANGED <<client, firewall, session, server>>
    /\ Undisturbed

(***************************************************************************)
(* The client rebuilds what the server signed from its own secrets.        *)
(***************************************************************************)
ClientTranscript(m) ==
    ConcatPoints(m.big_y, m.big_d,
                 BasePoint(Mul(client.x, m.gamma1)),
                 BasePoint(Mul(client.c, m.gamma2)))

\* Mutant: the client takes the firewall's word for it.
AnyRelayVerifies(m) == TRUE

ClientVerifies(m) == Verify(client.pk_server, ClientTranscript(m), m.signature)

\* Mutant: the shared point is used as the key, not hashed.
ClientKcsUnhashed(m) == ScalarMul(Mul(client.x, m.gamma1), m.big_y)

ClientKcs(m) == Kdf(ScalarMul(Mul(client.x, m.gamma1), m.big_y))

\* Mutant: the two shared points trade exponents.
ClientKcfsFromX(m) == Kdf(ScalarMul(Mul(client.x, m.gamma2), m.big_d))

ClientKcfs(m) == Kdf(ScalarMul(Mul(client.c, m.gamma2), m.big_d))

ClientFinalizes ==
    /\ Received("client", "f2c")
    /\ ClientVerifies(wire["f2c"])
    /\ client' = [client EXCEPT !.kcs = ClientKcs(wire["f2c"]),
                               !.kcfs = ClientKcfs(wire["f2c"])]
    /\ wire' = Consume({"f2c"})
    /\ pc' = [pc EXCEPT !["client"] = "established"]
    /\ UNCHANGED <<firewall, session, server>>
    /\ Undisturbed

ClientRejects ==
    /\ Received("client", "f2c")
    /\ ~ClientVerifies(wire["f2c"])
    /\ Reject("client", "f2c")
    /\ UNCHANGED <<client, firewall, session, server>>
    /\ Undisturbed

-----------------------------------------------------------------------------
(* Firewall (src/firewall.rs, src/bin/firewall_bin.rs) *)

NewFirewall ==
    {[sk_fw |-> sk, pk_fw |-> BasePoint(sk), pk_server |-> pk] :
        sk \in RandomScalar, pk \in SigningKey}

\* Mutant: what was decrypted is not compared with C.
AnyClientInitAccepted(c, m) == TRUE

(***************************************************************************)
(* The firewall goes on only with a client whose C it holds the exponent   *)
(* of: what it decrypts must be the discrete logarithm of C.               *)
(***************************************************************************)
ClientInitAccepted(c, m) == BasePoint(c) = m.big_c

DecryptedC(m) == ScalarFromBytes(ElGamalDecrypt(firewall.sk_fw, m.enc_c))

NewSession(m, c, alpha1, alpha2) ==
    [alpha1 |-> alpha1, alpha2 |-> alpha2, c |-> c,
     big_x |-> m.big_x, big_c |-> m.big_c, kcfs |-> Null]

Rerandomised(m, c, alpha1, alpha2, r) ==
    [big_x_tilde |-> ScalarMul(alpha1, m.big_x),
     big_c_tilde |-> ScalarMul(alpha2, m.big_c),
     enc_c_tilde |-> ElGamalEncrypt(firewall.pk_fw, Mul(c, alpha2), r)]

FirewallForwardsInit ==
    /\ Received("firewall", "c2f")
    /\ LET m == wire["c2f"] IN
       \E c \in DecryptedC(m) :
          /\ ClientInitAccepted(c, m)
          /\ \E alpha1, alpha2, r \in RandomScalar :
                /\ session' = NewSession(m, c, alpha1, alpha2)
                /\ SendMsg("firewall", {"c2f"}, "f2s",
                           Rerandomised(m, c, alpha1, alpha2, r), "s2f")
    /\ UNCHANGED <<client, firewall, server>>
    /\ Undisturbed

FirewallRejectsInit ==
    /\ Received("firewall", "c2f")
    /\ \E c \in DecryptedC(wire["c2f"]) : ~ClientInitAccepted(c, wire["c2f"])
    /\ Reject("firewall", "c2f")
    /\ UNCHANGED <<client, firewall, session, server>>
    /\ Undisturbed

\* Mutant: beta1 is passed on as it came.
Gamma1WithoutAlpha(m) == m.beta1

Gamma1(m) == Mul(session.alpha1, m.beta1)

Gamma2(m) == Mul(session.alpha2, m.beta2)

FirewallTranscript(m) ==
    ConcatPoints(m.big_y, m.big_d,
                 ScalarMul(Gamma1(m), session.big_x),
                 ScalarMul(Gamma2(m), session.big_c))

\* Mutant: the firewall relays whatever it received.
AnyResponseVerifies(m) == TRUE

FirewallVerifies(m) ==
    Verify(firewall.pk_server, FirewallTranscript(m), m.signature)

\* Mutant: kcfs is computed from the server's beta2, not from gamma2.
FirewallKcfsFromBeta(m) == Kdf(ScalarMul(Mul(session.c, m.beta2), m.big_d))

FirewallKcfs(m) == Kdf(ScalarMul(Mul(session.c, Gamma2(m)), m.big_d))

FirewallRelaysResponse ==
    /\ Received("firewall", "s2f")
    /\ LET m == wire["s2f"] IN
          /\ FirewallVerifies(m)
          /\ session' = [session EXCEPT !.kcfs = FirewallKcfs(m)]
          /\ SendMsg("firewall", {"s2f"}, "f2c",
                     [big_y |-> m.big_y, big_d |-> m.big_d,
                      gamma1 |-> Gamma1(m), gamma2 |-> Gamma2(m),
                      signature |-> m.signature],
                     "established")
    /\ UNCHANGED <<client, firewall, server>>
    /\ Undisturbed

FirewallRejectsResponse ==
    /\ Received("firewall", "s2f")
    /\ ~FirewallVerifies(wire["s2f"])
    /\ Reject("firewall", "s2f")
    /\ UNCHANGED <<client, firewall, session, server>>
    /\ Undisturbed

-----------------------------------------------------------------------------
(* Server (src/server.rs, src/bin/server_bin.rs) *)

NewServer == [sk : SigningKey, kcs : {Null}, kcfs : {Null}]

\* Mutant: the two last points of the transcript are swapped.
ServerTranscriptSwapped(m, y, d, beta1, beta2) ==
    ConcatPoints(BasePoint(y), BasePoint(d),
                 ScalarMul(beta2, m.big_c_tilde),
                 ScalarMul(beta1, m.big_x_tilde))

ServerTranscript(m, y, d, beta1, beta2) ==
    ConcatPoints(BasePoint(y), BasePoint(d),
                 ScalarMul(beta1, m.big_x_tilde),
                 ScalarMul(beta2, m.big_c_tilde))

ServerKcs(m, y, beta1) == Kdf(ScalarMul(Mul(y, beta1), m.big_x_tilde))

ServerKcfs(m, d, beta2) == Kdf(ScalarMul(Mul(d, beta2), m.big_c_tilde))

Response(m, y, d, beta1, beta2) ==
    [big_y |-> BasePoint(y), big_d |-> BasePoint(d),
     beta1 |-> beta1, beta2 |-> beta2,
     signature |-> Sign(server.sk, ServerTranscript(m, y, d, beta1, beta2))]

(***************************************************************************)
(* process_firewall_init checks nothing and cannot fail.                   *)
(***************************************************************************)
ServerResponds ==
    /\ Received("server", "f2s")
    /\ LET m == wire["f2s"] IN
       \E y, d, beta1, beta2 \in RandomScalar :
          /\ server' = [server EXCEPT !.kcs = ServerKcs(m, y, beta1),
                                     !.kcfs = ServerKcfs(m, d, beta2)]
          /\ SendMsg("server", {"f2s"}, "s2f",
                     Response(m, y, d, beta1, beta2), "established")
    /\ UNCHANGED <<client, firewall, session>>
    /\ Undisturbed

-----------------------------------------------------------------------------
(* I/O errors, kills and the wire *)

(***************************************************************************)
(* A blocked receive returns an error and `?` ends the process.            *)
(***************************************************************************)
RecvError(p) ==
    /\ pc[p] \in Link
    /\ RecvFails(pc[p])
    /\ pc' = [pc EXCEPT ![p] = "exited"]
    /\ UNCHANGED <<client, firewall, session, server, wire>>
    /\ Undisturbed

Killed(p) ==
    /\ crashes < MaxCrashes
    /\ ~Gone(p)
    /\ crashes' = crashes + 1
    /\ pc' = [pc EXCEPT ![p] = "exited"]
    /\ UNCHANGED <<client, firewall, session, server, wire, faults>>

(***************************************************************************)
(* What a frame may become when one of its fields is altered in flight and *)
(* still decodes.  Of a signature only its destruction is possible; the    *)
(* encrypted exponent sent to the server is left alone, for the server     *)
(* never opens it.                                                         *)
(***************************************************************************)
AlteredClientInit(m) ==
         {[m EXCEPT !.big_x = p] : p \in Point}
    \cup {[m EXCEPT !.big_c = p] : p \in Point}
    \cup {[m EXCEPT !.enc_c.r_point = p] : p \in Point}
    \cup {[m EXCEPT !.enc_c.masked.clear = s] : s \in Scalar}

AlteredFirewallToServer(m) ==
         {[m EXCEPT !.big_x_tilde = p] : p \in Point}
    \cup {[m EXCEPT !.big_c_tilde = p] : p \in Point}

AlteredServerResponse(m) ==
         {[m EXCEPT !.big_y = p] : p \in Point}
    \cup {[m EXCEPT !.big_d = p] : p \in Point}
    \cup {[m EXCEPT !.beta1 = s] : s \in Scalar}
    \cup {[m EXCEPT !.beta2 = s] : s \in Scalar}
    \cup {[m EXCEPT !.signature = BadSignature]}

AlteredFirewallToClient(m) ==
         {[m EXCEPT !.big_y = p] : p \in Point}
    \cup {[m EXCEPT !.big_d = p] : p \in Point}
    \cup {[m EXCEPT !.gamma1 = s] : s \in Scalar}
    \cup {[m EXCEPT !.gamma2 = s] : s \in Scalar}
    \cup {[m EXCEPT !.signature = BadSignature]}

Altered(l, m) ==
    CASE l = "c2f" -> AlteredClientInit(m)
      [] l = "f2s" -> AlteredFirewallToServer(m)
      [] l = "s2f" -> AlteredServerResponse(m)
      [] l = "f2c" -> AlteredFirewallToClient(m)

WireFault(l) ==
    /\ faults < MaxFaults
    /\ wire[l] \notin NoMessage
    /\ faults' = faults + 1
    /\ \E m \in Altered(l, wire[l]) \cup {Undecodable, Unfinished} :
          m # wire[l] /\ wire' = [wire EXCEPT ![l] = m]
    /\ UNCHANGED <<client, firewall, session, server, pc, crashes>>

-----------------------------------------------------------------------------
(* Specification *)

Init ==
    /\ client \in NewClient
    /\ firewall \in NewFirewall
    /\ session = Null
    /\ server \in NewServer
    /\ pc = [client |-> "connected", firewall |-> "c2f", server |-> "f2s"]
    /\ wire = [l \in Link |-> Null]
    /\ faults = 0
    /\ crashes = 0

ClientStep == ClientSendsInit \/ ClientFinalizes \/ ClientRejects

FirewallStep ==
    \/ FirewallForwardsInit
    \/ FirewallRejectsInit
    \/ FirewallRelaysResponse
    \/ FirewallRejectsResponse

(***************************************************************************)
(* Nothing is left to do in the key exchange.                              *)
(***************************************************************************)
Settled == \A p \in Proc : pc[p] \in Ended \cup {"established"}

(***************************************************************************)
(* Some process waits for the rest of an unfinished frame, and those that  *)
(* depend on it wait with it.                                              *)
(***************************************************************************)
Stalled == \E l \in Link : wire[l] = Unfinished

Finished == (Settled \/ Stalled) /\ UNCHANGED vars

Next ==
    \/ ClientStep
    \/ FirewallStep
    \/ ServerResponds
    \/ \E p \in Proc : RecvError(p)
    \/ \E p \in Proc : Killed(p)
    \/ \E l \in Link : WireFault(l)
    \/ Finished

Spec == Init /\ [][Next]_vars

(***************************************************************************)
(* The scheduler runs every process that is not blocked.  Nothing makes a  *)
(* frame be altered or a process be killed.                                *)
(***************************************************************************)
Fairness ==
    /\ WF_vars(ClientStep \/ RecvError("client"))
    /\ WF_vars(FirewallStep \/ RecvError("firewall"))
    /\ WF_vars(ServerResponds \/ RecvError("server"))

FairSpec == Spec /\ Fairness

-----------------------------------------------------------------------------
(* Properties *)

TypeOK ==
    /\ client \in [x : Scalar, c : Scalar, pk_fw : Point,
                   pk_server : SigningKey, kcs : SessionKey \cup {Null},
                   kcfs : SessionKey \cup {Null}]
    /\ firewall \in [sk_fw : Scalar, pk_fw : Point, pk_server : SigningKey]
    /\ session \in Session \cup {Null}
    /\ server \in [sk : SigningKey, kcs : SessionKey \cup {Null},
                   kcfs : SessionKey \cup {Null}]
    /\ pc \in [Proc -> PC]
    /\ DOMAIN wire = Link
    /\ \A l \in Link : wire[l] \in Frame[l] \cup NoMessage
    /\ faults \in 0 .. MaxFaults
    /\ crashes \in 0 .. MaxCrashes

(***************************************************************************)
(* The three assertions of src/main.rs, for every run of the three         *)
(* processes and not only the undisturbed one: a client that has session   *)
(* keys shares kcs with the server and kcfs with the server and the        *)
(* firewall, and a firewall that has kcfs shares it with the server.       *)
(***************************************************************************)
KeyAgreement ==
    /\ client.kcs # Null =>
          /\ client.kcs = server.kcs
          /\ client.kcfs = server.kcfs
          /\ session # Null
          /\ client.kcfs = session.kcfs
    /\ session # Null /\ session.kcfs # Null => session.kcfs = server.kcfs

(***************************************************************************)
(* All three processes were started on the keys of one deployment.         *)
(***************************************************************************)
KeysMatch ==
    /\ client.pk_fw = firewall.pk_fw
    /\ client.pk_server = server.sk
    /\ firewall.pk_server = server.sk

(***************************************************************************)
(* The .expect()s of src/main.rs: on matching keys and an undisturbed      *)
(* wire no check of any process turns an honest peer away, whatever the    *)
(* random scalars (zero included) and whoever is killed meanwhile.         *)
(***************************************************************************)
HonestNeverRejected ==
    KeysMatch /\ faults = 0 => \A p \in Proc : pc[p] # "rejected"

(***************************************************************************)
(* A server public key left over from another deployment, at the client or *)
(* at the firewall, keeps the client from ever completing the exchange.    *)
(***************************************************************************)
StaleServerKeyBlocks ==
    client.kcs # Null =>
        client.pk_server = server.sk /\ firewall.pk_server = server.sk

(***************************************************************************)
(* The server computes session keys only in an exchange whose client the   *)
(* firewall has checked: the firewall then knows the exponent of C, which  *)
(* is what lets it compute kcfs and filter the records that follow.        *)
(***************************************************************************)
ServerKeyedAfterCheck ==
    server.kcs # Null => session # Null /\ BasePoint(session.c) = session.big_c

(***************************************************************************)
(* Every exchange comes to an end: no two processes wait for one another,  *)
(* and the end of one is noticed by those that wait for it.  Only a length *)
(* prefix that was altered can make the three wait for ever.               *)
(***************************************************************************)
HandshakeSettles ==
    []~Stalled => <>[]Settled

(***************************************************************************)
(* Undisturbed and on matching keys, the exchange succeeds at all three.   *)
(***************************************************************************)
HonestHandshakeCompletes ==
    KeysMatch /\ [](faults = 0 /\ crashes = 0)
        => <>(\A p \in Proc : pc[p] = "established")

(***************************************************************************)
(* No process can act: the client has started the exchange, and nobody has *)
(* a message to handle or an error to end with.                            *)
(***************************************************************************)
Quiet ==
    /\ pc["client"] # "connected"
    /\ \A p \in Proc, l \in Link : pc[p] = l => ~Received(p, l) /\ ~RecvFails(l)

(***************************************************************************)
(* The three never wait for one another: whatever was altered and whoever  *)
(* was killed, they come to rest only when each has got to its record loop *)
(* or has ended, or when bytes that were announced do not come.            *)
(***************************************************************************)
QuietMeansSettled == Quiet => Settled \/ Stalled

(***************************************************************************)
(* The exchange of src/main.rs, which has no exit, as three processes: on  *)
(* matching keys, with nothing altered and nobody killed, none of the ends *)
(* that the binaries provide for is taken, and rest is success.            *)
(***************************************************************************)
QuietMeansEstablished ==
    KeysMatch /\ faults = 0 /\ crashes = 0 /\ Quiet =>
        \A p \in Proc : pc[p] = "established"

-----------------------------------------------------------------------------
(* Refinement *)

Exchange ==
    INSTANCE KeyExchange WITH
        Key <- SessionKey,
        NoKey <- Null,
        checked <- session # Null,
        server <- IF server.kcs = Null THEN Null
                  ELSE [kcs |-> server.kcs, kcfs |-> server.kcfs],
        firewall <- IF session = Null THEN Null ELSE session.kcfs,
        client <- IF client.kcs = Null THEN Null
                  ELSE [kcs |-> client.kcs, kcfs |-> client.kcfs]

(***************************************************************************)
(* The four messages amount to this: the server chooses, after the check,  *)
(* the firewall shares one key and then the client both, each once.        *)
(***************************************************************************)
ImplementsKeyExchange == Exchange!Spec

-----------------------------------------------------------------------------
(* The inductive invariant behind KeyAgreement, StaleServerKeyBlocks and   *)
(* ServerKeyedAfterCheck: what the frames in flight and the position of    *)
(* each process say of the keys computed so far.                           *)

(***************************************************************************)
(* The server holds the keys that belong to the transcript t: what it has  *)
(* signed binds the two keys, through the exponents of Y and D.            *)
(***************************************************************************)
KeyedBy(t) ==
    /\ server.kcs = Kdf(ScalarMul(t[1].dlog, t[3]))
    /\ server.kcfs = Kdf(ScalarMul(t[2].dlog, t[4]))

SignaturesBindKeys ==
    \A l \in {"s2f", "f2c"} :
        wire[l] \notin NoMessage /\ wire[l].signature # BadSignature
            => /\ wire[l].signature.by = server.sk
               /\ KeyedBy(wire[l].signature.over)

SessionSound ==
    session # Null =>
        /\ BasePoint(session.c) = session.big_c
        /\ session.kcfs # Null =>
              session.kcfs = server.kcfs /\ firewall.pk_server = server.sk

(***************************************************************************)
(* A frame is on the wire, and a server has keys, only after the steps     *)
(* that lead to it.                                                        *)
(***************************************************************************)
FramesHaveOrigin ==
    /\ wire["f2s"] # Null \/ server.kcs # Null => session # Null
    /\ wire["f2c"] # Null => session # Null /\ session.kcfs # Null

(***************************************************************************)
(* A process that still waits has not done what comes after.               *)
(***************************************************************************)
WaitingHasNotActed ==
    /\ pc["firewall"] = "c2f" => session = Null
    /\ pc["firewall"] = "s2f" => session # Null
    /\ pc["firewall"] \in {"c2f", "s2f"} => wire["f2c"] = Null /\ client.kcs = Null
    /\ pc["server"] = "f2s" =>
          /\ wire["s2f"] = Null
          /\ wire["f2c"] = Null
          /\ session # Null => session.kcfs = Null
          /\ client.kcs = Null

ExchangeInv ==
    /\ KeyAgreement
    /\ StaleServerKeyBlocks
    /\ ServerKeyedAfterCheck
    /\ SignaturesBindKeys
    /\ SessionSound
    /\ FramesHaveOrigin
    /\ WaitingHasNotActed

-----------------------------------------------------------------------------
(* The inductive invariant behind QuietMeansSettled and, with ExchangeInv, *)
(* behind ImplementsKeyExchange: each step is done once and in turn.       *)

InPlace ==
    /\ pc["client"] \in {"connected", "f2c", "established"} \cup Ended
    /\ pc["firewall"] \in {"c2f", "s2f", "established"} \cup Ended
    /\ pc["server"] \in {"f2s", "established"} \cup Ended

(***************************************************************************)
(* Where the writer of a link is before it sends, and its reader after it  *)
(* has received.                                                           *)
(***************************************************************************)
BeforeSend ==
    [c2f |-> {"connected"}, f2s |-> {"c2f"}, s2f |-> {"f2s"}, f2c |-> {"c2f", "s2f"}]

AfterReceive ==
    [c2f |-> {"s2f", "established"}, f2s |-> {"established"},
     s2f |-> {"established"}, f2c |-> {"established"}]

NothingBeforeSend ==
    \A l \in Link : pc[Writer[l]] \in BeforeSend[l] =>
        wire[l] = Null /\ pc[Reader[l]] \notin AfterReceive[l]

SomebodyOwes ==
    \A l \in Link : pc[Reader[l]] = l /\ wire[l] = Null =>
        pc[Writer[l]] \in BeforeSend[l] \cup Ended

KeyedOnce ==
    /\ pc["server"] = "f2s" => server.kcs = Null
    /\ pc["firewall"] = "s2f" => session.kcfs = Null
    /\ pc["client"] \in {"connected", "f2c"} => client.kcs = Null

TurnInv ==
    /\ InPlace
    /\ NothingBeforeSend
    /\ SomebodyOwes
    /\ KeyedOnce

-----------------------------------------------------------------------------
(* The inductive invariant behind HonestNeverRejected: on an undisturbed   *)
(* wire each frame passes the check of the process it is sent to.          *)

HonestSession ==
    session # Null =>
        /\ session.c = client.c
        /\ session.big_x = BasePoint(client.x)
        /\ session.big_c = BasePoint(client.c)

HonestFrames ==
    /\ wire["c2f"] \notin NoMessage =>
          \E r \in RandomScalar : wire["c2f"] = InitMessage(r)
    /\ wire["f2s"] \notin NoMessage =>
          /\ wire["f2s"].big_x_tilde = ScalarMul(session.alpha1, session.big_x)
          /\ wire["f2s"].big_c_tilde = ScalarMul(session.alpha2, session.big_c)
    /\ wire["s2f"] \notin NoMessage =>
          session # Null /\ FirewallVerifies(wire["s2f"])
    /\ wire["f2c"] \notin NoMessage => ClientVerifies(wire["f2c"])

NobodyRejected == \A p \in Proc : pc[p] # "rejected"

HonestInv ==
    /\ firewall.pk_fw = BasePoint(firewall.sk_fw)
    /\ KeysMatch /\ faults = 0 => HonestSession /\ HonestFrames /\ NobodyRejected

-----------------------------------------------------------------------------
(* With HonestInv and TurnInv, the inductive invariant behind              *)
(* QuietMeansEstablished: nothing to fail on arises by itself.             *)

NothingUnreadable == \A l \in Link : wire[l] \notin {Undecodable, Unfinished}

NobodyEnded == \A p \in Proc : ~Gone(p)

AliveInv ==
    /\ faults = 0 => NothingUnreadable
    /\ KeysMatch /\ faults = 0 /\ crashes = 0 => NobodyEnded
=============================================================================
