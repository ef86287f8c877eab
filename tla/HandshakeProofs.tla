-------------------------- MODULE HandshakeProofs ---------------------------
(***************************************************************************)
(* Theorems about the key exchange of module Handshake, for every group of *)
(* scalars, every set of signing keys and any number of altered frames and *)
(* killed processes.                                                       *)
(***************************************************************************)
EXTENDS Handshake, TLAPS

USE DEF NoMessage

-----------------------------------------------------------------------------
(* The operators of Ristretto *)

(***************************************************************************)
(* The product of scalars is a scalar and commutes.                        *)
(***************************************************************************)
LEMMA MulFacts ==
    ASSUME NEW a \in Scalar, NEW b \in Scalar
    PROVE  /\ Mul(a, b) \in Scalar
           /\ Mul(a, b) = Mul(b, a)
BY ScalarProduct

(***************************************************************************)
(* The product of scalars associates.                                      *)
(***************************************************************************)
LEMMA MulAssociates ==
    ASSUME NEW a \in Scalar, NEW b \in Scalar, NEW c \in Scalar
    PROVE  Mul(Mul(a, b), c) = Mul(a, Mul(b, c))
BY ScalarProduct

(***************************************************************************)
(* Points are closed under the two ways the code has of making one.        *)
(***************************************************************************)
LEMMA BasePointType ==
    ASSUME NEW a \in Scalar
    PROVE  BasePoint(a) \in Point
BY DEF BasePoint, Point

(***************************************************************************)
(* Points, keys and transcripts are what their constructors say.           *)
(***************************************************************************)
LEMMA PointTypes ==
    ASSUME NEW a \in Scalar, NEW p \in Point
    PROVE  /\ BasePoint(a) \in Point
           /\ p.dlog \in Scalar
           /\ ScalarMul(a, p) \in Point
           /\ Kdf(p) \in SessionKey
BY ScalarProduct DEF Point, BasePoint, ScalarMul, Kdf, SessionKey

(***************************************************************************)
(* An ElGamal encryption of a scalar is a ciphertext.                      *)
(***************************************************************************)
LEMMA EncryptType ==
    ASSUME NEW pk \in Point, NEW msg \in Scalar, NEW r \in Scalar
    PROVE  ElGamalEncrypt(pk, msg, r) \in ElGamalCiphertext
<1>1. Kdf(ScalarMul(r, pk)) \in SessionKey
  BY PointTypes
<1>2. Xor(Plain(msg), Kdf(ScalarMul(r, pk))) \in Masked
  BY <1>1 DEF Xor, Plain, SymDiff, Masked
<1> QED
  BY <1>2, PointTypes DEF ElGamalEncrypt, ElGamalCiphertext

(***************************************************************************)
(* What the firewall reads out of any ciphertext is a scalar.              *)
(***************************************************************************)
LEMMA DecryptType ==
    ASSUME NEW ct \in ElGamalCiphertext, NEW sk
    PROVE  ScalarFromBytes(ElGamalDecrypt(sk, ct)) \subseteq Scalar
BY DEF ScalarFromBytes, ElGamalDecrypt, ElGamalCiphertext, Masked, Xor, IsClear

-----------------------------------------------------------------------------
(* Types *)

(***************************************************************************)
(* The part of TypeOK that sends and receives change.                      *)
(***************************************************************************)
ControlTyped ==
    /\ pc \in [Proc -> PC]
    /\ DOMAIN wire = Link
    /\ \A l \in Link : wire[l] \in Frame[l] \cup NoMessage

(***************************************************************************)
(* A send keeps positions and frames well typed.                           *)
(***************************************************************************)
LEMMA SendTyped ==
    ASSUME ControlTyped, NEW p \in Proc, NEW from, NEW to \in Link,
           NEW m \in Frame[to], NEW next \in PC, SendMsg(p, from, to, m, next)
    PROVE  ControlTyped'
<1>1. DOMAIN Consume(from) = Link
      /\ \A l \in Link : Consume(from)[l] \in Frame[l] \cup NoMessage
  BY DEF ControlTyped, Consume
<1>2. wire' \in {[Consume(from) EXCEPT ![to] = m], Consume(from)}
  BY DEF SendMsg
<1>3. DOMAIN wire' = Link
      /\ \A l \in Link : wire'[l] \in Frame[l] \cup NoMessage
  BY <1>1, <1>2
<1>4. pc' \in [Proc -> PC]
  BY DEF SendMsg, ControlTyped, PC, Ended
<1> QED
  BY <1>3, <1>4 DEF ControlTyped

(***************************************************************************)
(* So does a rejection.                                                    *)
(***************************************************************************)
LEMMA RejectTyped ==
    ASSUME ControlTyped, NEW p \in Proc, NEW from, Reject(p, from)
    PROVE  ControlTyped'
BY DEF ControlTyped, Reject, Consume, PC, Ended

(***************************************************************************)
(* What a process receives is a frame of the link it waits on.             *)
(***************************************************************************)
LEMMA ReceivedTyped ==
    ASSUME TypeOK, NEW p, NEW l \in Link, Received(p, l)
    PROVE  wire[l] \in Frame[l]
BY DEF TypeOK, Received

(***************************************************************************)
(* An altered frame is a frame of the same link.                           *)
(***************************************************************************)
LEMMA AlteredTyped ==
    ASSUME NEW l \in Link, NEW m \in Frame[l]
    PROVE  Altered(l, m) \subseteq Frame[l]
<1>1. CASE l = "c2f"
  <2>1. m \in ClientInit
    BY <1>1 DEF Frame
  <2>2. AlteredClientInit(m) \subseteq ClientInit
    BY <2>1 DEF AlteredClientInit, ClientInit, ElGamalCiphertext, Masked
  <2> QED
    BY <1>1, <2>2 DEF Altered, Frame
<1>2. CASE l = "f2s"
  BY <1>2 DEF Altered, Frame, AlteredFirewallToServer, FirewallToServer
<1>3. CASE l = "s2f"
  BY <1>3 DEF Altered, Frame, AlteredServerResponse, ServerResponse, Signature
<1>4. CASE l = "f2c"
  BY <1>4 DEF Altered, Frame, AlteredFirewallToClient, FirewallToClient, Signature
<1> QED
  BY <1>1, <1>2, <1>3, <1>4 DEF Link

(***************************************************************************)
(* The client's init is a ClientInit.                                      *)
(***************************************************************************)
LEMMA InitMessageTyped ==
    ASSUME TypeOK, NEW r \in Scalar
    PROVE  InitMessage(r) \in ClientInit
<1>1. client.x \in Scalar /\ client.c \in Scalar /\ client.pk_fw \in Point
  BY DEF TypeOK
<1> QED
  BY <1>1, PointTypes, EncryptType DEF InitMessage, ClientInit

(***************************************************************************)
(* The firewall forwards a FirewallToServer and opens a session.           *)
(***************************************************************************)
LEMMA RerandomisedTyped ==
    ASSUME TypeOK, NEW m \in ClientInit, NEW c \in Scalar,
           NEW alpha1 \in Scalar, NEW alpha2 \in Scalar, NEW r \in Scalar
    PROVE  /\ Rerandomised(m, c, alpha1, alpha2, r) \in FirewallToServer
           /\ NewSession(m, c, alpha1, alpha2) \in Session
<1>1. m.big_x \in Point /\ m.big_c \in Point
  BY DEF ClientInit
<1>2. firewall.pk_fw \in Point /\ Mul(c, alpha2) \in Scalar
  BY MulFacts DEF TypeOK
<1>3. ElGamalEncrypt(firewall.pk_fw, Mul(c, alpha2), r) \in ElGamalCiphertext
  BY <1>2, EncryptType
<1> QED
  BY <1>1, <1>3, PointTypes DEF Rerandomised, FirewallToServer, NewSession, Session

(***************************************************************************)
(* A forwarded init leaves a session that knows the exponent of C and has  *)
(* no key yet.                                                             *)
(***************************************************************************)
LEMMA ForwardMakesSession ==
    ASSUME TypeOK, FirewallForwardsInit
    PROVE  /\ session' \in Session
           /\ session' # Null
           /\ session'.kcfs = Null
           /\ BasePoint(session'.c) = session'.big_c
<1> DEFINE m == wire["c2f"]
<1>1. m \in ClientInit
  BY ReceivedTyped DEF FirewallForwardsInit, Link, Frame
<1>2. PICK c \in DecryptedC(m), alpha1, alpha2 \in Scalar :
        /\ ClientInitAccepted(c, m)
        /\ session' = NewSession(m, c, alpha1, alpha2)
  BY DEF FirewallForwardsInit, RandomScalar
<1>3. c \in Scalar
  BY <1>1, DecryptType DEF DecryptedC, ClientInit
<1>4. session' \in Session
  BY <1>1, <1>2, <1>3, RerandomisedTyped
<1>5. session'.kcfs = Null /\ BasePoint(session'.c) = session'.big_c
  BY <1>2 DEF NewSession, ClientInitAccepted
<1> QED
  BY <1>4, <1>5, Sentinels

(***************************************************************************)
(* The server answers with a response of the right type, and with keys.    *)
(***************************************************************************)
LEMMA ResponseTyped ==
    ASSUME TypeOK, NEW m \in FirewallToServer, NEW y \in Scalar,
           NEW d \in Scalar, NEW beta1 \in Scalar, NEW beta2 \in Scalar
    PROVE  /\ Response(m, y, d, beta1, beta2) \in ServerResponse
           /\ ServerKcs(m, y, beta1) \in SessionKey
           /\ ServerKcfs(m, d, beta2) \in SessionKey
<1>1. m.big_x_tilde \in Point /\ m.big_c_tilde \in Point
  BY DEF FirewallToServer
<1>2. ServerTranscript(m, y, d, beta1, beta2) \in Transcript
  BY <1>1, PointTypes DEF ServerTranscript, ConcatPoints, Transcript
<1>3. Sign(server.sk, ServerTranscript(m, y, d, beta1, beta2)) \in Signature
  BY <1>2 DEF Sign, Signature, TypeOK
<1>4. Response(m, y, d, beta1, beta2) \in ServerResponse
  BY <1>3, BasePointType DEF Response, ServerResponse
<1>5. Mul(y, beta1) \in Scalar /\ Mul(d, beta2) \in Scalar
  BY MulFacts
<1>6. ServerKcs(m, y, beta1) \in SessionKey
      /\ ServerKcfs(m, d, beta2) \in SessionKey
  BY <1>1, <1>5, PointTypes DEF ServerKcs, ServerKcfs
<1> QED
  BY <1>4, <1>6

(***************************************************************************)
(* The firewall relays a FirewallToClient and computes a key.              *)
(***************************************************************************)
LEMMA RelayTyped ==
    ASSUME TypeOK, session # Null, NEW m \in ServerResponse
    PROVE  /\ [big_y |-> m.big_y, big_d |-> m.big_d,
               gamma1 |-> Gamma1(m), gamma2 |-> Gamma2(m),
               signature |-> m.signature] \in FirewallToClient
           /\ Gamma1(m) \in Scalar
           /\ Gamma2(m) \in Scalar
           /\ FirewallKcfs(m) \in SessionKey
<1>1. session \in Session
  BY DEF TypeOK
<1>2. Gamma1(m) \in Scalar /\ Gamma2(m) \in Scalar
  BY <1>1, MulFacts DEF Gamma1, Gamma2, Session, ServerResponse
<1>3. session.c \in Scalar /\ m.big_d \in Point
  BY <1>1 DEF Session, ServerResponse
<1>4. Mul(session.c, Gamma2(m)) \in Scalar
  BY <1>2, <1>3, MulFacts
<1>5. FirewallKcfs(m) \in SessionKey
  BY <1>3, <1>4, PointTypes DEF FirewallKcfs
<1> QED
  BY <1>2, <1>5 DEF FirewallToClient, ServerResponse

(***************************************************************************)
(* The client computes keys.                                               *)
(***************************************************************************)
LEMMA ClientKeysTyped ==
    ASSUME TypeOK, NEW m \in FirewallToClient
    PROVE  ClientKcs(m) \in SessionKey /\ ClientKcfs(m) \in SessionKey
<1>1. /\ client.x \in Scalar
      /\ client.c \in Scalar
      /\ m.gamma1 \in Scalar
      /\ m.gamma2 \in Scalar
      /\ m.big_y \in Point
      /\ m.big_d \in Point
  BY DEF TypeOK, FirewallToClient
<1>2. Mul(client.x, m.gamma1) \in Scalar /\ Mul(client.c, m.gamma2) \in Scalar
  BY <1>1, MulFacts
<1> QED
  BY <1>1, <1>2, PointTypes DEF ClientKcs, ClientKcfs

(***************************************************************************)
(* TypeOK is not inductive alone: the firewall updates its session when    *)
(* the response arrives, and must have one by then.                        *)
(***************************************************************************)
SessionBeforeResponse == pc["firewall"] = "s2f" => session # Null

(***************************************************************************)
(* Every step of Next preserves the types.                                 *)
(***************************************************************************)
LEMMA TypeStep ==
    TypeOK /\ SessionBeforeResponse /\ [Next]_vars => TypeOK'
<1> SUFFICES ASSUME TypeOK, SessionBeforeResponse, [Next]_vars
             PROVE  TypeOK'
  OBVIOUS
<1>0. ControlTyped
  BY DEF TypeOK, ControlTyped
<1>a. ASSUME ControlTyped', Undisturbed,
             UNCHANGED <<client, firewall, session, server>>
      PROVE  TypeOK'
  BY <1>a DEF TypeOK, ControlTyped, Undisturbed
<1>1. CASE ClientSendsInit
  <2>1. PICK r \in Scalar : SendMsg("client", {}, "c2f", InitMessage(r), "f2c")
    BY <1>1 DEF ClientSendsInit, RandomScalar
  <2>2. InitMessage(r) \in Frame["c2f"]
    BY InitMessageTyped DEF Frame
  <2>3. ControlTyped'
    BY <1>0, <2>1, <2>2, SendTyped DEF Proc, Link, PC
  <2> QED
    BY <1>1, <1>a, <2>3 DEF ClientSendsInit
<1>2. CASE ClientFinalizes
  <2>1. wire["f2c"] \in FirewallToClient
    BY <1>2, ReceivedTyped DEF ClientFinalizes, Link, Frame
  <2>2. client' \in [x : Scalar, c : Scalar, pk_fw : Point,
                     pk_server : SigningKey, kcs : SessionKey \cup {Null},
                     kcfs : SessionKey \cup {Null}]
    BY <1>2, <2>1, ClientKeysTyped DEF ClientFinalizes, TypeOK
  <2>3. ControlTyped'
    BY <1>0, <1>2 DEF ClientFinalizes, ControlTyped, Consume, PC
  <2> QED
    BY <1>2, <2>2, <2>3 DEF ClientFinalizes, TypeOK, ControlTyped, Undisturbed
<1>3. CASE ClientRejects
  BY <1>0, <1>3, <1>a, RejectTyped DEF ClientRejects, Proc
<1>4. CASE FirewallForwardsInit
  <2> DEFINE m == wire["c2f"]
  <2>1. m \in ClientInit
    BY <1>4, ReceivedTyped DEF FirewallForwardsInit, Link, Frame
  <2>2. PICK c \in DecryptedC(m), alpha1, alpha2, r \in Scalar :
          /\ session' = NewSession(m, c, alpha1, alpha2)
          /\ SendMsg("firewall", {"c2f"}, "f2s",
                     Rerandomised(m, c, alpha1, alpha2, r), "s2f")
    BY <1>4 DEF FirewallForwardsInit, RandomScalar
  <2>3. c \in Scalar
    BY <2>1, DecryptType DEF DecryptedC, ClientInit
  <2>4. /\ Rerandomised(m, c, alpha1, alpha2, r) \in FirewallToServer
        /\ session' \in Session
    BY <2>1, <2>2, <2>3, RerandomisedTyped
  <2>5. Rerandomised(m, c, alpha1, alpha2, r) \in Frame["f2s"]
    BY <2>4 DEF Frame
  <2>6. ControlTyped'
    BY <1>0, <2>2, <2>5, SendTyped DEF Proc, Link, PC
  <2> QED
    BY <1>4, <2>4, <2>6
    DEF FirewallForwardsInit, TypeOK, ControlTyped, Undisturbed
<1>5. CASE FirewallRejectsInit
  BY <1>0, <1>5, <1>a, RejectTyped DEF FirewallRejectsInit, Proc
<1>6. CASE FirewallRelaysResponse
  <2> DEFINE m == wire["s2f"]
  <2> DEFINE relayed == [big_y |-> m.big_y, big_d |-> m.big_d,
                         gamma1 |-> Gamma1(m), gamma2 |-> Gamma2(m),
                         signature |-> m.signature]
  <2>1. m \in ServerResponse
    BY <1>6, ReceivedTyped DEF FirewallRelaysResponse, Link, Frame
  <2>2. session' = [session EXCEPT !.kcfs = FirewallKcfs(m)]
        /\ SendMsg("firewall", {"s2f"}, "f2c", relayed, "established")
    BY <1>6 DEF FirewallRelaysResponse
  <2>3. session # Null
    BY <1>6 DEF FirewallRelaysResponse, Received, SessionBeforeResponse
  <2>4. relayed \in FirewallToClient /\ FirewallKcfs(m) \in SessionKey
    BY <2>1, <2>3, RelayTyped
  <2>5. session' \in Session
    BY <2>2, <2>3, <2>4 DEF TypeOK, Session
  <2>6. relayed \in Frame["f2c"]
    BY <2>4 DEF Frame
  <2>7. ControlTyped'
    BY <1>0, <2>2, <2>6, SendTyped DEF Proc, Link, PC
  <2> QED
    BY <1>6, <2>5, <2>7
    DEF FirewallRelaysResponse, TypeOK, ControlTyped, Undisturbed
<1>7. CASE FirewallRejectsResponse
  BY <1>0, <1>7, <1>a, RejectTyped DEF FirewallRejectsResponse, Proc
<1>8. CASE ServerResponds
  <2> DEFINE m == wire["f2s"]
  <2>1. m \in FirewallToServer
    BY <1>8, ReceivedTyped DEF ServerResponds, Link, Frame
  <2>2. PICK y, d, beta1, beta2 \in Scalar :
          /\ server' = [server EXCEPT !.kcs = ServerKcs(m, y, beta1),
                                     !.kcfs = ServerKcfs(m, d, beta2)]
          /\ SendMsg("server", {"f2s"}, "s2f",
                     Response(m, y, d, beta1, beta2), "established")
    BY <1>8 DEF ServerResponds, RandomScalar
  <2>3. /\ Response(m, y, d, beta1, beta2) \in ServerResponse
        /\ ServerKcs(m, y, beta1) \in SessionKey
        /\ ServerKcfs(m, d, beta2) \in SessionKey
    BY <2>1, ResponseTyped
  <2>4. server' \in [sk : SigningKey, kcs : SessionKey \cup {Null},
                     kcfs : SessionKey \cup {Null}]
    BY <2>2, <2>3 DEF TypeOK
  <2>5. Response(m, y, d, beta1, beta2) \in Frame["s2f"]
    BY <2>3 DEF Frame
  <2>6. ControlTyped'
    BY <1>0, <2>2, <2>5, SendTyped DEF Proc, Link, PC
  <2> QED
    BY <1>8, <2>4, <2>6 DEF ServerResponds, TypeOK, ControlTyped, Undisturbed
<1>9. CASE \E p \in Proc : RecvError(p)
  <2>1. ControlTyped'
    BY <1>0, <1>9 DEF RecvError, ControlTyped, PC, Ended
  <2> QED
    BY <1>9, <1>a, <2>1 DEF RecvError
<1>10. CASE \E p \in Proc : Killed(p)
  <2>1. PICK p \in Proc : Killed(p)
    BY <1>10
  <2>2. crashes' \in 0 .. MaxCrashes
    BY <2>1, Bounds DEF Killed, TypeOK
  <2>3. pc' \in [Proc -> PC]
    BY <2>1 DEF Killed, TypeOK, PC, Ended
  <2> QED
    BY <2>1, <2>2, <2>3 DEF Killed, TypeOK
<1>11. CASE \E l \in Link : WireFault(l)
  <2>1. PICK l \in Link : WireFault(l)
    BY <1>11
  <2>2. wire[l] \in Frame[l]
    BY <2>1 DEF WireFault, TypeOK
  <2>3. PICK m \in Frame[l] \cup {Undecodable, Unfinished} : wire' = [wire EXCEPT ![l] = m]
    BY <2>1, <2>2, AlteredTyped DEF WireFault
  <2>4. /\ DOMAIN wire' = Link
        /\ \A k \in Link : wire'[k] \in Frame[k] \cup NoMessage
    BY <2>3 DEF TypeOK
  <2>5. faults' \in 0 .. MaxFaults
    BY <2>1, Bounds DEF WireFault, TypeOK
  <2> QED
    BY <2>1, <2>4, <2>5 DEF WireFault, TypeOK
<1>12. CASE UNCHANGED vars
  BY <1>12 DEF vars, TypeOK
<1> QED
  BY <1>1, <1>2, <1>3, <1>4, <1>5, <1>6, <1>7, <1>8, <1>9, <1>10, <1>11, <1>12
  DEF Next, ClientStep, FirewallStep, Finished

(***************************************************************************)
(* Only FirewallForwardsInit takes the firewall to where it awaits the     *)
(* response, and it sets the session.                                      *)
(***************************************************************************)
LEMMA SessionStep ==
    TypeOK /\ TypeOK' /\ SessionBeforeResponse /\ [Next]_vars
        => SessionBeforeResponse'
<1> SUFFICES ASSUME TypeOK, TypeOK', SessionBeforeResponse, [Next]_vars
             PROVE  SessionBeforeResponse'
  OBVIOUS
<1>1. ASSUME UNCHANGED session, pc'["firewall"] = "s2f" => pc["firewall"] = "s2f"
      PROVE  SessionBeforeResponse'
  BY <1>1 DEF SessionBeforeResponse
<1>2. CASE FirewallForwardsInit
  BY <1>2, ForwardMakesSession DEF SessionBeforeResponse
<1>3. CASE FirewallRelaysResponse
  BY <1>3 DEF FirewallRelaysResponse, SendMsg, SessionBeforeResponse, TypeOK, Proc
<1>4. CASE ClientStep \/ ServerResponds
  BY <1>1, <1>4 DEF ClientStep, ClientSendsInit, ClientFinalizes, ClientRejects,
     ServerResponds, SendMsg, Reject, TypeOK, Proc
<1>5. CASE FirewallRejectsInit \/ FirewallRejectsResponse
  BY <1>1, <1>5 DEF FirewallRejectsInit, FirewallRejectsResponse, Reject, TypeOK, Proc
<1>6. CASE \E p \in Proc : RecvError(p) \/ Killed(p)
  BY <1>1, <1>6 DEF RecvError, Killed, TypeOK, Proc
<1>7. CASE (\E l \in Link : WireFault(l)) \/ UNCHANGED vars
  BY <1>1, <1>7 DEF WireFault, vars
<1> QED
  BY <1>2, <1>3, <1>4, <1>5, <1>6, <1>7 DEF Next, FirewallStep, Finished

(***************************************************************************)
(* Every variable keeps its type: keys are keys, frames decode to messages *)
(* of their link, and the bounds hold.                                     *)
(***************************************************************************)
THEOREM TypeCorrect == Spec => []TypeOK
<1>1. Init => TypeOK /\ SessionBeforeResponse
  <2> SUFFICES ASSUME Init
               PROVE  TypeOK /\ SessionBeforeResponse
    OBVIOUS
  <2>1. firewall \in [sk_fw : Scalar, pk_fw : Point, pk_server : SigningKey]
    BY BasePointType DEF Init, NewFirewall, RandomScalar
  <2>2. pc \in [Proc -> PC]
    BY DEF Init, Proc, PC, Link, Ended
  <2>3. faults \in 0 .. MaxFaults /\ crashes \in 0 .. MaxCrashes
    BY Bounds DEF Init
  <2>4. SessionBeforeResponse
    BY DEF Init, SessionBeforeResponse
  <2> QED
    BY <2>1, <2>2, <2>3, <2>4
    DEF Init, NewClient, NewServer, RandomScalar, TypeOK
<1>2. TypeOK /\ SessionBeforeResponse /\ [Next]_vars
        => (TypeOK /\ SessionBeforeResponse)'
  BY TypeStep, SessionStep
<1> QED
  BY <1>1, <1>2, PTL DEF Spec

-----------------------------------------------------------------------------
(* The keys behind a signed transcript *)

(***************************************************************************)
(* A signature that the client accepts for m is the holder's of pk_server, *)
(* and the keys the client then computes are those of the transcript.      *)
(***************************************************************************)
LEMMA ClientAcceptsKeys ==
    ASSUME TypeOK, NEW m \in FirewallToClient, ClientVerifies(m)
    PROVE  /\ m.signature # BadSignature
           /\ m.signature.by = client.pk_server
           /\ KeyedBy(m.signature.over)
                 => ClientKcs(m) = server.kcs /\ ClientKcfs(m) = server.kcfs
<1> DEFINE t == ClientTranscript(m)
<1>1. /\ client.x \in Scalar
      /\ client.c \in Scalar
      /\ client.pk_server \in SigningKey
      /\ m.gamma1 \in Scalar
      /\ m.gamma2 \in Scalar
      /\ m.big_y \in Point
      /\ m.big_d \in Point
  BY DEF TypeOK, FirewallToClient
<1>2. m.signature = [by |-> client.pk_server, over |-> t]
  BY DEF ClientVerifies, Verify, Sign
<1>3. Mul(client.x, m.gamma1) \in Scalar /\ Mul(client.c, m.gamma2) \in Scalar
  BY <1>1, MulFacts
<1>4. t = <<m.big_y, m.big_d, BasePoint(Mul(client.x, m.gamma1)),
            BasePoint(Mul(client.c, m.gamma2))>>
  BY DEF ClientTranscript, ConcatPoints
<1>5. t \in Transcript
  BY <1>1, <1>3, <1>4, BasePointType DEF Transcript
<1>6. m.signature # BadSignature
  BY <1>1, <1>2, <1>5, Sentinels
<1>7. /\ m.big_y.dlog \in Scalar
      /\ m.big_d.dlog \in Scalar
  BY <1>1 DEF Point
<1>8. /\ Mul(Mul(client.x, m.gamma1), m.big_y.dlog)
           = Mul(m.big_y.dlog, Mul(client.x, m.gamma1))
      /\ Mul(Mul(client.c, m.gamma2), m.big_d.dlog)
           = Mul(m.big_d.dlog, Mul(client.c, m.gamma2))
  BY <1>3, <1>7, MulFacts
<1>9. ASSUME KeyedBy(t)
      PROVE  ClientKcs(m) = server.kcs /\ ClientKcfs(m) = server.kcfs
  BY <1>4, <1>8, <1>9 DEF KeyedBy, ClientKcs, ClientKcfs, ScalarMul, BasePoint
<1> QED
  BY <1>2, <1>6, <1>9

(***************************************************************************)
(* The same of the firewall, whose key also needs the exponent of C.       *)
(***************************************************************************)
LEMMA FirewallAcceptsKey ==
    ASSUME TypeOK, session # Null, BasePoint(session.c) = session.big_c,
           NEW m \in ServerResponse, FirewallVerifies(m)
    PROVE  /\ m.signature # BadSignature
           /\ m.signature.by = firewall.pk_server
           /\ KeyedBy(m.signature.over) => FirewallKcfs(m) = server.kcfs
<1> DEFINE t == FirewallTranscript(m)
<1>1. session \in Session
  BY DEF TypeOK
<1>2. /\ session.big_x \in Point
      /\ session.big_c \in Point
      /\ session.c \in Scalar
      /\ firewall.pk_server \in SigningKey
      /\ m.big_y \in Point
      /\ m.big_d \in Point
  BY <1>1 DEF TypeOK, Session, ServerResponse
<1>3. Gamma1(m) \in Scalar /\ Gamma2(m) \in Scalar
  BY RelayTyped
<1>4. m.signature = [by |-> firewall.pk_server, over |-> t]
  BY DEF FirewallVerifies, Verify, Sign
<1>5. t = <<m.big_y, m.big_d, ScalarMul(Gamma1(m), session.big_x),
            ScalarMul(Gamma2(m), session.big_c)>>
  BY DEF FirewallTranscript, ConcatPoints
<1>6. t \in Transcript
  BY <1>2, <1>3, <1>5, PointTypes DEF Transcript
<1>7. m.signature # BadSignature
  BY <1>2, <1>4, <1>6, Sentinels
<1>8. session.big_c.dlog = session.c
  BY DEF BasePoint
<1>9. /\ m.big_d.dlog \in Scalar
      /\ Mul(session.c, Gamma2(m)) \in Scalar
      /\ Mul(session.c, Gamma2(m)) = Mul(Gamma2(m), session.c)
  BY <1>2, <1>3, MulFacts DEF Point
<1>10. Mul(Mul(session.c, Gamma2(m)), m.big_d.dlog)
         = Mul(m.big_d.dlog, Mul(Gamma2(m), session.c))
  BY <1>9, MulFacts
<1>11. ASSUME KeyedBy(t)
       PROVE  FirewallKcfs(m) = server.kcfs
  BY <1>5, <1>8, <1>10, <1>11 DEF KeyedBy, FirewallKcfs, ScalarMul
<1> QED
  BY <1>4, <1>7, <1>11

(***************************************************************************)
(* The keys the server computes are those of the transcript it signs.      *)
(***************************************************************************)
LEMMA ServerKeysOfTranscript ==
    ASSUME NEW m \in FirewallToServer, NEW y \in Scalar, NEW d \in Scalar,
           NEW beta1 \in Scalar, NEW beta2 \in Scalar
    PROVE  LET t == ServerTranscript(m, y, d, beta1, beta2)
           IN  /\ ServerKcs(m, y, beta1) = Kdf(ScalarMul(t[1].dlog, t[3]))
               /\ ServerKcfs(m, d, beta2) = Kdf(ScalarMul(t[2].dlog, t[4]))
<1>1. m.big_x_tilde.dlog \in Scalar /\ m.big_c_tilde.dlog \in Scalar
  BY DEF FirewallToServer, Point
<1>2. Mul(Mul(y, beta1), m.big_x_tilde.dlog)
        = Mul(y, Mul(beta1, m.big_x_tilde.dlog))
  BY <1>1, MulAssociates
<1>3. Mul(Mul(d, beta2), m.big_c_tilde.dlog)
        = Mul(d, Mul(beta2, m.big_c_tilde.dlog))
  BY <1>1, MulAssociates
<1> QED
  BY <1>2, <1>3 DEF ServerTranscript, ServerKcs, ServerKcfs, ConcatPoints, ScalarMul,
     BasePoint

-----------------------------------------------------------------------------
(* The invariant *)

(***************************************************************************)
(* Steps that compute nothing and at most take frames off the wire, or     *)
(* alter them without forging a signature, and after which no process      *)
(* waits that did not wait before, preserve the invariant.                 *)
(***************************************************************************)
Uneventful ==
    /\ UNCHANGED <<client, firewall, session, server>>
    /\ \A l \in {"f2s", "s2f", "f2c"} : wire'[l] # Null => wire[l] # Null
    /\ \A l \in {"s2f", "f2c"} :
          wire'[l] \notin NoMessage /\ wire'[l].signature # BadSignature
              => /\ wire[l] \notin NoMessage
                 /\ wire'[l].signature = wire[l].signature
    /\ pc'["firewall"] \in {"c2f", "s2f"} => pc'["firewall"] = pc["firewall"]
    /\ pc'["server"] = "f2s" => pc'["server"] = pc["server"]

(***************************************************************************)
(* Uneventful steps preserve the invariant.                                *)
(***************************************************************************)
LEMMA UneventfulStep == ExchangeInv /\ Uneventful => ExchangeInv'
<1> SUFFICES ASSUME ExchangeInv, Uneventful
             PROVE  ExchangeInv'
  OBVIOUS
<1> USE DEF ExchangeInv, Uneventful
<1>1. KeyAgreement' /\ StaleServerKeyBlocks' /\ ServerKeyedAfterCheck'
  BY DEF KeyAgreement, StaleServerKeyBlocks, ServerKeyedAfterCheck
<1>2. SignaturesBindKeys'
  BY DEF SignaturesBindKeys, KeyedBy
<1>3. SessionSound'
  BY DEF SessionSound
<1>4. FramesHaveOrigin'
  BY DEF FramesHaveOrigin
<1>5. WaitingHasNotActed'
  BY DEF WaitingHasNotActed
<1> QED
  BY <1>1, <1>2, <1>3, <1>4, <1>5

(***************************************************************************)
(* What a send changes: one frame, and the sender's position.              *)
(***************************************************************************)
LEMMA SendEffect ==
    ASSUME ControlTyped, NEW p \in Proc, NEW from \in SUBSET Link,
           NEW to \in Link, NEW m, NEW next, SendMsg(p, from, to, m, next)
    PROVE  /\ \A l \in Link \ {to} : wire'[l] \in {wire[l], Null}
           /\ wire'[to] \in {m, wire[to], Null}
           /\ \A q \in Proc \ {p} : pc'[q] = pc[q]
           /\ pc'[p] \in {next, "exited"}
BY DEF SendMsg, Consume, ControlTyped

(***************************************************************************)
(* The response binds the keys the server has just computed, and nobody    *)
(* has computed any before.                                                *)
(***************************************************************************)
LEMMA ServerRespondsStep ==
    ASSUME TypeOK, ExchangeInv, ServerResponds
    PROVE  ExchangeInv'
<1> DEFINE m == wire["f2s"]
<1>0. ControlTyped
  BY DEF TypeOK, ControlTyped
<1>1. m \in FirewallToServer
  BY ReceivedTyped DEF ServerResponds, Link, Frame
<1>2. PICK y, d, beta1, beta2 \in Scalar :
        /\ server' = [server EXCEPT !.kcs = ServerKcs(m, y, beta1),
                                   !.kcfs = ServerKcfs(m, d, beta2)]
        /\ SendMsg("server", {"f2s"}, "s2f",
                   Response(m, y, d, beta1, beta2), "established")
  BY DEF ServerResponds, RandomScalar
<1> DEFINE t == ServerTranscript(m, y, d, beta1, beta2)
<1> DEFINE answer == Response(m, y, d, beta1, beta2)
<1>3. /\ UNCHANGED <<client, firewall, session>>
      /\ pc["server"] = "f2s"
      /\ wire["f2s"] # Null
  BY DEF ServerResponds, Received
<1>4. /\ wire'["f2s"] \in {wire["f2s"], Null}
      /\ wire'["f2c"] \in {wire["f2c"], Null}
      /\ wire'["s2f"] \in {answer, wire["s2f"], Null}
      /\ pc'["firewall"] = pc["firewall"]
      /\ pc'["server"] \in {"established", "exited"}
  BY <1>0, <1>2, SendEffect DEF Proc, Link
<1>5. /\ wire["s2f"] = Null
      /\ wire["f2c"] = Null
      /\ session # Null
      /\ session.kcfs = Null
      /\ client.kcs = Null
  BY <1>3 DEF ExchangeInv, WaitingHasNotActed, FramesHaveOrigin
<1>6. /\ server'.sk = server.sk
      /\ server'.kcs = Kdf(ScalarMul(t[1].dlog, t[3]))
      /\ server'.kcfs = Kdf(ScalarMul(t[2].dlog, t[4]))
  BY <1>1, <1>2, ServerKeysOfTranscript DEF TypeOK
<1>7. answer.signature.by = server.sk /\ answer.signature.over = t
  BY DEF Response, Sign
<1>8. KeyAgreement' /\ StaleServerKeyBlocks'
  BY <1>3, <1>5 DEF KeyAgreement, StaleServerKeyBlocks
<1>9. ServerKeyedAfterCheck'
  BY <1>3, <1>5 DEF ServerKeyedAfterCheck, ExchangeInv, SessionSound
<1>10. SignaturesBindKeys'
  BY <1>4, <1>5, <1>6, <1>7 DEF SignaturesBindKeys, KeyedBy
<1>11. SessionSound'
  BY <1>3, <1>5 DEF ExchangeInv, SessionSound
<1>12. FramesHaveOrigin' /\ WaitingHasNotActed'
  BY <1>3, <1>4, <1>5 DEF ExchangeInv, FramesHaveOrigin, WaitingHasNotActed
<1> QED
  BY <1>8, <1>9, <1>10, <1>11, <1>12 DEF ExchangeInv

(***************************************************************************)
(* The firewall opens a session before any frame for the server exists.    *)
(***************************************************************************)
LEMMA FirewallForwardsStep ==
    ASSUME TypeOK, ExchangeInv, FirewallForwardsInit
    PROVE  ExchangeInv'
<1>0. ControlTyped
  BY DEF TypeOK, ControlTyped
<1>1. PICK m : SendMsg("firewall", {"c2f"}, "f2s", m, "s2f")
  BY DEF FirewallForwardsInit
<1>2. /\ wire'["s2f"] \in {wire["s2f"], Null}
      /\ wire'["f2c"] \in {wire["f2c"], Null}
      /\ pc'["server"] = pc["server"]
      /\ pc'["firewall"] \in {"s2f", "exited"}
  BY <1>0, <1>1, SendEffect DEF Proc, Link
<1>3. /\ session' # Null
      /\ session'.kcfs = Null
      /\ BasePoint(session'.c) = session'.big_c
  BY ForwardMakesSession
<1>4. /\ UNCHANGED <<client, firewall, server>>
      /\ pc["firewall"] = "c2f"
  BY DEF FirewallForwardsInit, Received
<1>5. /\ session = Null
      /\ wire["f2c"] = Null
      /\ client.kcs = Null
  BY <1>4 DEF ExchangeInv, WaitingHasNotActed
<1>6. KeyAgreement' /\ StaleServerKeyBlocks' /\ ServerKeyedAfterCheck'
  BY <1>3, <1>4, <1>5 DEF KeyAgreement, StaleServerKeyBlocks, ServerKeyedAfterCheck
<1>7. SignaturesBindKeys'
  BY <1>2, <1>4 DEF ExchangeInv, SignaturesBindKeys, KeyedBy
<1>8. SessionSound' /\ FramesHaveOrigin'
  BY <1>2, <1>3, <1>5 DEF SessionSound, FramesHaveOrigin
<1>9. WaitingHasNotActed'
  BY <1>2, <1>3, <1>4, <1>5 DEF ExchangeInv, WaitingHasNotActed
<1> QED
  BY <1>6, <1>7, <1>8, <1>9 DEF ExchangeInv

(***************************************************************************)
(* The firewall computes the server's key from the transcript it accepts,  *)
(* and passes the server's signature on.                                   *)
(***************************************************************************)
LEMMA FirewallRelaysStep ==
    ASSUME TypeOK, ExchangeInv, FirewallRelaysResponse
    PROVE  ExchangeInv'
<1> DEFINE m == wire["s2f"]
<1> DEFINE relayed == [big_y |-> m.big_y, big_d |-> m.big_d,
                       gamma1 |-> Gamma1(m), gamma2 |-> Gamma2(m),
                       signature |-> m.signature]
<1>0. ControlTyped
  BY DEF TypeOK, ControlTyped
<1>1. m \in ServerResponse
  BY ReceivedTyped DEF FirewallRelaysResponse, Link, Frame
<1>2. /\ m \notin NoMessage
      /\ pc["firewall"] = "s2f"
      /\ UNCHANGED <<client, firewall, server>>
      /\ FirewallVerifies(m)
      /\ session' = [session EXCEPT !.kcfs = FirewallKcfs(m)]
      /\ SendMsg("firewall", {"s2f"}, "f2c", relayed, "established")
  BY DEF FirewallRelaysResponse, Received
<1>3. /\ wire'["s2f"] \in {wire["s2f"], Null}
      /\ wire'["f2s"] \in {wire["f2s"], Null}
      /\ wire'["f2c"] \in {relayed, wire["f2c"], Null}
      /\ pc'["server"] = pc["server"]
      /\ pc'["firewall"] \in {"established", "exited"}
  BY <1>0, <1>2, SendEffect DEF Proc, Link
<1>4. /\ session # Null
      /\ wire["f2c"] = Null
      /\ client.kcs = Null
      /\ pc["server"] # "f2s"
  BY <1>2 DEF ExchangeInv, WaitingHasNotActed
<1>5. BasePoint(session.c) = session.big_c
  BY <1>4 DEF ExchangeInv, SessionSound
<1>6. /\ m.signature # BadSignature
      /\ m.signature.by = server.sk
      /\ KeyedBy(m.signature.over)
      /\ m.signature.by = firewall.pk_server
      /\ FirewallKcfs(m) = server.kcfs
  BY <1>1, <1>2, <1>4, <1>5, FirewallAcceptsKey
  DEF ExchangeInv, SignaturesBindKeys
<1>7. /\ session' \in Session
      /\ session'.kcfs = server.kcfs
      /\ session'.kcfs # Null
      /\ session'.c = session.c
      /\ session'.big_c = session.big_c
  BY <1>1, <1>2, <1>4, <1>6, RelayTyped, Sentinels DEF TypeOK, Session
<1>8. session' # Null
  BY <1>7, Sentinels
<1>9. KeyAgreement' /\ StaleServerKeyBlocks'
  BY <1>2, <1>4, <1>7 DEF KeyAgreement, StaleServerKeyBlocks
<1>10. ServerKeyedAfterCheck'
  BY <1>5, <1>7, <1>8 DEF ServerKeyedAfterCheck
<1>11. SignaturesBindKeys'
  BY <1>2, <1>3, <1>4, <1>6 DEF ExchangeInv, SignaturesBindKeys, KeyedBy
<1>12. SessionSound'
  BY <1>2, <1>5, <1>6, <1>7 DEF SessionSound
<1>13. FramesHaveOrigin'
  BY <1>7, <1>8 DEF FramesHaveOrigin
<1>14. WaitingHasNotActed'
  BY <1>3, <1>4 DEF WaitingHasNotActed
<1> QED
  BY <1>9, <1>10, <1>11, <1>12, <1>13, <1>14 DEF ExchangeInv

(***************************************************************************)
(* The client computes the server's keys from the transcript it accepts.   *)
(***************************************************************************)
LEMMA ClientFinalizesStep ==
    ASSUME TypeOK, ExchangeInv, ClientFinalizes
    PROVE  ExchangeInv'
<1> DEFINE m == wire["f2c"]
<1>1. m \in FirewallToClient
  BY ReceivedTyped DEF ClientFinalizes, Link, Frame
<1>2. /\ m \notin NoMessage
      /\ ClientVerifies(m)
      /\ UNCHANGED <<firewall, session, server>>
      /\ client' = [client EXCEPT !.kcs = ClientKcs(m), !.kcfs = ClientKcfs(m)]
      /\ \A l \in Link : wire'[l] \in {wire[l], Null}
      /\ wire'["f2c"] = Null
  BY DEF ClientFinalizes, Received, Consume, Link
<1>3. /\ pc'["firewall"] = pc["firewall"]
      /\ pc'["server"] = pc["server"]
  BY DEF ClientFinalizes, TypeOK, Proc
<1>4. /\ session # Null
      /\ session.kcfs # Null
      /\ session.kcfs = server.kcfs
      /\ firewall.pk_server = server.sk
      /\ BasePoint(session.c) = session.big_c
  BY <1>2 DEF ExchangeInv, FramesHaveOrigin, SessionSound
<1>5. /\ client.pk_server = server.sk
      /\ ClientKcs(m) = server.kcs
      /\ ClientKcfs(m) = server.kcfs
  BY <1>1, <1>2, ClientAcceptsKeys DEF ExchangeInv, SignaturesBindKeys
<1>6. /\ client'.kcs = server.kcs
      /\ client'.kcfs = server.kcfs
      /\ client'.pk_server = client.pk_server
  BY <1>2, <1>5 DEF TypeOK
<1>7. pc["firewall"] \notin {"c2f", "s2f"} /\ pc["server"] # "f2s"
  BY <1>2 DEF ExchangeInv, WaitingHasNotActed
<1>8. KeyAgreement' /\ StaleServerKeyBlocks' /\ ServerKeyedAfterCheck'
  BY <1>2, <1>4, <1>5, <1>6
  DEF KeyAgreement, StaleServerKeyBlocks, ServerKeyedAfterCheck
<1>9. SignaturesBindKeys'
  BY <1>2 DEF ExchangeInv, SignaturesBindKeys, KeyedBy, Link
<1>10. SessionSound' /\ FramesHaveOrigin'
  BY <1>2, <1>4 DEF SessionSound, FramesHaveOrigin
<1>11. WaitingHasNotActed'
  BY <1>3, <1>7 DEF WaitingHasNotActed
<1> QED
  BY <1>8, <1>9, <1>10, <1>11 DEF ExchangeInv

(***************************************************************************)
(* An alteration destroys a signature or leaves it as it is.               *)
(***************************************************************************)
LEMMA AlteredSignature ==
    ASSUME NEW l \in {"s2f", "f2c"}, NEW m \in Frame[l], NEW a \in Altered(l, m)
    PROVE  a.signature \in {m.signature, BadSignature}
<1>1. CASE l = "s2f"
  <2>1. m \in ServerResponse /\ a \in AlteredServerResponse(m)
    BY <1>1 DEF Frame, Altered
  <2> QED
    BY <2>1 DEF AlteredServerResponse, ServerResponse
<1>2. CASE l = "f2c"
  <2>1. m \in FirewallToClient /\ a \in AlteredFirewallToClient(m)
    BY <1>2 DEF Frame, Altered
  <2> QED
    BY <2>1 DEF AlteredFirewallToClient, FirewallToClient
<1> QED
  BY <1>1, <1>2

(***************************************************************************)
(* A wire fault is uneventful: of a signature it leaves nothing or all.    *)
(***************************************************************************)
LEMMA WireFaultUneventful ==
    ASSUME TypeOK, NEW l \in Link, WireFault(l)
    PROVE  Uneventful
<1>1. wire[l] \in Frame[l]
  BY DEF WireFault, TypeOK
<1>2. PICK m \in Altered(l, wire[l]) \cup {Undecodable, Unfinished} :
         wire' = [wire EXCEPT ![l] = m]
  BY DEF WireFault
<1>3. /\ DOMAIN wire = Link
      /\ wire[l] \notin NoMessage
      /\ UNCHANGED <<client, firewall, session, server, pc>>
  BY DEF WireFault, TypeOK
<1>4. \A k \in Link : wire'[k] = IF k = l THEN m ELSE wire[k]
  BY <1>2, <1>3
<1>5. \A k \in Link : wire'[k] # Null => wire[k] # Null
  BY <1>3, <1>4
<1>6. ASSUME NEW k \in {"s2f", "f2c"}, wire'[k] \notin NoMessage,
             wire'[k].signature # BadSignature
      PROVE  /\ wire[k] \notin NoMessage
             /\ wire'[k].signature = wire[k].signature
  BY <1>1, <1>2, <1>3, <1>4, <1>6, AlteredSignature DEF Link
<1> QED
  BY <1>3, <1>5, <1>6 DEF Uneventful, Link

(***************************************************************************)
(* Every step of Next preserves the inductive invariant.                   *)
(***************************************************************************)
LEMMA ExchangeStep == TypeOK /\ ExchangeInv /\ [Next]_vars => ExchangeInv'
<1> SUFFICES ASSUME TypeOK, ExchangeInv, [Next]_vars
             PROVE  ExchangeInv'
  OBVIOUS
<1>0. ControlTyped
  BY DEF TypeOK, ControlTyped
<1>1. CASE ClientSendsInit
  <2>1. PICK m : SendMsg("client", {}, "c2f", m, "f2c")
    BY <1>1 DEF ClientSendsInit
  <2>2. /\ \A l \in Link \ {"c2f"} : wire'[l] \in {wire[l], Null}
        /\ \A q \in Proc \ {"client"} : pc'[q] = pc[q]
    BY <1>0, <2>1, SendEffect DEF Proc, Link
  <2>3. Uneventful
    BY <1>1, <2>2 DEF ClientSendsInit, Uneventful, Link, Proc
  <2> QED
    BY <2>3, UneventfulStep
<1>2. CASE ClientFinalizes
  BY <1>2, ClientFinalizesStep
<1>3. CASE FirewallForwardsInit
  BY <1>3, FirewallForwardsStep
<1>4. CASE FirewallRelaysResponse
  BY <1>4, FirewallRelaysStep
<1>5. CASE ServerResponds
  BY <1>5, ServerRespondsStep
<1>6. CASE ClientRejects \/ FirewallRejectsInit \/ FirewallRejectsResponse
  <2>1. PICK p \in {"client", "firewall"}, from \in Link : Reject(p, from)
    BY <1>6 DEF ClientRejects, FirewallRejectsInit, FirewallRejectsResponse, Link
  <2>2. UNCHANGED <<client, firewall, session, server>>
    BY <1>6 DEF ClientRejects, FirewallRejectsInit, FirewallRejectsResponse
  <2>3. /\ \A l \in Link : wire'[l] \in {wire[l], Null}
        /\ \A q \in Proc : pc'[q] \in {pc[q], "rejected"}
    BY <2>1 DEF Reject, Consume, TypeOK
  <2>4. Uneventful
    BY <2>2, <2>3 DEF Uneventful, Link, Proc
  <2> QED
    BY <2>4, UneventfulStep
<1>7. CASE \E p \in Proc : RecvError(p) \/ Killed(p)
  <2>1. /\ UNCHANGED <<client, firewall, session, server, wire>>
        /\ \A q \in Proc : pc'[q] \in {pc[q], "exited"}
    BY <1>7 DEF RecvError, Killed, TypeOK
  <2>2. Uneventful
    BY <2>1 DEF Uneventful, Proc
  <2> QED
    BY <2>2, UneventfulStep
<1>8. CASE \E l \in Link : WireFault(l)
  BY <1>8, WireFaultUneventful, UneventfulStep
<1>9. CASE UNCHANGED vars
  <2>1. Uneventful
    BY <1>9 DEF vars, Uneventful
  <2> QED
    BY <2>1, UneventfulStep
<1> QED
  BY <1>1, <1>2, <1>3, <1>4, <1>5, <1>6, <1>7, <1>8, <1>9
  DEF Next, ClientStep, FirewallStep, Finished

(***************************************************************************)
(* The processes start without keys, session or frame.                     *)
(***************************************************************************)
LEMMA ExchangeInit == Init => ExchangeInv
<1> SUFFICES ASSUME Init
             PROVE  ExchangeInv
  OBVIOUS
<1>1. /\ client.kcs = Null
      /\ server.kcs = Null
      /\ session = Null
      /\ \A l \in Link : wire[l] = Null
      /\ pc["firewall"] = "c2f"
  BY DEF Init, NewClient, NewServer
<1> QED
  BY <1>1 DEF ExchangeInv, KeyAgreement, StaleServerKeyBlocks,
     ServerKeyedAfterCheck, SignaturesBindKeys, SessionSound,
     FramesHaveOrigin, WaitingHasNotActed, Link

-----------------------------------------------------------------------------
(* The theorems *)

(***************************************************************************)
(* The strengthening is an invariant of the key exchange.                  *)
(***************************************************************************)
THEOREM ExchangeInvariant == Spec => []ExchangeInv
<1>1. TypeOK /\ ExchangeInv /\ TypeOK' /\ [Next]_vars => ExchangeInv'
  BY ExchangeStep
<1> QED
  BY <1>1, ExchangeInit, TypeCorrect, PTL DEF Spec

(***************************************************************************)
(* Whatever is altered on the wire and whoever dies when: a client that    *)
(* finishes holds the same kcs as the server and the same kcfs as server   *)
(* and firewall (the assertions of main.rs).                               *)
(***************************************************************************)
THEOREM KeysAgree == Spec => []KeyAgreement
<1>1. ExchangeInv => KeyAgreement
  BY DEF ExchangeInv
<1> QED
  BY <1>1, ExchangeInvariant, PTL

(***************************************************************************)
(* No client finishes an exchange in which it or the firewall holds the    *)
(* public key of another server (client.rs and firewall.rs, verify).       *)
(***************************************************************************)
THEOREM StaleKeyBlocks == Spec => []StaleServerKeyBlocks
<1>1. ExchangeInv => StaleServerKeyBlocks
  BY DEF ExchangeInv
<1> QED
  BY <1>1, ExchangeInvariant, PTL

(***************************************************************************)
(* No server gets keys in an exchange whose client the firewall has not    *)
(* checked (firewall.rs, the test g^c = C).                                *)
(***************************************************************************)
THEOREM ServerKeyedOnlyAfterCheck == Spec => []ServerKeyedAfterCheck
<1>1. ExchangeInv => ServerKeyedAfterCheck
  BY DEF ExchangeInv
<1> QED
  BY <1>1, ExchangeInvariant, PTL

-----------------------------------------------------------------------------
(* Turns *)

(***************************************************************************)
(* The two parts of TurnInv that speak of all links, link by link.         *)
(***************************************************************************)
LEMMA TurnsByLink ==
    /\ NothingBeforeSend <=>
          /\ pc["client"] = "connected" =>
                wire["c2f"] = Null /\ pc["firewall"] \notin {"s2f", "established"}
          /\ pc["firewall"] = "c2f" => wire["f2s"] = Null /\ pc["server"] # "established"
          /\ pc["server"] = "f2s" => wire["s2f"] = Null /\ pc["firewall"] # "established"
          /\ pc["firewall"] \in {"c2f", "s2f"} =>
                wire["f2c"] = Null /\ pc["client"] # "established"
    /\ SomebodyOwes <=>
          /\ pc["firewall"] = "c2f" /\ wire["c2f"] = Null =>
                pc["client"] \in {"connected"} \cup Ended
          /\ pc["server"] = "f2s" /\ wire["f2s"] = Null =>
                pc["firewall"] \in {"c2f"} \cup Ended
          /\ pc["firewall"] = "s2f" /\ wire["s2f"] = Null =>
                pc["server"] \in {"f2s"} \cup Ended
          /\ pc["client"] = "f2c" /\ wire["f2c"] = Null =>
                pc["firewall"] \in {"c2f", "s2f"} \cup Ended
BY DEF NothingBeforeSend, SomebodyOwes, BeforeSend, AfterReceive, Writer, Reader, Link

(***************************************************************************)
(* The same of the next state.                                             *)
(***************************************************************************)
LEMMA TurnsByLinkNext ==
    /\ NothingBeforeSend' <=>
          /\ pc'["client"] = "connected" =>
                wire'["c2f"] = Null /\ pc'["firewall"] \notin {"s2f", "established"}
          /\ pc'["firewall"] = "c2f" =>
                wire'["f2s"] = Null /\ pc'["server"] # "established"
          /\ pc'["server"] = "f2s" =>
                wire'["s2f"] = Null /\ pc'["firewall"] # "established"
          /\ pc'["firewall"] \in {"c2f", "s2f"} =>
                wire'["f2c"] = Null /\ pc'["client"] # "established"
    /\ SomebodyOwes' <=>
          /\ pc'["firewall"] = "c2f" /\ wire'["c2f"] = Null =>
                pc'["client"] \in {"connected"} \cup Ended
          /\ pc'["server"] = "f2s" /\ wire'["f2s"] = Null =>
                pc'["firewall"] \in {"c2f"} \cup Ended
          /\ pc'["firewall"] = "s2f" /\ wire'["s2f"] = Null =>
                pc'["server"] \in {"f2s"} \cup Ended
          /\ pc'["client"] = "f2c" /\ wire'["f2c"] = Null =>
                pc'["firewall"] \in {"c2f", "s2f"} \cup Ended
BY DEF NothingBeforeSend, SomebodyOwes, BeforeSend, AfterReceive, Writer, Reader, Link

(***************************************************************************)
(* All that a send changes: it consumes the frame handled, and puts one on *)
(* the wire or ends the sender.                                            *)
(***************************************************************************)
LEMMA SendOutcome ==
    ASSUME TypeOK, NEW p \in Proc, NEW from \in SUBSET Link, NEW to \in Link \ from,
           NEW m \in Frame[to], NEW next, SendMsg(p, from, to, m, next)
    PROVE  /\ \A l \in Link \ (from \cup {to}) : wire'[l] = wire[l]
           /\ \A l \in from : wire'[l] = Null
           /\ \A q \in Proc \ {p} : pc'[q] = pc[q]
           /\ \/ pc'[p] = next /\ wire'[to] # Null
              \/ pc'[p] = "exited" /\ wire'[to] = wire[to]
<1>1. m # Null
  BY Sentinels
<1>2. DOMAIN wire = Link /\ pc \in [Proc -> PC]
  BY DEF TypeOK
<1> QED
  BY <1>1, <1>2 DEF SendMsg, Consume

(***************************************************************************)
(* A process that ends without sending consumes what it waited for, or     *)
(* nothing.                                                                *)
(***************************************************************************)
LEMMA TurnEnds ==
    ASSUME TypeOK, TurnInv, NEW p \in Proc,
           pc' = [pc EXCEPT ![p] = "exited"] \/ pc' = [pc EXCEPT ![p] = "rejected"],
           \A l \in Link : wire'[l] # wire[l] =>
                            pc[p] = l /\ p = Reader[l] /\ wire'[l] = Null,
           UNCHANGED <<client, session, server>>
    PROVE  TurnInv'
<1>1. pc'[p] \in Ended /\ \A q \in Proc \ {p} : pc'[q] = pc[q]
  BY DEF TypeOK, Ended
<1>2. \A q \in Proc : pc'[q] \in {pc[q]} \cup Ended
  BY <1>1
<1>3. InPlace'
  BY <1>2 DEF TurnInv, InPlace, Proc
<1>4. KeyedOnce'
  BY <1>2 DEF TurnInv, KeyedOnce, Proc, Ended
<1>5. \A l \in Link : wire[l] = Null => wire'[l] = Null
  OBVIOUS
<1>6. \A l \in Link : pc'[Reader[l]] = l => pc[Reader[l]] = l /\ wire'[l] = wire[l]
  <2> SUFFICES ASSUME NEW l \in Link, pc'[Reader[l]] = l
               PROVE  pc[Reader[l]] = l /\ wire'[l] = wire[l]
    OBVIOUS
  <2>1. Reader[l] \in Proc /\ l \notin Ended
    BY DEF Reader, Link, Proc, Ended
  <2> QED
    BY <1>1, <2>1
<1>7. \A l \in Link : /\ Writer[l] \in Proc /\ Reader[l] \in Proc
                      /\ BeforeSend[l] \cap Ended = {}
                      /\ AfterReceive[l] \cap Ended = {}
  BY DEF Reader, Writer, BeforeSend, AfterReceive, Link, Proc, Ended
<1>8. NothingBeforeSend'
  BY <1>2, <1>5, <1>7 DEF TurnInv, NothingBeforeSend
<1>9. SomebodyOwes'
  BY <1>2, <1>6, <1>7 DEF TurnInv, SomebodyOwes
<1> QED
  BY <1>3, <1>4, <1>8, <1>9 DEF TurnInv

(***************************************************************************)
(* Every step of Next preserves the invariant.                             *)
(***************************************************************************)
LEMMA TurnStep == TypeOK /\ SessionBeforeResponse /\ TurnInv /\ [Next]_vars => TurnInv'
<1> SUFFICES ASSUME TypeOK, SessionBeforeResponse, TurnInv, [Next]_vars
             PROVE  TurnInv'
  OBVIOUS
<1>0. InPlace /\ NothingBeforeSend /\ SomebodyOwes /\ KeyedOnce
  BY DEF TurnInv
<1>1. CASE ClientSendsInit
  <2>1. PICK r \in Scalar : SendMsg("client", {}, "c2f", InitMessage(r), "f2c")
    BY <1>1 DEF ClientSendsInit, RandomScalar
  <2>2. InitMessage(r) \in Frame["c2f"]
    BY InitMessageTyped DEF Frame
  <2>3. /\ \A l \in {"f2s", "s2f", "f2c"} : wire'[l] = wire[l]
        /\ pc'["firewall"] = pc["firewall"] /\ pc'["server"] = pc["server"]
        /\ \/ pc'["client"] = "f2c" /\ wire'["c2f"] # Null
           \/ pc'["client"] = "exited" /\ wire'["c2f"] = wire["c2f"]
    <3>1. "client" \in Proc /\ {} \in SUBSET Link /\ "c2f" \in Link \ {}
      BY DEF Proc, Link
    <3>2. /\ \A l \in Link \ ({} \cup {"c2f"}) : wire'[l] = wire[l]
          /\ \A l \in {} : wire'[l] = Null
          /\ \A q \in Proc \ {"client"} : pc'[q] = pc[q]
          /\ \/ pc'["client"] = "f2c" /\ wire'["c2f"] # Null
             \/ pc'["client"] = "exited" /\ wire'["c2f"] = wire["c2f"]
      BY <3>1, <2>1, <2>2, SendOutcome
    <3> QED
      BY <3>2 DEF Proc, Link
  <2>4. pc["client"] = "connected" /\ UNCHANGED <<client, session, server>>
    BY <1>1 DEF ClientSendsInit
  <2>5. InPlace' /\ KeyedOnce'
    BY <1>0, <2>3, <2>4 DEF InPlace, KeyedOnce, Ended
  <2>6. NothingBeforeSend' /\ SomebodyOwes'
    BY <1>0, <2>3, <2>4, TurnsByLink, TurnsByLinkNext DEF InPlace, Ended
  <2> QED
    BY <2>5, <2>6 DEF TurnInv
<1>2. CASE ClientFinalizes
  <2>1. /\ pc["client"] = "f2c" /\ wire["f2c"] # Null
        /\ wire'["f2c"] = Null /\ \A l \in {"c2f", "f2s", "s2f"} : wire'[l] = wire[l]
        /\ pc'["client"] = "established"
        /\ pc'["firewall"] = pc["firewall"] /\ pc'["server"] = pc["server"]
        /\ UNCHANGED <<session, server>>
    BY <1>2 DEF ClientFinalizes, Received, Consume, TypeOK, Proc, Link
  <2>2. InPlace' /\ KeyedOnce'
    BY <1>0, <2>1 DEF InPlace, KeyedOnce, Ended
  <2>3. NothingBeforeSend' /\ SomebodyOwes'
    BY <1>0, <2>1, TurnsByLink, TurnsByLinkNext DEF InPlace, Ended
  <2> QED
    BY <2>2, <2>3 DEF TurnInv
<1>3. CASE FirewallForwardsInit
  <2> DEFINE m == wire["c2f"]
  <2>1. m \in ClientInit
    BY <1>3, ReceivedTyped DEF FirewallForwardsInit, Link, Frame
  <2>2. PICK c \in DecryptedC(m), alpha1, alpha2, r \in Scalar :
          SendMsg("firewall", {"c2f"}, "f2s",
                  Rerandomised(m, c, alpha1, alpha2, r), "s2f")
    BY <1>3 DEF FirewallForwardsInit, RandomScalar
  <2>3. c \in Scalar
    BY <2>1, DecryptType DEF DecryptedC, ClientInit
  <2>4. Rerandomised(m, c, alpha1, alpha2, r) \in Frame["f2s"]
    BY <2>1, <2>3, RerandomisedTyped DEF Frame
  <2>5. /\ \A l \in {"s2f", "f2c"} : wire'[l] = wire[l]
        /\ wire'["c2f"] = Null
        /\ pc'["client"] = pc["client"] /\ pc'["server"] = pc["server"]
        /\ \/ pc'["firewall"] = "s2f" /\ wire'["f2s"] # Null
           \/ pc'["firewall"] = "exited" /\ wire'["f2s"] = wire["f2s"]
    <3>1. "firewall" \in Proc /\ {"c2f"} \in SUBSET Link /\ "f2s" \in Link \ {"c2f"}
      BY DEF Proc, Link
    <3>2. /\ \A l \in Link \ ({"c2f"} \cup {"f2s"}) : wire'[l] = wire[l]
          /\ \A l \in {"c2f"} : wire'[l] = Null
          /\ \A q \in Proc \ {"firewall"} : pc'[q] = pc[q]
          /\ \/ pc'["firewall"] = "s2f" /\ wire'["f2s"] # Null
             \/ pc'["firewall"] = "exited" /\ wire'["f2s"] = wire["f2s"]
      BY <3>1, <2>2, <2>4, SendOutcome
    <3> QED
      BY <3>2 DEF Proc, Link
  <2>6. /\ pc["firewall"] = "c2f" /\ wire["c2f"] # Null /\ session'.kcfs = Null
        /\ UNCHANGED <<client, server>>
    BY <1>3, ForwardMakesSession DEF FirewallForwardsInit, Received
  <2>7. InPlace' /\ KeyedOnce'
    BY <1>0, <2>5, <2>6 DEF InPlace, KeyedOnce, Ended
  <2>8. NothingBeforeSend' /\ SomebodyOwes'
    BY <1>0, <2>5, <2>6, TurnsByLink, TurnsByLinkNext DEF InPlace, Ended
  <2> QED
    BY <2>7, <2>8 DEF TurnInv
<1>4. CASE FirewallRelaysResponse
  <2> DEFINE m == wire["s2f"]
  <2> DEFINE relayed == [big_y |-> m.big_y, big_d |-> m.big_d,
                         gamma1 |-> Gamma1(m), gamma2 |-> Gamma2(m),
                         signature |-> m.signature]
  <2>1. m \in ServerResponse
    BY <1>4, ReceivedTyped DEF FirewallRelaysResponse, Link, Frame
  <2>2. SendMsg("firewall", {"s2f"}, "f2c", relayed, "established")
    BY <1>4 DEF FirewallRelaysResponse
  <2>3. pc["firewall"] = "s2f" /\ wire["s2f"] # Null /\ UNCHANGED <<client, server>>
    BY <1>4 DEF FirewallRelaysResponse, Received
  <2>4. relayed \in Frame["f2c"]
    BY <2>1, <2>3, RelayTyped DEF SessionBeforeResponse, Frame
  <2>5. /\ \A l \in {"c2f", "f2s"} : wire'[l] = wire[l]
        /\ wire'["s2f"] = Null
        /\ pc'["client"] = pc["client"] /\ pc'["server"] = pc["server"]
        /\ \/ pc'["firewall"] = "established" /\ wire'["f2c"] # Null
           \/ pc'["firewall"] = "exited" /\ wire'["f2c"] = wire["f2c"]
    <3>1. "firewall" \in Proc /\ {"s2f"} \in SUBSET Link /\ "f2c" \in Link \ {"s2f"}
      BY DEF Proc, Link
    <3>2. /\ \A l \in Link \ ({"s2f"} \cup {"f2c"}) : wire'[l] = wire[l]
          /\ \A l \in {"s2f"} : wire'[l] = Null
          /\ \A q \in Proc \ {"firewall"} : pc'[q] = pc[q]
          /\ \/ pc'["firewall"] = "established" /\ wire'["f2c"] # Null
             \/ pc'["firewall"] = "exited" /\ wire'["f2c"] = wire["f2c"]
      BY <3>1, <2>2, <2>4, SendOutcome
    <3> QED
      BY <3>2 DEF Proc, Link
  <2>6. InPlace' /\ KeyedOnce'
    BY <1>0, <2>3, <2>5 DEF InPlace, KeyedOnce, Ended
  <2>7. NothingBeforeSend' /\ SomebodyOwes'
    BY <1>0, <2>3, <2>5, TurnsByLink, TurnsByLinkNext DEF InPlace, Ended
  <2> QED
    BY <2>6, <2>7 DEF TurnInv
<1>5. CASE ServerResponds
  <2> DEFINE m == wire["f2s"]
  <2>1. m \in FirewallToServer
    BY <1>5, ReceivedTyped DEF ServerResponds, Link, Frame
  <2>2. PICK y, d, beta1, beta2 \in Scalar :
          SendMsg("server", {"f2s"}, "s2f", Response(m, y, d, beta1, beta2), "established")
    BY <1>5 DEF ServerResponds, RandomScalar
  <2>3. Response(m, y, d, beta1, beta2) \in Frame["s2f"]
    BY <2>1, ResponseTyped DEF Frame
  <2>4. pc["server"] = "f2s" /\ wire["f2s"] # Null /\ UNCHANGED <<client, session>>
    BY <1>5 DEF ServerResponds, Received
  <2>5. /\ \A l \in {"c2f", "f2c"} : wire'[l] = wire[l]
        /\ wire'["f2s"] = Null
        /\ pc'["client"] = pc["client"] /\ pc'["firewall"] = pc["firewall"]
        /\ \/ pc'["server"] = "established" /\ wire'["s2f"] # Null
           \/ pc'["server"] = "exited" /\ wire'["s2f"] = wire["s2f"]
    <3>1. "server" \in Proc /\ {"f2s"} \in SUBSET Link /\ "s2f" \in Link \ {"f2s"}
      BY DEF Proc, Link
    <3>2. /\ \A l \in Link \ ({"f2s"} \cup {"s2f"}) : wire'[l] = wire[l]
          /\ \A l \in {"f2s"} : wire'[l] = Null
          /\ \A q \in Proc \ {"server"} : pc'[q] = pc[q]
          /\ \/ pc'["server"] = "established" /\ wire'["s2f"] # Null
             \/ pc'["server"] = "exited" /\ wire'["s2f"] = wire["s2f"]
      BY <3>1, <2>2, <2>3, SendOutcome
    <3> QED
      BY <3>2 DEF Proc, Link
  <2>6. InPlace' /\ KeyedOnce'
    BY <1>0, <2>4, <2>5 DEF InPlace, KeyedOnce, Ended
  <2>7. NothingBeforeSend' /\ SomebodyOwes'
    BY <1>0, <2>4, <2>5, TurnsByLink, TurnsByLinkNext DEF InPlace, Ended
  <2> QED
    BY <2>6, <2>7 DEF TurnInv
<1>6. CASE ClientRejects \/ FirewallRejectsInit \/ FirewallRejectsResponse
  <2>1. PICK p \in {"client", "firewall"}, from \in Link :
           p = Reader[from] /\ pc[p] = from /\ Reject(p, from)
    BY <1>6 DEF ClientRejects, FirewallRejectsInit, FirewallRejectsResponse, Received,
       Reader, Link
  <2>2. UNCHANGED <<client, session, server>>
    BY <1>6 DEF ClientRejects, FirewallRejectsInit, FirewallRejectsResponse
  <2>3. \A l \in Link : wire'[l] # wire[l] => l = from /\ wire'[l] = Null
    BY <2>1 DEF Reject, Consume
  <2>4. pc' = [pc EXCEPT ![p] = "rejected"] /\ p \in Proc
    BY <2>1 DEF Reject, Proc
  <2> QED
    BY <2>1, <2>2, <2>3, <2>4, TurnEnds
<1>7. CASE \E p \in Proc : RecvError(p) \/ Killed(p)
  <2>1. PICK p \in Proc : RecvError(p) \/ Killed(p)
    BY <1>7
  <2>2. /\ pc' = [pc EXCEPT ![p] = "exited"]
        /\ UNCHANGED <<client, session, server, wire>>
    BY <2>1 DEF RecvError, Killed
  <2>3. \A l \in Link : wire'[l] = wire[l]
    BY <2>2
  <2> QED
    BY <2>2, <2>3, TurnEnds
<1>8. CASE \E l \in Link : WireFault(l)
  <2>1. PICK k \in Link : WireFault(k)
    BY <1>8
  <2>2. PICK m \in Altered(k, wire[k]) \cup {Undecodable, Unfinished} :
           wire' = [wire EXCEPT ![k] = m]
    BY <2>1 DEF WireFault
  <2>3. wire[k] \in Frame[k] /\ wire[k] # Null
    BY <2>1 DEF WireFault, TypeOK
  <2>4. m # Null
    BY <2>2, <2>3, AlteredTyped, Sentinels
  <2>5. UNCHANGED <<client, session, server, pc>>
    BY <2>1 DEF WireFault
  <2>6. \A l \in Link : wire'[l] = Null <=> wire[l] = Null
    BY <2>2, <2>3, <2>4 DEF TypeOK
  <2> QED
    BY <2>5, <2>6 DEF TurnInv, InPlace, NothingBeforeSend, SomebodyOwes, KeyedOnce
<1>9. CASE UNCHANGED vars
  BY <1>9 DEF vars, TurnInv, InPlace, NothingBeforeSend, SomebodyOwes, KeyedOnce
<1> QED
  BY <1>1, <1>2, <1>3, <1>4, <1>5, <1>6, <1>7, <1>8, <1>9
  DEF Next, ClientStep, FirewallStep, Finished

(***************************************************************************)
(* The client is to send first, and nobody has received or computed        *)
(* anything.                                                               *)
(***************************************************************************)
LEMMA TurnInit == Init => TurnInv
<1> SUFFICES ASSUME Init
             PROVE  TurnInv
  OBVIOUS
<1>1. /\ pc["client"] = "connected" /\ pc["firewall"] = "c2f" /\ pc["server"] = "f2s"
      /\ \A l \in Link : wire[l] = Null
      /\ client.kcs = Null /\ server.kcs = Null
  BY DEF Init, NewClient, NewServer
<1>2. InPlace /\ KeyedOnce
  BY <1>1 DEF InPlace, KeyedOnce
<1>3. NothingBeforeSend /\ SomebodyOwes
  BY <1>1, TurnsByLink DEF Link
<1> QED
  BY <1>2, <1>3 DEF TurnInv

(***************************************************************************)
(* Each message is sent once and in its turn, each key is computed once,   *)
(* and who waits for a message waits for a process that is still to send   *)
(* it or has ended.                                                        *)
(***************************************************************************)
THEOREM TurnInvariant == Spec => []TurnInv
<1>1. ExchangeInv => SessionBeforeResponse
  BY DEF ExchangeInv, WaitingHasNotActed, SessionBeforeResponse
<1>2. TypeOK /\ SessionBeforeResponse /\ TurnInv /\ [Next]_vars => TurnInv'
  BY TurnStep
<1> QED
  BY <1>1, <1>2, TurnInit, TypeCorrect, ExchangeInvariant, PTL DEF Spec

(***************************************************************************)
(* Whoever waits, waits for a process that waits for another, up to the    *)
(* client, which waits for nobody before it sends.                         *)
(***************************************************************************)
LEMMA QuietSettled ==
    ASSUME TypeOK, TurnInv, Quiet, ~Stalled
    PROVE  Settled
<1>1. \A l \in Link : pc[Reader[l]] = l => wire[l] = Null /\ pc[Writer[l]] \notin Ended
  <2> SUFFICES ASSUME NEW l \in Link, pc[Reader[l]] = l
               PROVE  wire[l] = Null /\ pc[Writer[l]] \notin Ended
    OBVIOUS
  <2>1. Reader[l] \in Proc
    BY DEF Reader, Link, Proc
  <2>2. ~Received(Reader[l], l) /\ ~RecvFails(l)
    BY <2>1 DEF Quiet
  <2>3. wire[l] # Unfinished
    BY DEF Stalled
  <2> QED
    BY <2>2, <2>3 DEF Received, RecvFails, Gone
<1>2. /\ pc["firewall"] = "c2f" => wire["c2f"] = Null /\ pc["client"] \notin Ended
      /\ pc["server"] = "f2s" => wire["f2s"] = Null /\ pc["firewall"] \notin Ended
      /\ pc["firewall"] = "s2f" => wire["s2f"] = Null /\ pc["server"] \notin Ended
      /\ pc["client"] = "f2c" => wire["f2c"] = Null /\ pc["firewall"] \notin Ended
  BY <1>1 DEF Reader, Writer, Link
<1>3. pc["client"] # "connected"
  BY DEF Quiet
<1>4. InPlace /\ SomebodyOwes
  BY DEF TurnInv
<1>5. pc["firewall"] # "c2f"
  BY <1>2, <1>3, <1>4, TurnsByLink
<1>6. pc["server"] # "f2s"
  BY <1>2, <1>4, <1>5, TurnsByLink
<1>7. pc["firewall"] # "s2f"
  BY <1>2, <1>4, <1>6, TurnsByLink
<1>8. pc["client"] # "f2c"
  BY <1>2, <1>4, <1>5, <1>7, TurnsByLink
<1> QED
  BY <1>3, <1>4, <1>5, <1>6, <1>7, <1>8 DEF Settled, InPlace, Proc

(***************************************************************************)
(* The blocking reads of the three binaries form no cycle of waiting: with *)
(* nothing left to do, each has finished the exchange or ended, or awaits  *)
(* the rest of a frame whose length prefix was altered.                    *)
(***************************************************************************)
THEOREM QuietWhenSettled == Spec => []QuietMeansSettled
<1>1. TypeOK /\ TurnInv => QuietMeansSettled
  BY QuietSettled DEF QuietMeansSettled
<1> QED
  BY <1>1, TurnInvariant, TypeCorrect, PTL

-----------------------------------------------------------------------------
(* Refinement *)

(***************************************************************************)
(* Nobody has keys at the start.                                           *)
(***************************************************************************)
LEMMA ExchangeStarts == Init => Exchange!Init
BY DEF Init, NewClient, NewServer, Exchange!Init

(***************************************************************************)
(* Steps that change no key and no session change nothing in the exchange. *)
(***************************************************************************)
LEMMA ExchangeStutters ==
    ASSUME UNCHANGED <<client, session, server>>
    PROVE  UNCHANGED Exchange!vars
BY DEF Exchange!vars

(***************************************************************************)
(* Opening the session is the check, the server's answer its choice, and   *)
(* the two verified messages pass on what it chose.                        *)
(***************************************************************************)
LEMMA ExchangeStepImplements ==
    TypeOK /\ TypeOK' /\ ExchangeInv /\ ExchangeInv' /\ TurnInv /\ [Next]_vars
        => [Exchange!Next]_(Exchange!vars)
<1> SUFFICES ASSUME TypeOK, TypeOK', ExchangeInv, ExchangeInv', TurnInv, [Next]_vars
             PROVE  [Exchange!Next]_(Exchange!vars)
  OBVIOUS
<1>1. CASE FirewallForwardsInit
  <2>1. session = Null /\ session' # Null /\ session'.kcfs = Null
    BY <1>1, ForwardMakesSession
    DEF FirewallForwardsInit, Received, ExchangeInv, WaitingHasNotActed
  <2>2. UNCHANGED <<client, server>>
    BY <1>1 DEF FirewallForwardsInit
  <2>3. Exchange!Check
    BY <2>1, <2>2 DEF Exchange!Check
  <2> QED
    BY <2>3 DEF Exchange!Next
<1>2. CASE ServerResponds
  <2> DEFINE m == wire["f2s"]
  <2>1. m \in FirewallToServer
    BY <1>2, ReceivedTyped DEF ServerResponds, Link, Frame
  <2>2. PICK y, d, beta1, beta2 \in Scalar :
          server' = [server EXCEPT !.kcs = ServerKcs(m, y, beta1),
                                  !.kcfs = ServerKcfs(m, d, beta2)]
    BY <1>2 DEF ServerResponds, RandomScalar
  <2>3. server'.kcs \in SessionKey /\ server'.kcfs \in SessionKey
    BY <2>1, <2>2, ResponseTyped DEF TypeOK
  <2>4. server'.kcs # Null
    BY <2>3, Sentinels
  <2>5. server.kcs = Null /\ session # Null /\ UNCHANGED <<client, session>>
    BY <1>2 DEF ServerResponds, Received, TurnInv, KeyedOnce, ExchangeInv,
       FramesHaveOrigin
  <2>6. Exchange!ServerChooses
    BY <2>3, <2>4, <2>5 DEF Exchange!ServerChooses
  <2> QED
    BY <2>6 DEF Exchange!Next
<1>3. CASE FirewallRelaysResponse
  <2>1. /\ session # Null /\ session.kcfs = Null
        /\ UNCHANGED <<client, server>>
    BY <1>3 DEF FirewallRelaysResponse, Received, TurnInv, KeyedOnce, ExchangeInv,
       WaitingHasNotActed
  <2>2. /\ session' # Null /\ session'.kcfs # Null
        /\ session'.kcfs \in SessionKey
    <3>1. wire["s2f"] \in ServerResponse
      BY <1>3, ReceivedTyped DEF FirewallRelaysResponse, Link, Frame
    <3>2. session' = [session EXCEPT !.kcfs = FirewallKcfs(wire["s2f"])]
      BY <1>3 DEF FirewallRelaysResponse
    <3>3. FirewallKcfs(wire["s2f"]) \in SessionKey
      BY <2>1, <3>1, RelayTyped
    <3>4. session' \in Session /\ session'.kcfs \in SessionKey
      BY <2>1, <3>2, <3>3 DEF TypeOK, Session
    <3> QED
      BY <3>4, Sentinels
  <2>3. session'.kcfs = server.kcfs
    BY <2>1, <2>2 DEF ExchangeInv, SessionSound
  <2>4. server.kcs # Null /\ server.kcs \in SessionKey
    <3>1. wire["s2f"] \in ServerResponse /\ FirewallVerifies(wire["s2f"])
      BY <1>3, ReceivedTyped DEF FirewallRelaysResponse, Link, Frame
    <3>2. BasePoint(session.c) = session.big_c
      BY <2>1 DEF ExchangeInv, SessionSound
    <3>3. wire["s2f"].signature # BadSignature
      BY <2>1, <3>1, <3>2, FirewallAcceptsKey
    <3>4. KeyedBy(wire["s2f"].signature.over)
      BY <1>3, <3>3 DEF FirewallRelaysResponse, Received, ExchangeInv, SignaturesBindKeys
    <3>5. wire["s2f"].signature.over \in Transcript
      BY <3>1, <3>3 DEF ServerResponse, Signature
    <3>6. server.kcs \in SessionKey
      <4>1. PICK t \in Transcript : t = wire["s2f"].signature.over
        BY <3>5
      <4>2. t[1].dlog \in Scalar /\ t[3] \in Point
        BY <4>1 DEF Transcript, Point
      <4>3. Kdf(ScalarMul(t[1].dlog, t[3])) \in SessionKey
        BY <4>2, PointTypes
      <4> QED
        BY <3>4, <4>1, <4>3 DEF KeyedBy
    <3> QED
      BY <3>6, Sentinels
  <2>5. Exchange!FirewallShares
    <3> DEFINE chosen == IF server.kcs = Null THEN Null
                         ELSE [kcs |-> server.kcs, kcfs |-> server.kcfs]
    <3>1. chosen = [kcs |-> server.kcs, kcfs |-> server.kcfs]
      BY <2>4
    <3>2. chosen # Null /\ chosen.kcfs = server.kcfs
      BY <2>2, <2>3, <2>4, <3>1, Sentinels
    <3> QED
      BY <2>1, <2>2, <2>3, <3>1, <3>2 DEF Exchange!FirewallShares
  <2> QED
    BY <2>5 DEF Exchange!Next
<1>4. CASE ClientFinalizes
  <2>1. /\ client.kcs = Null /\ session # Null /\ session.kcfs # Null
        /\ UNCHANGED <<session, server>>
    BY <1>4 DEF ClientFinalizes, Received, TurnInv, KeyedOnce, ExchangeInv,
       FramesHaveOrigin
  <2>2. client'.kcs # Null
    <3>1. wire["f2c"] \in FirewallToClient
      BY <1>4, ReceivedTyped DEF ClientFinalizes, Link, Frame
    <3>2. client'.kcs = ClientKcs(wire["f2c"])
      BY <1>4 DEF ClientFinalizes, TypeOK
    <3> QED
      BY <3>1, <3>2, ClientKeysTyped, Sentinels
  <2>3. client'.kcs = server.kcs /\ client'.kcfs = server.kcfs
    BY <2>1, <2>2 DEF ExchangeInv, KeyAgreement
  <2>4. server.kcs # Null
    BY <2>2, <2>3
  <2>5. Exchange!ClientShares
    BY <2>1, <2>2, <2>3, <2>4 DEF Exchange!ClientShares
  <2> QED
    BY <2>5 DEF Exchange!Next
<1>5. CASE \/ ClientSendsInit \/ ClientRejects
           \/ FirewallRejectsInit \/ FirewallRejectsResponse
           \/ \E p \in Proc : RecvError(p) \/ Killed(p)
           \/ \E l \in Link : WireFault(l)
           \/ UNCHANGED vars
  <2>1. UNCHANGED <<client, session, server>>
    BY <1>5 DEF ClientSendsInit, ClientRejects, FirewallRejectsInit,
       FirewallRejectsResponse, RecvError, Killed, WireFault, vars
  <2> QED
    BY <2>1, ExchangeStutters
<1> QED
  BY <1>1, <1>2, <1>3, <1>4, <1>5 DEF Next, ClientStep, FirewallStep, Finished

(***************************************************************************)
(* The handlers and their messages implement the exchange of keys: chosen  *)
(* by the server after the check, shared in turn by firewall and client,   *)
(* and never changed.                                                      *)
(***************************************************************************)
THEOREM ExchangeImplemented == Spec => ImplementsKeyExchange
<1>1. TypeOK /\ TypeOK' /\ ExchangeInv /\ ExchangeInv' /\ TurnInv /\ [Next]_vars
        => [Exchange!Next]_(Exchange!vars)
  BY ExchangeStepImplements
<1> QED
  BY <1>1, ExchangeStarts, TypeCorrect, ExchangeInvariant, TurnInvariant, PTL
  DEF Spec, ImplementsKeyExchange, Exchange!Spec
=============================================================================
