----------------------- MODULE HandshakeHonestProofs ------------------------
(***************************************************************************)
(* The checks of the key exchange turn no honest peer away: the other half *)
(* of module HandshakeProofs, again for every group of scalars.            *)
(***************************************************************************)
EXTENDS HandshakeProofs

USE DEF NoMessage

(***************************************************************************)
(* Multiplying a point by two scalars, one after the other, in either      *)
(* order or by their product, leads to the same point.                     *)
(***************************************************************************)
LEMMA ScalarMulTwice ==
    ASSUME NEW a \in Scalar, NEW b \in Scalar, NEW p \in Point
    PROVE  /\ ScalarMul(b, ScalarMul(a, p)) = ScalarMul(Mul(a, b), p)
           /\ ScalarMul(a, BasePoint(b)) = BasePoint(Mul(b, a))
           /\ ScalarMul(a, BasePoint(b)) = ScalarMul(b, BasePoint(a))
<1>1. p.dlog \in Scalar
  BY DEF Point
<1>2. Mul(b, Mul(a, p.dlog)) = Mul(Mul(b, a), p.dlog)
  BY <1>1, MulAssociates
<1>3. Mul(b, a) = Mul(a, b)
  BY MulFacts
<1> QED
  BY <1>2, <1>3 DEF ScalarMul, BasePoint

(***************************************************************************)
(* What is encrypted under the public key of sk decrypts to itself.        *)
(***************************************************************************)
LEMMA DecryptsToItself ==
    ASSUME NEW sk \in Scalar, NEW msg \in Scalar, NEW r \in Scalar
    PROVE  ScalarFromBytes(ElGamalDecrypt(sk,
               ElGamalEncrypt(BasePoint(sk), msg, r))) = {msg}
<1> DEFINE key == Kdf(ScalarMul(r, BasePoint(sk)))
<1> DEFINE ct == ElGamalEncrypt(BasePoint(sk), msg, r)
<1>1. BasePoint(sk) \in Point
  BY BasePointType
<1>2. Kdf(ScalarMul(sk, ct.r_point)) = key
  BY <1>1, ScalarMulTwice DEF ElGamalEncrypt
<1>3. ct.masked = Xor(Plain(msg), key)
  BY DEF ElGamalEncrypt
<1>4. ElGamalDecrypt(sk, ct) = Xor(Xor(Plain(msg), key), key)
  BY <1>2, <1>3 DEF ElGamalDecrypt
<1>5. Xor(Xor(Plain(msg), key), key) = Plain(msg)
  BY DEF Xor, Plain, SymDiff
<1> QED
  BY <1>4, <1>5 DEF ScalarFromBytes, IsClear, Plain

(***************************************************************************)
(* What the honest client sends is accepted, with the client's exponent.   *)
(***************************************************************************)
LEMMA HonestInitAccepted ==
    ASSUME TypeOK, HonestInv, KeysMatch, NEW r \in Scalar
    PROVE  LET m == InitMessage(r) IN
           /\ DecryptedC(m) = {client.c}
           /\ ClientInitAccepted(client.c, m)
           /\ m.big_x = BasePoint(client.x)
           /\ m.big_c = BasePoint(client.c)
<1>1. client.c \in Scalar /\ firewall.sk_fw \in Scalar
  BY DEF TypeOK
<1>2. client.pk_fw = BasePoint(firewall.sk_fw)
  BY DEF HonestInv, KeysMatch
<1>3. DecryptedC(InitMessage(r)) = {client.c}
  BY <1>1, <1>2, DecryptsToItself DEF DecryptedC, InitMessage
<1> QED
  BY <1>3 DEF InitMessage, ClientInitAccepted

(***************************************************************************)
(* Steps that compute nothing, garble nothing and turn nobody away.        *)
(***************************************************************************)
Harmless ==
    /\ UNCHANGED <<client, firewall, session, server>>
    /\ \A l \in Link : wire'[l] \in {wire[l], Null}
    /\ \A p \in Proc : pc'[p] \in {pc[p], "exited", "established"}
    /\ faults' = faults

(***************************************************************************)
(* They preserve the invariant.                                            *)
(***************************************************************************)
LEMMA HarmlessStep == HonestInv /\ Harmless => HonestInv'
<1> SUFFICES ASSUME HonestInv, Harmless
             PROVE  HonestInv'
  OBVIOUS
<1>1. firewall'.pk_fw = BasePoint(firewall'.sk_fw)
  BY DEF HonestInv, Harmless
<1>2. ASSUME KeysMatch', faults' = 0
      PROVE  HonestSession' /\ HonestFrames' /\ NobodyRejected'
  <2>1. HonestSession /\ HonestFrames /\ NobodyRejected
    BY <1>2 DEF HonestInv, Harmless, KeysMatch
  <2>2. HonestSession'
    BY <2>1 DEF Harmless, HonestSession
  <2>3. HonestFrames'
    <3>1. \A l \in Link : wire'[l] \notin NoMessage => wire'[l] = wire[l]
      BY DEF Harmless
    <3>2. UNCHANGED <<client, firewall, session>>
      BY DEF Harmless
    <3>3. wire'["c2f"] \notin NoMessage =>
            \E r \in RandomScalar : wire'["c2f"] = InitMessage(r)'
      BY <2>1, <3>1, <3>2 DEF HonestFrames, Link, InitMessage
    <3>4. wire'["f2s"] \notin NoMessage =>
            /\ wire'["f2s"].big_x_tilde = ScalarMul(session'.alpha1, session'.big_x)
            /\ wire'["f2s"].big_c_tilde = ScalarMul(session'.alpha2, session'.big_c)
      BY <2>1, <3>1, <3>2 DEF HonestFrames, Link
    <3>5. wire'["s2f"] \notin NoMessage =>
            session' # Null /\ FirewallVerifies(wire["s2f"])'
      BY <2>1, <3>1, <3>2 DEF HonestFrames, Link, FirewallVerifies,
         FirewallTranscript, Gamma1, Gamma2
    <3>6. wire'["f2c"] \notin NoMessage => ClientVerifies(wire["f2c"])'
      BY <2>1, <3>1, <3>2 DEF HonestFrames, Link, ClientVerifies, ClientTranscript
    <3> QED
      BY <3>3, <3>4, <3>5, <3>6 DEF HonestFrames
  <2>4. NobodyRejected'
    BY <2>1 DEF Harmless, NobodyRejected
  <2> QED
    BY <2>2, <2>3, <2>4
<1> QED
  BY <1>1, <1>2 DEF HonestInv

(***************************************************************************)
(* The client's init leaves as InitMessage.                                *)
(***************************************************************************)
LEMMA ClientSendsHonestly ==
    ASSUME TypeOK, HonestInv, ClientSendsInit
    PROVE  HonestInv'
<1>0. ControlTyped
  BY DEF TypeOK, ControlTyped
<1>1. PICK r \in RandomScalar :
        SendMsg("client", {}, "c2f", InitMessage(r), "f2c")
  BY DEF ClientSendsInit
<1>2. /\ UNCHANGED <<client, firewall, session, server>>
      /\ faults' = faults
  BY DEF ClientSendsInit, Undisturbed
<1>3. /\ wire'["c2f"] \in {InitMessage(r), wire["c2f"], Null}
      /\ wire'["f2s"] \in {wire["f2s"], Null}
      /\ wire'["s2f"] \in {wire["s2f"], Null}
      /\ wire'["f2c"] \in {wire["f2c"], Null}
      /\ \A p \in Proc : pc'[p] \in {pc[p], "exited", "f2c"}
  BY <1>0, <1>1, SendEffect DEF Proc, Link
<1>4. firewall'.pk_fw = BasePoint(firewall'.sk_fw)
  BY <1>2 DEF HonestInv
<1>5. ASSUME KeysMatch', faults' = 0
      PROVE  HonestSession' /\ HonestFrames' /\ NobodyRejected'
  <2>1. HonestSession /\ HonestFrames /\ NobodyRejected
    BY <1>2, <1>5 DEF HonestInv, KeysMatch
  <2>2. HonestSession'
    BY <1>2, <2>1 DEF HonestSession
  <2>3. wire'["c2f"] \notin NoMessage =>
          \E k \in RandomScalar : wire'["c2f"] = InitMessage(k)'
    BY <1>2, <1>3, <2>1 DEF HonestFrames, InitMessage
  <2>4. wire'["f2s"] \notin NoMessage =>
          /\ wire'["f2s"].big_x_tilde = ScalarMul(session'.alpha1, session'.big_x)
          /\ wire'["f2s"].big_c_tilde = ScalarMul(session'.alpha2, session'.big_c)
    BY <1>2, <1>3, <2>1 DEF HonestFrames
  <2>5. wire'["s2f"] \notin NoMessage =>
          session' # Null /\ FirewallVerifies(wire["s2f"])'
    BY <1>2, <1>3, <2>1 DEF HonestFrames, FirewallVerifies,
       FirewallTranscript, Gamma1, Gamma2
  <2>6. wire'["f2c"] \notin NoMessage => ClientVerifies(wire["f2c"])'
    BY <1>2, <1>3, <2>1 DEF HonestFrames, ClientVerifies, ClientTranscript
  <2>7. NobodyRejected'
    BY <1>3, <2>1 DEF NobodyRejected
  <2> QED
    BY <2>2, <2>3, <2>4, <2>5, <2>6, <2>7 DEF HonestFrames
<1> QED
  BY <1>4, <1>5 DEF HonestInv

(***************************************************************************)
(* The firewall's session holds the client's exponent and points, and what *)
(* it forwards is made of them.                                            *)
(***************************************************************************)
LEMMA FirewallForwardsHonestly ==
    ASSUME TypeOK, ExchangeInv, HonestInv, FirewallForwardsInit
    PROVE  HonestInv'
<1> DEFINE m == wire["c2f"]
<1>0. ControlTyped
  BY DEF TypeOK, ControlTyped
<1>1. PICK c \in DecryptedC(m), alpha1, alpha2, r \in RandomScalar :
        /\ session' = NewSession(m, c, alpha1, alpha2)
        /\ SendMsg("firewall", {"c2f"}, "f2s",
                   Rerandomised(m, c, alpha1, alpha2, r), "s2f")
  BY DEF FirewallForwardsInit
<1> DEFINE forwarded == Rerandomised(m, c, alpha1, alpha2, r)
<1>2. /\ UNCHANGED <<client, firewall, server>>
      /\ faults' = faults
      /\ m \notin NoMessage
      /\ pc["firewall"] = "c2f"
  BY DEF FirewallForwardsInit, Undisturbed, Received
<1>3. /\ wire'["c2f"] \in {wire["c2f"], Null}
      /\ wire'["f2s"] \in {forwarded, wire["f2s"], Null}
      /\ wire'["s2f"] \in {wire["s2f"], Null}
      /\ wire'["f2c"] \in {wire["f2c"], Null}
      /\ \A p \in Proc : pc'[p] \in {pc[p], "exited", "s2f"}
  BY <1>0, <1>1, SendEffect DEF Proc, Link
<1>4. session = Null /\ wire["f2c"] = Null /\ wire["f2s"] = Null
  BY <1>2 DEF ExchangeInv, WaitingHasNotActed, FramesHaveOrigin
<1>5. firewall'.pk_fw = BasePoint(firewall'.sk_fw)
  BY <1>2 DEF HonestInv
<1>6. ASSUME KeysMatch', faults' = 0
      PROVE  HonestSession' /\ HonestFrames' /\ NobodyRejected'
  <2>1. KeysMatch /\ HonestFrames /\ NobodyRejected
    BY <1>2, <1>6 DEF HonestInv, KeysMatch
  <2>2. PICK k \in Scalar : m = InitMessage(k)
    BY <1>2, <2>1 DEF HonestFrames, RandomScalar
  <2>3. /\ c = client.c
        /\ m.big_x = BasePoint(client.x)
        /\ m.big_c = BasePoint(client.c)
    BY <2>1, <2>2, HonestInitAccepted
  <2>4. HonestSession'
    BY <1>1, <1>2, <2>3 DEF HonestSession, NewSession
  <2>5. wire'["c2f"] \notin NoMessage =>
          \E n \in RandomScalar : wire'["c2f"] = InitMessage(n)'
    BY <1>2, <1>3, <2>1 DEF HonestFrames, InitMessage
  <2>6. wire'["f2s"] \notin NoMessage =>
          /\ wire'["f2s"].big_x_tilde = ScalarMul(session'.alpha1, session'.big_x)
          /\ wire'["f2s"].big_c_tilde = ScalarMul(session'.alpha2, session'.big_c)
    BY <1>1, <1>3, <1>4 DEF Rerandomised, NewSession
  <2>7. wire["s2f"] \in NoMessage
    BY <1>4, <2>1 DEF HonestFrames
  <2>8. wire'["s2f"] \in NoMessage /\ wire'["f2c"] \in NoMessage
    BY <1>3, <1>4, <2>7
  <2>9. NobodyRejected'
    BY <1>3, <2>1 DEF NobodyRejected
  <2> QED
    BY <2>4, <2>5, <2>6, <2>8, <2>9 DEF HonestFrames
<1> QED
  BY <1>5, <1>6 DEF HonestInv

(***************************************************************************)
(* The server signs the transcript that the firewall will rebuild.         *)
(***************************************************************************)
LEMMA ServerRespondsHonestly ==
    ASSUME TypeOK, ExchangeInv, HonestInv, ServerResponds
    PROVE  HonestInv'
<1> DEFINE m == wire["f2s"]
<1>0. ControlTyped
  BY DEF TypeOK, ControlTyped
<1>1. PICK y, d, beta1, beta2 \in Scalar :
        /\ server' = [server EXCEPT !.kcs = ServerKcs(m, y, beta1),
                                   !.kcfs = ServerKcfs(m, d, beta2)]
        /\ SendMsg("server", {"f2s"}, "s2f",
                   Response(m, y, d, beta1, beta2), "established")
  BY DEF ServerResponds, RandomScalar
<1> DEFINE answer == Response(m, y, d, beta1, beta2)
<1>2. /\ UNCHANGED <<client, firewall, session>>
      /\ faults' = faults
      /\ m \notin NoMessage
      /\ server'.sk = server.sk
  BY <1>1 DEF ServerResponds, Undisturbed, Received, TypeOK
<1>3. /\ wire'["c2f"] \in {wire["c2f"], Null}
      /\ wire'["f2s"] \in {wire["f2s"], Null}
      /\ wire'["s2f"] \in {answer, wire["s2f"], Null}
      /\ wire'["f2c"] \in {wire["f2c"], Null}
      /\ \A p \in Proc : pc'[p] \in {pc[p], "exited", "established"}
  BY <1>0, <1>1, SendEffect DEF Proc, Link
<1>4. session # Null /\ session \in Session
  BY <1>2 DEF ExchangeInv, FramesHaveOrigin, TypeOK
<1>5. firewall'.pk_fw = BasePoint(firewall'.sk_fw)
  BY <1>2 DEF HonestInv
<1>6. ASSUME KeysMatch', faults' = 0
      PROVE  HonestSession' /\ HonestFrames' /\ NobodyRejected'
  <2>1. KeysMatch /\ HonestSession /\ HonestFrames /\ NobodyRejected
    BY <1>2, <1>6 DEF HonestInv, KeysMatch
  <2>2. HonestSession'
    BY <1>2, <2>1 DEF HonestSession
  <2>3. /\ m.big_x_tilde = ScalarMul(session.alpha1, session.big_x)
        /\ m.big_c_tilde = ScalarMul(session.alpha2, session.big_c)
    BY <1>2, <2>1 DEF HonestFrames
  <2>4. /\ session.alpha1 \in Scalar
        /\ session.alpha2 \in Scalar
        /\ session.big_x \in Point
        /\ session.big_c \in Point
    BY <1>4 DEF Session
  <2>5. /\ ScalarMul(beta1, m.big_x_tilde)
             = ScalarMul(Mul(session.alpha1, beta1), session.big_x)
        /\ ScalarMul(beta2, m.big_c_tilde)
             = ScalarMul(Mul(session.alpha2, beta2), session.big_c)
    BY <2>3, <2>4, ScalarMulTwice
  <2>6. FirewallTranscript(answer) = ServerTranscript(m, y, d, beta1, beta2)
    BY <2>5 DEF FirewallTranscript, ServerTranscript, Response, Gamma1, Gamma2
  <2>7. FirewallVerifies(answer)
    BY <2>1, <2>6 DEF FirewallVerifies, Verify, Response, KeysMatch
  <2>8. wire'["c2f"] \notin NoMessage =>
          \E n \in RandomScalar : wire'["c2f"] = InitMessage(n)'
    BY <1>2, <1>3, <2>1 DEF HonestFrames, InitMessage
  <2>9. wire'["f2s"] \notin NoMessage =>
          /\ wire'["f2s"].big_x_tilde = ScalarMul(session'.alpha1, session'.big_x)
          /\ wire'["f2s"].big_c_tilde = ScalarMul(session'.alpha2, session'.big_c)
    BY <1>2, <1>3, <2>1 DEF HonestFrames
  <2>10. wire'["s2f"] \notin NoMessage => FirewallVerifies(wire'["s2f"])
    BY <1>3, <2>1, <2>7 DEF HonestFrames
  <2>11. wire'["s2f"] \notin NoMessage =>
           session' # Null /\ FirewallVerifies(wire["s2f"])'
    BY <1>2, <1>4, <2>10 DEF FirewallVerifies, FirewallTranscript, Gamma1, Gamma2
  <2>12. wire'["f2c"] \notin NoMessage => ClientVerifies(wire["f2c"])'
    BY <1>2, <1>3, <2>1 DEF HonestFrames, ClientVerifies, ClientTranscript
  <2>13. NobodyRejected'
    BY <1>3, <2>1 DEF NobodyRejected
  <2> QED
    BY <2>2, <2>8, <2>9, <2>11, <2>12, <2>13 DEF HonestFrames
<1> QED
  BY <1>5, <1>6 DEF HonestInv

(***************************************************************************)
(* Where the firewall accepts the signature, so will the client.           *)
(***************************************************************************)
LEMMA RelayedVerifies ==
    ASSUME TypeOK, session # Null, KeysMatch, HonestSession,
           NEW m \in ServerResponse, FirewallVerifies(m)
    PROVE  ClientVerifies([big_y |-> m.big_y, big_d |-> m.big_d,
                           gamma1 |-> Gamma1(m), gamma2 |-> Gamma2(m),
                           signature |-> m.signature])
<1> DEFINE relayed == [big_y |-> m.big_y, big_d |-> m.big_d,
                       gamma1 |-> Gamma1(m), gamma2 |-> Gamma2(m),
                       signature |-> m.signature]
<1>1. /\ Gamma1(m) \in Scalar
      /\ Gamma2(m) \in Scalar
      /\ client.x \in Scalar
      /\ client.c \in Scalar
  BY RelayTyped DEF TypeOK
<1>2. /\ BasePoint(Mul(client.x, Gamma1(m)))
             = ScalarMul(Gamma1(m), BasePoint(client.x))
      /\ BasePoint(Mul(client.c, Gamma2(m)))
             = ScalarMul(Gamma2(m), BasePoint(client.c))
  BY <1>1, BasePointType, ScalarMulTwice
<1>3. ClientTranscript(relayed) = FirewallTranscript(m)
  BY <1>2 DEF HonestSession, ClientTranscript, FirewallTranscript
<1> QED
  BY <1>3 DEF ClientVerifies, FirewallVerifies, Verify, KeysMatch

(***************************************************************************)
(* The firewall relays a response that the client will accept.             *)
(***************************************************************************)
LEMMA FirewallRelaysHonestly ==
    ASSUME TypeOK, ExchangeInv, HonestInv, FirewallRelaysResponse
    PROVE  HonestInv'
<1> DEFINE m == wire["s2f"]
<1> DEFINE relayed == [big_y |-> m.big_y, big_d |-> m.big_d,
                       gamma1 |-> Gamma1(m), gamma2 |-> Gamma2(m),
                       signature |-> m.signature]
<1>0. ControlTyped
  BY DEF TypeOK, ControlTyped
<1>1. m \in ServerResponse
  BY ReceivedTyped DEF FirewallRelaysResponse, Link, Frame
<1>2. /\ UNCHANGED <<client, firewall, server>>
      /\ faults' = faults
      /\ pc["firewall"] = "s2f"
      /\ FirewallVerifies(m)
      /\ session' = [session EXCEPT !.kcfs = FirewallKcfs(m)]
      /\ SendMsg("firewall", {"s2f"}, "f2c", relayed, "established")
  BY DEF FirewallRelaysResponse, Undisturbed, Received
<1>3. /\ wire'["c2f"] \in {wire["c2f"], Null}
      /\ wire'["f2s"] \in {wire["f2s"], Null}
      /\ wire'["f2c"] \in {relayed, wire["f2c"], Null}
      /\ \A p \in Proc : pc'[p] \in {pc[p], "exited", "established"}
  <2> HIDE DEF relayed
  <2>1. /\ \A l \in Link \ {"f2c"} : wire'[l] \in {wire[l], Null}
        /\ wire'["f2c"] \in {relayed, wire["f2c"], Null}
        /\ \A q \in Proc \ {"firewall"} : pc'[q] = pc[q]
        /\ pc'["firewall"] \in {"established", "exited"}
    BY <1>0, <1>2, SendEffect DEF Proc, Link
  <2> QED
    BY <2>1 DEF Proc, Link
<1>4. wire'["s2f"] = Null
  BY <1>0, <1>2 DEF SendMsg, Consume, ControlTyped, Link
<1>5. session # Null /\ session \in Session
  BY <1>2 DEF ExchangeInv, WaitingHasNotActed, TypeOK
<1>6. /\ session' # Null
      /\ session'.c = session.c
      /\ session'.big_x = session.big_x
      /\ session'.big_c = session.big_c
      /\ session'.alpha1 = session.alpha1
      /\ session'.alpha2 = session.alpha2
  <2>1. FirewallKcfs(m) \in SessionKey
    BY <1>1, <1>5, RelayTyped
  <2>2. session' \in Session
    BY <1>2, <1>5, <2>1 DEF Session
  <2> QED
    BY <1>2, <1>5, <2>2, Sentinels DEF Session
<1>7. firewall'.pk_fw = BasePoint(firewall'.sk_fw)
  BY <1>2 DEF HonestInv
<1>8. ASSUME KeysMatch', faults' = 0
      PROVE  HonestSession' /\ HonestFrames' /\ NobodyRejected'
  <2>1. KeysMatch /\ HonestSession /\ HonestFrames /\ NobodyRejected
    BY <1>2, <1>8 DEF HonestInv, KeysMatch
  <2>2. HonestSession'
    BY <1>2, <1>5, <1>6, <2>1 DEF HonestSession
  <2>3. ClientVerifies(relayed)
    BY <1>1, <1>2, <1>5, <2>1, RelayedVerifies
  <2>4. wire'["c2f"] \notin NoMessage =>
          \E n \in RandomScalar : wire'["c2f"] = InitMessage(n)'
    BY <1>2, <1>3, <2>1 DEF HonestFrames, InitMessage
  <2>5. wire'["f2s"] \notin NoMessage =>
          /\ wire'["f2s"].big_x_tilde = ScalarMul(session'.alpha1, session'.big_x)
          /\ wire'["f2s"].big_c_tilde = ScalarMul(session'.alpha2, session'.big_c)
    BY <1>3, <1>6, <2>1 DEF HonestFrames
  <2>6. wire'["f2c"] \notin NoMessage => ClientVerifies(wire'["f2c"])
    <3> HIDE DEF relayed
    <3> QED
      BY <1>3, <2>1, <2>3 DEF HonestFrames
  <2>7. wire'["f2c"] \notin NoMessage => ClientVerifies(wire["f2c"])'
    BY <1>2, <2>6 DEF ClientVerifies, ClientTranscript
  <2>8. NobodyRejected'
    BY <1>3, <2>1 DEF NobodyRejected
  <2> QED
    BY <1>4, <2>2, <2>4, <2>5, <2>7, <2>8 DEF HonestFrames
<1> QED
  BY <1>7, <1>8 DEF HonestInv

(***************************************************************************)
(* The client that accepts keeps the secrets its frames were made from.    *)
(***************************************************************************)
LEMMA ClientFinalizesHonestly ==
    ASSUME TypeOK, ExchangeInv, HonestInv, ClientFinalizes
    PROVE  HonestInv'
<1>1. /\ UNCHANGED <<firewall, session, server>>
      /\ faults' = faults
      /\ client'.x = client.x
      /\ client'.c = client.c
      /\ client'.pk_fw = client.pk_fw
      /\ client'.pk_server = client.pk_server
  BY DEF ClientFinalizes, Undisturbed, TypeOK
<1>2. /\ \A l \in Link : wire'[l] \in {wire[l], Null}
      /\ wire'["f2c"] = Null
      /\ \A p \in Proc : pc'[p] \in {pc[p], "established"}
  BY DEF ClientFinalizes, Consume, Link, TypeOK, Proc
<1>3. firewall'.pk_fw = BasePoint(firewall'.sk_fw)
  BY <1>1 DEF HonestInv
<1>4. ASSUME KeysMatch', faults' = 0
      PROVE  HonestSession' /\ HonestFrames' /\ NobodyRejected'
  <2>1. KeysMatch /\ HonestSession /\ HonestFrames /\ NobodyRejected
    BY <1>1, <1>4 DEF HonestInv, KeysMatch
  <2>2. HonestSession'
    BY <1>1, <2>1 DEF HonestSession
  <2>3. wire'["c2f"] \notin NoMessage =>
          \E n \in RandomScalar : wire'["c2f"] = InitMessage(n)'
    BY <1>1, <1>2, <2>1 DEF HonestFrames, InitMessage, Link
  <2>4. wire'["f2s"] \notin NoMessage =>
          /\ wire'["f2s"].big_x_tilde = ScalarMul(session'.alpha1, session'.big_x)
          /\ wire'["f2s"].big_c_tilde = ScalarMul(session'.alpha2, session'.big_c)
    BY <1>1, <1>2, <2>1 DEF HonestFrames, Link
  <2>5. wire'["s2f"] \notin NoMessage =>
          session' # Null /\ FirewallVerifies(wire["s2f"])'
    BY <1>1, <1>2, <2>1 DEF HonestFrames, Link, FirewallVerifies,
       FirewallTranscript, Gamma1, Gamma2
  <2>6. NobodyRejected'
    BY <1>2, <2>1 DEF NobodyRejected
  <2> QED
    BY <1>2, <2>2, <2>3, <2>4, <2>5, <2>6 DEF HonestFrames
<1> QED
  BY <1>3, <1>4 DEF HonestInv

(***************************************************************************)
(* On an undisturbed wire and matching keys no handler returns Err.        *)
(***************************************************************************)
LEMMA RejectsOnlyIfDisturbed ==
    ASSUME TypeOK, HonestInv, KeysMatch, faults = 0
    PROVE  /\ ~ClientRejects
           /\ ~FirewallRejectsInit
           /\ ~FirewallRejectsResponse
<1>1. HonestFrames
  BY DEF HonestInv
<1>2. ~ClientRejects
  BY <1>1 DEF ClientRejects, Received, HonestFrames
<1>3. ~FirewallRejectsResponse
  BY <1>1 DEF FirewallRejectsResponse, Received, HonestFrames
<1>4. SUFFICES ASSUME FirewallRejectsInit
               PROVE  FALSE
  BY <1>2, <1>3
<1>5. PICK r \in Scalar : wire["c2f"] = InitMessage(r)
  BY <1>1, <1>4 DEF FirewallRejectsInit, Received, HonestFrames, RandomScalar
<1>6. PICK c \in DecryptedC(wire["c2f"]) : ~ClientInitAccepted(c, wire["c2f"])
  BY <1>4 DEF FirewallRejectsInit
<1> QED
  BY <1>5, <1>6, HonestInitAccepted

(***************************************************************************)
(* Every step of Next preserves the invariant.                             *)
(***************************************************************************)
LEMMA HonestStep ==
    TypeOK /\ ExchangeInv /\ HonestInv /\ [Next]_vars => HonestInv'
<1> SUFFICES ASSUME TypeOK, ExchangeInv, HonestInv, [Next]_vars
             PROVE  HonestInv'
  OBVIOUS
<1>1. CASE ClientSendsInit
  BY <1>1, ClientSendsHonestly
<1>2. CASE ClientFinalizes
  BY <1>2, ClientFinalizesHonestly
<1>3. CASE FirewallForwardsInit
  BY <1>3, FirewallForwardsHonestly
<1>4. CASE FirewallRelaysResponse
  BY <1>4, FirewallRelaysHonestly
<1>5. CASE ServerResponds
  BY <1>5, ServerRespondsHonestly
<1>6. CASE ClientRejects \/ FirewallRejectsInit \/ FirewallRejectsResponse
  <2>1. UNCHANGED <<client, firewall, session, server, faults>>
    BY <1>6 DEF ClientRejects, FirewallRejectsInit, FirewallRejectsResponse,
       Undisturbed
  <2>2. ~(KeysMatch /\ faults = 0)
    BY <1>6, RejectsOnlyIfDisturbed
  <2>3. ~(KeysMatch' /\ faults' = 0)
    BY <2>1, <2>2 DEF KeysMatch
  <2> QED
    BY <2>1, <2>3 DEF HonestInv
<1>7. CASE \E p \in Proc : RecvError(p) \/ Killed(p)
  <2>1. /\ UNCHANGED <<client, firewall, session, server, wire, faults>>
        /\ \A q \in Proc : pc'[q] \in {pc[q], "exited"}
    BY <1>7 DEF RecvError, Killed, Undisturbed, TypeOK
  <2>2. Harmless
    BY <2>1 DEF Harmless
  <2> QED
    BY <2>2, HarmlessStep
<1>8. CASE \E l \in Link : WireFault(l)
  <2>1. UNCHANGED firewall /\ faults' = faults + 1 /\ faults \in Nat
    BY <1>8, Bounds DEF WireFault, TypeOK
  <2>2. faults' # 0
    BY <2>1
  <2> QED
    BY <2>1, <2>2 DEF HonestInv
<1>9. CASE UNCHANGED vars
  <2>1. Harmless
    BY <1>9 DEF vars, Harmless
  <2> QED
    BY <2>1, HarmlessStep
<1> QED
  BY <1>1, <1>2, <1>3, <1>4, <1>5, <1>6, <1>7, <1>8, <1>9
  DEF Next, ClientStep, FirewallStep, Finished

(***************************************************************************)
(* Nothing was sent and nobody turned away at the start.                   *)
(***************************************************************************)
LEMMA HonestInit == Init => HonestInv
<1> SUFFICES ASSUME Init
             PROVE  HonestInv
  OBVIOUS
<1>1. /\ firewall.pk_fw = BasePoint(firewall.sk_fw)
      /\ session = Null
      /\ \A l \in Link : wire[l] = Null
      /\ \A p \in Proc : pc[p] # "rejected"
  BY DEF Init, NewFirewall, Proc
<1> QED
  BY <1>1 DEF HonestInv, HonestSession, HonestFrames, NobodyRejected, Link

(***************************************************************************)
(* The strengthening is an invariant of the key exchange.                  *)
(***************************************************************************)
THEOREM HonestInvariant == Spec => []HonestInv
BY HonestInit, HonestStep, TypeCorrect, ExchangeInvariant, PTL DEF Spec

(***************************************************************************)
(* The .expect()s of main.rs hold for every random scalar, zero included,  *)
(* and whoever is killed: on matching keys and an undisturbed wire neither *)
(* the firewall nor the client turns an honest peer away.                  *)
(***************************************************************************)
THEOREM HonestAccepted == Spec => []HonestNeverRejected
<1>1. HonestInv => HonestNeverRejected
  BY DEF HonestInv, NobodyRejected, HonestNeverRejected
<1> QED
  BY <1>1, HonestInvariant, PTL

-----------------------------------------------------------------------------
(* Success *)

(***************************************************************************)
(* A send puts a frame on the wire that decodes, and fails only towards a  *)
(* process that is gone.                                                   *)
(***************************************************************************)
LEMMA SendAlive ==
    ASSUME TypeOK, AliveInv, NEW p \in Proc, NEW from \in SUBSET Link,
           NEW to \in Link \ from, NEW m \in Frame[to],
           NEW next \in Link \cup {"established"}, SendMsg(p, from, to, m, next),
           KeysMatch' <=> KeysMatch, Undisturbed
    PROVE  AliveInv'
<1>1. m \notin {Undecodable, Unfinished} /\ Null \notin {Undecodable, Unfinished}
  BY Sentinels
<1>2. DOMAIN wire = Link /\ pc \in [Proc -> PC] /\ Reader[to] \in Proc
  BY DEF TypeOK, Reader, Link, Proc
<1>3. NothingUnreadable => NothingUnreadable'
  BY <1>1, <1>2 DEF NothingUnreadable, SendMsg, Consume
<1>4. NobodyEnded => NobodyEnded'
  <2> SUFFICES ASSUME NobodyEnded
               PROVE  NobodyEnded'
    OBVIOUS
  <2>1. ~Gone(Reader[to])
    BY <1>2 DEF NobodyEnded
  <2>2. pc' = [pc EXCEPT ![p] = next]
    BY <2>1 DEF SendMsg
  <2>3. next \notin Ended
    BY DEF Link, Ended
  <2> QED
    BY <1>2, <2>2, <2>3 DEF NobodyEnded, Gone
<1> QED
  BY <1>3, <1>4 DEF AliveInv, Undisturbed

(***************************************************************************)
(* No step changes whom a process takes for whom.                          *)
(***************************************************************************)
LEMMA KeysStayMatched == TypeOK /\ [Next]_vars => (KeysMatch' <=> KeysMatch)
<1> SUFFICES ASSUME TypeOK, [Next]_vars
             PROVE  /\ client'.pk_fw = client.pk_fw
                    /\ client'.pk_server = client.pk_server
                    /\ server'.sk = server.sk
                    /\ UNCHANGED firewall
  BY DEF KeysMatch
<1>1. CASE ClientFinalizes
  BY <1>1 DEF ClientFinalizes, TypeOK
<1>2. CASE ServerResponds
  BY <1>2 DEF ServerResponds, TypeOK
<1>3. CASE UNCHANGED <<client, firewall, server>>
  BY <1>3
<1> QED
  BY <1>1, <1>2, <1>3
  DEF Next, ClientStep, FirewallStep, ClientSendsInit, ClientRejects,
      FirewallForwardsInit, FirewallRejectsInit, FirewallRelaysResponse,
      FirewallRejectsResponse, RecvError, Killed, WireFault, Finished, vars

(***************************************************************************)
(* A process ends only on bytes that do not decode, at the end of another, *)
(* or because it rejects a message.                                        *)
(***************************************************************************)
LEMMA AliveStep ==
    TypeOK /\ ExchangeInv /\ HonestInv /\ AliveInv /\ [Next]_vars => AliveInv'
<1> SUFFICES ASSUME TypeOK, ExchangeInv, HonestInv, AliveInv, [Next]_vars
             PROVE  AliveInv'
  OBVIOUS
<1>0. /\ KeysMatch' <=> KeysMatch
      /\ pc \in [Proc -> PC] /\ DOMAIN wire = Link
      /\ Null \notin {Undecodable, Unfinished}
  BY KeysStayMatched, Sentinels DEF TypeOK
<1>1. CASE ClientSendsInit
  <2>1. PICK r \in Scalar : SendMsg("client", {}, "c2f", InitMessage(r), "f2c")
    BY <1>1 DEF ClientSendsInit, RandomScalar
  <2>2. InitMessage(r) \in Frame["c2f"]
    BY InitMessageTyped DEF Frame
  <2>3. /\ "client" \in Proc /\ {} \in SUBSET Link /\ "c2f" \in Link \ {}
        /\ "f2c" \in Link \cup {"established"}
    BY DEF Proc, Link
  <2>4. Undisturbed
    BY <1>1 DEF ClientSendsInit
  <2> QED
    BY <1>0, <2>1, <2>2, <2>3, <2>4, SendAlive
<1>2. CASE ClientFinalizes
  <2>1. /\ pc' = [pc EXCEPT !["client"] = "established"]
        /\ \A l \in Link : wire'[l] \in {wire[l], Null}
        /\ Undisturbed
    BY <1>2 DEF ClientFinalizes, Consume
  <2>2. NobodyEnded => NobodyEnded'
    BY <1>0, <2>1 DEF NobodyEnded, Gone, Ended, Proc
  <2>3. NothingUnreadable => NothingUnreadable'
    BY <1>0, <2>1 DEF NothingUnreadable
  <2> QED
    BY <1>0, <2>1, <2>2, <2>3 DEF AliveInv, Undisturbed
<1>3. CASE FirewallForwardsInit
  <2> DEFINE m == wire["c2f"]
  <2>1. m \in ClientInit
    BY <1>3, ReceivedTyped DEF FirewallForwardsInit, Link, Frame
  <2>2. PICK c \in DecryptedC(m), alpha1, alpha2, r \in Scalar :
          SendMsg("firewall", {"c2f"}, "f2s",
                  Rerandomised(m, c, alpha1, alpha2, r), "s2f")
    BY <1>3 DEF FirewallForwardsInit, RandomScalar
  <2>3. c \in Scalar
    BY <2>1, DecryptType DEF DecryptedC, ClientInit
  <2>4. Rerandomised(m, c, alpha1, alpha2, r) \in Frame["f2s"]
    BY <2>1, <2>3, RerandomisedTyped DEF Frame
  <2>5. /\ "firewall" \in Proc /\ {"c2f"} \in SUBSET Link /\ "f2s" \in Link \ {"c2f"}
        /\ "s2f" \in Link \cup {"established"}
    BY DEF Proc, Link
  <2>6. Undisturbed
    BY <1>3 DEF FirewallForwardsInit
  <2> QED
    BY <1>0, <2>2, <2>4, <2>5, <2>6, SendAlive
<1>4. CASE FirewallRelaysResponse
  <2> DEFINE m == wire["s2f"]
  <2> DEFINE relayed == [big_y |-> m.big_y, big_d |-> m.big_d,
                         gamma1 |-> Gamma1(m), gamma2 |-> Gamma2(m),
                         signature |-> m.signature]
  <2>1. m \in ServerResponse
    BY <1>4, ReceivedTyped DEF FirewallRelaysResponse, Link, Frame
  <2>2. SendMsg("firewall", {"s2f"}, "f2c", relayed, "established") /\ Undisturbed
    BY <1>4 DEF FirewallRelaysResponse
  <2>3. session # Null
    BY <1>4 DEF FirewallRelaysResponse, Received, ExchangeInv, WaitingHasNotActed
  <2>4. relayed \in Frame["f2c"]
    BY <2>1, <2>3, RelayTyped DEF Frame
  <2>5. "firewall" \in Proc /\ {"s2f"} \in SUBSET Link /\ "f2c" \in Link \ {"s2f"}
    BY DEF Proc, Link
  <2> QED
    BY <1>0, <2>2, <2>4, <2>5, SendAlive
<1>5. CASE ServerResponds
  <2> DEFINE m == wire["f2s"]
  <2>1. m \in FirewallToServer
    BY <1>5, ReceivedTyped DEF ServerResponds, Link, Frame
  <2>2. PICK y, d, beta1, beta2 \in Scalar :
          SendMsg("server", {"f2s"}, "s2f", Response(m, y, d, beta1, beta2), "established")
    BY <1>5 DEF ServerResponds, RandomScalar
  <2>3. Response(m, y, d, beta1, beta2) \in Frame["s2f"]
    BY <2>1, ResponseTyped DEF Frame
  <2>4. "server" \in Proc /\ {"f2s"} \in SUBSET Link /\ "s2f" \in Link \ {"f2s"}
    BY DEF Proc, Link
  <2>5. Undisturbed
    BY <1>5 DEF ServerResponds
  <2> QED
    BY <1>0, <2>2, <2>3, <2>4, <2>5, SendAlive
<1>6. CASE ClientRejects \/ FirewallRejectsInit \/ FirewallRejectsResponse
  <2>1. /\ \A l \in Link : wire'[l] \in {wire[l], Null}
        /\ Undisturbed
    BY <1>6 DEF ClientRejects, FirewallRejectsInit, FirewallRejectsResponse,
       Reject, Consume
  <2>2. ~(KeysMatch /\ faults = 0)
    BY <1>6, RejectsOnlyIfDisturbed
  <2>3. NothingUnreadable => NothingUnreadable'
    BY <1>0, <2>1 DEF NothingUnreadable
  <2> QED
    BY <1>0, <2>1, <2>2, <2>3 DEF AliveInv, Undisturbed
<1>7. CASE \E p \in Proc : RecvError(p)
  <2>1. PICK p \in Proc : RecvError(p)
    BY <1>7
  <2>2. RecvFails(pc[p]) /\ pc[p] \in Link /\ UNCHANGED wire /\ Undisturbed
    BY <2>1 DEF RecvError
  <2>3. ~(NothingUnreadable /\ NobodyEnded)
    <3>1. Writer[pc[p]] \in Proc
      BY <2>2 DEF Writer, Link, Proc
    <3> QED
      BY <2>2, <3>1 DEF RecvFails, NothingUnreadable, NobodyEnded
  <2>4. ~(KeysMatch /\ faults = 0 /\ crashes = 0)
    BY <2>3 DEF AliveInv
  <2> QED
    BY <1>0, <2>2, <2>4 DEF AliveInv, Undisturbed, NothingUnreadable
<1>8. CASE \E p \in Proc : Killed(p)
  <2>1. UNCHANGED <<wire, faults>> /\ crashes' = crashes + 1 /\ crashes \in Nat
    BY <1>8, Bounds DEF Killed, TypeOK
  <2>2. crashes' # 0
    BY <2>1
  <2> QED
    BY <2>1, <2>2 DEF AliveInv, NothingUnreadable
<1>9. CASE \E l \in Link : WireFault(l)
  <2>1. faults' = faults + 1 /\ faults \in Nat
    BY <1>9, Bounds DEF WireFault, TypeOK
  <2>2. faults' # 0
    BY <2>1
  <2> QED
    BY <2>2 DEF AliveInv
<1>10. CASE UNCHANGED vars
  BY <1>0, <1>10 DEF vars, AliveInv, NothingUnreadable, NobodyEnded, Gone
<1> QED
  BY <1>1, <1>2, <1>3, <1>4, <1>5, <1>6, <1>7, <1>8, <1>9, <1>10
  DEF Next, ClientStep, FirewallStep, Finished

(***************************************************************************)
(* Everybody lives and nothing is in flight at the start.                  *)
(***************************************************************************)
LEMMA AliveInit == Init => AliveInv
BY Sentinels DEF Init, AliveInv, NothingUnreadable, NobodyEnded, Gone, Ended, Proc

(***************************************************************************)
(* Of the ways to come to rest only success is left when nothing was       *)
(* altered, nobody killed and the keys match: an exchange of three honest  *)
(* processes ends in three record loops.                                   *)
(***************************************************************************)
THEOREM QuietWhenEstablished == Spec => []QuietMeansEstablished
<1>1. TypeOK /\ TurnInv /\ AliveInv => QuietMeansEstablished
  <2> SUFFICES ASSUME TypeOK, TurnInv, AliveInv, KeysMatch, faults = 0, crashes = 0,
                      Quiet
               PROVE  \A p \in Proc : pc[p] = "established"
    BY DEF QuietMeansEstablished
  <2>1. NothingUnreadable /\ NobodyEnded
    BY DEF AliveInv
  <2>2. ~Stalled
    BY <2>1 DEF Stalled, NothingUnreadable
  <2> QED
    BY <2>1, <2>2, QuietSettled DEF Settled, NobodyEnded, Gone
<1>2. Spec => []AliveInv
  BY AliveInit, AliveStep, TypeCorrect, ExchangeInvariant, HonestInvariant, PTL
  DEF Spec
<1> QED
  BY <1>1, <1>2, TypeCorrect, TurnInvariant, PTL
=============================================================================
