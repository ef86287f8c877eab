----------------------------- MODULE Ristretto ------------------------------
(***************************************************************************)
(* The group, the key derivation and the hashed ElGamal encryption of      *)
(* src/crypto.rs.                                                          *)
(*                                                                         *)
(* Ristretto255 has prime order, so every point is a multiple of the base  *)
(* point and is represented here by that multiple.  Nothing is assumed of  *)
(* the scalars but that their product is associative and commutative: no   *)
(* inverse, no cancellation and no unit, so that what holds here also      *)
(* covers the scalar zero, which the random generator may return.          *)
(***************************************************************************)
EXTENDS SymbolicCrypto

CONSTANTS
    Scalar,     \* the scalars, Zp in the code
    Mul(_, _)   \* their product

ASSUME ScalarProduct ==
    /\ \A a, b \in Scalar : Mul(a, b) \in Scalar
    /\ \A a, b \in Scalar : Mul(a, b) = Mul(b, a)
    /\ \A a, b, c \in Scalar : Mul(Mul(a, b), c) = Mul(a, Mul(b, c))

RandomScalar == Scalar

Point == [dlog : Scalar]

BasePoint(x) == [dlog |-> x]

ScalarMul(a, point) == [dlog |-> Mul(a, point.dlog)]

ConcatPoints(p1, p2, p3, p4) == <<p1, p2, p3, p4>>

Transcript == Point \X Point \X Point \X Point

Kdf(point) == [kdf |-> point]

SessionKey == [kdf : Point]

(***************************************************************************)
(* Hashed ElGamal: the 32 plaintext bytes are XORed with the hash of the   *)
(* shared point; decryption XORs the hash of its own shared point again.   *)
(***************************************************************************)
Masked == [clear : Scalar, masks : SUBSET SessionKey]

ElGamalCiphertext == [r_point : Point, masked : Masked]

ElGamalEncrypt(pk, msg, r) ==
    [r_point |-> BasePoint(r),
     masked  |-> Xor(Plain(msg), Kdf(ScalarMul(r, pk)))]

ElGamalDecrypt(sk, ct) == Xor(ct.masked, Kdf(ScalarMul(sk, ct.r_point)))

(***************************************************************************)
(* Scalar::from_bytes_mod_order accepts any 32 bytes.  Bytes on which a    *)
(* key stream is left reduce to some scalar, about which nothing is known: *)
(* the set holds every possible outcome.                                   *)
(***************************************************************************)
ScalarFromBytes(bytes) == IF IsClear(bytes) THEN {bytes.clear} ELSE Scalar
=============================================================================
