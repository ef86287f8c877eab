--------------------------- MODULE SymbolicCrypto ---------------------------
(***************************************************************************)
(* The symmetric primitives and the signature of src/crypto.rs, as values. *)
(*                                                                         *)
(* A hash, a MAC tag, a sealed record and a signature are records that     *)
(* hold what they were computed from: two of them are equal only if their  *)
(* inputs are (no collisions), and a tag or a signature exists only if     *)
(* some process computed it (no forgeries).  Everything the protocol code  *)
(* itself decides stays concrete: which key goes in, over which bytes, and *)
(* what is compared with what.                                             *)
(***************************************************************************)
EXTENDS FiniteSetsExt

(***************************************************************************)
(* XOR with a key stream.  A byte string is a plaintext together with the  *)
(* set of key streams currently XORed onto it; XORing one toggles its      *)
(* membership, so that twice the same stream is the identity and streams   *)
(* commute, as they do on bytes.                                           *)
(***************************************************************************)
Plain(m) == [clear |-> m, masks |-> {}]

Xor(bytes, stream) == [bytes EXCEPT !.masks = SymDiff(@, {stream})]

IsClear(bytes) == bytes.masks = {}

(***************************************************************************)
(* The two domain-separated hashes of r || kcfs used by the record layer.  *)
(***************************************************************************)
H1(r, key) == [h1 |-> <<r, key>>]

H2(r, key) == [h2 |-> <<r, key>>]

Mac(key, input) == [mac |-> <<key, input>>]

MacVerify(key, input, tag) == tag = Mac(key, input)

(***************************************************************************)
(* AEAD whose nonce is the 64-bit sequence number.  Opening needs bytes    *)
(* that are still exactly what was sealed (no stray key stream left on     *)
(* them), the same key and the same sequence number.                       *)
(***************************************************************************)
AeEncrypt(key, seq, plaintext) ==
    Plain([key |-> key, seq |-> seq, plaintext |-> plaintext])

AeOpens(key, seq, bytes) ==
    /\ IsClear(bytes)
    /\ bytes.clear.key = key
    /\ bytes.clear.seq = seq

\* Mutant: the record is passed on as it was sealed.
AeStillSealed(bytes) == bytes.clear

AePlaintext(bytes) == bytes.clear.plaintext

(***************************************************************************)
(* Ed25519: a key pair is named by one value, which stands for its secret  *)
(* half in Sign and for its public half in Verify.                         *)
(***************************************************************************)
Sign(key, transcript) == [by |-> key, over |-> transcript]

Verify(key, transcript, signature) == signature = Sign(key, transcript)
=============================================================================
