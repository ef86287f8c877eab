---------------------------- MODULE MCHandshake -----------------------------
(***************************************************************************)
(* Small instances of Handshake: the scalars are the integers modulo a     *)
(* small prime, zero included.                                             *)
(***************************************************************************)
EXTENDS Handshake

CONSTANT Prime

ScalarsModPrime == 0 .. Prime - 1

TimesModPrime(a, b) == (a * b) % Prime
=============================================================================
