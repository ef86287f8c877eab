--------------------------- MODULE MCRecordLayer ----------------------------
(***************************************************************************)
(* Small instances of RecordLayer.  Lines and nonces are only compared for *)
(* equality, so that permuting either set changes nothing.                 *)
(***************************************************************************)
EXTENDS RecordLayer, TLC

Symmetry == Permutations(Line) \cup Permutations(Nonce)
=============================================================================
