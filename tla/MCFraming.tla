----------------------------- MODULE MCFraming ------------------------------
(* One size that fits its prefix and two that do not: the first is cut to   *)
(* nothing, the second to less than the message.                            *)
EXTENDS Framing

CONSTANTS small, empty, long

MCMessage == {small, empty, long}

MCSizeOf == small :> 2 @@ empty :> 5 @@ long :> 6
=============================================================================
