--------------------------- MODULE SecureChannel ----------------------------
(***************************************************************************)
(* What the record layer promises the two ends, with no keys, frames or    *)
(* firewall in it: lines come out whole, in the order they went in, each   *)
(* at most once; a line may be lost, and then nothing after it comes out.  *)
(***************************************************************************)
EXTENDS Naturals, Sequences

CONSTANT Line

VARIABLES
    sent,       \* the lines put in, oldest first
    delivered,  \* the lines taken out, oldest first
    lost        \* the positions of the lines known to be lost

vars == <<sent, delivered, lost>>

Init ==
    /\ sent = <<>>
    /\ delivered = <<>>
    /\ lost = {}

Send(line) ==
    /\ sent' = Append(sent, line)
    /\ UNCHANGED <<delivered, lost>>

InTransit == Len(delivered) + 1 .. Len(sent)

Deliver ==
    LET n == Len(delivered) + 1 IN
    /\ n \in InTransit \ lost
    /\ delivered' = Append(delivered, sent[n])
    /\ UNCHANGED <<sent, lost>>

Lose(n) ==
    /\ n \in InTransit
    /\ lost' = lost \cup {n}
    /\ UNCHANGED <<sent, delivered>>

Next ==
    \/ \E line \in Line : Send(line)
    \/ Deliver
    \/ \E n \in InTransit : Lose(n)

Spec == Init /\ [][Next]_vars
=============================================================================
