---------------------------- MODULE FrameChannel ----------------------------
(***************************************************************************)
(* What send_msg and recv_msg promise their callers, with no bytes in it:  *)
(* messages arrive whole and in the order they were sent, until a receive  *)
(* fails; after that none arrives.                                         *)
(***************************************************************************)
EXTENDS Naturals, Sequences

CONSTANT Message

VARIABLES
    sent,       \* the messages sent, oldest first
    received,   \* the messages received, oldest first
    reading     \* has every receive succeeded so far?

vars == <<sent, received, reading>>

Init ==
    /\ sent = <<>>
    /\ received = <<>>
    /\ reading = TRUE

Send(m) ==
    /\ sent' = Append(sent, m)
    /\ UNCHANGED <<received, reading>>

Receive ==
    LET n == Len(received) + 1 IN
    /\ reading
    /\ n <= Len(sent)
    /\ received' = Append(received, sent[n])
    /\ UNCHANGED <<sent, reading>>

Fail ==
    /\ reading
    /\ reading' = FALSE
    /\ UNCHANGED <<sent, received>>

Next ==
    \/ \E m \in Message : Send(m)
    \/ Receive
    \/ Fail

Spec == Init /\ [][Next]_vars
=============================================================================
