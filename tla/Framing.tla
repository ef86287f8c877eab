------------------------------ MODULE Framing -------------------------------
(***************************************************************************)
(* send_msg and recv_msg (src/net.rs) on one direction of a connection, as *)
(* the bytes that the system moves: a prefix with the length, cut to the   *)
(* width of the prefix, and the serialised message.  The other modules     *)
(* take what is shown here, a frame that arrives whole, fails to arrive or *)
(* never completes, as one step.                                           *)
(***************************************************************************)
EXTENDS Naturals, Sequences, SequencesExt

CONSTANTS
    Message,    \* what may be sent
    SizeOf,     \* how many bytes each message is when serialised
    Prefix,     \* the bytes of a length prefix (4 in the code)
    Modulus,    \* how many lengths it can tell apart (2^32 in the code)
    Capacity,   \* the bytes that the system holds between the two processes
    MaxSent     \* bound on the messages sent

ASSUME Sizes ==
    /\ SizeOf \in [Message -> Nat \ {0}]
    /\ Prefix \in Nat \ {0}
    /\ Modulus \in Nat \ {0}
    /\ Capacity \in Nat \ {0}
    /\ MaxSent \in Nat

VARIABLES
    sent,       \* history: the messages passed to send_msg
    writing,    \* the bytes of the last of them that are still to be written
    wire,       \* the bytes written and not yet read
    sender,     \* is the sender's end of the connection open?
    reader,     \* what the receiver reads, or how it ended
    buf,        \* the bytes that the read_exact in progress has so far
    need,       \* the bytes it is to have
    received    \* history: the messages returned by recv_msg

vars == <<sent, writing, wire, sender, reader, buf, need, received>>

-----------------------------------------------------------------------------
(* Bytes: the k-th of the n-th frame is <<n, k>>. *)

Frame(n, size) == [k \in 1 .. Prefix + size |-> <<n, k>>]

Body(n) == SubSeq(Frame(n, SizeOf[sent[n]]), Prefix + 1, Prefix + SizeOf[sent[n]])

\* Mutant: the whole length is taken to fit.
AnnouncedUncut(size) == size

\* Mutant: the length announced is that of the frame.
AnnouncedWithPrefix(size) == (Prefix + size) % Modulus

Announced(size) == size % Modulus

(***************************************************************************)
(* What a length prefix may say; bytes from elsewhere say anything.        *)
(***************************************************************************)
Lengths(bytes) ==
    IF \E n \in DOMAIN sent : bytes = Frame(n, 0)
    THEN {Announced(SizeOf[sent[bytes[1][1]]])}
    ELSE 0 .. Modulus - 1

-----------------------------------------------------------------------------
(* Sending *)

Receiving == reader \in {"prefix", "body"}

SendMsg(m) ==
    /\ sender = "open"
    /\ writing = <<>>
    /\ Len(sent) < MaxSent
    /\ sent' = Append(sent, m)
    /\ writing' = Frame(Len(sent) + 1, SizeOf[m])
    /\ UNCHANGED <<wire, sender, reader, buf, need, received>>

(***************************************************************************)
(* write_all writes as much as the system takes, until nothing is left.    *)
(***************************************************************************)
Write ==
    /\ Receiving
    /\ \E n \in 1 .. Len(writing) :
          /\ Len(wire) + n <= Capacity
          /\ wire' = wire \o SubSeq(writing, 1, n)
          /\ writing' = SubSeq(writing, n + 1, Len(writing))
    /\ UNCHANGED <<sent, sender, reader, buf, need, received>>

(***************************************************************************)
(* The receiver is gone: the bytes reach nobody, or the write fails and    *)
(* ends the sender.                                                        *)
(***************************************************************************)
WriteToNobody ==
    /\ ~Receiving
    /\ writing # <<>>
    /\ writing' = <<>>
    /\ sender' \in {"open", "closed"}
    /\ UNCHANGED <<sent, wire, reader, buf, need, received>>

Close ==
    /\ sender = "open"
    /\ writing = <<>>
    /\ sender' = "closed"
    /\ UNCHANGED <<sent, writing, wire, reader, buf, need, received>>

(***************************************************************************)
(* The sender is killed or the connection reset, in the middle of a frame  *)
(* or with bytes that the system has not passed on yet.                    *)
(***************************************************************************)
Abort ==
    /\ sender = "open"
    /\ sender' = "closed"
    /\ writing' = <<>>
    /\ \E n \in 0 .. Len(wire) : wire' = SubSeq(wire, 1, n)
    /\ UNCHANGED <<sent, reader, buf, need, received>>

-----------------------------------------------------------------------------
(* Receiving *)

\* Mutant: read for read_exact, which returns with what there is.
ReadOnce == buf # <<>> \/ need = 0

ReadComplete == Len(buf) = need

Read ==
    /\ Receiving
    /\ ~ReadComplete
    /\ \E n \in 1 .. Len(wire) :
          /\ Len(buf) + n <= need
          /\ buf' = buf \o SubSeq(wire, 1, n)
          /\ wire' = SubSeq(wire, n + 1, Len(wire))
    /\ UNCHANGED <<sent, writing, sender, reader, need, received>>

ReadHitsEnd ==
    /\ Receiving
    /\ ~ReadComplete
    /\ wire = <<>>
    /\ sender = "closed"
    /\ reader' = "failed"
    /\ UNCHANGED <<sent, writing, wire, sender, buf, need, received>>

TakeLength ==
    /\ reader = "prefix"
    /\ ReadComplete
    /\ reader' = "body"
    /\ buf' = <<>>
    /\ need' \in Lengths(buf)
    /\ UNCHANGED <<sent, writing, wire, sender, received>>

(***************************************************************************)
(* bincode is content with bytes that follow the message, and not with     *)
(* less than the message.                                                  *)
(***************************************************************************)
Decodes(n) == IsPrefix(Body(n), buf)

\* Mutant: the receiver goes on after a message that does not decode.
ReaderReadsOn == "prefix"

ReaderAfterError == "failed"

TakeBody ==
    /\ reader = "body"
    /\ ReadComplete
    /\ buf' = <<>>
    /\ need' = Prefix
    /\ \/ \E n \in DOMAIN sent :
             /\ Decodes(n)
             /\ received' = Append(received, sent[n])
             /\ reader' = "prefix"
       \/ /\ \A n \in DOMAIN sent : ~Decodes(n)
          /\ reader' = ReaderAfterError
          /\ UNCHANGED received
    /\ UNCHANGED <<sent, writing, wire, sender>>

(***************************************************************************)
(* The receiver ends for a reason of its own.                              *)
(***************************************************************************)
Leave ==
    /\ Receiving
    /\ reader' = "gone"
    /\ UNCHANGED <<sent, writing, wire, sender, buf, need, received>>

-----------------------------------------------------------------------------
(* Specification *)

Init ==
    /\ sent = <<>>
    /\ writing = <<>>
    /\ wire = <<>>
    /\ sender = "open"
    /\ reader = "prefix"
    /\ buf = <<>>
    /\ need = Prefix
    /\ received = <<>>

WriteAll == Write \/ WriteToNobody

RecvMsg == Read \/ ReadHitsEnd \/ TakeLength \/ TakeBody

Next ==
    \/ \E m \in Message : SendMsg(m)
    \/ WriteAll
    \/ Close
    \/ Abort
    \/ RecvMsg
    \/ Leave

Spec == Init /\ [][Next]_vars

(***************************************************************************)
(* A write_all with room and a read_exact with bytes proceed.  Nobody need *)
(* send another message, close or leave.                                   *)
(***************************************************************************)
FairSpec == Spec /\ WF_vars(WriteAll) /\ WF_vars(RecvMsg)

-----------------------------------------------------------------------------
(* Properties *)

Byte == (1 .. MaxSent) \X (Nat \ {0})

TypeOK ==
    /\ sent \in Seq(Message) /\ Len(sent) <= MaxSent
    /\ writing \in Seq(Byte)
    /\ wire \in Seq(Byte) /\ Len(wire) <= Capacity
    /\ sender \in {"open", "closed"}
    /\ reader \in {"prefix", "body", "failed", "gone"}
    /\ need \in {Prefix} \cup 0 .. Modulus - 1
    /\ buf \in Seq(Byte) /\ Len(buf) <= need
    /\ received \in Seq(Message)

Fits(m) == SizeOf[m] < Modulus

(***************************************************************************)
(* A receive fails only if the connection has ended or a message was too   *)
(* long for its prefix, however the bytes were cut into reads and writes.  *)
(***************************************************************************)
FailureHasCause ==
    reader = "failed" => sender = "closed" \/ \E n \in DOMAIN sent : ~Fits(sent[n])

(***************************************************************************)
(* Every message sent is received, or its receiver is told or gone; a      *)
(* length that does not fit fails and makes nobody wait.                   *)
(***************************************************************************)
EverySendSettles ==
    \A n \in 1 .. MaxSent :
        Len(sent) >= n ~> Len(received) >= n \/ ~Receiving

(***************************************************************************)
(* Neither write_all nor read_exact can go on.                             *)
(***************************************************************************)
Quiet ==
    /\ Receiving
    /\ ~ReadComplete
    /\ wire = <<>>
    /\ sender = "open"
    /\ writing = <<>> \/ Len(wire) >= Capacity

(***************************************************************************)
(* A sender with a full connection before it and a receiver with an empty  *)
(* one never wait for one another: both are at rest only between messages. *)
(***************************************************************************)
QuietMeansReceived ==
    Quiet => reader = "prefix" /\ buf = <<>> /\ received = sent

-----------------------------------------------------------------------------
(* Refinement *)

Channel == INSTANCE FrameChannel WITH reading <- Receiving

(***************************************************************************)
(* The bytes add up to whole messages in order, and to none after a        *)
(* receive that failed, which is all that the callers of recv_msg see.     *)
(***************************************************************************)
ImplementsFrameChannel == Channel!Spec

-----------------------------------------------------------------------------
(* The inductive invariant behind FailureHasCause and the refinement. *)

(***************************************************************************)
(* The bytes between the two programs, those of the receive in progress    *)
(* first.                                                                  *)
(***************************************************************************)
Pending == buf \o (wire \o writing)

End(n) == Prefix + SizeOf[sent[n]]

(***************************************************************************)
(* No byte is missing from a frame, and after one comes the next.          *)
(***************************************************************************)
Consecutive(s) ==
    /\ \A i \in DOMAIN s : s[i][1] \in DOMAIN sent /\ s[i][2] \in 1 .. End(s[i][1])
    /\ \A i, j \in DOMAIN s :
          i <= j /\ s[i][2] + (j - i) <= End(s[i][1]) =>
              s[j] = <<s[i][1], s[i][2] + (j - i)>>
    /\ \A i, j \in DOMAIN s :
          j = i + 1 /\ s[i][2] = End(s[i][1]) => s[j] = <<s[i][1] + 1, 1>>

ReceivedInOrder ==
    /\ Len(received) <= Len(sent)
    /\ \A n \in DOMAIN received : received[n] = sent[n]

(***************************************************************************)
(* Where the receive in progress is in the message it receives.            *)
(***************************************************************************)
ReceiveInStep ==
    LET n == Len(received) + 1 IN
    /\ reader = "prefix" =>
          /\ need = Prefix
          /\ Pending # <<>> => Pending[1] = <<n, 1>>
    /\ reader = "body" =>
          /\ n \in DOMAIN sent
          /\ need = Announced(SizeOf[sent[n]])
          /\ Pending # <<>> => Pending[1] = <<n, Prefix + 1>>

(***************************************************************************)
(* While the connection is open, nothing of the last message is missing.   *)
(***************************************************************************)
NothingLost ==
    sender = "open" =>
        IF Pending = <<>>
        THEN reader = "prefix" /\ Len(received) = Len(sent)
        ELSE Pending[Len(Pending)] = <<Len(sent), End(Len(sent))>>

(***************************************************************************)
(* A closed connection takes no more bytes.                                *)
(***************************************************************************)
ClosedWritesNothing == sender = "closed" => writing = <<>>

FramingInv ==
    /\ ReceivedInOrder
    /\ ClosedWritesNothing
    /\ Receiving => Consecutive(Pending) /\ ReceiveInStep /\ NothingLost
    /\ FailureHasCause
=============================================================================
