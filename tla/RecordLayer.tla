---------------------------- MODULE RecordLayer -----------------------------
(***************************************************************************)
(* The record layer: the loops of src/bin that follow the key exchange,    *)
(* with the record handlers of src/firewall.rs and src/server.rs.  The     *)
(* client seals each line typed under kcs and its own counter, blinds the  *)
(* sealed bytes and tags them under kcfs; the firewall checks the tag,     *)
(* takes the blinding off, puts a fresh one on and tags again; the server  *)
(* checks the tag, takes the blinding off and opens under its own counter. *)
(*                                                                         *)
(* The three processes start established, on the keys that KeyAgreement of *)
(* module Handshake shows them to share.  Bytes may be altered on the wire *)
(* and any process may be killed; TCP loses, repeats and reorders nothing, *)
(* but an altered length may hide a record in the one before it.           *)
(***************************************************************************)
EXTENDS SymbolicCrypto, Naturals, Sequences

CONSTANTS
    Kcs,            \* the session key of client and server
    Kcfs,           \* the session key of client, firewall and server
    Line,           \* the non-empty lines a user may type
    Nonce,          \* the values of r, the 32 random bytes of a record
    Flip,           \* the XOR of some ciphertext bits being flipped
    BadTag,         \* 32 bytes that no MAC computation produced
    Undecodable,    \* a frame on which recv_msg returns an error
    MaxLines,       \* bound on the lines typed
    MaxFaults,      \* bound on the frames altered or garbled on the wire
    MaxCrashes      \* bound on the processes killed from outside

VARIABLES
    clientSeq,  \* seq of client_bin.rs
    serverSeq,  \* seq of server_bin.rs
    wire,       \* the frames in flight on the two connections, oldest first
    status,     \* whether each process is in its loop or has left it
    sent,       \* history: the lines the client sent
    delivered,  \* history: the plaintexts the server printed
    rejected,   \* history: the sequence numbers of the records turned away
    faults,     \* how many frames were altered or garbled so far
    crashes     \* how many processes were killed so far

vars == <<clientSeq, serverSeq, wire, status, sent, delivered, rejected,
          faults, crashes>>

-----------------------------------------------------------------------------
(* Messages *)

Sealed == [key : {Kcs}, seq : Nat, plaintext : Line]

Stream == [h1 : Nonce \X {Kcfs}] \cup {Flip}

Bytes == [clear : Sealed, masks : SUBSET Stream]

Tag == [mac : [h2 : Nonce \X {Kcfs}] \X (Nonce \X Bytes)] \cup {BadTag}

RecordMessage == [r : Nonce, s : Bytes, t : Tag]

Proc == {"client", "firewall", "server"}

Link == {"c2f", "f2s"}

Reader == [c2f |-> "firewall", f2s |-> "server"]

Writer == [c2f |-> "client", f2s |-> "firewall"]

ASSUME Sentinels ==
    /\ Flip \notin [h1 : Nonce \X {Kcfs}]
    /\ BadTag \notin [mac : [h2 : Nonce \X {Kcfs}] \X (Nonce \X Bytes)]
    /\ Undecodable \notin RecordMessage

ASSUME Bounds ==
    /\ MaxLines \in Nat
    /\ MaxFaults \in Nat
    /\ MaxCrashes \in Nat

-----------------------------------------------------------------------------
(* Receiving and sending *)

Running(p) == status[p] = "running"

Ends(p) == status' = [status EXCEPT ![p] = "ended"]

Received(l) ==
    /\ Running(Reader[l])
    /\ wire[l] # <<>>
    /\ Head(wire[l]) # Undecodable

\* Mutant: the end of the writer is noticed before its last frames.
RecvFailsAtOnce(l) == Running(Reader[l]) /\ ~Running(Writer[l])

(***************************************************************************)
(* In this phase bytes flow one way only, so a connection is closed in     *)
(* good order and its reader sees the end after the last frame.            *)
(***************************************************************************)
RecvFails(l) ==
    /\ Running(Reader[l])
    /\ \/ wire[l] # <<>> /\ Head(wire[l]) = Undecodable
       \/ wire[l] = <<>> /\ ~Running(Writer[l])

(***************************************************************************)
(* Writing to a process that is gone may succeed, the bytes then reaching  *)
(* nobody, or fail.                                                        *)
(***************************************************************************)
SendMayFail(l) == ~Running(Reader[l])

-----------------------------------------------------------------------------
(* Client (src/bin/client_bin.rs) *)

Blinded(sealed, r) == Xor(sealed, H1(r, Kcfs))

\* Mutant: the tag is over the bytes before they are blinded.
RecordTaggedUnblinded(sealed, r) ==
    [r |-> r, s |-> Blinded(sealed, r), t |-> Mac(H2(r, Kcfs), <<r, sealed>>)]

(***************************************************************************)
(* A record around sealed bytes: the client builds it around its own, the  *)
(* firewall around what it unblinded.                                      *)
(***************************************************************************)
Record(sealed, r) ==
    LET s == Blinded(sealed, r)
    IN  [r |-> r, s |-> s, t |-> Mac(H2(r, Kcfs), <<r, s>>)]

ClientSendsLine ==
    /\ Running("client")
    /\ clientSeq < MaxLines
    /\ \E line \in Line, r \in Nonce :
          /\ wire' = [wire EXCEPT !["c2f"] =
                         Append(@, Record(AeEncrypt(Kcs, clientSeq, line), r))]
          /\ sent' = Append(sent, line)
    /\ clientSeq' = clientSeq + 1
    /\ UNCHANGED <<serverSeq, status, delivered, rejected, faults, crashes>>

(***************************************************************************)
(* End of the input, or a failed read or send.                             *)
(***************************************************************************)
ClientEnds ==
    /\ Running("client")
    /\ Ends("client")
    /\ UNCHANGED <<clientSeq, serverSeq, wire, sent, delivered, rejected,
                   faults, crashes>>

-----------------------------------------------------------------------------
(* Firewall (src/firewall.rs, src/bin/firewall_bin.rs) *)

TagVerifies(m) == MacVerify(H2(m.r, Kcfs), <<m.r, m.s>>, m.t)

Unblinded(m) == Xor(m.s, H1(m.r, Kcfs))

(***************************************************************************)
(* The sequence number the record was sealed under, which the history      *)
(* keeps; neither reader sees it.                                          *)
(***************************************************************************)
Number(m) == m.s.clear.seq

FirewallForwards ==
    /\ Received("c2f")
    /\ LET m == Head(wire["c2f"]) IN
          /\ TagVerifies(m)
          /\ \E r \in Nonce :
                wire' = [wire EXCEPT
                    !["c2f"] = Tail(@),
                    !["f2s"] = Append(@, Record(Unblinded(m), r))]
    /\ UNCHANGED <<clientSeq, serverSeq, status, sent, delivered, rejected,
                   faults, crashes>>

FirewallRejects ==
    /\ Received("c2f")
    /\ LET m == Head(wire["c2f"]) IN
          /\ ~TagVerifies(m)
          /\ rejected' = rejected \cup {Number(m)}
    /\ wire' = [wire EXCEPT !["c2f"] = Tail(@)]
    /\ UNCHANGED <<clientSeq, serverSeq, status, sent, delivered, faults,
                   crashes>>

FirewallSendFails ==
    /\ Received("c2f")
    /\ TagVerifies(Head(wire["c2f"]))
    /\ SendMayFail("f2s")
    /\ wire' = [wire EXCEPT !["c2f"] = Tail(@)]
    /\ Ends("firewall")
    /\ UNCHANGED <<clientSeq, serverSeq, sent, delivered, rejected, faults,
                   crashes>>

\* Mutant: a failed read is tried again, for ever.
FirewallReadsOn == RecvFails("c2f") /\ UNCHANGED vars

FirewallEnds ==
    /\ RecvFails("c2f")
    /\ Ends("firewall")
    /\ UNCHANGED <<clientSeq, serverSeq, wire, sent, delivered, rejected,
                   faults, crashes>>

-----------------------------------------------------------------------------
(* Server (src/server.rs, src/bin/server_bin.rs) *)

\* Mutant: the sequence number takes no part in the opening.
OpensUnderAnyNumber(m) ==
    TagVerifies(m) /\ IsClear(Unblinded(m)) /\ Unblinded(m).clear.key = Kcs

Opens(m) == TagVerifies(m) /\ AeOpens(Kcs, serverSeq, Unblinded(m))

\* Mutant: the counter stays where it is after a success.
SeqUnchanged == serverSeq

SeqAfterAccept == serverSeq + 1

\* Mutant: the counter moves past the record turned away.
SeqPastReject == serverSeq + 1

SeqAfterReject == serverSeq

ServerAccepts ==
    /\ Received("f2s")
    /\ LET m == Head(wire["f2s"]) IN
          /\ Opens(m)
          /\ delivered' = Append(delivered, AePlaintext(Unblinded(m)))
    /\ serverSeq' = SeqAfterAccept
    /\ wire' = [wire EXCEPT !["f2s"] = Tail(@)]
    /\ UNCHANGED <<clientSeq, status, sent, rejected, faults, crashes>>

ServerRejects ==
    /\ Received("f2s")
    /\ LET m == Head(wire["f2s"]) IN
          /\ ~Opens(m)
          /\ rejected' = rejected \cup {Number(m)}
    /\ serverSeq' = SeqAfterReject
    /\ wire' = [wire EXCEPT !["f2s"] = Tail(@)]
    /\ UNCHANGED <<clientSeq, status, sent, delivered, faults, crashes>>

ServerEnds ==
    /\ RecvFails("f2s")
    /\ Ends("server")
    /\ UNCHANGED <<clientSeq, serverSeq, wire, sent, delivered, rejected,
                   faults, crashes>>

-----------------------------------------------------------------------------
(* Kills and the wire *)

Killed(p) ==
    /\ crashes < MaxCrashes
    /\ Running(p)
    /\ crashes' = crashes + 1
    /\ Ends(p)
    /\ UNCHANGED <<clientSeq, serverSeq, wire, sent, delivered, rejected,
                   faults>>

(***************************************************************************)
(* What a record may become in flight when it still decodes: another r,    *)
(* flipped bits in s, another t.                                           *)
(***************************************************************************)
Altered(m) ==
         {[m EXCEPT !.r = r] : r \in Nonce \ {m.r}}
    \cup {[m EXCEPT !.s = Xor(@, Flip)], [m EXCEPT !.t = BadTag]}

(***************************************************************************)
(* A length prefix raised by the length of the next frame: recv_msg reads  *)
(* both as one body and decodes the first record, for bincode ignores what *)
(* follows it.                                                             *)
(***************************************************************************)
NextSwallowed(frames, i) ==
    [k \in 1 .. Len(frames) - 1 |-> IF k <= i THEN frames[k] ELSE frames[k + 1]]

WireFault(l, i) ==
    /\ faults < MaxFaults
    /\ wire[l][i] # Undecodable
    /\ faults' = faults + 1
    /\ \/ \E m \in Altered(wire[l][i]) \cup {Undecodable} :
             wire' = [wire EXCEPT ![l] = [@ EXCEPT ![i] = m]]
       \/ /\ i < Len(wire[l])
          /\ wire' = [wire EXCEPT ![l] = NextSwallowed(@, i)]
    /\ UNCHANGED <<clientSeq, serverSeq, status, sent, delivered, rejected,
                   crashes>>

-----------------------------------------------------------------------------
(* Specification *)

Init ==
    /\ clientSeq = 0
    /\ serverSeq = 0
    /\ wire = [l \in Link |-> <<>>]
    /\ status = [p \in Proc |-> "running"]
    /\ sent = <<>>
    /\ delivered = <<>>
    /\ rejected = {}
    /\ faults = 0
    /\ crashes = 0

FirewallStep ==
    FirewallForwards \/ FirewallRejects \/ FirewallSendFails \/ FirewallEnds

ServerStep == ServerAccepts \/ ServerRejects \/ ServerEnds

AllEnded == \A p \in Proc : ~Running(p)

Finished == AllEnded /\ UNCHANGED vars

Next ==
    \/ ClientSendsLine
    \/ ClientEnds
    \/ FirewallStep
    \/ ServerStep
    \/ \E p \in Proc : Killed(p)
    \/ \E l \in Link : \E i \in DOMAIN wire[l] : WireFault(l, i)
    \/ Finished

Spec == Init /\ [][Next]_vars

(***************************************************************************)
(* The firewall and the server run whenever they are not blocked.  Nothing *)
(* makes the user type or end the input.                                   *)
(***************************************************************************)
FairSpec == Spec /\ WF_vars(FirewallStep) /\ WF_vars(ServerStep)

-----------------------------------------------------------------------------
(* Properties *)

TypeOK ==
    /\ clientSeq \in 0 .. MaxLines
    /\ serverSeq \in Nat
    /\ wire \in [Link -> Seq(RecordMessage \cup {Undecodable})]
    /\ status \in [Proc -> {"running", "ended"}]
    /\ sent \in Seq(Line)
    /\ delivered \in Seq(Line)
    /\ rejected \in SUBSET Nat
    /\ faults \in 0 .. MaxFaults
    /\ crashes \in 0 .. MaxCrashes

(***************************************************************************)
(* The last assertion of src/main.rs, for whole conversations on a bad     *)
(* wire: what the server prints is what was typed, from the first line on, *)
(* in order, with nothing missing, repeated or changed in between.         *)
(***************************************************************************)
DeliveredInOrder ==
    /\ Len(delivered) <= Len(sent)
    /\ \A n \in 1 .. Len(delivered) : delivered[n] = sent[n]

(***************************************************************************)
(* A record that the firewall or the server turned away leaves a gap that  *)
(* is never skipped: neither its line nor a later one is delivered.  The   *)
(* tags alone would let later records through; it is the two counters that *)
(* keep a session from going on with a line missing.                       *)
(***************************************************************************)
GapEndsDelivery == \A n \in rejected : Len(delivered) <= n

(***************************************************************************)
(* On an intact wire no record is turned away, by the firewall or by the   *)
(* server, whatever values r takes (repeated ones included) and whoever is *)
(* killed meanwhile.                                                       *)
(***************************************************************************)
UndisturbedAccepted == faults = 0 => rejected = {}

(***************************************************************************)
(* Neither firewall nor server has anything left to read.                  *)
(***************************************************************************)
Quiet == \A l \in Link : ~Received(l) /\ ~RecvFails(l)

(***************************************************************************)
(* Nothing is left behind: with an intact wire and no kill, the firewall   *)
(* and the server come to rest, or to their end, only when all that was    *)
(* sent has been delivered.                                                *)
(***************************************************************************)
QuietMeansDelivered ==
    faults = 0 /\ crashes = 0 /\ Quiet => delivered = sent

(***************************************************************************)
(* The record layer implements the channel it stands for.                  *)
(***************************************************************************)
Channel ==
    INSTANCE SecureChannel WITH lost <- {n + 1 : n \in rejected}

ImplementsChannel == Channel!Spec

(***************************************************************************)
(* On an undisturbed wire and with no kill, every line the client sent is  *)
(* delivered, the ones sent just before it left included.                  *)
(***************************************************************************)
SentIsDelivered ==
    [](faults = 0 /\ crashes = 0) =>
        \A n \in 1 .. MaxLines : Len(sent) >= n ~> Len(delivered) >= n

(***************************************************************************)
(* The end of the client ends the other two, whatever is still in flight.  *)
(***************************************************************************)
ClientEndEndsAll == ~Running("client") ~> AllEnded

-----------------------------------------------------------------------------
(* The inductive invariant behind DeliveredInOrder, GapEndsDelivery and    *)
(* ImplementsChannel: where each number may still be.                      *)

InFlight(l) == {i \in DOMAIN wire[l] : wire[l][i] # Undecodable}

NumberAt(l, i) == Number(wire[l][i])

CountersMatch ==
    /\ clientSeq = Len(sent)
    /\ serverSeq = Len(delivered)

(***************************************************************************)
(* A frame in flight seals the line its number says, not yet delivered and *)
(* not yet turned away.                                                    *)
(***************************************************************************)
FramesPending ==
    \A l \in Link : \A i \in InFlight(l) :
        /\ NumberAt(l, i) \in serverSeq .. clientSeq - 1
        /\ NumberAt(l, i) \notin rejected
        /\ wire[l][i].s.clear.plaintext = sent[NumberAt(l, i) + 1]

(***************************************************************************)
(* Numbers grow along each connection, and what the firewall has forwarded *)
(* precedes what it has yet to read.                                       *)
(***************************************************************************)
FramesOrdered ==
    /\ \A l \in Link : \A i, j \in InFlight(l) :
          i < j => NumberAt(l, i) < NumberAt(l, j)
    /\ \A i \in InFlight("f2s"), j \in InFlight("c2f") :
          NumberAt("f2s", i) < NumberAt("c2f", j)

RejectedUndelivered == rejected \subseteq serverSeq .. clientSeq - 1

RecordInv ==
    /\ CountersMatch
    /\ FramesPending
    /\ FramesOrdered
    /\ RejectedUndelivered
    /\ DeliveredInOrder

-----------------------------------------------------------------------------
(* The inductive invariant behind UndisturbedAccepted and                  *)
(* QuietMeansDelivered: on an intact wire each record in flight is one the *)
(* two handlers will accept, under the number the server will have then.   *)

(***************************************************************************)
(* The number that the server's counter has when it comes to the first     *)
(* frame of a connection.                                                  *)
(***************************************************************************)
FirstDue(l) == IF l = "f2s" THEN serverSeq ELSE serverSeq + Len(wire["f2s"])

IntactRecord(n) == {Record(AeEncrypt(Kcs, n, line), r) : line \in Line, r \in Nonce}

RecordsDue ==
    \A l \in Link : Running(Reader[l]) =>
        \A i \in DOMAIN wire[l] : wire[l][i] \in IntactRecord(FirstDue(l) + i - 1)

NothingMissing == clientSeq = FirstDue("c2f") + Len(wire["c2f"])

(***************************************************************************)
(* Who is not killed ends only after reading all there is and after the    *)
(* one it reads from.                                                      *)
(***************************************************************************)
EndsAfterWriter ==
    \A l \in Link : ~Running(Reader[l]) => wire[l] = <<>> /\ ~Running(Writer[l])

IntactInv ==
    faults = 0 =>
        /\ RecordsDue
        /\ rejected = {}
        /\ Running("firewall") \/ crashes = 0 => NothingMissing
        /\ crashes = 0 => EndsAfterWriter
=============================================================================
