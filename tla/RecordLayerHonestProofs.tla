----------------------- MODULE RecordLayerHonestProofs -----------------------
(***************************************************************************)
(* On an intact wire the record layer turns nothing away and leaves        *)
(* nothing behind: UndisturbedAccepted and QuietMeansDelivered of module   *)
(* RecordLayer, for any lines, nonces and keys.                            *)
(***************************************************************************)
EXTENDS RecordLayerProofs

-----------------------------------------------------------------------------
(* Records *)

(***************************************************************************)
(* XORing the same stream twice changes nothing.                           *)
(***************************************************************************)
LEMMA XorTwice ==
    ASSUME NEW bytes \in Bytes, NEW stream \in Stream
    PROVE  Xor(Xor(bytes, stream), stream) = bytes
<1>1. bytes.masks \in SUBSET Stream
  BY DEF Bytes
<1>2. SymDiff(SymDiff(bytes.masks, {stream}), {stream}) = bytes.masks
  BY <1>1 DEF SymDiff
<1>3. Xor(bytes, stream).masks = SymDiff(bytes.masks, {stream})
  BY DEF Xor, Bytes
<1>4. Xor(Xor(bytes, stream), stream) = [bytes EXCEPT !.masks = bytes.masks]
  BY <1>2, <1>3 DEF Xor, Bytes
<1> QED
  BY <1>4 DEF Bytes

(***************************************************************************)
(* The round trip of a record: its tag verifies, and what the reader       *)
(* unblinds is what was blinded.                                           *)
(***************************************************************************)
LEMMA RoundTrip ==
    ASSUME NEW sealed \in Bytes, NEW r \in Nonce
    PROVE  /\ TagVerifies(Record(sealed, r))
           /\ Unblinded(Record(sealed, r)) = sealed
<1>1. H1(r, Kcfs) \in Stream
  BY DEF H1, Stream
<1>2. Record(sealed, r).r = r /\ Record(sealed, r).s = Blinded(sealed, r)
  BY DEF Record
<1>3. TagVerifies(Record(sealed, r))
  BY DEF TagVerifies, MacVerify, Record
<1> QED
  BY <1>1, <1>2, <1>3, XorTwice DEF Unblinded, Blinded

(***************************************************************************)
(* An intact record passes the firewall's check, which re-blinds it to an  *)
(* intact record of the same number, and opens at the server when its      *)
(* number is due.                                                          *)
(***************************************************************************)
LEMMA IntactRecordFacts ==
    ASSUME NEW n \in Nat, NEW m \in IntactRecord(n)
    PROVE  /\ m # Undecodable
           /\ TagVerifies(m)
           /\ \A r \in Nonce : Record(Unblinded(m), r) \in IntactRecord(n)
           /\ n = serverSeq => Opens(m)
<1>1. PICK line \in Line, r \in Nonce : m = Record(AeEncrypt(Kcs, n, line), r)
  BY DEF IntactRecord
<1>2. AeEncrypt(Kcs, n, line) \in Bytes
  BY SealedTyped
<1>3. TagVerifies(m) /\ Unblinded(m) = AeEncrypt(Kcs, n, line)
  BY <1>1, <1>2, RoundTrip
<1>4. m # Undecodable
  BY <1>1, <1>2, RecordTyped, Sentinels
<1>5. AeOpens(Kcs, n, Unblinded(m))
  BY <1>3 DEF AeOpens, AeEncrypt, Plain, IsClear
<1> QED
  BY <1>3, <1>4, <1>5 DEF Opens, IntactRecord

(***************************************************************************)
(* What a running reader finds first is the record due.                    *)
(***************************************************************************)
LEMMA HeadDue ==
    ASSUME TypeOK, RecordsDue, NEW l \in Link, Running(Reader[l]), wire[l] # <<>>
    PROVE  /\ FirstDue(l) \in Nat
           /\ Head(wire[l]) \in IntactRecord(FirstDue(l))
<1>1. wire[l] \in Seq(Frame) /\ wire["f2s"] \in Seq(Frame) /\ serverSeq \in Nat
  BY DEF TypeOK, Frame, Link
<1>2. FirstDue(l) \in Nat
  BY <1>1, LenProperties DEF FirstDue
<1>3. 1 \in DOMAIN wire[l] /\ Head(wire[l]) = wire[l][1]
  BY <1>1, EmptySeq, LenProperties
<1>4. Head(wire[l]) \in IntactRecord(FirstDue(l) + 1 - 1)
  BY <1>3 DEF RecordsDue
<1> QED
  BY <1>2, <1>4

-----------------------------------------------------------------------------
(* The invariant *)

(***************************************************************************)
(* Both connections are empty at the start.                                *)
(***************************************************************************)
LEMMA IntactInit == Init => IntactInv
<1> SUFFICES ASSUME Init
             PROVE  IntactInv
  OBVIOUS
<1>1. \A l \in Link : wire[l] = <<>> /\ DOMAIN wire[l] = {}
  BY DEF Init
<1>2. RecordsDue
  BY <1>1 DEF RecordsDue
<1>3. NothingMissing
  BY <1>1 DEF Init, NothingMissing, FirstDue, Link
<1>4. EndsAfterWriter
  BY DEF Init, EndsAfterWriter, Running, Reader, Proc, Link
<1> QED
  BY <1>2, <1>3, <1>4 DEF Init, IntactInv

(***************************************************************************)
(* A new line is sealed under the next number due.                         *)
(***************************************************************************)
LEMMA IntactSend ==
    ASSUME TypeOK, IntactInv, faults = 0, ClientSendsLine
    PROVE  IntactInv'
<1>1. PICK line \in Line, r \in Nonce :
        wire' = [wire EXCEPT !["c2f"] =
                    Append(@, Record(AeEncrypt(Kcs, clientSeq, line), r))]
  BY DEF ClientSendsLine
<1> DEFINE m == Record(AeEncrypt(Kcs, clientSeq, line), r)
<1>2. /\ Running("client")
      /\ clientSeq' = clientSeq + 1
      /\ UNCHANGED <<serverSeq, status, rejected, faults, crashes>>
  BY DEF ClientSendsLine
<1>3. /\ clientSeq \in Nat /\ serverSeq \in Nat
      /\ wire["c2f"] \in Seq(Frame) /\ wire["f2s"] \in Seq(Frame)
  BY Bounds DEF TypeOK, Frame, Link
<1>4. wire'["c2f"] = Append(wire["c2f"], m) /\ wire'["f2s"] = wire["f2s"]
  BY <1>1 DEF TypeOK, Link
<1>5. m \in Frame /\ m \in IntactRecord(clientSeq)
  BY <1>3, SealedTyped, RecordTyped DEF Frame, IntactRecord
<1>6. PICK n \in Nat : n = Len(wire["c2f"])
  BY <1>3, LenProperties
<1>7. /\ DOMAIN wire["c2f"] = 1 .. n
      /\ DOMAIN wire'["c2f"] = 1 .. n + 1
      /\ Len(wire'["c2f"]) = n + 1
      /\ \A i \in 1 .. n : wire'["c2f"][i] = wire["c2f"][i]
      /\ wire'["c2f"][n + 1] = m
  BY <1>3, <1>4, <1>5, <1>6, AppendProperties, LenProperties
<1>8. PICK d \in Nat : d = FirstDue("c2f")
  BY <1>3, LenProperties DEF FirstDue
<1>9. \A l \in Link : FirstDue(l)' = FirstDue(l)
  BY <1>2, <1>4 DEF FirstDue
<1>10. \A p \in Proc : Running(p)' <=> Running(p)
  BY <1>2 DEF Running
<1>11. Running("firewall") => clientSeq = d + n
  BY <1>6, <1>8 DEF IntactInv, NothingMissing
<1>12. RecordsDue'
  <2> SUFFICES ASSUME NEW l \in Link, Running(Reader[l])', NEW i \in DOMAIN wire'[l]
               PROVE  wire'[l][i] \in IntactRecord(FirstDue(l) + i - 1)
    BY <1>9 DEF RecordsDue, IntactRecord, Record, Blinded
  <2>1. CASE l = "f2s"
    BY <1>2, <1>4, <2>1 DEF IntactInv, RecordsDue, Running
  <2>2. CASE l = "c2f" /\ i \in 1 .. n
    BY <1>2, <1>7, <2>2 DEF IntactInv, RecordsDue, Running
  <2>3. CASE l = "c2f" /\ i = n + 1
    <3>1. Running("firewall")
      BY <1>2, <2>3 DEF Running, Reader
    <3>2. FirstDue(l) + i - 1 = clientSeq
      BY <1>3, <1>6, <1>8, <1>11, <2>3, <3>1
    <3> QED
      BY <1>5, <1>7, <2>3, <3>2
  <2> QED
    BY <1>7, <2>1, <2>2, <2>3 DEF Link
<1>13. NothingMissing => NothingMissing'
  BY <1>2, <1>3, <1>6, <1>7, <1>8, <1>9 DEF NothingMissing, Link
<1>14. EndsAfterWriter => EndsAfterWriter'
  BY <1>2, <1>4 DEF EndsAfterWriter, Running, Reader, Writer, Link
<1> QED
  BY <1>2, <1>12, <1>13, <1>14 DEF IntactInv, Running

(***************************************************************************)
(* Of the frames left on a connection, each stands where the one before it *)
(* stood, and the number due is one higher.                                *)
(***************************************************************************)
LEMMA RestDue ==
    ASSUME TypeOK, RecordsDue, NEW l \in Link, Running(Reader[l]), Received(l),
           wire'[l] = Tail(wire[l]), FirstDue(l)' = FirstDue(l) + 1
    PROVE  /\ Len(wire[l]) \in Nat \ {0}
           /\ Len(wire'[l]) = Len(wire[l]) - 1
           /\ \A i \in DOMAIN wire'[l] :
                 wire'[l][i] \in IntactRecord(FirstDue(l)' + i - 1)
<1>1. /\ wire[l] \in Seq(Frame) /\ wire[l] # <<>>
      /\ Tail(wire[l]) \in Seq(Frame)
  BY ReceivedTyped
<1>2. PICK n \in Nat : n = Len(wire[l])
  BY <1>1, LenProperties
<1>3. n # 0
  BY <1>1, <1>2, EmptySeq
<1>4. /\ Len(Tail(wire[l])) = n - 1
      /\ \A i \in 1 .. Len(Tail(wire[l])) : Tail(wire[l])[i] = wire[l][i + 1]
  BY <1>1, <1>2, HeadTailProperties
<1>5. DOMAIN wire[l] = 1 .. n /\ DOMAIN Tail(wire[l]) = 1 .. n - 1
  BY <1>1, <1>2, <1>4, LenProperties
<1>6. FirstDue(l) \in Nat
  BY <1>1, HeadDue
<1>7. ASSUME NEW i \in DOMAIN wire'[l]
      PROVE  wire'[l][i] \in IntactRecord(FirstDue(l)' + i - 1)
  <2>1. i \in 1 .. n - 1 /\ i + 1 \in 1 .. n
    BY <1>2, <1>5
  <2>2. wire'[l][i] = wire[l][i + 1]
    BY <1>2, <1>4, <2>1
  <2>3. wire[l][i + 1] \in IntactRecord(FirstDue(l) + (i + 1) - 1)
    BY <1>5, <2>1 DEF RecordsDue
  <2>4. FirstDue(l) + (i + 1) - 1 = FirstDue(l)' + i - 1
    BY <1>6, <2>1
  <2> QED
    BY <2>2, <2>3, <2>4
<1> QED
  BY <1>2, <1>3, <1>4, <1>7

(***************************************************************************)
(* The firewall passes a record on under the number it came with, which is *)
(* the next one due after those it passed on before.                       *)
(***************************************************************************)
LEMMA IntactForward ==
    ASSUME TypeOK, IntactInv, faults = 0, FirewallForwards
    PROVE  IntactInv'
<1>1. /\ Received("c2f") /\ Running("firewall") /\ wire["c2f"] # <<>>
      /\ UNCHANGED <<clientSeq, serverSeq, status, rejected, faults, crashes>>
  BY DEF FirewallForwards, Received, Reader, Link
<1>2. PICK r \in Nonce :
         wire' = [wire EXCEPT !["c2f"] = Tail(@),
                              !["f2s"] = Append(@, Record(Unblinded(Head(wire["c2f"])), r))]
  BY DEF FirewallForwards
<1> DEFINE f == Record(Unblinded(Head(wire["c2f"])), r)
<1>3. wire'["c2f"] = Tail(wire["c2f"]) /\ wire'["f2s"] = Append(wire["f2s"], f)
  BY <1>2 DEF TypeOK, Link
<1>4. RecordsDue /\ Reader["c2f"] = "firewall" /\ "c2f" \in Link /\ "f2s" \in Link
  BY DEF IntactInv, Reader, Link
<1>5. FirstDue("c2f") \in Nat /\ Head(wire["c2f"]) \in IntactRecord(FirstDue("c2f"))
  BY <1>1, <1>4, HeadDue
<1>6. f \in IntactRecord(FirstDue("c2f"))
  BY <1>5, IntactRecordFacts
<1>7. f \in Frame
  BY <1>1, <1>4, ReceivedTyped, UnblindedTyped, RecordTyped DEF Frame
<1>8. /\ wire["f2s"] \in Seq(Frame) /\ serverSeq \in Nat /\ clientSeq \in Nat
  BY Bounds DEF TypeOK, Frame, Link
<1>9. PICK n \in Nat : n = Len(wire["f2s"])
  BY <1>8, LenProperties
<1>10. /\ DOMAIN wire["f2s"] = 1 .. n
       /\ DOMAIN wire'["f2s"] = 1 .. n + 1
       /\ Len(wire'["f2s"]) = n + 1
       /\ \A i \in 1 .. n : wire'["f2s"][i] = wire["f2s"][i]
       /\ wire'["f2s"][n + 1] = f
  BY <1>3, <1>7, <1>8, <1>9, AppendProperties, LenProperties
<1>11. /\ FirstDue("f2s") = serverSeq /\ FirstDue("f2s")' = serverSeq
       /\ FirstDue("c2f") = serverSeq + n /\ FirstDue("c2f")' = serverSeq + n + 1
  BY <1>1, <1>8, <1>9, <1>10 DEF FirstDue
<1>12. /\ Len(wire["c2f"]) \in Nat \ {0}
       /\ Len(wire'["c2f"]) = Len(wire["c2f"]) - 1
       /\ \A i \in DOMAIN wire'["c2f"] :
             wire'["c2f"][i] \in IntactRecord(FirstDue("c2f")' + i - 1)
  BY <1>1, <1>3, <1>4, <1>8, <1>11, RestDue
<1>13. RecordsDue'
  <2> SUFFICES ASSUME NEW l \in Link, Running(Reader[l])', NEW i \in DOMAIN wire'[l]
               PROVE  wire'[l][i] \in IntactRecord(FirstDue(l)' + i - 1)
    BY DEF RecordsDue, IntactRecord, Record, Blinded
  <2>1. CASE l = "c2f"
    BY <1>12, <2>1
  <2>2. CASE l = "f2s" /\ i \in 1 .. n
    BY <1>1, <1>4, <1>10, <1>11, <2>2 DEF RecordsDue, Running
  <2>3. CASE l = "f2s" /\ i = n + 1
    <3>1. FirstDue(l)' + i - 1 = FirstDue("c2f")
      BY <1>8, <1>9, <1>11, <2>3
    <3> QED
      BY <1>6, <1>10, <2>3, <3>1
  <2> QED
    BY <1>10, <2>1, <2>2, <2>3 DEF Link
<1>14. NothingMissing'
  <2>1. NothingMissing
    BY <1>1 DEF IntactInv
  <2> QED
    BY <1>1, <1>8, <1>9, <1>11, <1>12, <2>1 DEF NothingMissing
<1>15. EndsAfterWriter => EndsAfterWriter'
  BY <1>1 DEF EndsAfterWriter, Running, Reader, Writer, Link
<1> QED
  BY <1>1, <1>13, <1>14, <1>15 DEF IntactInv

(***************************************************************************)
(* The server accepts the record due, and expects the next one.            *)
(***************************************************************************)
LEMMA IntactAccept ==
    ASSUME TypeOK, IntactInv, faults = 0, ServerAccepts
    PROVE  IntactInv'
<1>1. /\ Received("f2s") /\ Running("server") /\ wire["f2s"] # <<>>
      /\ serverSeq' = serverSeq + 1
      /\ wire' = [wire EXCEPT !["f2s"] = Tail(@)]
      /\ UNCHANGED <<clientSeq, status, rejected, faults, crashes>>
  BY DEF ServerAccepts, SeqAfterAccept, Received, Reader, Link
<1>2. wire'["f2s"] = Tail(wire["f2s"]) /\ wire'["c2f"] = wire["c2f"]
  BY <1>1 DEF TypeOK, Link
<1>3. RecordsDue /\ Reader["f2s"] = "server" /\ "c2f" \in Link /\ "f2s" \in Link
  BY DEF IntactInv, Reader, Link
<1>4. FirstDue("f2s")' = FirstDue("f2s") + 1
  BY <1>1 DEF FirstDue
<1>5. /\ Len(wire["f2s"]) \in Nat \ {0}
      /\ Len(wire'["f2s"]) = Len(wire["f2s"]) - 1
      /\ \A i \in DOMAIN wire'["f2s"] :
             wire'["f2s"][i] \in IntactRecord(FirstDue("f2s")' + i - 1)
  BY <1>1, <1>2, <1>3, <1>4, RestDue
<1>6. serverSeq \in Nat
  BY DEF TypeOK
<1>7. FirstDue("c2f")' = FirstDue("c2f")
  <2>1. PICK n \in Nat : n = Len(wire["f2s"])
    BY <1>5
  <2>2. Len(wire'["f2s"]) = n - 1
    BY <1>5, <2>1
  <2>3. FirstDue("c2f") = serverSeq + n /\ FirstDue("c2f")' = (serverSeq + 1) + (n - 1)
    BY <1>1, <2>1, <2>2 DEF FirstDue
  <2>4. (serverSeq + 1) + (n - 1) = serverSeq + n
    BY <1>6
  <2> QED
    BY <2>3, <2>4
<1>8. RecordsDue'
  <2> SUFFICES ASSUME NEW l \in Link, Running(Reader[l])', NEW i \in DOMAIN wire'[l]
               PROVE  wire'[l][i] \in IntactRecord(FirstDue(l)' + i - 1)
    BY DEF RecordsDue, IntactRecord, Record, Blinded
  <2>1. CASE l = "f2s"
    BY <1>5, <2>1
  <2>2. CASE l = "c2f"
    BY <1>1, <1>2, <1>3, <1>7, <2>2 DEF RecordsDue, Running
  <2> QED
    BY <2>1, <2>2 DEF Link
<1>9. NothingMissing => NothingMissing'
  BY <1>1, <1>2, <1>7 DEF NothingMissing
<1>10. EndsAfterWriter => EndsAfterWriter'
  BY <1>1, <1>2 DEF EndsAfterWriter, Running, Reader, Writer, Link
<1> QED
  BY <1>1, <1>8, <1>9, <1>10 DEF IntactInv, Running

(***************************************************************************)
(* Neither reader turns away what it finds.                                *)
(***************************************************************************)
LEMMA NoneRejected ==
    ASSUME TypeOK, IntactInv, faults = 0
    PROVE  /\ ~FirewallRejects
           /\ ~ServerRejects
           /\ crashes = 0 => ~FirewallSendFails
           /\ \A l \in Link : RecvFails(l) => wire[l] = <<>> /\ ~Running(Writer[l])
<1>1. RecordsDue
  BY DEF IntactInv
<1>2. ~FirewallRejects
  <2>1. ASSUME Received("c2f")
        PROVE  TagVerifies(Head(wire["c2f"]))
    <3>1. Running(Reader["c2f"]) /\ wire["c2f"] # <<>> /\ "c2f" \in Link
      BY <2>1 DEF Received, Link
    <3> QED
      BY <1>1, <3>1, HeadDue, IntactRecordFacts
  <2> QED
    BY <2>1 DEF FirewallRejects
<1>3. ~ServerRejects
  <2>1. ASSUME Received("f2s")
        PROVE  Opens(Head(wire["f2s"]))
    <3>1. Running(Reader["f2s"]) /\ wire["f2s"] # <<>> /\ "f2s" \in Link
      BY <2>1 DEF Received, Link
    <3>2. FirstDue("f2s") = serverSeq
      BY DEF FirstDue
    <3> QED
      BY <1>1, <3>1, <3>2, HeadDue, IntactRecordFacts
  <2> QED
    BY <2>1 DEF ServerRejects
<1>4. ASSUME crashes = 0, FirewallSendFails
      PROVE  FALSE
  <2>1. Running("firewall") /\ ~Running("server")
    BY <1>4 DEF FirewallSendFails, SendMayFail, Received, Reader, Link
  <2>2. EndsAfterWriter
    BY <1>4 DEF IntactInv
  <2> QED
    BY <2>1, <2>2 DEF EndsAfterWriter, Reader, Writer, Link
<1>5. ASSUME NEW l \in Link, RecvFails(l)
      PROVE  wire[l] = <<>> /\ ~Running(Writer[l])
  <2>1. Running(Reader[l])
    BY <1>5 DEF RecvFails
  <2>2. wire[l] # <<>> => Head(wire[l]) # Undecodable
    BY <1>1, <2>1, HeadDue, IntactRecordFacts
  <2> QED
    BY <1>5, <2>2 DEF RecvFails
<1> QED
  BY <1>2, <1>3, <1>4, <1>5

(***************************************************************************)
(* A process that ends takes nothing with it that is still due.            *)
(***************************************************************************)
LEMMA IntactEnd ==
    ASSUME TypeOK, IntactInv, faults = 0, NEW p \in Proc, Ends(p),
           UNCHANGED <<clientSeq, serverSeq, rejected, faults>>,
           UNCHANGED wire,
           \/ crashes' # 0
           \/ /\ crashes' = crashes
              /\ \A l \in Link : Reader[l] = p => wire[l] = <<>> /\ ~Running(Writer[l])
    PROVE  IntactInv'
<1>1. \A q \in Proc : Running(q)' <=> Running(q) /\ q # p
  BY DEF TypeOK, Ends, Running
<1>2. \A l \in Link : Reader[l] \in Proc /\ Writer[l] \in Proc
  BY DEF Reader, Writer, Link, Proc
<1>3. \A l \in Link : FirstDue(l)' = FirstDue(l)
  BY DEF FirstDue
<1>4. RecordsDue'
  <2> SUFFICES ASSUME NEW l \in Link, Running(Reader[l])', NEW i \in DOMAIN wire'[l]
               PROVE  wire'[l][i] \in IntactRecord(FirstDue(l)' + i - 1)
    BY DEF RecordsDue, IntactRecord, Record, Blinded
  <2>1. Running(Reader[l])
    BY <1>1, <1>2
  <2> QED
    BY <1>3, <2>1 DEF IntactInv, RecordsDue
<1>5. NothingMissing => NothingMissing'
  BY <1>3 DEF NothingMissing, Link
<1>6. ASSUME crashes' = 0, EndsAfterWriter
      PROVE  EndsAfterWriter'
  BY <1>1, <1>2, <1>6 DEF EndsAfterWriter
<1>7. "firewall" \in Proc /\ crashes \in Nat
  BY Bounds DEF Proc, TypeOK
<1>8. rejected' = {}
  BY DEF IntactInv
<1>9. Running("firewall")' \/ crashes' = 0 => NothingMissing'
  <2>1. Running("firewall")' \/ crashes' = 0 => Running("firewall") \/ crashes = 0
    BY <1>1, <1>7
  <2> QED
    BY <1>5, <2>1 DEF IntactInv
<1>10. crashes' = 0 => EndsAfterWriter'
  <2>1. crashes' = 0 => crashes = 0
    OBVIOUS
  <2> QED
    BY <1>6, <2>1 DEF IntactInv
<1> QED
  BY <1>4, <1>8, <1>9, <1>10 DEF IntactInv

(***************************************************************************)
(* Every step of Next preserves the inductive invariant.                   *)
(***************************************************************************)
LEMMA IntactStep == TypeOK /\ IntactInv /\ [Next]_vars => IntactInv'
<1> SUFFICES ASSUME TypeOK, IntactInv, [Next]_vars, faults' = 0
             PROVE  IntactInv'
  BY DEF IntactInv
<1>1. ASSUME NEW l \in Link, NEW i \in DOMAIN wire[l], WireFault(l, i)
      PROVE  FALSE
  BY <1>1, Bounds DEF WireFault, TypeOK
<1>2. faults = 0
  <2>1. UNCHANGED faults
    BY <1>1 DEF Next, ClientSendsLine, ClientEnds, FirewallStep, FirewallForwards,
       FirewallRejects, FirewallSendFails, FirewallEnds, ServerStep, ServerAccepts,
       ServerRejects, ServerEnds, Killed, Finished, vars
  <2> QED
    BY <2>1
<1>3. CASE ClientSendsLine
  BY <1>2, <1>3, IntactSend
<1>4. CASE ClientEnds
  <2>1. \A l \in Link : Reader[l] # "client"
    BY DEF Reader, Link
  <2> QED
    BY <1>2, <1>4, <2>1, IntactEnd DEF ClientEnds, Proc
<1>5. CASE FirewallForwards
  BY <1>2, <1>5, IntactForward
<1>6. CASE FirewallRejects \/ ServerRejects
  BY <1>2, <1>6, NoneRejected
<1>7. CASE FirewallSendFails
  <2>1. /\ crashes # 0 /\ crashes' # 0
        /\ wire' = [wire EXCEPT !["c2f"] = Tail(@)]
        /\ Ends("firewall")
        /\ UNCHANGED <<serverSeq, rejected>>
    BY <1>2, <1>7, NoneRejected DEF FirewallSendFails
  <2>2. wire'["f2s"] = wire["f2s"]
    BY <2>1 DEF TypeOK, Link
  <2>3. ~Running("firewall")' /\ (Running("server")' => Running("server"))
    BY <2>1 DEF TypeOK, Ends, Running, Proc
  <2>4. RecordsDue'
    <3> SUFFICES ASSUME NEW l \in Link, Running(Reader[l])', NEW i \in DOMAIN wire'[l]
                 PROVE  wire'[l][i] \in IntactRecord(FirstDue(l)' + i - 1)
      BY DEF RecordsDue, IntactRecord, Record, Blinded
    <3>1. l = "f2s" /\ Running(Reader[l])
      BY <2>3 DEF Reader, Link
    <3>2. FirstDue(l)' = FirstDue(l)
      BY <2>1, <3>1 DEF FirstDue
    <3> QED
      BY <1>2, <2>2, <3>1, <3>2 DEF IntactInv, RecordsDue
  <2> QED
    BY <1>2, <2>1, <2>3, <2>4 DEF IntactInv
<1>8. CASE FirewallEnds
  <2>1. RecvFails("c2f") /\ wire["c2f"] = <<>> /\ ~Running(Writer["c2f"])
    BY <1>2, <1>8, NoneRejected DEF FirewallEnds, Link
  <2>2. \A l \in Link : Reader[l] = "firewall" => l = "c2f"
    BY DEF Reader, Link
  <2> QED
    BY <1>2, <1>8, <2>1, <2>2, IntactEnd DEF FirewallEnds, Proc
<1>9. CASE ServerAccepts
  BY <1>2, <1>9, IntactAccept
<1>10. CASE ServerEnds
  <2>1. RecvFails("f2s") /\ wire["f2s"] = <<>> /\ ~Running(Writer["f2s"])
    BY <1>2, <1>10, NoneRejected DEF ServerEnds, Link
  <2>2. \A l \in Link : Reader[l] = "server" => l = "f2s"
    BY DEF Reader, Link
  <2> QED
    BY <1>2, <1>10, <2>1, <2>2, IntactEnd DEF ServerEnds, Proc
<1>11. ASSUME NEW p \in Proc, Killed(p)
       PROVE  IntactInv'
  <2>1. crashes' # 0
    BY <1>11, Bounds DEF Killed, TypeOK
  <2> QED
    BY <1>2, <1>11, <2>1, IntactEnd DEF Killed
<1>12. CASE UNCHANGED vars
  BY <1>12 DEF vars, IntactInv, RecordsDue, NothingMissing, EndsAfterWriter, FirstDue,
     Running, IntactRecord, Record, Blinded
<1> QED
  BY <1>1, <1>3, <1>4, <1>5, <1>6, <1>7, <1>8, <1>9, <1>10, <1>11, <1>12
  DEF Next, FirewallStep, ServerStep, Finished

(***************************************************************************)
(* On an intact wire the records in flight are the next ones due, in       *)
(* order, each one that its two readers accept; and a process that was not *)
(* killed ends only when nothing more can come.                            *)
(***************************************************************************)
THEOREM IntactInvariant == Spec => []IntactInv
<1>1. TypeOK /\ IntactInv /\ [Next]_vars => IntactInv'
  BY IntactStep
<1> QED
  BY <1>1, IntactInit, TypeCorrect, PTL DEF Spec

(***************************************************************************)
(* Client, firewall and server agree on how a record is sealed, blinded,   *)
(* tagged and numbered: as long as nobody alters the bytes, neither        *)
(* handler returns an error.                                               *)
(***************************************************************************)
THEOREM IntactAccepted == Spec => []UndisturbedAccepted
<1>1. IntactInv => UndisturbedAccepted
  BY DEF IntactInv, UndisturbedAccepted
<1> QED
  BY <1>1, IntactInvariant, PTL

(***************************************************************************)
(* At rest both connections are empty, so the counters of the two ends are *)
(* equal.                                                                  *)
(***************************************************************************)
LEMMA QuietDelivered ==
    ASSUME TypeOK, RecordInv, IntactInv, faults = 0, crashes = 0, Quiet
    PROVE  delivered = sent
<1>1. RecordsDue /\ NothingMissing /\ EndsAfterWriter
  BY DEF IntactInv
<1>2. ASSUME NEW l \in Link
      PROVE  wire[l] = <<>>
  <2>1. CASE Running(Reader[l])
    BY <2>1 DEF Quiet, Received, RecvFails
  <2>2. CASE ~Running(Reader[l])
    BY <1>1, <2>2 DEF EndsAfterWriter
  <2> QED
    BY <2>1, <2>2
<1>3. Len(wire["c2f"]) = 0 /\ Len(wire["f2s"]) = 0
  BY <1>2, EmptySeq DEF Link
<1>4. serverSeq \in Nat /\ delivered \in Seq(Line) /\ sent \in Seq(Line)
  BY DEF TypeOK
<1>5. clientSeq = serverSeq
  BY <1>1, <1>3, <1>4 DEF NothingMissing, FirstDue
<1>6. /\ Len(delivered) = Len(sent)
      /\ \A n \in 1 .. Len(delivered) : delivered[n] = sent[n]
  BY <1>5 DEF RecordInv, CountersMatch, DeliveredInOrder
<1> QED
  BY <1>4, <1>6, SeqEqual

(***************************************************************************)
(* The loops of the firewall and the server stop, for a while or for good, *)
(* only with every line delivered, unless something was altered or killed: *)
(* the safety half of SentIsDelivered.                                     *)
(***************************************************************************)
THEOREM QuietWhenDelivered == Spec => []QuietMeansDelivered
<1>1. TypeOK /\ RecordInv /\ IntactInv => QuietMeansDelivered
  BY QuietDelivered DEF QuietMeansDelivered
<1> QED
  BY <1>1, IntactInvariant, RecordInvariant, TypeCorrect, PTL
=============================================================================
