------------------------- MODULE RecordLayerProofs --------------------------
(***************************************************************************)
(* Theorems about the record layer of module RecordLayer, for any lines,   *)
(* nonces and keys and any number of lines, altered frames and kills.      *)
(***************************************************************************)
EXTENDS RecordLayer, SequenceTheorems, TLAPS

-----------------------------------------------------------------------------
(* Types *)

Frame == RecordMessage \cup {Undecodable}

(***************************************************************************)
(* XORing a stream onto bytes gives bytes and hides or reveals what they   *)
(* seal without changing it.                                               *)
(***************************************************************************)
LEMMA XorTyped ==
    ASSUME NEW bytes \in Bytes, NEW stream \in Stream
    PROVE  /\ Xor(bytes, stream) \in Bytes
           /\ Xor(bytes, stream).clear = bytes.clear
<1>1. bytes.masks \in SUBSET Stream
  BY DEF Bytes
<1>2. SymDiff(bytes.masks, {stream}) \in SUBSET Stream
  BY <1>1 DEF SymDiff
<1> QED
  BY <1>2 DEF Xor, Bytes

(***************************************************************************)
(* A record around sealed bytes is well typed and carries their number.    *)
(***************************************************************************)
LEMMA RecordTyped ==
    ASSUME NEW sealed \in Bytes, NEW r \in Nonce
    PROVE  /\ Record(sealed, r) \in RecordMessage
           /\ Record(sealed, r).s.clear = sealed.clear
<1>1. H1(r, Kcfs) \in Stream
  BY DEF H1, Stream
<1>2. Blinded(sealed, r) \in Bytes /\ Blinded(sealed, r).clear = sealed.clear
  BY <1>1, XorTyped DEF Blinded
<1>3. Mac(H2(r, Kcfs), <<r, Blinded(sealed, r)>>) \in Tag
  BY <1>2 DEF Mac, H2, Tag
<1> QED
  BY <1>2, <1>3 DEF Record, RecordMessage

(***************************************************************************)
(* Sealing a line yields sealed bytes that no key stream covers.           *)
(***************************************************************************)
LEMMA SealedTyped ==
    ASSUME NEW n \in Nat, NEW line \in Line
    PROVE  /\ AeEncrypt(Kcs, n, line) \in Bytes
           /\ AeEncrypt(Kcs, n, line).clear.seq = n
           /\ AeEncrypt(Kcs, n, line).clear.plaintext = line
BY DEF AeEncrypt, Plain, Bytes, Sealed

(***************************************************************************)
(* Taking the blinding off a record leaves what it seals.                  *)
(***************************************************************************)
LEMMA UnblindedTyped ==
    ASSUME NEW m \in RecordMessage
    PROVE  /\ Unblinded(m) \in Bytes
           /\ Unblinded(m).clear = m.s.clear
           /\ Number(m) \in Nat
           /\ m.s.clear.plaintext \in Line
<1>1. m.s \in Bytes /\ H1(m.r, Kcfs) \in Stream
  BY DEF RecordMessage, H1, Stream
<1>2. m.s.clear \in Sealed
  BY <1>1 DEF Bytes
<1> QED
  BY <1>1, <1>2, XorTyped DEF Unblinded, Number, Sealed

(***************************************************************************)
(* Alterations leave a record well typed and do not change what it seals   *)
(* (they only make it impossible to open).                                 *)
(***************************************************************************)
LEMMA AlteredTyped ==
    ASSUME NEW m \in RecordMessage, NEW a \in Altered(m)
    PROVE  a \in RecordMessage /\ a.s.clear = m.s.clear
<1>1. Xor(m.s, Flip) \in Bytes /\ Xor(m.s, Flip).clear = m.s.clear
  BY XorTyped DEF RecordMessage, Stream
<1>2. CASE \E r \in Nonce : a = [m EXCEPT !.r = r]
  BY <1>2 DEF RecordMessage
<1>3. CASE a = [m EXCEPT !.s = Xor(m.s, Flip)]
  BY <1>1, <1>3 DEF RecordMessage
<1>4. CASE a = [m EXCEPT !.t = BadTag]
  BY <1>4 DEF RecordMessage, Tag
<1> QED
  BY <1>2, <1>3, <1>4 DEF Altered

(***************************************************************************)
(* The frame a handler receives is the first of its link, and decodes.     *)
(***************************************************************************)
LEMMA ReceivedTyped ==
    ASSUME TypeOK, NEW l \in Link, Received(l)
    PROVE  /\ wire[l] \in Seq(Frame)
           /\ wire[l] # <<>>
           /\ Head(wire[l]) \in RecordMessage
           /\ Tail(wire[l]) \in Seq(Frame)
           /\ 1 \in DOMAIN wire[l]
           /\ Head(wire[l]) = wire[l][1]
<1>1. wire[l] \in Seq(Frame) /\ wire[l] # <<>> /\ Head(wire[l]) # Undecodable
  BY DEF TypeOK, Received, Frame
<1>2. Head(wire[l]) \in Frame /\ Tail(wire[l]) \in Seq(Frame)
  BY <1>1, HeadTailProperties
<1>3. 1 \in DOMAIN wire[l] /\ Head(wire[l]) = wire[l][1]
  BY <1>1, EmptySeq, LenProperties
<1> QED
  BY <1>1, <1>2, <1>3 DEF Frame

(***************************************************************************)
(* Frames of which one has swallowed the next are one fewer: those up to   *)
(* it keep their places, those behind stand one place further forward.     *)
(***************************************************************************)
LEMMA SwallowedTyped ==
    ASSUME NEW frames \in Seq(Frame), NEW n \in 1 .. Len(frames), n < Len(frames)
    PROVE  /\ NextSwallowed(frames, n) \in Seq(Frame)
           /\ DOMAIN NextSwallowed(frames, n) = 1 .. Len(frames) - 1
           /\ \A k \in 1 .. Len(frames) - 1 :
                 NextSwallowed(frames, n)[k] =
                    IF k <= n THEN frames[k] ELSE frames[k + 1]
<1>1. Len(frames) - 1 \in Nat
  BY LenProperties
<1>2. \A k \in 1 .. Len(frames) - 1 :
         (IF k <= n THEN frames[k] ELSE frames[k + 1]) \in Frame
  <2>1. ASSUME NEW k \in 1 .. Len(frames) - 1
        PROVE  k \in 1 .. Len(frames) /\ k + 1 \in 1 .. Len(frames)
    BY <1>1
  <2> QED
    BY <2>1, ElementOfSeq
<1>3. NextSwallowed(frames, n) \in [1 .. Len(frames) - 1 -> Frame]
  BY <1>2 DEF NextSwallowed
<1>4. NextSwallowed(frames, n) \in Seq(Frame)
  BY <1>1, <1>3, SeqDef
<1> QED
  BY <1>4 DEF NextSwallowed

(***************************************************************************)
(* Every step of Next preserves the types.                                 *)
(***************************************************************************)
LEMMA TypeStep == TypeOK /\ [Next]_vars => TypeOK'
<1> SUFFICES ASSUME TypeOK, [Next]_vars
             PROVE  TypeOK'
  OBVIOUS
<1> USE DEF TypeOK
<1>w. wire \in [Link -> Seq(Frame)]
  BY DEF Frame
<1>a. ASSUME wire' \in [Link -> Seq(Frame)]
      PROVE  wire' \in [Link -> Seq(RecordMessage \cup {Undecodable})]
  BY <1>a DEF Frame
<1>b. ASSUME NEW p \in Proc, Ends(p)
      PROVE  status' \in [Proc -> {"running", "ended"}]
  BY <1>b DEF Ends
<1>1. CASE ClientSendsLine
  <2>1. PICK line \in Line, r \in Nonce :
          /\ wire' = [wire EXCEPT !["c2f"] =
                         Append(@, Record(AeEncrypt(Kcs, clientSeq, line), r))]
          /\ sent' = Append(sent, line)
    BY <1>1 DEF ClientSendsLine
  <2>2. clientSeq \in Nat
    BY Bounds
  <2>3. Record(AeEncrypt(Kcs, clientSeq, line), r) \in Frame
    BY <2>2, SealedTyped, RecordTyped DEF Frame
  <2>4. wire' \in [Link -> Seq(Frame)]
    BY <1>w, <2>1, <2>3, AppendProperties DEF Link
  <2>5. sent' \in Seq(Line)
    BY <2>1, AppendProperties
  <2>6. clientSeq' \in 0 .. MaxLines
    BY <1>1, Bounds DEF ClientSendsLine
  <2> QED
    BY <1>1, <1>a, <2>4, <2>5, <2>6 DEF ClientSendsLine
<1>2. CASE ClientEnds
  BY <1>2, <1>b DEF ClientEnds, Proc
<1>3. CASE FirewallForwards
  <2> DEFINE m == Head(wire["c2f"])
  <2>1. PICK r \in Nonce :
          wire' = [wire EXCEPT !["c2f"] = Tail(@),
                               !["f2s"] = Append(@, Record(Unblinded(m), r))]
    BY <1>3 DEF FirewallForwards
  <2>2. m \in RecordMessage /\ Tail(wire["c2f"]) \in Seq(Frame)
    BY <1>3, ReceivedTyped DEF FirewallForwards, Link
  <2>3. Record(Unblinded(m), r) \in Frame
    BY <2>2, UnblindedTyped, RecordTyped DEF Frame
  <2>4. Append(wire["f2s"], Record(Unblinded(m), r)) \in Seq(Frame)
    BY <1>w, <2>3, AppendProperties DEF Link
  <2>5. wire' \in [Link -> Seq(Frame)]
    BY <1>w, <2>1, <2>2, <2>4 DEF Link
  <2> QED
    BY <1>3, <1>a, <2>5 DEF FirewallForwards
<1>4. CASE FirewallRejects \/ FirewallSendFails
  <2>1. Received("c2f") /\ wire' = [wire EXCEPT !["c2f"] = Tail(@)]
    BY <1>4 DEF FirewallRejects, FirewallSendFails
  <2>2. /\ Tail(wire["c2f"]) \in Seq(Frame)
        /\ Number(Head(wire["c2f"])) \in Nat
    BY <2>1, ReceivedTyped, UnblindedTyped DEF Link
  <2>3. wire' \in [Link -> Seq(Frame)]
    BY <1>w, <2>1, <2>2
  <2> QED
    BY <1>4, <1>a, <1>b, <2>2, <2>3 DEF FirewallRejects, FirewallSendFails, Proc
<1>5. CASE FirewallEnds \/ ServerEnds
  BY <1>5, <1>b DEF FirewallEnds, ServerEnds, Proc
<1>6. CASE ServerAccepts \/ ServerRejects
  <2> DEFINE m == Head(wire["f2s"])
  <2>1. Received("f2s") /\ wire' = [wire EXCEPT !["f2s"] = Tail(@)]
    BY <1>6 DEF ServerAccepts, ServerRejects
  <2>2. /\ Tail(wire["f2s"]) \in Seq(Frame)
        /\ m \in RecordMessage
    BY <2>1, ReceivedTyped DEF Link
  <2>3. wire' \in [Link -> Seq(Frame)]
    BY <1>w, <2>1, <2>2
  <2>4. Number(m) \in Nat /\ AePlaintext(Unblinded(m)) \in Line
    BY <2>2, UnblindedTyped DEF AePlaintext
  <2>5. Append(delivered, AePlaintext(Unblinded(m))) \in Seq(Line)
    BY <2>4, AppendProperties
  <2>6. serverSeq' \in {serverSeq + 1, serverSeq}
        /\ delivered' \in {delivered, Append(delivered, AePlaintext(Unblinded(m)))}
        /\ rejected' \in {rejected, rejected \cup {Number(m)}}
    BY <1>6 DEF ServerAccepts, ServerRejects, SeqAfterAccept, SeqAfterReject
  <2>7. UNCHANGED <<clientSeq, status, sent, faults, crashes>>
    BY <1>6 DEF ServerAccepts, ServerRejects
  <2> QED
    <3>1. serverSeq' \in Nat
      BY <2>6
    <3>2. delivered' \in Seq(Line)
      BY <2>5, <2>6
    <3>3. rejected' \in SUBSET Nat
      BY <2>4, <2>6
    <3> QED
      BY <1>a, <2>3, <2>7, <3>1, <3>2, <3>3
<1>7. CASE \E p \in Proc : Killed(p)
  <2>1. PICK p \in Proc : Killed(p)
    BY <1>7
  <2>2. crashes' \in 0 .. MaxCrashes
    BY <2>1, Bounds DEF Killed
  <2>3. status' \in [Proc -> {"running", "ended"}]
    BY <2>1, <1>b DEF Killed
  <2> QED
    BY <2>1, <2>2, <2>3 DEF Killed
<1>8. CASE \E l \in Link : \E i \in DOMAIN wire[l] : WireFault(l, i)
  <2>1. PICK l \in Link : \E i \in DOMAIN wire[l] : WireFault(l, i)
    BY <1>8
  <2>2. PICK i \in DOMAIN wire[l] : WireFault(l, i)
    BY <2>1
  <2>3. wire[l] \in Seq(Frame) /\ i \in 1 .. Len(wire[l])
    BY <1>w, <2>2, LenProperties
  <2>4. wire[l][i] \in RecordMessage
    BY <2>2, <2>3, ElementOfSeq DEF WireFault, Frame
  <2>5. \E frames \in Seq(Frame) : wire' = [wire EXCEPT ![l] = frames]
    <3>1. ASSUME NEW m \in Frame,
                 wire' = [wire EXCEPT ![l] = [wire[l] EXCEPT ![i] = m]]
          PROVE  \E frames \in Seq(Frame) : wire' = [wire EXCEPT ![l] = frames]
      BY <2>3, <3>1, ExceptSeq
    <3>2. Altered(wire[l][i]) \cup {Undecodable} \subseteq Frame
      BY <2>4, AlteredTyped DEF Frame
    <3>3. i < Len(wire[l]) => NextSwallowed(wire[l], i) \in Seq(Frame)
      BY <2>3, SwallowedTyped
    <3> QED
      BY <2>2, <3>1, <3>2, <3>3 DEF WireFault
  <2>6. wire' \in [Link -> Seq(Frame)]
    BY <1>w, <2>5
  <2>7. faults' \in 0 .. MaxFaults
    BY <2>2, Bounds DEF WireFault
  <2> QED
    BY <1>a, <2>2, <2>6, <2>7 DEF WireFault
<1>9. CASE UNCHANGED vars
  BY <1>9 DEF vars
<1> QED
  BY <1>1, <1>2, <1>3, <1>4, <1>5, <1>6, <1>7, <1>8, <1>9
  DEF Next, FirewallStep, ServerStep, Finished

(***************************************************************************)
(* Every variable keeps its type: the links carry records or garbage, and  *)
(* the counters stay within their bounds.                                  *)
(***************************************************************************)
THEOREM TypeCorrect == Spec => []TypeOK
<1>1. Init => TypeOK
  BY Bounds, EmptySeq DEF Init, TypeOK
<1> QED
  BY <1>1, TypeStep, PTL DEF Spec

-----------------------------------------------------------------------------
(* How the frames in flight move *)

(***************************************************************************)
(* Positions in flight are positive integers and hold records.             *)
(***************************************************************************)
LEMMA InFlightTyped ==
    ASSUME TypeOK, NEW l \in Link
    PROVE  /\ \A i \in InFlight(l) :
                 /\ i \in 1 .. Len(wire[l])
                 /\ wire[l][i] \in RecordMessage
                 /\ NumberAt(l, i) \in Nat
           /\ Len(wire[l]) \in Nat
<1>1. wire[l] \in Seq(Frame)
  BY DEF TypeOK, Frame
<1>2. DOMAIN wire[l] = 1 .. Len(wire[l]) /\ Len(wire[l]) \in Nat
  BY <1>1, LenProperties
<1>3. ASSUME NEW i \in InFlight(l)
      PROVE  i \in 1 .. Len(wire[l]) /\ wire[l][i] \in RecordMessage
  BY <1>1, <1>2, ElementOfSeq DEF InFlight, Frame
<1> QED
  BY <1>2, <1>3, UnblindedTyped DEF NumberAt

(***************************************************************************)
(* After the first frame is taken off a link, the others stand one place   *)
(* further forward.                                                        *)
(***************************************************************************)
LEMMA TailEffect ==
    ASSUME TypeOK, NEW l \in Link, Received(l), wire'[l] = Tail(wire[l])
    PROVE  /\ 1 \in InFlight(l)
           /\ Head(wire[l]) = wire[l][1]
           /\ \A i \in InFlight(l)' :
                 /\ i \in Nat \ {0}
                 /\ i + 1 \in InFlight(l)
                 /\ wire'[l][i] = wire[l][i + 1]
<1>1. /\ wire[l] \in Seq(Frame)
      /\ wire[l] # <<>>
      /\ Head(wire[l]) \in RecordMessage
      /\ 1 \in DOMAIN wire[l]
      /\ Head(wire[l]) = wire[l][1]
  BY ReceivedTyped
<1>2. 1 \in InFlight(l)
  BY <1>1 DEF InFlight, Received
<1>3. /\ Tail(wire[l]) \in Seq(Frame)
      /\ Len(Tail(wire[l])) = Len(wire[l]) - 1
      /\ \A i \in 1 .. Len(Tail(wire[l])) : Tail(wire[l])[i] = wire[l][i + 1]
  BY <1>1, HeadTailProperties
<1>4. /\ DOMAIN wire[l] = 1 .. Len(wire[l])
      /\ DOMAIN Tail(wire[l]) = 1 .. Len(Tail(wire[l]))
      /\ Len(wire[l]) \in Nat
  BY <1>1, <1>3, LenProperties
<1>5. ASSUME NEW i \in InFlight(l)'
      PROVE  /\ i \in Nat \ {0}
             /\ i + 1 \in InFlight(l)
             /\ wire'[l][i] = wire[l][i + 1]
  <2>1. i \in DOMAIN wire'[l] /\ wire'[l][i] # Undecodable
    BY DEF InFlight
  <2>2. i \in 1 .. Len(wire[l]) - 1
    BY <1>3, <1>4, <2>1
  <2>3. wire'[l][i] = wire[l][i + 1]
    BY <1>3, <2>2
  <2> QED
    BY <1>4, <2>1, <2>2, <2>3 DEF InFlight
<1> QED
  BY <1>1, <1>2, <1>5

(***************************************************************************)
(* After a record is appended to a link, the others keep their places.     *)
(***************************************************************************)
LEMMA AppendEffect ==
    ASSUME TypeOK, NEW l \in Link, NEW m \in RecordMessage,
           wire'[l] = Append(wire[l], m)
    PROVE  \A i \in InFlight(l)' :
              \/ i \in InFlight(l) /\ wire'[l][i] = wire[l][i]
              \/ i = Len(wire[l]) + 1 /\ wire'[l][i] = m
<1>1. wire[l] \in Seq(Frame) /\ m \in Frame
  BY DEF TypeOK, Frame
<1>2. /\ Append(wire[l], m) \in Seq(Frame)
      /\ Len(Append(wire[l], m)) = Len(wire[l]) + 1
      /\ \A i \in 1 .. Len(wire[l]) : Append(wire[l], m)[i] = wire[l][i]
      /\ Append(wire[l], m)[Len(wire[l]) + 1] = m
  BY <1>1, AppendProperties
<1>3. /\ DOMAIN wire[l] = 1 .. Len(wire[l])
      /\ DOMAIN Append(wire[l], m) = 1 .. Len(wire[l]) + 1
      /\ Len(wire[l]) \in Nat
  BY <1>1, <1>2, LenProperties
<1> QED
  BY <1>2, <1>3 DEF InFlight

(***************************************************************************)
(* A wire fault garbles a frame, leaves what it seals or takes one away:   *)
(* the frames in flight on the link are as many as before, or those past   *)
(* some place stood one further back.                                      *)
(***************************************************************************)
LEMMA WireFaultEffect ==
    ASSUME TypeOK, NEW l \in Link, NEW n \in DOMAIN wire[l], WireFault(l, n)
    PROVE  \E cut \in Nat : \A k \in Link : \A i \in InFlight(k)' :
              LET j == IF k = l /\ i > cut THEN i + 1 ELSE i
              IN  /\ i \in Nat /\ j \in InFlight(k)
                  /\ wire'[k][i].s.clear = wire[k][j].s.clear
<1>1. wire[l] \in Seq(Frame)
  BY DEF TypeOK, Frame
<1>2. /\ n \in 1 .. Len(wire[l])
      /\ DOMAIN wire[l] = 1 .. Len(wire[l])
      /\ Len(wire[l]) \in Nat
  BY <1>1, LenProperties
<1>3. wire[l][n] \in RecordMessage
  BY <1>1, <1>2, ElementOfSeq DEF WireFault, Frame
<1>4. CASE \E m \in Altered(wire[l][n]) \cup {Undecodable} :
              wire' = [wire EXCEPT ![l] = [wire[l] EXCEPT ![n] = m]]
  <2>1. PICK m \in Altered(wire[l][n]) \cup {Undecodable} :
           wire' = [wire EXCEPT ![l] = [wire[l] EXCEPT ![n] = m]]
    BY <1>4
  <2>2. m = Undecodable \/ m.s.clear = wire[l][n].s.clear
    BY <1>3, <2>1, AlteredTyped
  <2>3. \A k \in Link : wire'[k] = IF k = l THEN [wire[l] EXCEPT ![n] = m] ELSE wire[k]
    BY <2>1 DEF TypeOK
  <2>4. ASSUME NEW k \in Link, NEW i \in InFlight(k)'
        PROVE  i \in InFlight(k) /\ wire'[k][i].s.clear = wire[k][i].s.clear
    <3>1. CASE k # l
      BY <2>3, <3>1 DEF InFlight
    <3>2. CASE k = l /\ i # n
      BY <1>2, <2>3, <3>2 DEF InFlight
    <3>3. CASE k = l /\ i = n
      BY <1>2, <1>3, <2>2, <2>3, <3>3 DEF InFlight, WireFault
    <3> QED
      BY <3>1, <3>2, <3>3
  <2>5. \A k \in Link : \A i \in InFlight(k)' :
           LET j == IF k = l /\ i > Len(wire[l]) THEN i + 1 ELSE i
           IN  /\ i \in Nat /\ j \in InFlight(k)
               /\ wire'[k][i].s.clear = wire[k][j].s.clear
    <3>1. \A k \in Link : \A i \in InFlight(k) :
             i \in Nat /\ ~(k = l /\ i > Len(wire[l]))
      BY InFlightTyped
    <3> QED
      BY <2>4, <3>1
  <2> QED
    BY <1>2, <2>5
<1>5. CASE n < Len(wire[l]) /\ wire' = [wire EXCEPT ![l] = NextSwallowed(wire[l], n)]
  <2>1. \A k \in Link : wire'[k] = IF k = l THEN NextSwallowed(wire[l], n) ELSE wire[k]
    BY <1>5 DEF TypeOK
  <2>2. ASSUME NEW k \in Link, NEW i \in InFlight(k)', NEW j,
               j = IF k = l /\ i > n THEN i + 1 ELSE i
        PROVE  i \in Nat /\ j \in InFlight(k) /\ wire'[k][i] = wire[k][j]
    <3>1. CASE k # l
      <4>1. i \in InFlight(k) /\ wire'[k] = wire[k]
        BY <2>1, <3>1 DEF InFlight
      <4> QED
        BY <2>2, <3>1, <4>1, InFlightTyped
    <3>2. CASE k = l
      <4>1. i \in 1 .. Len(wire[l]) - 1 /\ wire'[l][i] # Undecodable
        BY <1>1, <1>2, <1>5, <2>1, <3>2, SwallowedTyped DEF InFlight
      <4>2. wire'[l][i] = wire[l][j]
        BY <1>1, <1>2, <1>5, <2>1, <2>2, <3>2, <4>1, SwallowedTyped
      <4>3. j \in DOMAIN wire[l]
        BY <1>2, <2>2, <4>1
      <4> QED
        BY <3>2, <4>1, <4>2, <4>3 DEF InFlight
    <3> QED
      BY <3>1, <3>2
  <2>3. \A k \in Link : \A i \in InFlight(k)' :
           LET j == IF k = l /\ i > n THEN i + 1 ELSE i
           IN  /\ i \in Nat /\ j \in InFlight(k)
               /\ wire'[k][i].s.clear = wire[k][j].s.clear
    BY <2>2
  <2>4. n \in Nat
    BY <1>2
  <2> QED
    BY <2>3, <2>4
<1> QED
  BY <1>4, <1>5 DEF WireFault

(***************************************************************************)
(* Taking the first frame off a link keeps the order, and what remains in  *)
(* flight has other numbers than that frame; higher ones if the server     *)
(* took it.                                                                *)
(***************************************************************************)
LEMMA TakeEffect ==
    ASSUME TypeOK, FramesOrdered, NEW l \in Link, Received(l),
           wire' = [wire EXCEPT ![l] = Tail(@)]
    PROVE  /\ FramesOrdered'
           /\ \A k \in Link : \A i \in InFlight(k)' : \E j \in InFlight(k) :
                 /\ wire'[k][i] = wire[k][j]
                 /\ NumberAt(k, j) # NumberAt(l, 1)
                 /\ l = "f2s" => NumberAt(k, j) > NumberAt(l, 1)
<1>1. wire'[l] = Tail(wire[l]) /\ \A k \in Link \ {l} : wire'[k] = wire[k]
  BY DEF TypeOK
<1>2. /\ 1 \in InFlight(l)
      /\ \A i \in InFlight(l)' :
            /\ i \in Nat \ {0}
            /\ i + 1 \in InFlight(l)
            /\ wire'[l][i] = wire[l][i + 1]
  BY <1>1, TailEffect
<1>3. \A k \in Link \ {l} : InFlight(k)' = InFlight(k)
  BY <1>1 DEF InFlight
<1>4. \A k \in Link : \A i \in InFlight(k) : i \in Nat /\ NumberAt(k, i) \in Nat
  BY InFlightTyped
<1>5. \A i \in InFlight(l)' : NumberAt(l, i)' = NumberAt(l, i + 1)
  BY <1>2 DEF NumberAt
<1>6. \A k \in Link \ {l} : \A i \in InFlight(k)' : NumberAt(k, i)' = NumberAt(k, i)
  BY <1>1 DEF NumberAt
<1>7. ASSUME NEW k \in Link, NEW i \in InFlight(k)', NEW j \in InFlight(k)', i < j
      PROVE  NumberAt(k, i)' < NumberAt(k, j)'
  <2>1. CASE k = l
    BY <1>2, <1>4, <1>5, <1>7, <2>1 DEF FramesOrdered
  <2>2. CASE k # l
    BY <1>3, <1>6, <1>7, <2>2 DEF FramesOrdered
  <2> QED
    BY <2>1, <2>2
<1>8. ASSUME NEW i \in InFlight("f2s")', NEW j \in InFlight("c2f")'
      PROVE  NumberAt("f2s", i)' < NumberAt("c2f", j)'
  <2>1. CASE l = "f2s"
    BY <1>2, <1>3, <1>5, <1>6, <2>1 DEF FramesOrdered, Link
  <2>2. CASE l = "c2f"
    BY <1>2, <1>3, <1>5, <1>6, <2>2 DEF FramesOrdered, Link
  <2> QED
    BY <2>1, <2>2 DEF Link
<1>9. ASSUME NEW k \in Link, NEW i \in InFlight(k)'
      PROVE  \E j \in InFlight(k) :
                /\ wire'[k][i] = wire[k][j]
                /\ NumberAt(k, j) # NumberAt(l, 1)
                /\ l = "f2s" => NumberAt(k, j) > NumberAt(l, 1)
  <2>1. CASE k = l
    <3>1. i + 1 \in InFlight(l) /\ 1 < i + 1
      BY <1>2, <2>1
    <3>2. NumberAt(l, 1) < NumberAt(l, i + 1)
      BY <1>2, <3>1 DEF FramesOrdered
    <3>3. /\ NumberAt(l, i + 1) # NumberAt(l, 1)
          /\ NumberAt(l, i + 1) > NumberAt(l, 1)
      BY <1>2, <1>4, <3>1, <3>2
    <3>4. wire'[k][i] = wire[k][i + 1]
      BY <1>2, <2>1
    <3> QED
      BY <2>1, <3>1, <3>3, <3>4
  <2>2. CASE k # l
    <3>1. i \in InFlight(k) /\ wire'[k][i] = wire[k][i]
      BY <1>1, <1>3, <2>2
    <3>2. /\ NumberAt(k, i) # NumberAt(l, 1)
          /\ l = "f2s" => NumberAt(k, i) > NumberAt(l, 1)
      BY <1>2, <1>4, <2>2, <3>1 DEF FramesOrdered, Link
    <3> QED
      BY <3>1, <3>2
  <2> QED
    BY <2>1, <2>2
<1>10. FramesOrdered'
  BY <1>7, <1>8 DEF FramesOrdered
<1> QED
  BY <1>9, <1>10

-----------------------------------------------------------------------------
(* The invariant *)

(***************************************************************************)
(* A new line gets the number after all those given before.                *)
(***************************************************************************)
LEMMA ClientSendsStep ==
    ASSUME TypeOK, RecordInv, ClientSendsLine
    PROVE  RecordInv'
<1>1. PICK line \in Line, r \in Nonce :
        /\ wire' = [wire EXCEPT !["c2f"] =
                       Append(@, Record(AeEncrypt(Kcs, clientSeq, line), r))]
        /\ sent' = Append(sent, line)
  BY DEF ClientSendsLine
<1> DEFINE m == Record(AeEncrypt(Kcs, clientSeq, line), r)
<1>2. /\ clientSeq' = clientSeq + 1
      /\ UNCHANGED <<serverSeq, delivered, rejected>>
  BY DEF ClientSendsLine
<1>3. /\ clientSeq \in Nat
      /\ serverSeq \in Nat
      /\ clientSeq = Len(sent)
      /\ serverSeq = Len(delivered)
      /\ Len(delivered) <= Len(sent)
  BY Bounds DEF TypeOK, RecordInv, CountersMatch, DeliveredInOrder
<1>4. /\ m \in RecordMessage
      /\ m.s.clear.seq = clientSeq
      /\ m.s.clear.plaintext = line
  BY <1>3, SealedTyped, RecordTyped
<1>5. /\ Len(sent') = clientSeq + 1
      /\ \A n \in 1 .. clientSeq : sent'[n] = sent[n]
      /\ sent'[clientSeq + 1] = line
  BY <1>1, <1>3, AppendProperties DEF TypeOK
<1>6. wire'["c2f"] = Append(wire["c2f"], m) /\ wire'["f2s"] = wire["f2s"]
  BY <1>1 DEF TypeOK, Link
<1>7. \A i \in InFlight("c2f")' :
         \/ i \in InFlight("c2f") /\ wire'["c2f"][i] = wire["c2f"][i]
         \/ i = Len(wire["c2f"]) + 1 /\ wire'["c2f"][i] = m
  BY <1>4, <1>6, AppendEffect DEF Link
<1>8. InFlight("f2s")' = InFlight("f2s")
  BY <1>6 DEF InFlight
<1>9. /\ \A l \in Link : \A i \in InFlight(l) :
            /\ i \in 1 .. Len(wire[l])
            /\ NumberAt(l, i) \in Nat
            /\ NumberAt(l, i) \in serverSeq .. clientSeq - 1
            /\ NumberAt(l, i) \notin rejected
            /\ wire[l][i].s.clear.plaintext = sent[NumberAt(l, i) + 1]
      /\ \A l \in Link : Len(wire[l]) \in Nat
  BY InFlightTyped DEF RecordInv, FramesPending
<1>10. \A l \in Link : \A i \in InFlight(l)' :
          \/ /\ i \in InFlight(l)
             /\ wire'[l][i] = wire[l][i]
             /\ NumberAt(l, i)' = NumberAt(l, i)
          \/ /\ l = "c2f"
             /\ i = Len(wire["c2f"]) + 1
             /\ wire'[l][i] = m
             /\ NumberAt(l, i)' = clientSeq
  BY <1>4, <1>6, <1>7, <1>8 DEF NumberAt, Number, Link
<1>11. CountersMatch'
  BY <1>2, <1>3, <1>5 DEF CountersMatch
<1>12. RejectedUndelivered'
  BY <1>2, <1>3 DEF RecordInv, RejectedUndelivered
<1>13. DeliveredInOrder'
  BY <1>2, <1>3, <1>5 DEF RecordInv, DeliveredInOrder
<1>14. FramesPending'
  <2> SUFFICES ASSUME NEW l \in Link, NEW i \in InFlight(l)'
               PROVE  /\ NumberAt(l, i)' \in serverSeq .. clientSeq
                      /\ NumberAt(l, i)' \notin rejected
                      /\ wire'[l][i].s.clear.plaintext
                            = sent'[NumberAt(l, i)' + 1]
    BY <1>2, <1>3 DEF FramesPending
  <2>1. CASE /\ i \in InFlight(l)
             /\ wire'[l][i] = wire[l][i]
             /\ NumberAt(l, i)' = NumberAt(l, i)
    <3>1. NumberAt(l, i) + 1 \in 1 .. clientSeq
      BY <1>3, <1>9, <2>1
    <3> QED
      BY <1>3, <1>5, <1>9, <2>1, <3>1
  <2>2. CASE wire'[l][i] = m /\ NumberAt(l, i)' = clientSeq
    BY <1>3, <1>4, <1>5, <2>2 DEF RecordInv, RejectedUndelivered
  <2> QED
    BY <1>10, <2>1, <2>2
<1>15. FramesOrdered'
  <2>1. ASSUME NEW l \in Link, NEW i \in InFlight(l)', NEW j \in InFlight(l)', i < j
        PROVE  NumberAt(l, i)' < NumberAt(l, j)'
    BY <1>3, <1>9, <1>10, <2>1 DEF RecordInv, FramesOrdered
  <2>2. ASSUME NEW i \in InFlight("f2s")', NEW j \in InFlight("c2f")'
        PROVE  NumberAt("f2s", i)' < NumberAt("c2f", j)'
    BY <1>3, <1>9, <1>10 DEF RecordInv, FramesOrdered, Link
  <2> QED
    BY <2>1, <2>2 DEF FramesOrdered
<1> QED
  BY <1>11, <1>12, <1>13, <1>14, <1>15 DEF RecordInv

(***************************************************************************)
(* Frames that were pending before a step are pending after it when their  *)
(* numbers are still ahead of the server and have not been turned away.    *)
(***************************************************************************)
LEMMA PendingCarried ==
    ASSUME TypeOK, FramesPending, UNCHANGED <<clientSeq, sent>>, serverSeq' \in Nat,
           \A k \in Link : \A i \in InFlight(k)' :
              \E l \in Link : \E j \in InFlight(l) :
                 /\ wire'[k][i].s.clear = wire[l][j].s.clear
                 /\ serverSeq' <= NumberAt(l, j)
                 /\ NumberAt(l, j) \notin rejected'
    PROVE  FramesPending'
<1> SUFFICES ASSUME NEW k \in Link, NEW i \in InFlight(k)'
             PROVE  /\ NumberAt(k, i)' \in serverSeq' .. clientSeq - 1
                    /\ NumberAt(k, i)' \notin rejected'
                    /\ wire'[k][i].s.clear.plaintext = sent[NumberAt(k, i)' + 1]
  BY DEF FramesPending
<1>1. PICK l \in Link : \E j \in InFlight(l) :
         /\ wire'[k][i].s.clear = wire[l][j].s.clear
         /\ serverSeq' <= NumberAt(l, j)
         /\ NumberAt(l, j) \notin rejected'
  OBVIOUS
<1>2. PICK j \in InFlight(l) :
         /\ wire'[k][i].s.clear = wire[l][j].s.clear
         /\ serverSeq' <= NumberAt(l, j)
         /\ NumberAt(l, j) \notin rejected'
  BY <1>1
<1>3. NumberAt(k, i)' = NumberAt(l, j)
  BY <1>2 DEF NumberAt, Number
<1>4. /\ NumberAt(l, j) \in serverSeq .. clientSeq - 1
      /\ wire[l][j].s.clear.plaintext = sent[NumberAt(l, j) + 1]
  BY DEF FramesPending
<1>5. clientSeq \in Int /\ serverSeq \in Int
  BY Bounds DEF TypeOK
<1> QED
  BY <1>2, <1>3, <1>4, <1>5

(***************************************************************************)
(* A forwarded record keeps its number: it comes after all forwarded       *)
(* before it and before all the firewall has yet to read.                  *)
(***************************************************************************)
LEMMA FirewallForwardsStep ==
    ASSUME TypeOK, RecordInv, FirewallForwards
    PROVE  RecordInv'
<1> DEFINE m == Head(wire["c2f"])
<1>1. PICK r \in Nonce :
         wire' = [wire EXCEPT !["c2f"] = Tail(@),
                              !["f2s"] = Append(@, Record(Unblinded(m), r))]
  BY DEF FirewallForwards
<1> DEFINE f == Record(Unblinded(m), r)
<1>2. /\ Received("c2f")
      /\ UNCHANGED <<clientSeq, serverSeq, sent, delivered, rejected>>
  BY DEF FirewallForwards
<1>3. m \in RecordMessage /\ m = wire["c2f"][1]
  BY <1>2, ReceivedTyped DEF Link
<1>4. f \in RecordMessage /\ f.s.clear = m.s.clear
  BY <1>3, UnblindedTyped, RecordTyped
<1>5. wire'["c2f"] = Tail(wire["c2f"]) /\ wire'["f2s"] = Append(wire["f2s"], f)
  BY <1>1 DEF TypeOK, Link
<1>6. /\ 1 \in InFlight("c2f")
      /\ \A i \in InFlight("c2f")' :
            /\ i \in Nat \ {0}
            /\ i + 1 \in InFlight("c2f")
            /\ wire'["c2f"][i] = wire["c2f"][i + 1]
            /\ NumberAt("c2f", i)' = NumberAt("c2f", i + 1)
  BY <1>2, <1>5, TailEffect DEF Link, NumberAt
<1>7. \A i \in InFlight("f2s")' :
         \/ i \in InFlight("f2s") /\ wire'["f2s"][i] = wire["f2s"][i]
         \/ i = Len(wire["f2s"]) + 1 /\ wire'["f2s"][i] = f
  BY <1>4, <1>5, AppendEffect DEF Link
<1>8. \A i \in InFlight("f2s")' :
         \/ i \in InFlight("f2s") /\ NumberAt("f2s", i)' = NumberAt("f2s", i)
         \/ i = Len(wire["f2s"]) + 1 /\ NumberAt("f2s", i)' = NumberAt("c2f", 1)
  BY <1>3, <1>4, <1>7 DEF NumberAt, Number
<1>9. /\ \A l \in Link : \A i \in InFlight(l) :
            /\ i \in 1 .. Len(wire[l])
            /\ NumberAt(l, i) \in Nat
            /\ serverSeq <= NumberAt(l, i)
            /\ NumberAt(l, i) \notin rejected
      /\ \A l \in Link : Len(wire[l]) \in Nat
  <2>1. serverSeq \in Nat /\ clientSeq \in Nat
    BY Bounds DEF TypeOK
  <2> QED
    BY <2>1, InFlightTyped DEF RecordInv, FramesPending
<1>10. FramesPending'
  <2>1. ASSUME NEW k \in Link, NEW i \in InFlight(k)'
        PROVE  \E l \in Link : \E j \in InFlight(l) :
                  wire'[k][i].s.clear = wire[l][j].s.clear
    <3>1. CASE k = "c2f"
      BY <1>6, <3>1
    <3>2. CASE k = "f2s"
      BY <1>3, <1>4, <1>6, <1>7, <3>2 DEF Link
    <3> QED
      BY <3>1, <3>2 DEF Link
  <2>2. serverSeq' \in Nat
    BY <1>2 DEF TypeOK
  <2> QED
    BY <1>2, <1>9, <2>1, <2>2, PendingCarried DEF RecordInv
<1>11. FramesOrdered'
  <2>1. ASSUME NEW i \in InFlight("c2f")', NEW j \in InFlight("c2f")', i < j
        PROVE  NumberAt("c2f", i)' < NumberAt("c2f", j)'
    BY <1>6, <2>1 DEF RecordInv, FramesOrdered, Link
  <2>2. ASSUME NEW i \in InFlight("f2s")', NEW j \in InFlight("f2s")', i < j
        PROVE  NumberAt("f2s", i)' < NumberAt("f2s", j)'
    BY <1>6, <1>8, <1>9, <2>2 DEF RecordInv, FramesOrdered, Link
  <2>3. ASSUME NEW i \in InFlight("f2s")', NEW j \in InFlight("c2f")'
        PROVE  NumberAt("f2s", i)' < NumberAt("c2f", j)'
    <3>1. j + 1 \in InFlight("c2f") /\ 1 < j + 1
      BY <1>6
    <3> QED
      BY <1>6, <1>8, <3>1 DEF RecordInv, FramesOrdered, Link
  <2> QED
    BY <2>1, <2>2, <2>3 DEF FramesOrdered, Link
<1>12. CountersMatch' /\ RejectedUndelivered' /\ DeliveredInOrder'
  BY <1>2 DEF RecordInv, CountersMatch, RejectedUndelivered, DeliveredInOrder
<1> QED
  BY <1>10, <1>11, <1>12 DEF RecordInv

(***************************************************************************)
(* A record turned away, by the firewall or the server, or dropped by a    *)
(* firewall that cannot send, leaves the rest as it was.                   *)
(***************************************************************************)
LEMMA DropStep ==
    ASSUME TypeOK, RecordInv, NEW l \in Link, Received(l),
           wire' = [wire EXCEPT ![l] = Tail(@)],
           UNCHANGED <<clientSeq, serverSeq, sent, delivered>>,
           rejected' \in {rejected, rejected \cup {Number(Head(wire[l]))}}
    PROVE  RecordInv'
<1>1. /\ FramesOrdered'
      /\ \A k \in Link : \A i \in InFlight(k)' : \E j \in InFlight(k) :
            wire'[k][i] = wire[k][j] /\ NumberAt(k, j) # NumberAt(l, 1)
  BY TakeEffect DEF RecordInv
<1>2. 1 \in InFlight(l) /\ NumberAt(l, 1) = Number(Head(wire[l]))
  BY ReceivedTyped DEF InFlight, NumberAt, Received
<1>3. serverSeq \in Nat /\ clientSeq \in Nat
  BY Bounds DEF TypeOK
<1>4. \A k \in Link : \A j \in InFlight(k) :
         /\ NumberAt(k, j) \in serverSeq .. clientSeq - 1
         /\ serverSeq <= NumberAt(k, j)
         /\ NumberAt(k, j) \notin rejected
  BY <1>3 DEF RecordInv, FramesPending
<1>5. FramesPending'
  <2>1. ASSUME NEW k \in Link, NEW i \in InFlight(k)'
        PROVE  \E j \in InFlight(k) :
                  /\ wire'[k][i].s.clear = wire[k][j].s.clear
                  /\ serverSeq' <= NumberAt(k, j)
                  /\ NumberAt(k, j) \notin rejected'
    BY <1>1, <1>2, <1>4
  <2>2. serverSeq' \in Nat
    BY <1>3
  <2> QED
    BY <2>1, <2>2, PendingCarried DEF RecordInv
<1>6. RejectedUndelivered'
  BY <1>2, <1>4 DEF RecordInv, RejectedUndelivered
<1>7. CountersMatch' /\ DeliveredInOrder'
  BY DEF RecordInv, CountersMatch, DeliveredInOrder
<1> QED
  BY <1>1, <1>5, <1>6, <1>7 DEF RecordInv

(***************************************************************************)
(* The server opens a record only under its own number, so the line it     *)
(* delivers is the first not delivered yet, and was never turned away.     *)
(***************************************************************************)
LEMMA ServerAcceptsNext ==
    ASSUME TypeOK, RecordInv, ServerAccepts
    PROVE  /\ NumberAt("f2s", 1) = serverSeq
           /\ serverSeq \notin rejected
           /\ serverSeq < clientSeq
           /\ delivered' = Append(delivered, sent[serverSeq + 1])
<1> DEFINE m == Head(wire["f2s"])
<1>1. m \in RecordMessage /\ m = wire["f2s"][1] /\ 1 \in InFlight("f2s")
  BY ReceivedTyped DEF ServerAccepts, Link, InFlight, Received
<1>2. Number(m) = serverSeq
  BY <1>1, UnblindedTyped DEF ServerAccepts, Opens, AeOpens, Number
<1>3. AePlaintext(Unblinded(m)) = m.s.clear.plaintext
  BY <1>1, UnblindedTyped DEF AePlaintext
<1>4. /\ NumberAt("f2s", 1) \in serverSeq .. clientSeq - 1
      /\ NumberAt("f2s", 1) \notin rejected
      /\ wire["f2s"][1].s.clear.plaintext = sent[NumberAt("f2s", 1) + 1]
  BY <1>1 DEF RecordInv, FramesPending, Link
<1>5. clientSeq \in Nat /\ serverSeq \in Nat
  BY Bounds DEF TypeOK
<1> QED
  BY <1>1, <1>2, <1>3, <1>4, <1>5 DEF NumberAt, ServerAccepts

(***************************************************************************)
(* The record the server accepts is the next one due, so the counters, the *)
(* frames behind it and the lines delivered stay in step.                  *)
(***************************************************************************)
LEMMA ServerAcceptsStep ==
    ASSUME TypeOK, RecordInv, ServerAccepts
    PROVE  RecordInv'
<1>1. /\ Received("f2s")
      /\ wire' = [wire EXCEPT !["f2s"] = Tail(@)]
      /\ serverSeq' = serverSeq + 1
      /\ UNCHANGED <<clientSeq, sent, rejected>>
  BY DEF ServerAccepts, SeqAfterAccept
<1>2. /\ NumberAt("f2s", 1) = serverSeq
      /\ serverSeq \notin rejected
      /\ serverSeq < clientSeq
      /\ delivered' = Append(delivered, sent[serverSeq + 1])
  BY ServerAcceptsNext
<1>3. /\ FramesOrdered'
      /\ \A k \in Link : \A i \in InFlight(k)' : \E j \in InFlight(k) :
            wire'[k][i] = wire[k][j] /\ NumberAt(k, j) > NumberAt("f2s", 1)
  BY <1>1, TakeEffect DEF RecordInv, Link
<1>4. /\ serverSeq \in Nat
      /\ clientSeq \in Nat
      /\ clientSeq = Len(sent)
      /\ serverSeq = Len(delivered)
  BY Bounds DEF TypeOK, RecordInv, CountersMatch
<1>5. /\ Len(delivered') = serverSeq + 1
      /\ \A n \in 1 .. serverSeq : delivered'[n] = delivered[n]
      /\ delivered'[serverSeq + 1] = sent[serverSeq + 1]
  <2>1. sent[serverSeq + 1] \in Line
    BY <1>2, <1>4, ElementOfSeq DEF TypeOK
  <2> QED
    BY <1>2, <1>4, <2>1, AppendProperties DEF TypeOK
<1>6. FramesPending'
  <2>1. \A k \in Link : \A j \in InFlight(k) :
           NumberAt(k, j) \in Nat /\ NumberAt(k, j) \notin rejected
    BY InFlightTyped DEF RecordInv, FramesPending
  <2>2. ASSUME NEW k \in Link, NEW i \in InFlight(k)'
        PROVE  \E j \in InFlight(k) :
                  /\ wire'[k][i].s.clear = wire[k][j].s.clear
                  /\ serverSeq' <= NumberAt(k, j)
                  /\ NumberAt(k, j) \notin rejected'
    <3>1. PICK j \in InFlight(k) :
             wire'[k][i] = wire[k][j] /\ NumberAt(k, j) > serverSeq
      BY <1>2, <1>3
    <3>2. NumberAt(k, j) \in Nat /\ NumberAt(k, j) \notin rejected
      BY <2>1
    <3>3. serverSeq' <= NumberAt(k, j)
      BY <1>1, <1>4, <3>1, <3>2
    <3> QED
      BY <1>1, <3>1, <3>2, <3>3
  <2>3. serverSeq' \in Nat
    BY <1>1, <1>4
  <2> QED
    BY <1>1, <2>2, <2>3, PendingCarried DEF RecordInv
<1>7. CountersMatch'
  BY <1>1, <1>4, <1>5 DEF CountersMatch
<1>8. RejectedUndelivered'
  BY <1>1, <1>2, <1>4 DEF RecordInv, RejectedUndelivered
<1>9. DeliveredInOrder'
  BY <1>1, <1>2, <1>4, <1>5 DEF RecordInv, DeliveredInOrder
<1> QED
  BY <1>3, <1>6, <1>7, <1>8, <1>9 DEF RecordInv

(***************************************************************************)
(* A wire fault takes no number out of order.                              *)
(***************************************************************************)
LEMMA WireFaultStep ==
    ASSUME TypeOK, RecordInv, NEW l \in Link, NEW n \in DOMAIN wire[l],
           WireFault(l, n)
    PROVE  RecordInv'
<1>1. PICK cut \in Nat : \A k \in Link : \A i \in InFlight(k)' :
         LET j == IF k = l /\ i > cut THEN i + 1 ELSE i
         IN  /\ i \in Nat /\ j \in InFlight(k)
             /\ wire'[k][i].s.clear = wire[k][j].s.clear
  BY WireFaultEffect
<1>2. UNCHANGED <<clientSeq, serverSeq, sent, delivered, rejected>>
  BY DEF WireFault
<1> DEFINE Was(k, i) == IF k = l /\ i > cut THEN i + 1 ELSE i
<1>3. \A k \in Link : \A i \in InFlight(k)' :
         /\ i \in Nat
         /\ Was(k, i) \in InFlight(k)
         /\ wire'[k][i].s.clear = wire[k][Was(k, i)].s.clear
         /\ NumberAt(k, i)' = NumberAt(k, Was(k, i))
  BY <1>1 DEF NumberAt, Number
<1>4. FramesOrdered'
  <2>1. ASSUME NEW k \in Link, NEW i \in InFlight(k)', NEW j \in InFlight(k)', i < j
        PROVE  NumberAt(k, i)' < NumberAt(k, j)'
    <3>1. Was(k, i) < Was(k, j)
      BY <1>3, <2>1
    <3> QED
      BY <1>3, <3>1 DEF RecordInv, FramesOrdered
  <2>2. ASSUME NEW i \in InFlight("f2s")', NEW j \in InFlight("c2f")'
        PROVE  NumberAt("f2s", i)' < NumberAt("c2f", j)'
    BY <1>3 DEF RecordInv, FramesOrdered, Link
  <2> QED
    BY <2>1, <2>2 DEF FramesOrdered
<1>5. FramesPending'
  <2> SUFFICES ASSUME NEW k \in Link, NEW i \in InFlight(k)'
               PROVE  /\ NumberAt(k, i)' \in serverSeq .. clientSeq - 1
                      /\ NumberAt(k, i)' \notin rejected
                      /\ wire'[k][i].s.clear.plaintext = sent[NumberAt(k, i)' + 1]
    BY <1>2 DEF FramesPending
  <2> QED
    BY <1>3 DEF RecordInv, FramesPending
<1>6. CountersMatch' /\ RejectedUndelivered' /\ DeliveredInOrder'
  BY <1>2 DEF RecordInv, CountersMatch, RejectedUndelivered, DeliveredInOrder
<1> QED
  BY <1>4, <1>5, <1>6 DEF RecordInv

(***************************************************************************)
(* Every step of Next preserves the inductive invariant.                   *)
(***************************************************************************)
LEMMA RecordStep == TypeOK /\ RecordInv /\ [Next]_vars => RecordInv'
<1> SUFFICES ASSUME TypeOK, RecordInv, [Next]_vars
             PROVE  RecordInv'
  OBVIOUS
<1>1. CASE ClientSendsLine
  BY <1>1, ClientSendsStep
<1>2. CASE FirewallForwards
  BY <1>2, FirewallForwardsStep
<1>3. CASE FirewallRejects \/ FirewallSendFails
  <2>1. /\ Received("c2f")
        /\ wire' = [wire EXCEPT !["c2f"] = Tail(@)]
        /\ UNCHANGED <<clientSeq, serverSeq, sent, delivered>>
        /\ rejected' \in {rejected, rejected \cup {Number(Head(wire["c2f"]))}}
    BY <1>3 DEF FirewallRejects, FirewallSendFails
  <2> QED
    BY <2>1, DropStep DEF Link
<1>4. CASE ServerAccepts
  BY <1>4, ServerAcceptsStep
<1>5. CASE ServerRejects
  <2>1. /\ Received("f2s")
        /\ wire' = [wire EXCEPT !["f2s"] = Tail(@)]
        /\ UNCHANGED <<clientSeq, serverSeq, sent, delivered>>
        /\ rejected' \in {rejected, rejected \cup {Number(Head(wire["f2s"]))}}
    BY <1>5 DEF ServerRejects, SeqAfterReject
  <2> QED
    BY <2>1, DropStep DEF Link
<1>6. CASE \E l \in Link : \E i \in DOMAIN wire[l] : WireFault(l, i)
  BY <1>6, WireFaultStep
<1>7. CASE \/ ClientEnds \/ FirewallEnds \/ ServerEnds
           \/ \E p \in Proc : Killed(p)
           \/ UNCHANGED vars
  <2>1. UNCHANGED <<clientSeq, serverSeq, wire, sent, delivered, rejected>>
    BY <1>7 DEF ClientEnds, FirewallEnds, ServerEnds, Killed, vars
  <2> QED
    BY <2>1 DEF RecordInv, CountersMatch, FramesPending, FramesOrdered,
       RejectedUndelivered, DeliveredInOrder, InFlight, NumberAt
<1> QED
  BY <1>1, <1>2, <1>3, <1>4, <1>5, <1>6, <1>7
  DEF Next, FirewallStep, ServerStep, Finished

(***************************************************************************)
(* Nothing is sent, in flight or delivered at the start.                   *)
(***************************************************************************)
LEMMA RecordInit == Init => RecordInv
<1> SUFFICES ASSUME Init
             PROVE  RecordInv
  OBVIOUS
<1>1. \A l \in Link : InFlight(l) = {}
  BY DEF Init, InFlight
<1>2. Len(sent) = 0 /\ Len(delivered) = 0
  BY DEF Init
<1> QED
  BY <1>1, <1>2 DEF Init, RecordInv, CountersMatch, FramesPending,
     FramesOrdered, RejectedUndelivered, DeliveredInOrder, Link

-----------------------------------------------------------------------------
(* The theorems *)

(***************************************************************************)
(* The strengthening is an invariant of the record layer.                  *)
(***************************************************************************)
THEOREM RecordInvariant == Spec => []RecordInv
<1>1. TypeOK /\ RecordInv /\ TypeOK' /\ [Next]_vars => RecordInv'
  BY RecordStep
<1> QED
  BY <1>1, RecordInit, TypeCorrect, PTL DEF Spec

(***************************************************************************)
(* What the server prints is a prefix of what the client sent (the last    *)
(* assertion of main.rs), whatever is altered on the wire.                 *)
(***************************************************************************)
THEOREM InOrder == Spec => []DeliveredInOrder
<1>1. RecordInv => DeliveredInOrder
  BY DEF RecordInv
<1> QED
  BY <1>1, RecordInvariant, PTL

(***************************************************************************)
(* After a record is turned away (firewall_bin.rs and server_bin.rs go on  *)
(* with the next one), nothing from it on is ever delivered.               *)
(***************************************************************************)
THEOREM GapIsFinal == Spec => []GapEndsDelivery
<1>1. TypeOK /\ RecordInv => GapEndsDelivery
  BY Bounds DEF TypeOK, RecordInv, CountersMatch, RejectedUndelivered,
     GapEndsDelivery
<1> QED
  BY <1>1, RecordInvariant, TypeCorrect, PTL

-----------------------------------------------------------------------------
(* The refinement *)

(***************************************************************************)
(* The record layer starts as an empty channel.                            *)
(***************************************************************************)
LEMMA ChannelInit == Init => Channel!Init
BY DEF Init, Channel!Init

(***************************************************************************)
(* Turning a record away is the loss of its line in the channel.           *)
(***************************************************************************)
LEMMA ChannelLoses ==
    ASSUME TypeOK, RecordInv, NEW l \in Link, Received(l),
           UNCHANGED <<sent, delivered>>,
           rejected' = rejected \cup {Number(Head(wire[l]))}
    PROVE  Channel!Next
<1> DEFINE k == Number(Head(wire[l]))
<1>1. 1 \in InFlight(l) /\ NumberAt(l, 1) = k
  BY ReceivedTyped DEF InFlight, NumberAt, Received
<1>2. k \in serverSeq .. clientSeq - 1
  BY <1>1 DEF RecordInv, FramesPending
<1>3. /\ serverSeq \in Nat
      /\ clientSeq \in Nat
      /\ clientSeq = Len(sent)
      /\ serverSeq = Len(delivered)
  BY Bounds DEF TypeOK, RecordInv, CountersMatch
<1>4. PICK position \in Channel!InTransit : position = k + 1
  BY <1>2, <1>3 DEF Channel!InTransit
<1>5. {n + 1 : n \in rejected'} = {n + 1 : n \in rejected} \cup {position}
  BY <1>4
<1>6. Channel!Lose(position)
  BY <1>4, <1>5 DEF Channel!Lose
<1> QED
  BY <1>4, <1>6 DEF Channel!Next

(***************************************************************************)
(* Accepting a record is the delivery of the next line of the channel.     *)
(***************************************************************************)
LEMMA ChannelDelivers ==
    ASSUME TypeOK, RecordInv, ServerAccepts
    PROVE  Channel!Next
<1>1. /\ serverSeq \notin rejected
      /\ serverSeq < clientSeq
      /\ delivered' = Append(delivered, sent[serverSeq + 1])
  BY ServerAcceptsNext
<1>2. /\ serverSeq \in Nat
      /\ clientSeq \in Nat
      /\ clientSeq = Len(sent)
      /\ serverSeq = Len(delivered)
      /\ rejected \subseteq Nat
  BY Bounds DEF TypeOK, RecordInv, CountersMatch
<1>3. Len(delivered) + 1 \in Channel!InTransit
  BY <1>1, <1>2 DEF Channel!InTransit
<1>4. Len(delivered) + 1 \notin {n + 1 : n \in rejected}
  BY <1>1, <1>2
<1>5. UNCHANGED <<sent, rejected>>
  BY DEF ServerAccepts
<1>6. Channel!Deliver
  BY <1>1, <1>2, <1>3, <1>4, <1>5 DEF Channel!Deliver
<1> QED
  BY <1>6 DEF Channel!Next

(***************************************************************************)
(* Every step of the three processes is a step of the channel or leaves    *)
(* the channel as it is.                                                   *)
(***************************************************************************)
LEMMA ChannelStep ==
    TypeOK /\ RecordInv /\ [Next]_vars => [Channel!Next]_(Channel!vars)
<1> SUFFICES ASSUME TypeOK, RecordInv, [Next]_vars
             PROVE  [Channel!Next]_(Channel!vars)
  OBVIOUS
<1>1. CASE ClientSendsLine
  <2>1. PICK line \in Line : sent' = Append(sent, line)
    BY <1>1 DEF ClientSendsLine
  <2>2. Channel!Send(line)
    BY <1>1, <2>1 DEF ClientSendsLine, Channel!Send
  <2> QED
    BY <2>2 DEF Channel!Next
<1>2. CASE FirewallRejects
  BY <1>2, ChannelLoses DEF FirewallRejects, Link
<1>3. CASE ServerRejects
  BY <1>3, ChannelLoses DEF ServerRejects, Link
<1>4. CASE ServerAccepts
  BY <1>4, ChannelDelivers
<1>5. ASSUME UNCHANGED <<sent, delivered, rejected>>
      PROVE  UNCHANGED Channel!vars
  BY <1>5 DEF Channel!vars
<1>6. CASE \/ ClientEnds \/ FirewallForwards \/ FirewallSendFails
           \/ FirewallEnds \/ ServerEnds
           \/ \E p \in Proc : Killed(p)
           \/ \E l \in Link : \E i \in DOMAIN wire[l] : WireFault(l, i)
           \/ UNCHANGED vars
  BY <1>5, <1>6 DEF ClientEnds, FirewallForwards, FirewallSendFails,
     FirewallEnds, ServerEnds, Killed, WireFault, vars
<1> QED
  BY <1>1, <1>2, <1>3, <1>4, <1>6 DEF Next, FirewallStep, ServerStep, Finished

(***************************************************************************)
(* The record layer implements the channel: the refinement that the run    *)
(* of ImplementsChannel checks on a small instance.                        *)
(***************************************************************************)
THEOREM Implements == Spec => ImplementsChannel
<1>1. TypeOK /\ RecordInv /\ [Next]_vars => [Channel!Next]_(Channel!vars)
  BY ChannelStep
<1> QED
  BY <1>1, ChannelInit, TypeCorrect, RecordInvariant, PTL
  DEF Spec, ImplementsChannel, Channel!Spec
=============================================================================
