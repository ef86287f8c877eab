--------------------------- MODULE FramingProofs ----------------------------
(***************************************************************************)
(* Theorems about the framing of module Framing, for any messages, widths  *)
(* of the length prefix and capacities of the connection, and every way to *)
(* cut the bytes into writes and reads.                                    *)
(***************************************************************************)
EXTENDS Framing, SequenceTheorems, TLAPS

-----------------------------------------------------------------------------
(* Numbers and sequences *)

LEMMA ModFacts ==
    ASSUME NEW a \in Nat, NEW m \in Nat \ {0}
    PROVE  /\ a % m \in 0 .. m - 1
           /\ a % m <= a
           /\ a < m => a % m = a
<1>1. a % m \in 0 .. m - 1
  OBVIOUS
<1>2. a < m => a % m = a
  OBVIOUS
<1>3. a % m <= a
  BY <1>1, <1>2
<1> QED
  BY <1>1, <1>2, <1>3

LEMMA Cut ==
    ASSUME NEW S, NEW s \in Seq(S), NEW n \in 0 .. Len(s)
    PROVE  /\ SubSeq(s, 1, n) \in Seq(S)
           /\ Len(SubSeq(s, 1, n)) = n
           /\ \A i \in 1 .. n : SubSeq(s, 1, n)[i] = s[i]
           /\ SubSeq(s, n + 1, Len(s)) \in Seq(S)
           /\ Len(SubSeq(s, n + 1, Len(s))) = Len(s) - n
           /\ \A i \in 1 .. Len(s) - n : SubSeq(s, n + 1, Len(s))[i] = s[n + i]
<1>1. Len(s) \in Nat /\ n \in Int /\ \A i \in 1 .. Len(s) : s[i] \in S
  BY LenProperties, ElementOfSeq
<1>2. /\ SubSeq(s, 1, n) \in Seq(S)
      /\ Len(SubSeq(s, 1, n)) = IF 1 <= n THEN n - 1 + 1 ELSE 0
      /\ \A i \in 1 .. n - 1 + 1 : SubSeq(s, 1, n)[i] = s[1 + i - 1]
  <2>1. \A i \in 1 .. n : s[i] \in S
    BY <1>1
  <2> QED
    BY <1>1, <2>1, SubSeqProperties
<1>3. /\ SubSeq(s, n + 1, Len(s)) \in Seq(S)
      /\ Len(SubSeq(s, n + 1, Len(s))) =
            IF n + 1 <= Len(s) THEN Len(s) - (n + 1) + 1 ELSE 0
      /\ \A i \in 1 .. Len(s) - (n + 1) + 1 :
            SubSeq(s, n + 1, Len(s))[i] = s[n + 1 + i - 1]
  <2>1. \A i \in n + 1 .. Len(s) : s[i] \in S
    BY <1>1
  <2>2. n + 1 \in Int /\ Len(s) \in Int
    BY <1>1
  <2> QED
    BY <2>1, <2>2, SubSeqProperties
<1>4. n - 1 + 1 = n /\ Len(s) - (n + 1) + 1 = Len(s) - n
  BY <1>1
<1>5. \A i \in 1 .. Len(s) : 1 + i - 1 = i /\ n + 1 + i - 1 = n + i
  BY <1>1
<1>6. \A i \in 1 .. n : SubSeq(s, 1, n)[i] = s[i]
  BY <1>1, <1>2, <1>4, <1>5
<1>7. \A i \in 1 .. Len(s) - n : SubSeq(s, n + 1, Len(s))[i] = s[n + i]
  BY <1>1, <1>3, <1>4, <1>5
<1>8. Len(SubSeq(s, 1, n)) = n
  BY <1>1, <1>2
<1>9. Len(SubSeq(s, n + 1, Len(s))) = Len(s) - n
  BY <1>1, <1>3
<1> QED
  BY <1>2, <1>3, <1>6, <1>7, <1>8, <1>9

(***************************************************************************)
(* The two parts of a sequence that is cut make it up.                     *)
(***************************************************************************)
LEMMA Joined ==
    ASSUME NEW S, NEW s \in Seq(S), NEW n \in 0 .. Len(s)
    PROVE  SubSeq(s, 1, n) \o SubSeq(s, n + 1, Len(s)) = s
<1>1. Len(s) \in Nat
  BY LenProperties
<1>2. 1 \in 1 .. Len(s) + 1 /\ n \in 1 - 1 .. Len(s) /\ Len(s) \in n .. Len(s)
  BY <1>1
<1>3. SubSeq(s, 1, n) \o SubSeq(s, n + 1, Len(s)) = SubSeq(s, 1, Len(s))
  BY <1>2, ConcatAdjacentSubSeq
<1> QED
  BY <1>3, SubSeqFull

(***************************************************************************)
(* Bytes that move from one part of what is pending to the part before it  *)
(* leave it as it is.                                                      *)
(***************************************************************************)
LEMMA Moved ==
    ASSUME NEW S, NEW r \in Seq(S), NEW s \in Seq(S), NEW n \in 0 .. Len(s)
    PROVE  (r \o SubSeq(s, 1, n)) \o SubSeq(s, n + 1, Len(s)) = r \o s
<1>1. PICK a \in Seq(S) : a = SubSeq(s, 1, n)
  BY Cut
<1>2. PICK b \in Seq(S) : b = SubSeq(s, n + 1, Len(s))
  BY Cut
<1>3. a \o b = s
  BY <1>1, <1>2, Joined
<1>4. (r \o a) \o b = r \o (a \o b)
  BY ConcatAssociative, SMTT(60)
<1> QED
  BY <1>1, <1>2, <1>3, <1>4

LEMMA PrefixFacts ==
    ASSUME NEW S, NEW s \in Seq(S), NEW t \in Seq(S)
    PROVE  IsPrefix(s, t) <=> Len(s) <= Len(t) /\ \A i \in 1 .. Len(s) : t[i] = s[i]
<1>1. Len(s) \in Nat /\ Len(t) \in Nat
  BY LenProperties
<1>2. SubSeq(s, 1, Len(s)) = s
  BY SubSeqFull
<1>3. ASSUME Len(s) <= Len(t)
      PROVE  SubSeq(t, 1, Len(s)) = s <=> \A i \in 1 .. Len(s) : t[i] = s[i]
  <2>1. Len(s) \in 0 .. Len(t)
    BY <1>1, <1>3
  <2>2. PICK u \in Seq(S) : u = SubSeq(t, 1, Len(s))
    BY <2>1, Cut
  <2>3. Len(u) = Len(s) /\ \A i \in 1 .. Len(s) : u[i] = t[i]
    BY <2>1, <2>2, Cut
  <2>4. (\A i \in 1 .. Len(s) : t[i] = s[i]) => u = s
    BY <2>3, SeqEqual
  <2> QED
    BY <2>2, <2>3, <2>4
<1> QED
  BY <1>2, <1>3 DEF IsPrefix

-----------------------------------------------------------------------------
(* Bytes and frames *)

LEMMA EndFacts ==
    ASSUME TypeOK, NEW n \in DOMAIN sent
    PROVE  /\ n \in 1 .. Len(sent) /\ n \in 1 .. MaxSent
           /\ sent[n] \in Message
           /\ SizeOf[sent[n]] \in Nat \ {0}
           /\ Prefix \in Nat \ {0}
           /\ End(n) = Prefix + SizeOf[sent[n]]
           /\ End(n) \in Nat /\ End(n) > Prefix
<1>1. /\ Len(sent) \in Nat /\ DOMAIN sent = 1 .. Len(sent)
      /\ Len(sent) <= MaxSent /\ MaxSent \in Nat
  BY Sizes, LenProperties DEF TypeOK
<1>2. sent[n] \in Message
  BY <1>1, ElementOfSeq DEF TypeOK
<1>3. SizeOf[sent[n]] \in Nat \ {0} /\ Prefix \in Nat \ {0}
  BY <1>2, Sizes
<1> QED
  BY <1>1, <1>2, <1>3 DEF End

LEMMA FrameFacts ==
    ASSUME NEW n \in 1 .. MaxSent, NEW size \in Nat
    PROVE  /\ Frame(n, size) \in Seq(Byte)
           /\ Len(Frame(n, size)) = Prefix + size
           /\ \A k \in 1 .. Prefix + size : Frame(n, size)[k] = <<n, k>>
<1>1. Prefix + size \in Nat /\ MaxSent \in Nat
  BY Sizes
<1>2. \A k \in 1 .. Prefix + size : <<n, k>> \in Byte
  BY <1>1 DEF Byte
<1>3. Frame(n, size) \in [1 .. Prefix + size -> Byte]
  BY <1>2 DEF Frame
<1>4. Frame(n, size) \in Seq(Byte)
  BY <1>1, <1>3
<1>5. Len(Frame(n, size)) = Prefix + size
  BY <1>1, <1>3
<1> QED
  BY <1>4, <1>5 DEF Frame

LEMMA BodyFacts ==
    ASSUME TypeOK, NEW n \in DOMAIN sent
    PROVE  /\ Body(n) \in Seq(Byte)
           /\ Len(Body(n)) = SizeOf[sent[n]]
           /\ \A k \in 1 .. SizeOf[sent[n]] : Body(n)[k] = <<n, Prefix + k>>
<1>1. PICK size \in Nat \ {0} : size = SizeOf[sent[n]]
  BY EndFacts
<1>2. n \in 1 .. MaxSent /\ Prefix \in Nat \ {0}
  BY EndFacts
<1>3. PICK frame \in Seq(Byte) : frame = Frame(n, size)
  BY <1>2, FrameFacts
<1>4. /\ Len(frame) = Prefix + size
      /\ \A k \in 1 .. Prefix + size : frame[k] = <<n, k>>
  BY <1>2, <1>3, FrameFacts
<1>5. PICK a \in Int, b \in Int : a = Prefix + 1 /\ b = Prefix + size
  BY <1>2
<1>6. /\ SubSeq(frame, a, b) \in Seq(Byte)
      /\ Len(SubSeq(frame, a, b)) = IF a <= b THEN b - a + 1 ELSE 0
      /\ \A i \in 1 .. b - a + 1 : SubSeq(frame, a, b)[i] = frame[a + i - 1]
  <2>1. \A i \in a .. b : frame[i] \in Byte
    BY <1>2, <1>4, <1>5, ElementOfSeq
  <2> QED
    BY <2>1, SubSeqProperties
<1>7. Body(n) = SubSeq(frame, a, b)
  BY <1>1, <1>3, <1>5 DEF Body
<1>8. Len(Body(n)) = size
  BY <1>2, <1>5, <1>6, <1>7
<1>9. ASSUME NEW k \in 1 .. size
      PROVE  Body(n)[k] = <<n, Prefix + k>>
  <2>1. k \in 1 .. b - a + 1 /\ a + k - 1 = Prefix + k
    BY <1>2, <1>5
  <2>2. Prefix + k \in 1 .. Prefix + size
    BY <1>2
  <2> QED
    BY <1>4, <1>6, <1>7, <2>1, <2>2
<1> QED
  BY <1>1, <1>6, <1>7, <1>8, <1>9

(***************************************************************************)
(* What is pending consists of the bytes read, those on the wire and those *)
(* still to be written, in this order.                                     *)
(***************************************************************************)
LEMMA PendingFacts ==
    ASSUME TypeOK
    PROVE  /\ Pending \in Seq(Byte)
           /\ wire \o writing \in Seq(Byte)
           /\ Len(buf) \in Nat /\ Len(wire \o writing) \in Nat
           /\ Len(Pending) = Len(buf) + Len(wire \o writing)
           /\ \A i \in 1 .. Len(buf) : Pending[i] = buf[i]
           /\ \A i \in 1 .. Len(wire \o writing) :
                 (wire \o writing)[i] = Pending[Len(buf) + i]
<1>1. wire \in Seq(Byte) /\ writing \in Seq(Byte) /\ buf \in Seq(Byte)
  BY DEF TypeOK
<1>2. PICK t \in Seq(Byte) : t = wire \o writing
  BY <1>1, ConcatProperties
<1>3. Len(buf) \in Nat /\ Len(t) \in Nat
  BY <1>1, LenProperties
<1>4. /\ buf \o t \in Seq(Byte)
      /\ Len(buf \o t) = Len(buf) + Len(t)
      /\ \A i \in 1 .. Len(buf) + Len(t) :
            (buf \o t)[i] = IF i <= Len(buf) THEN buf[i] ELSE t[i - Len(buf)]
  BY <1>1, ConcatProperties
<1>5. \A i \in 1 .. Len(t) : t[i] = (buf \o t)[Len(buf) + i]
  <2>1. TAKE i \in 1 .. Len(t)
  <2>2. Len(buf) + i \in 1 .. Len(buf) + Len(t) /\ ~(Len(buf) + i <= Len(buf))
    BY <1>3
  <2>3. Len(buf) + i - Len(buf) = i
    BY <1>3
  <2> QED
    BY <1>4, <2>2, <2>3
<1>6. \A i \in 1 .. Len(buf) : (buf \o t)[i] = buf[i]
  BY <1>3, <1>4
<1> QED
  BY <1>2, <1>3, <1>4, <1>5, <1>6 DEF Pending

(***************************************************************************)
(* A part of consecutive bytes is consecutive.                             *)
(***************************************************************************)
LEMMA PartConsecutive ==
    ASSUME TypeOK, NEW s \in Seq(Byte), NEW t \in Seq(Byte), NEW k \in Nat,
           Consecutive(s),
           k + Len(t) <= Len(s),
           \A i \in 1 .. Len(t) : t[i] = s[k + i]
    PROVE  Consecutive(t)
<1>1. /\ Len(s) \in Nat /\ DOMAIN s = 1 .. Len(s)
      /\ Len(t) \in Nat /\ DOMAIN t = 1 .. Len(t)
  BY LenProperties
<1>2. \A i \in DOMAIN t : k + i \in DOMAIN s /\ t[i] = s[k + i]
  BY <1>1
<1>3. ASSUME NEW i \in DOMAIN t
      PROVE  t[i][1] \in DOMAIN sent /\ t[i][2] \in 1 .. End(t[i][1])
  BY <1>2 DEF Consecutive
<1>4. ASSUME NEW i \in DOMAIN t, NEW j \in DOMAIN t,
             i <= j, t[i][2] + (j - i) <= End(t[i][1])
      PROVE  t[j] = <<t[i][1], t[i][2] + (j - i)>>
  <2>1. (k + j) - (k + i) = j - i /\ k + i <= k + j
    BY <1>1, <1>4
  <2>2. \A x, y \in DOMAIN s :
            x <= y /\ s[x][2] + (y - x) <= End(s[x][1]) =>
                s[y] = <<s[x][1], s[x][2] + (y - x)>>
    BY DEF Consecutive
  <2>3. s[k + j] = <<s[k + i][1], s[k + i][2] + ((k + j) - (k + i))>>
    BY <1>2, <1>4, <2>1, <2>2
  <2> QED
    BY <1>2, <2>1, <2>3
<1>5. ASSUME NEW i \in DOMAIN t, NEW j \in DOMAIN t,
             j = i + 1, t[i][2] = End(t[i][1])
      PROVE  t[j] = <<t[i][1] + 1, 1>>
  <2>1. k + j = (k + i) + 1
    BY <1>1, <1>5
  <2>2. \A x, y \in DOMAIN s :
            y = x + 1 /\ s[x][2] = End(s[x][1]) => s[y] = <<s[x][1] + 1, 1>>
    BY DEF Consecutive
  <2> QED
    BY <1>2, <1>5, <2>1, <2>2
<1> QED
  BY <1>3, <1>4, <1>5 DEF Consecutive

-----------------------------------------------------------------------------
(* Types *)

LEMMA InitType == Init => TypeOK
<1>1. MaxSent \in Nat /\ Prefix \in Nat \ {0} /\ Capacity \in Nat \ {0}
  BY Sizes
<1>2. /\ <<>> \in Seq(Message) /\ <<>> \in Seq(Byte)
      /\ Len(<<>>) = 0
  BY EmptySeq
<1> QED
  BY <1>1, <1>2 DEF Init, TypeOK

LEMMA NextType == TypeOK /\ [Next]_vars => TypeOK'
<1> SUFFICES ASSUME TypeOK, [Next]_vars
             PROVE  TypeOK'
  OBVIOUS
<1>0. /\ sent \in Seq(Message) /\ Len(sent) <= MaxSent /\ Len(sent) \in Nat
      /\ writing \in Seq(Byte) /\ Len(writing) \in Nat
      /\ wire \in Seq(Byte) /\ Len(wire) <= Capacity /\ Len(wire) \in Nat
      /\ buf \in Seq(Byte) /\ Len(buf) <= need /\ Len(buf) \in Nat
      /\ received \in Seq(Message)
      /\ need \in {Prefix} \cup 0 .. Modulus - 1
      /\ MaxSent \in Nat /\ Prefix \in Nat \ {0} /\ Modulus \in Nat \ {0}
      /\ Capacity \in Nat
  BY Sizes, LenProperties DEF TypeOK
<1>e. /\ <<>> \in Seq(Message) /\ <<>> \in Seq(Byte)
      /\ Len(<<>>) = 0
  BY EmptySeq
<1>1. ASSUME NEW m \in Message, SendMsg(m)
      PROVE  TypeOK'
  <2>1. Len(sent) + 1 \in 1 .. MaxSent
    BY <1>0, <1>1 DEF SendMsg
  <2>2. SizeOf[m] \in Nat
    BY Sizes
  <2>3. writing' \in Seq(Byte)
    BY <1>1, <2>1, <2>2, FrameFacts DEF SendMsg
  <2>4. sent' \in Seq(Message) /\ Len(sent') <= MaxSent
    BY <1>0, <1>1, <2>1, AppendProperties DEF SendMsg
  <2> QED
    BY <1>1, <2>3, <2>4 DEF SendMsg, TypeOK
<1>2. CASE Write
  <2>1. PICK n \in 1 .. Len(writing) :
            /\ Len(wire) + n <= Capacity
            /\ wire' = wire \o SubSeq(writing, 1, n)
            /\ writing' = SubSeq(writing, n + 1, Len(writing))
    BY <1>2 DEF Write
  <2>2. n \in 0 .. Len(writing)
    BY <1>0
  <2>3. /\ SubSeq(writing, 1, n) \in Seq(Byte) /\ Len(SubSeq(writing, 1, n)) = n
        /\ writing' \in Seq(Byte)
    BY <1>0, <2>1, <2>2, Cut
  <2>4. wire' \in Seq(Byte) /\ Len(wire') = Len(wire) + n
    BY <1>0, <2>1, <2>3, ConcatProperties
  <2> QED
    BY <1>2, <2>1, <2>3, <2>4 DEF Write, TypeOK
<1>3. CASE WriteToNobody
  BY <1>3, <1>e DEF WriteToNobody, TypeOK
<1>4. CASE Close
  BY <1>4 DEF Close, TypeOK
<1>5. CASE Abort
  <2>1. PICK n \in 0 .. Len(wire) : wire' = SubSeq(wire, 1, n)
    BY <1>5 DEF Abort
  <2>2. wire' \in Seq(Byte) /\ Len(wire') = n
    BY <1>0, <2>1, Cut
  <2>3. Len(wire') <= Capacity
    BY <1>0, <2>2
  <2> QED
    BY <1>5, <1>e, <2>2, <2>3 DEF Abort, TypeOK
<1>6. CASE Read
  <2>1. PICK n \in 1 .. Len(wire) :
            /\ Len(buf) + n <= need
            /\ buf' = buf \o SubSeq(wire, 1, n)
            /\ wire' = SubSeq(wire, n + 1, Len(wire))
    BY <1>6 DEF Read
  <2>2. n \in 0 .. Len(wire)
    BY <1>0
  <2>3. /\ SubSeq(wire, 1, n) \in Seq(Byte) /\ Len(SubSeq(wire, 1, n)) = n
        /\ wire' \in Seq(Byte) /\ Len(wire') = Len(wire) - n
    BY <1>0, <2>1, <2>2, Cut
  <2>4. buf' \in Seq(Byte) /\ Len(buf') = Len(buf) + n
    BY <1>0, <2>1, <2>3, ConcatProperties
  <2>5. Len(wire') <= Capacity
    BY <1>0, <2>2, <2>3
  <2>6. Len(buf') <= need
    BY <2>1, <2>4
  <2> QED
    BY <1>6, <2>3, <2>4, <2>5, <2>6 DEF Read, TypeOK
<1>7. CASE ReadHitsEnd
  BY <1>7 DEF ReadHitsEnd, TypeOK
<1>8. CASE TakeLength
  <2>1. need' \in 0 .. Modulus - 1
    <3>1. CASE \E n \in DOMAIN sent : buf = Frame(n, 0)
      <4>1. PICK n \in DOMAIN sent : buf = Frame(n, 0)
        BY <3>1
      <4>2. n \in 1 .. MaxSent /\ SizeOf[sent[n]] \in Nat
        BY EndFacts
      <4>3. 1 \in 1 .. Prefix + 0
        BY <1>0
      <4>4. buf[1] = <<n, 1>>
        BY <4>1, <4>2, <4>3, FrameFacts
      <4>5. need' = Announced(SizeOf[sent[n]])
        BY <1>8, <3>1, <4>4 DEF TakeLength, Lengths
      <4> QED
        BY <1>0, <4>2, <4>5, ModFacts DEF Announced
    <3>2. CASE ~ \E n \in DOMAIN sent : buf = Frame(n, 0)
      BY <1>8, <3>2 DEF TakeLength, Lengths
    <3> QED
      BY <3>1, <3>2
  <2>2. Len(buf') <= need'
    BY <1>0, <1>8, <1>e, <2>1 DEF TakeLength
  <2> QED
    BY <1>8, <1>e, <2>1, <2>2 DEF TakeLength, TypeOK
<1>9. CASE TakeBody
  <2>1. received' \in Seq(Message)
    <3>1. CASE UNCHANGED received
      BY <1>0, <3>1
    <3>2. ASSUME NEW n \in DOMAIN sent, received' = Append(received, sent[n])
          PROVE  received' \in Seq(Message)
      BY <1>0, <3>2, EndFacts, AppendProperties
    <3> QED
      BY <1>9, <3>1, <3>2 DEF TakeBody
  <2>2. reader' \in {"prefix", "failed"}
    BY <1>9 DEF TakeBody, ReaderAfterError
  <2>3. buf' \in Seq(Byte) /\ Len(buf') <= need' /\ need' = Prefix
    BY <1>0, <1>9, <1>e DEF TakeBody
  <2> QED
    BY <1>9, <2>1, <2>2, <2>3 DEF TakeBody, TypeOK
<1>10. CASE Leave
  BY <1>10 DEF Leave, TypeOK
<1>11. CASE UNCHANGED vars
  BY <1>11 DEF vars, TypeOK
<1> QED
  BY <1>1, <1>2, <1>3, <1>4, <1>5, <1>6, <1>7, <1>8, <1>9, <1>10, <1>11
  DEF Next, WriteAll, RecvMsg

(***************************************************************************)
(* The counters, buffers and messages keep their types, and neither the    *)
(* receive buffer nor the bytes held between the two programs outgrow what *)
(* send_msg and recv_msg (src/net.rs) allow them.                          *)
(***************************************************************************)
THEOREM TypeCorrect == Spec => []TypeOK
<1> QED
  BY InitType, NextType, PTL DEF Spec

-----------------------------------------------------------------------------
(* The invariant *)

LEMMA InitInv == Init => FramingInv
<1> SUFFICES ASSUME Init
             PROVE  FramingInv
  OBVIOUS
<1>1. TypeOK
  BY InitType
<1>2. Len(Pending) = 0
  <2>1. /\ <<>> \in Seq(Byte) /\ Len(<<>>) = 0
    BY EmptySeq
  <2>2. Len(wire \o writing) = 0
    BY <2>1, ConcatProperties DEF Init
  <2> QED
    BY <1>1, <2>1, <2>2, PendingFacts DEF Init
<1>3. Pending = <<>> /\ DOMAIN Pending = {}
  BY <1>1, <1>2, PendingFacts, EmptySeq, LenProperties
<1>4. /\ Len(received) = 0 /\ Len(sent) = 0
      /\ DOMAIN received = {} /\ DOMAIN sent = {}
  BY EmptySeq, LenProperties DEF Init
<1>5. Consecutive(Pending)
  BY <1>3 DEF Consecutive
<1>6. ReceiveInStep
  BY <1>3 DEF ReceiveInStep, Init
<1>7. NothingLost
  BY <1>3, <1>4 DEF NothingLost, Init
<1>8. ReceivedInOrder
  BY <1>4 DEF ReceivedInOrder
<1> QED
  BY <1>5, <1>6, <1>7, <1>8
  DEF FramingInv, ClosedWritesNothing, FailureHasCause, Init

(***************************************************************************)
(* A message sent while nothing is left to write puts a whole frame after  *)
(* what is pending.                                                        *)
(***************************************************************************)
LEMMA SendPends ==
    ASSUME TypeOK, NEW m \in Message, SendMsg(m)
    PROVE  /\ Pending' \in Seq(Byte)
           /\ Len(Pending') = Len(Pending) + (Prefix + SizeOf[m])
           /\ \A i \in 1 .. Len(Pending) : Pending'[i] = Pending[i]
           /\ \A k \in 1 .. Prefix + SizeOf[m] :
                 Pending'[Len(Pending) + k] = <<Len(sent) + 1, k>>
<1> DEFINE frame == Frame(Len(sent) + 1, SizeOf[m])
<1>1. /\ wire \in Seq(Byte) /\ buf \in Seq(Byte)
      /\ Len(sent) \in Nat /\ Len(wire) \in Nat /\ Len(buf) \in Nat
      /\ SizeOf[m] \in Nat /\ Prefix + SizeOf[m] \in Nat
  BY Sizes, LenProperties DEF TypeOK
<1>2. Len(sent) + 1 \in 1 .. MaxSent
  BY <1>1, Sizes DEF SendMsg
<1>3. /\ frame \in Seq(Byte) /\ Len(frame) = Prefix + SizeOf[m]
      /\ \A k \in 1 .. Prefix + SizeOf[m] : frame[k] = <<Len(sent) + 1, k>>
  BY <1>1, <1>2, FrameFacts
<1>4. /\ Pending = buf \o (wire \o <<>>) /\ Pending' = buf \o (wire \o frame)
  BY DEF SendMsg, Pending
<1> HIDE DEF frame
<1>5. wire \o <<>> = wire
  BY <1>1, ConcatEmptySeq
<1>6. Pending = buf \o wire /\ Pending \in Seq(Byte)
  BY <1>1, <1>4, <1>5, ConcatProperties
<1>7. Pending' = Pending \o frame
  <2>1. buf \o (wire \o frame) = (buf \o wire) \o frame
    BY <1>1, <1>3, ConcatAssociative, SMTT(60)
  <2> QED
    BY <1>4, <1>6, <2>1
<1>8. PICK p \in Seq(Byte) : p = Pending
  BY <1>6
<1>9. /\ p \o frame \in Seq(Byte)
      /\ Len(p \o frame) = Len(p) + Len(frame)
      /\ \A i \in 1 .. Len(p) + Len(frame) :
            (p \o frame)[i] = IF i <= Len(p) THEN p[i] ELSE frame[i - Len(p)]
  BY <1>3, ConcatProperties
<1>10. Len(p) \in Nat
  BY LenProperties
<1>11. \A i \in 1 .. Len(p) : (p \o frame)[i] = p[i]
  BY <1>1, <1>3, <1>9, <1>10
<1>12. ASSUME NEW k \in 1 .. Prefix + SizeOf[m]
       PROVE  (p \o frame)[Len(p) + k] = <<Len(sent) + 1, k>>
  <2>1. /\ Len(p) + k \in 1 .. Len(p) + Len(frame)
        /\ ~(Len(p) + k <= Len(p)) /\ Len(p) + k - Len(p) = k
    BY <1>1, <1>3, <1>10
  <2> QED
    BY <1>3, <1>9, <2>1
<1> QED
  BY <1>3, <1>7, <1>8, <1>9, <1>11, <1>12

LEMMA SendInv ==
    ASSUME TypeOK, TypeOK', FramingInv, NEW m \in Message, SendMsg(m)
    PROVE  FramingInv'
<1> DEFINE last == Len(sent) + 1
           size == Prefix + SizeOf[m]
           NewEnd(c) == Prefix + SizeOf[sent'[c]]
<1>1. /\ sent \in Seq(Message) /\ received \in Seq(Message)
      /\ Len(sent) \in Nat /\ DOMAIN sent = 1 .. Len(sent)
      /\ Len(received) \in Nat /\ DOMAIN received = 1 .. Len(received)
      /\ SizeOf[m] \in Nat \ {0} /\ Prefix \in Nat \ {0}
      /\ size \in Nat \ {0} /\ last \in Nat
  <2>1. sent \in Seq(Message) /\ received \in Seq(Message)
    BY DEF TypeOK
  <2>2. SizeOf[m] \in Nat \ {0} /\ Prefix \in Nat \ {0}
    BY Sizes
  <2>3. /\ Len(sent) \in Nat /\ DOMAIN sent = 1 .. Len(sent)
        /\ Len(received) \in Nat /\ DOMAIN received = 1 .. Len(received)
    BY <2>1, LenProperties
  <2> QED
    BY <2>1, <2>2, <2>3
<1>2. /\ Len(sent') = last /\ DOMAIN sent' = 1 .. last
      /\ \A c \in DOMAIN sent : sent'[c] = sent[c]
      /\ sent'[last] = m
  <2>1. sent' = Append(sent, m)
    BY DEF SendMsg
  <2>2. sent' \in Seq(Message) /\ Len(sent') = last
    BY <1>1, <2>1, AppendProperties
  <2>3. DOMAIN sent' = 1 .. last
    BY <1>1, <2>2, LenProperties
  <2> QED
    BY <1>1, <2>1, <2>2, <2>3, AppendProperties
<1>3. /\ \A c \in DOMAIN sent : c \in DOMAIN sent' /\ NewEnd(c) = End(c)
      /\ NewEnd(last) = size
      /\ last \in DOMAIN sent'
  <2>1. \A c \in DOMAIN sent : c \in DOMAIN sent' /\ NewEnd(c) = End(c)
    BY <1>1, <1>2 DEF End
  <2> QED
    BY <1>1, <1>2, <2>1
<1>4. UNCHANGED <<sender, reader, need, received>> /\ sender = "open"
  BY DEF SendMsg
<1>5. ReceivedInOrder'
  BY <1>1, <1>2, <1>4 DEF FramingInv, ReceivedInOrder
<1>6. ClosedWritesNothing'
  BY <1>4 DEF ClosedWritesNothing
<1>7. FailureHasCause'
  BY <1>1, <1>2, <1>4 DEF FramingInv, FailureHasCause, Fits
<1>8. ASSUME Receiving
      PROVE  Consecutive(Pending)' /\ ReceiveInStep' /\ NothingLost'
  <2>0. Consecutive(Pending) /\ ReceiveInStep /\ NothingLost
    BY <1>8 DEF FramingInv
  <2>1. PICK p \in Seq(Byte) : p = Pending
    BY PendingFacts
  <2>2. PICK q \in Seq(Byte) : q = Pending'
    BY SendPends
  <2>3. /\ Len(p) \in Nat /\ DOMAIN p = 1 .. Len(p)
        /\ Len(q) = Len(p) + size /\ DOMAIN q = 1 .. Len(p) + size
        /\ \A i \in 1 .. Len(p) : q[i] = p[i]
        /\ \A k \in 1 .. size : q[Len(p) + k] = <<last, k>>
    BY <2>1, <2>2, SendPends, LenProperties
  <2> HIDE DEF last, size, NewEnd
  <2>4. \A i \in DOMAIN q :
            \/ i \in DOMAIN p /\ q[i] = p[i]
            \/ \E k \in 1 .. size : i = Len(p) + k /\ q[i] = <<last, k>>
    <3>1. TAKE i \in DOMAIN q
    <3>2. CASE i <= Len(p)
      BY <1>1, <2>3, <3>2
    <3>3. CASE ~(i <= Len(p))
      <4>1. i - Len(p) \in 1 .. size /\ i = Len(p) + (i - Len(p))
        BY <1>1, <2>3, <3>3
      <4> QED
        BY <2>3, <4>1
    <3> QED
      BY <3>2, <3>3
  <2>5. ASSUME p # <<>>
        PROVE  /\ Len(p) \in DOMAIN p
               /\ p[Len(p)] = <<Len(sent), End(Len(sent))>>
               /\ Len(sent) \in DOMAIN sent
    <3>1. Len(p) \in DOMAIN p
      BY <2>3, <2>5, EmptySeq
    <3>2. p[Len(p)] = <<Len(sent), End(Len(sent))>>
      BY <1>4, <2>0, <2>1, <2>5 DEF NothingLost
    <3>3. p[Len(p)][1] \in DOMAIN sent
      BY <2>0, <2>1, <3>1 DEF Consecutive
    <3> QED
      BY <3>1, <3>2, <3>3
  <2>6. Consecutive(Pending)'
    <3>1. ASSUME NEW i \in DOMAIN q
          PROVE  q[i][1] \in DOMAIN sent' /\ q[i][2] \in 1 .. NewEnd(q[i][1])
      <4>1. CASE i \in DOMAIN p /\ q[i] = p[i]
        <5>1. p[i][1] \in DOMAIN sent /\ p[i][2] \in 1 .. End(p[i][1])
          BY <2>0, <2>1, <4>1 DEF Consecutive
        <5>2. NewEnd(p[i][1]) = End(p[i][1]) /\ p[i][1] \in DOMAIN sent'
          BY <1>3, <5>1
        <5> QED
          BY <4>1, <5>1, <5>2
      <4>2. ASSUME NEW k \in 1 .. size, q[i] = <<last, k>>
            PROVE  q[i][1] \in DOMAIN sent' /\ q[i][2] \in 1 .. NewEnd(q[i][1])
        BY <1>3, <4>2
      <4> QED
        BY <2>4, <4>1, <4>2
    <3>2. ASSUME NEW i \in DOMAIN q, NEW j \in DOMAIN q,
                 i <= j, q[i][2] + (j - i) <= NewEnd(q[i][1])
          PROVE  q[j] = <<q[i][1], q[i][2] + (j - i)>>
      <4>1. CASE i \in DOMAIN p /\ q[i] = p[i] /\ j \in DOMAIN p /\ q[j] = p[j]
        <5>1. p[i][1] \in DOMAIN sent
          BY <2>0, <2>1, <4>1 DEF Consecutive
        <5>2. p[i][2] + (j - i) <= End(p[i][1])
          BY <1>3, <3>2, <4>1, <5>1
        <5> QED
          BY <2>0, <2>1, <3>2, <4>1, <5>2 DEF Consecutive
      <4>2. ASSUME i \in DOMAIN p, q[i] = p[i],
                   NEW k \in 1 .. size, j = Len(p) + k
            PROVE  FALSE
        <5>1. p[i][1] \in DOMAIN sent /\ p[i][2] \in 1 .. End(p[i][1])
          BY <2>0, <2>1, <4>2 DEF Consecutive
        <5>2. End(p[i][1]) \in Nat /\ NewEnd(p[i][1]) = End(p[i][1])
          BY <1>3, <5>1, EndFacts
        <5>3. i <= Len(p) /\ p[i][2] + (Len(p) - i) < End(p[i][1])
          BY <1>1, <2>3, <3>2, <4>2, <5>1, <5>2
        <5>4. p # <<>>
          BY <2>3, <4>2, EmptySeq
        <5>5. p[Len(p)] = <<p[i][1], p[i][2] + (Len(p) - i)>>
          <6>1. \A x, y \in DOMAIN p :
                    x <= y /\ p[x][2] + (y - x) <= End(p[x][1]) =>
                        p[y] = <<p[x][1], p[x][2] + (y - x)>>
            BY <2>0, <2>1 DEF Consecutive
          <6>2. Len(p) \in DOMAIN p /\ i \in DOMAIN p
            BY <2>5, <4>2, <5>4
          <6>3. p[i][2] + (Len(p) - i) <= End(p[i][1])
            BY <2>3, <5>1, <5>2, <5>3, <6>2
          <6> QED
            BY <5>3, <6>1, <6>2, <6>3
        <5>6. p[i][1] = Len(sent) /\ p[i][2] + (Len(p) - i) = End(Len(sent))
          BY <2>5, <5>4, <5>5
        <5> QED
          BY <2>3, <4>2, <5>1, <5>2, <5>3, <5>6
      <4>3. ASSUME NEW k \in 1 .. size, i = Len(p) + k, q[i] = <<last, k>>
            PROVE  q[j] = <<q[i][1], q[i][2] + (j - i)>>
        <5>1. k + (j - i) = j - Len(p) /\ j - Len(p) \in 1 .. size
          BY <1>1, <2>3, <3>2, <4>3
        <5>2. j = Len(p) + (j - Len(p))
          BY <2>3
        <5> QED
          BY <2>3, <4>3, <5>1, <5>2
      <4> QED
        BY <2>4, <4>1, <4>2, <4>3
    <3>3. ASSUME NEW i \in DOMAIN q, NEW j \in DOMAIN q,
                 j = i + 1, q[i][2] = NewEnd(q[i][1])
          PROVE  q[j] = <<q[i][1] + 1, 1>>
      <4>1. CASE i \in DOMAIN p /\ q[i] = p[i] /\ j \in DOMAIN p /\ q[j] = p[j]
        <5>1. p[i][1] \in DOMAIN sent
          BY <2>0, <2>1, <4>1 DEF Consecutive
        <5>2. p[i][2] = End(p[i][1])
          BY <1>3, <3>3, <4>1, <5>1
        <5> QED
          BY <2>0, <2>1, <3>3, <4>1, <5>2 DEF Consecutive
      <4>2. ASSUME i \in DOMAIN p, q[i] = p[i],
                   NEW k \in 1 .. size, j = Len(p) + k, q[j] = <<last, k>>
            PROVE  q[j] = <<q[i][1] + 1, 1>>
        <5>1. i = Len(p) /\ k = 1 /\ p # <<>>
          BY <1>1, <2>3, <3>3, <4>2, EmptySeq
        <5>2. q[i][1] = Len(sent)
          BY <2>5, <4>2, <5>1
        <5> QED
          BY <4>2, <5>1, <5>2 DEF last
      <4>3. ASSUME NEW k \in 1 .. size, i = Len(p) + k, q[i] = <<last, k>>
            PROVE  FALSE
        <5>1. k = size
          BY <1>3, <3>3, <4>3
        <5> QED
          BY <1>1, <2>3, <3>3, <4>3, <5>1
      <4> QED
        BY <2>4, <4>1, <4>2, <4>3
    <3> QED
      BY <2>2, <3>1, <3>2, <3>3 DEF Consecutive, End, NewEnd
  <2>7. ReceiveInStep'
    <3> DEFINE n == Len(received) + 1
    <3>1. ASSUME reader = "prefix"
          PROVE  need = Prefix /\ q[1] = <<n, 1>>
      <4>1. need = Prefix
        BY <2>0, <3>1 DEF ReceiveInStep
      <4>2. CASE p = <<>>
        <5>1. Len(p) = 0 /\ Len(received) = Len(sent)
          BY <1>4, <2>0, <2>1, <4>2, EmptySeq DEF NothingLost
        <5>2. q[Len(p) + 1] = <<last, 1>>
          BY <1>1, <2>3
        <5> QED
          BY <4>1, <5>1, <5>2 DEF last
      <4>3. CASE p # <<>>
        <5>1. p[1] = <<n, 1>>
          BY <2>0, <2>1, <3>1, <4>3 DEF ReceiveInStep
        <5>2. 1 \in 1 .. Len(p)
          BY <2>3, <2>5, <4>3
        <5> QED
          BY <2>3, <4>1, <5>1, <5>2
      <4> QED
        BY <4>2, <4>3
    <3>2. ASSUME reader = "body"
          PROVE  /\ n \in DOMAIN sent'
                 /\ need = Announced(SizeOf[sent'[n]])
                 /\ q[1] = <<n, Prefix + 1>>
      <4>1. p # <<>>
        BY <1>4, <2>0, <2>1, <3>2 DEF NothingLost
      <4>2. /\ n \in DOMAIN sent
            /\ need = Announced(SizeOf[sent[n]])
            /\ p[1] = <<n, Prefix + 1>>
        BY <2>0, <2>1, <3>2, <4>1 DEF ReceiveInStep
      <4>3. 1 \in 1 .. Len(p)
        BY <2>3, <2>5, <4>1
      <4> QED
        BY <1>2, <1>3, <2>3, <4>2, <4>3
    <3> QED
      BY <1>4, <2>2, <3>1, <3>2 DEF ReceiveInStep, Announced
  <2>8. NothingLost'
    <3>1. Len(q) \in DOMAIN q /\ q # <<>>
      BY <1>1, <2>3, EmptySeq
    <3>2. q[Len(q)] = <<last, size>>
      <4>1. size \in 1 .. size
        BY <1>1
      <4> QED
        BY <2>3, <4>1
    <3> QED
      BY <1>2, <1>3, <1>4, <2>2, <3>1, <3>2 DEF NothingLost, End, NewEnd
  <2> QED
    BY <2>6, <2>7, <2>8
<1> QED
  BY <1>4, <1>5, <1>6, <1>7, <1>8 DEF FramingInv, Receiving

(***************************************************************************)
(* A step that neither sends nor takes what is pending.                    *)
(***************************************************************************)
LEMMA StableInv ==
    ASSUME FramingInv, ClosedWritesNothing',
           UNCHANGED <<sent, sender, reader, need, received, Pending>>
    PROVE  FramingInv'
<1>1. Consecutive(Pending) => Consecutive(Pending)'
  BY DEF Consecutive, End
<1>2. ReceiveInStep => ReceiveInStep'
  BY DEF ReceiveInStep, Announced
<1>3. NothingLost => NothingLost'
  BY DEF NothingLost, End
<1>4. ReceivedInOrder => ReceivedInOrder'
  BY DEF ReceivedInOrder
<1>5. FailureHasCause => FailureHasCause'
  BY DEF FailureHasCause, Fits
<1> QED
  BY <1>1, <1>2, <1>3, <1>4, <1>5 DEF FramingInv, Receiving

LEMMA WriteInv ==
    ASSUME TypeOK, FramingInv, Write
    PROVE  FramingInv'
<1>1. /\ writing \in Seq(Byte) /\ wire \in Seq(Byte) /\ Len(writing) \in Nat
  BY LenProperties DEF TypeOK
<1>2. PICK n \in 1 .. Len(writing) :
          /\ wire' = wire \o SubSeq(writing, 1, n)
          /\ writing' = SubSeq(writing, n + 1, Len(writing))
  BY DEF Write
<1>3. n \in 0 .. Len(writing)
  BY <1>1
<1>4. wire' \o writing' = wire \o writing
  BY <1>1, <1>2, <1>3, Moved
<1>5. Pending' = Pending
  BY <1>4 DEF Pending, Write
<1>6. writing # <<>>
  BY <1>1, <1>2, EmptySeq
<1>7. ClosedWritesNothing'
  BY <1>6 DEF FramingInv, ClosedWritesNothing, Write
<1> QED
  BY <1>5, <1>7, StableInv DEF Write

LEMMA ReadInv ==
    ASSUME TypeOK, FramingInv, Read
    PROVE  FramingInv'
<1>1. /\ buf \in Seq(Byte) /\ wire \in Seq(Byte) /\ writing \in Seq(Byte)
      /\ Len(wire) \in Nat
  BY LenProperties DEF TypeOK
<1>2. PICK n \in 1 .. Len(wire) :
          /\ buf' = buf \o SubSeq(wire, 1, n)
          /\ wire' = SubSeq(wire, n + 1, Len(wire))
  BY DEF Read
<1>3. n \in 0 .. Len(wire)
  BY <1>1
<1>4. PICK rest \in Seq(Byte) : rest = SubSeq(wire, n + 1, Len(wire)) \o writing
  BY <1>1, <1>3, Cut, ConcatProperties
<1>5. Pending' = Pending
  <2>1. PICK a \in Seq(Byte) : a = SubSeq(wire, 1, n)
    BY <1>1, <1>3, Cut
  <2>2. PICK b \in Seq(Byte) : b = SubSeq(wire, n + 1, Len(wire))
    BY <1>1, <1>3, Cut
  <2>3. a \o b = wire
    BY <1>1, <1>3, <2>1, <2>2, Joined
  <2>4. (a \o b) \o writing = a \o (b \o writing)
    BY <1>1, ConcatAssociative, SMTT(60)
  <2>5. (buf \o a) \o rest = buf \o (a \o rest)
    BY <1>1, ConcatAssociative, SMTT(60)
  <2> QED
    BY <1>2, <1>4, <2>1, <2>2, <2>3, <2>4, <2>5 DEF Pending, Read
<1>6. ClosedWritesNothing'
  BY DEF FramingInv, ClosedWritesNothing, Read
<1> QED
  BY <1>5, <1>6, StableInv DEF Read

LEMMA CloseInv ==
    ASSUME FramingInv, Close
    PROVE  FramingInv'
<1>1. /\ UNCHANGED <<sent, writing, wire, reader, buf, need, received>>
      /\ sender' = "closed" /\ writing' = <<>>
  BY DEF Close
<1>2. Pending' = Pending
  BY <1>1 DEF Pending
<1>3. Consecutive(Pending) => Consecutive(Pending)'
  BY <1>1, <1>2 DEF Consecutive, End
<1>4. ReceiveInStep => ReceiveInStep'
  BY <1>1, <1>2 DEF ReceiveInStep, Announced
<1>5. ReceivedInOrder' /\ ClosedWritesNothing' /\ NothingLost' /\ FailureHasCause'
  BY <1>1 DEF FramingInv, ReceivedInOrder, ClosedWritesNothing, NothingLost, FailureHasCause
<1> QED
  BY <1>1, <1>3, <1>4, <1>5 DEF FramingInv, Receiving

(***************************************************************************)
(* A connection that breaks keeps a first part of what was pending.        *)
(***************************************************************************)
LEMMA AbortInv ==
    ASSUME TypeOK, TypeOK', FramingInv, Abort
    PROVE  FramingInv'
<1>1. /\ buf \in Seq(Byte) /\ wire \in Seq(Byte) /\ writing \in Seq(Byte)
      /\ Len(wire) \in Nat /\ Len(buf) \in Nat /\ Len(writing) \in Nat
  BY LenProperties DEF TypeOK
<1>2. PICK n \in 0 .. Len(wire) : wire' = SubSeq(wire, 1, n)
  BY DEF Abort
<1>3. PICK kept \in Seq(Byte) : kept = SubSeq(wire, 1, n)
  BY <1>1, <1>2, Cut
<1>4. Len(kept) = n /\ \A i \in 1 .. n : kept[i] = wire[i]
  BY <1>1, <1>3, Cut
<1>5. Pending' = buf \o kept
  <2>1. kept \o <<>> = kept
    BY ConcatEmptySeq
  <2> QED
    BY <1>2, <1>3, <2>1 DEF Pending, Abort
<1>6. PICK q \in Seq(Byte) : q = Pending'
  BY <1>1, <1>5, ConcatProperties
<1>7. PICK p \in Seq(Byte) : p = Pending
  BY PendingFacts
<1>8. /\ Len(q) = Len(buf) + n
      /\ Len(p) \in Nat /\ Len(q) <= Len(p)
      /\ \A i \in 1 .. Len(q) : q[i] = p[i]
  <2>1. PICK t \in Seq(Byte) : t = wire \o writing
    BY <1>1, ConcatProperties
  <2>2. /\ Len(t) = Len(wire) + Len(writing)
        /\ \A i \in 1 .. Len(wire) : t[i] = wire[i]
    BY <1>1, <2>1, ConcatProperties
  <2>3. /\ p = buf \o t /\ Len(p) = Len(buf) + Len(t)
        /\ \A i \in 1 .. Len(buf) + Len(t) :
              p[i] = IF i <= Len(buf) THEN buf[i] ELSE t[i - Len(buf)]
    BY <1>1, <1>7, <2>1, ConcatProperties DEF Pending
  <2>4. /\ q = buf \o kept /\ Len(q) = Len(buf) + n
        /\ \A i \in 1 .. Len(buf) + n :
              q[i] = IF i <= Len(buf) THEN buf[i] ELSE kept[i - Len(buf)]
    BY <1>1, <1>4, <1>5, <1>6, ConcatProperties
  <2>5. ASSUME NEW i \in 1 .. Len(q)
        PROVE  q[i] = p[i]
    <3>1. CASE i <= Len(buf)
      BY <1>1, <2>2, <2>3, <2>4, <2>5, <3>1
    <3>2. CASE ~(i <= Len(buf))
      <4>1. i - Len(buf) \in 1 .. n /\ i - Len(buf) \in 1 .. Len(wire)
        BY <1>1, <2>4, <3>2
      <4>2. i \in 1 .. Len(buf) + Len(t)
        BY <1>1, <2>2, <2>4
      <4> QED
        BY <1>4, <2>2, <2>3, <2>4, <3>2, <4>1, <4>2
    <3> QED
      BY <3>1, <3>2
  <2> QED
    BY <1>1, <2>2, <2>3, <2>4, <2>5
<1>9. UNCHANGED <<sent, reader, need, received>> /\ sender' = "closed"
      /\ writing' = <<>>
  BY DEF Abort
<1>10. ASSUME Receiving
       PROVE  Consecutive(Pending)' /\ ReceiveInStep' /\ NothingLost'
  <2>1. Consecutive(p) /\ ReceiveInStep
    BY <1>7, <1>10 DEF FramingInv
  <2>2. 0 \in Nat /\ 0 + Len(q) <= Len(p) /\ \A i \in 1 .. Len(q) : q[i] = p[0 + i]
    BY <1>8, LenProperties
  <2>3. Consecutive(q)
    BY <2>1, <2>2, PartConsecutive
  <2>4. Consecutive(Pending)'
    BY <1>6, <1>9, <2>3 DEF Consecutive, End
  <2>5. q # <<>> => p # <<>> /\ q[1] = p[1]
    BY <1>8, EmptySeq, LenProperties
  <2>6. ReceiveInStep'
    BY <1>6, <1>7, <1>9, <2>1, <2>5 DEF ReceiveInStep, Announced
  <2>7. NothingLost'
    BY <1>9 DEF NothingLost
  <2> QED
    BY <2>4, <2>6, <2>7
<1>11. ReceivedInOrder' /\ ClosedWritesNothing' /\ FailureHasCause'
  BY <1>9 DEF FramingInv, ReceivedInOrder, ClosedWritesNothing, FailureHasCause
<1> QED
  BY <1>9, <1>10, <1>11 DEF FramingInv, Receiving

(***************************************************************************)
(* When what was read is taken, what follows it is pending.                *)
(***************************************************************************)
LEMMA RestFacts ==
    ASSUME TypeOK, Consecutive(Pending), buf' = <<>>, UNCHANGED <<sent, wire, writing>>
    PROVE  /\ Pending' \in Seq(Byte)
           /\ Len(Pending) \in Nat /\ Len(buf) \in Nat
           /\ Len(Pending') = Len(Pending) - Len(buf)
           /\ \A i \in 1 .. Len(Pending') : Pending'[i] = Pending[Len(buf) + i]
           /\ Consecutive(Pending)'
<1>1. PICK t \in Seq(Byte) : t = wire \o writing
  BY PendingFacts
<1>2. Pending' = t
  <2>1. <<>> \o t = t
    BY ConcatEmptySeq
  <2> QED
    BY <1>1, <2>1 DEF Pending
<1>3. /\ Pending \in Seq(Byte)
      /\ Len(buf) \in Nat /\ Len(t) \in Nat
      /\ Len(Pending) = Len(buf) + Len(t)
      /\ \A i \in 1 .. Len(t) : t[i] = Pending[Len(buf) + i]
  BY <1>1, PendingFacts
<1>4. PICK p \in Seq(Byte) : p = Pending
  BY <1>3
<1>5. Consecutive(p)
  BY <1>4
<1>6. Len(buf) + Len(t) <= Len(p) /\ \A i \in 1 .. Len(t) : t[i] = p[Len(buf) + i]
  BY <1>3, <1>4
<1>7. Consecutive(t)
  BY <1>3, <1>5, <1>6, PartConsecutive
<1>8. Consecutive(Pending)'
  BY <1>2, <1>7 DEF Consecutive, End
<1> QED
  BY <1>2, <1>3, <1>8

(***************************************************************************)
(* The bytes of a message come one after the other and the first of the    *)
(* next message comes after the last.                                      *)
(***************************************************************************)
LEMMA FrontFacts ==
    ASSUME TypeOK, Consecutive(Pending), Pending # <<>>,
           NEW n, NEW k \in Nat, Pending[1] = <<n, k + 1>>
    PROVE  /\ n \in DOMAIN sent /\ 1 \in 1 .. Len(Pending)
           /\ k + 1 <= End(n)
           /\ \A i \in 1 .. Len(Pending) : k + i <= End(n) => Pending[i] = <<n, k + i>>
           /\ \A i \in 1 .. Len(Pending) :
                 i = End(n) - k + 1 => Pending[i] = <<n + 1, 1>>
<1>1. PICK p \in Seq(Byte) : p = Pending
  BY PendingFacts
<1>2. Len(p) \in Nat /\ DOMAIN p = 1 .. Len(p) /\ 1 \in 1 .. Len(p)
  BY <1>1, EmptySeq, LenProperties
<1>3. p[1][1] = n /\ p[1][2] = k + 1
  BY <1>1
<1>4. n \in DOMAIN sent /\ k + 1 <= End(n)
  BY <1>1, <1>2, <1>3 DEF Consecutive
<1>5. End(n) \in Nat
  BY <1>4, EndFacts
<1>6. ASSUME NEW i \in 1 .. Len(p), k + i <= End(n)
      PROVE  p[i] = <<n, k + i>>
  <2>1. 1 <= i /\ p[1][2] + (i - 1) = k + i
    BY <1>2, <1>3
  <2>2. \A x, y \in DOMAIN p :
            x <= y /\ p[x][2] + (y - x) <= End(p[x][1]) =>
                p[y] = <<p[x][1], p[x][2] + (y - x)>>
    BY <1>1 DEF Consecutive
  <2> QED
    BY <1>2, <1>3, <1>6, <2>1, <2>2
<1>7. ASSUME NEW i \in 1 .. Len(p), i = End(n) - k + 1
      PROVE  p[i] = <<n + 1, 1>>
  <2>1. /\ i - 1 \in 1 .. Len(p) /\ k + (i - 1) = End(n) /\ k + (i - 1) <= End(n)
        /\ i = (i - 1) + 1
    <3>1. PICK e \in Nat : e = End(n)
      BY <1>5
    <3>2. PICK l \in Nat : l = Len(p)
      BY <1>2
    <3>3. k + 1 <= e /\ i \in 1 .. l /\ i = e - k + 1
      BY <1>4, <1>7, <3>1, <3>2
    <3>4. i - 1 \in 1 .. l /\ k + (i - 1) = e /\ k + (i - 1) <= e /\ i = (i - 1) + 1
      BY <3>3
    <3> QED
      BY <3>1, <3>2, <3>4
  <2>2. p[i - 1] = <<n, End(n)>>
    BY <1>6, <2>1
  <2>3. \A x, y \in DOMAIN p :
            y = x + 1 /\ p[x][2] = End(p[x][1]) => p[y] = <<p[x][1] + 1, 1>>
    BY <1>1 DEF Consecutive
  <2> QED
    BY <1>2, <2>1, <2>2, <2>3
<1> QED
  BY <1>1, <1>2, <1>4, <1>6, <1>7

LEMMA TakeLengthInv ==
    ASSUME TypeOK, FramingInv, TakeLength
    PROVE  FramingInv'
<1> DEFINE n == Len(received) + 1
<1>1. /\ reader = "prefix" /\ Len(buf) = need /\ reader' = "body" /\ buf' = <<>>
      /\ need' \in Lengths(buf)
      /\ UNCHANGED <<sent, writing, wire, sender, received>>
  BY DEF TakeLength, ReadComplete
<1>2. Consecutive(Pending) /\ ReceiveInStep /\ NothingLost
  BY <1>1 DEF FramingInv, Receiving
<1>3. need = Prefix /\ Prefix \in Nat \ {0}
  BY <1>1, <1>2, Sizes DEF ReceiveInStep
<1>4. PICK p \in Seq(Byte) : p = Pending
  BY PendingFacts
<1>5. /\ Len(p) \in Nat /\ Len(p) >= Prefix
      /\ \A i \in 1 .. Prefix : p[i] = buf[i]
      /\ p # <<>>
  <2>1. Len(p) \in Nat /\ Len(p) >= Prefix /\ \A i \in 1 .. Prefix : p[i] = buf[i]
    BY <1>1, <1>3, <1>4, PendingFacts
  <2> QED
    BY <1>3, <2>1, EmptySeq
<1>6. Len(received) \in Nat /\ n \in Nat
  BY LenProperties DEF TypeOK
<1> HIDE DEF n
<1>7. p[1] = <<n, 0 + 1>>
  BY <1>1, <1>2, <1>4, <1>5 DEF ReceiveInStep, n
<1>8. /\ n \in DOMAIN sent
      /\ \A i \in 1 .. Len(p) : 0 + i <= End(n) => p[i] = <<n, 0 + i>>
  BY <1>2, <1>4, <1>5, <1>7, FrontFacts
<1>9. /\ End(n) \in Nat /\ End(n) > Prefix
      /\ n \in 1 .. Len(sent) /\ n \in 1 .. MaxSent
  BY <1>8, EndFacts
<1>10. buf = Frame(n, 0)
  <2>1. buf \in Seq(Byte) /\ Len(buf) = Prefix
    BY <1>1, <1>3 DEF TypeOK
  <2>2. PICK frame \in Seq(Byte) : frame = Frame(n, 0)
    BY <1>9, FrameFacts
  <2>3. Len(frame) = Prefix + 0 /\ \A k \in 1 .. Prefix + 0 : frame[k] = <<n, k>>
    BY <1>9, <2>2, FrameFacts
  <2>4. ASSUME NEW i \in 1 .. Prefix
        PROVE  buf[i] = frame[i]
    <3>1. i \in 1 .. Len(p) /\ 0 + i <= End(n) /\ 0 + i = i /\ i \in 1 .. Prefix + 0
      BY <1>3, <1>5, <1>9
    <3> QED
      BY <1>5, <1>8, <2>3, <3>1
  <2>5. Len(frame) = Prefix
    BY <1>3, <2>3
  <2> QED
    BY <2>1, <2>2, <2>4, <2>5, SeqEqual
<1>11. need' = Announced(SizeOf[sent[n]])
  <2>1. buf[1][1] = n
    BY <1>3, <1>5, <1>7
  <2> QED
    BY <1>1, <1>8, <1>10, <2>1 DEF Lengths
<1>12. /\ Pending' \in Seq(Byte)
       /\ Len(Pending') = Len(p) - Prefix
       /\ \A i \in 1 .. Len(Pending') : Pending'[i] = p[Prefix + i]
       /\ Consecutive(Pending)'
  BY <1>1, <1>2, <1>3, <1>4, RestFacts
<1>13. PICK q \in Seq(Byte) : q = Pending'
  BY <1>12
<1>14. /\ Len(q) = Len(p) - Prefix /\ \A i \in 1 .. Len(q) : q[i] = p[Prefix + i]
       /\ q # <<>> <=> Len(q) >= 1
  BY <1>12, <1>13, EmptySeq, LenProperties
<1>15. ReceiveInStep'
  <2>1. ASSUME q # <<>>
        PROVE  q[1] = <<n, Prefix + 1>>
    <3>1. /\ 1 \in 1 .. Len(q) /\ Prefix + 1 \in 1 .. Len(p)
          /\ 0 + (Prefix + 1) <= End(n) /\ 0 + (Prefix + 1) = Prefix + 1
      BY <1>3, <1>5, <1>9, <1>14, <2>1
    <3> QED
      BY <1>8, <1>14, <3>1
  <2> QED
    BY <1>1, <1>8, <1>11, <1>13, <2>1 DEF ReceiveInStep, Announced, n
<1>16. NothingLost'
  <2>1. ASSUME sender = "open"
        PROVE  q # <<>> /\ q[Len(q)] = <<Len(sent), End(Len(sent))>>
    <3>1. p[Len(p)] = <<Len(sent), End(Len(sent))>>
      BY <1>2, <1>4, <1>5, <2>1 DEF NothingLost
    <3>2. ASSUME q = <<>>
          PROVE  FALSE
      <4>1. Len(p) = Prefix
        BY <1>3, <1>5, <1>14, <3>2, EmptySeq
      <4>2. p[Len(p)] = <<n, 0 + Len(p)>> /\ 0 + Len(p) = Prefix
        BY <1>3, <1>5, <1>8, <1>9, <4>1
      <4>3. n = Len(sent) /\ Prefix = End(Len(sent))
        BY <3>1, <4>2
      <4> QED
        BY <1>3, <1>9, <4>3
    <3>3. Len(q) \in 1 .. Len(q) /\ Prefix + Len(q) = Len(p)
      BY <1>3, <1>5, <1>14, <3>2
    <3> QED
      BY <1>14, <3>1, <3>2, <3>3
  <2> QED
    BY <1>1, <1>13, <2>1 DEF NothingLost, End
<1>17. ReceivedInOrder' /\ ClosedWritesNothing' /\ FailureHasCause'
  BY <1>1 DEF FramingInv, ReceivedInOrder, ClosedWritesNothing, FailureHasCause
<1> QED
  BY <1>12, <1>15, <1>16, <1>17 DEF FramingInv

(***************************************************************************)
(* What a whole read of a body holds decodes as the next message or not at *)
(* all, and as that message if its length fits and the sender is there.    *)
(***************************************************************************)
LEMMA BodyRead ==
    ASSUME TypeOK, FramingInv, reader = "body", ReadComplete,
           NEW n, n = Len(received) + 1
    PROVE  /\ n \in DOMAIN sent
           /\ \A c \in DOMAIN sent : Decodes(c) => c = n /\ Len(buf) = SizeOf[sent[n]]
           /\ sender = "open" /\ Fits(sent[n]) => Decodes(n)
           /\ sender = "open" => Pending # <<>>
           /\ Pending # <<>> => Pending[1] = <<n, Prefix + 1>>
<1>1. /\ Consecutive(Pending) /\ NothingLost
      /\ n \in DOMAIN sent
      /\ need = Announced(SizeOf[sent[n]])
      /\ Pending # <<>> => Pending[1] = <<n, Prefix + 1>>
      /\ sender = "open" => Pending # <<>>
  BY DEF FramingInv, Receiving, ReceiveInStep, NothingLost
<1>2. PICK size \in Nat \ {0} : size = SizeOf[sent[n]]
  BY <1>1, EndFacts
<1>3. /\ Prefix \in Nat \ {0} /\ End(n) = Prefix + size
      /\ Len(buf) = size % Modulus
  BY <1>1, <1>2, EndFacts DEF ReadComplete, Announced
<1>4. /\ Len(buf) <= size
      /\ size < Modulus => Len(buf) = size
  BY <1>2, <1>3, Sizes, ModFacts
<1>5. PICK p \in Seq(Byte) : p = Pending
  BY PendingFacts
<1>6. /\ buf \in Seq(Byte) /\ Len(buf) \in Nat /\ Len(p) \in Nat /\ Len(buf) <= Len(p)
      /\ \A i \in 1 .. Len(buf) : p[i] = buf[i]
  <2>1. buf \in Seq(Byte)
    BY DEF TypeOK
  <2>2. /\ Len(buf) \in Nat /\ Len(wire \o writing) \in Nat
        /\ Len(p) = Len(buf) + Len(wire \o writing)
        /\ \A i \in 1 .. Len(buf) : p[i] = buf[i]
    BY <1>5, PendingFacts
  <2> QED
    BY <2>1, <2>2
<1>7. ASSUME p # <<>>
      PROVE  \A i \in 1 .. Len(p) : Prefix + i <= End(n) => p[i] = <<n, Prefix + i>>
  <2>1. Prefix \in Nat /\ p[1] = <<n, Prefix + 1>>
    BY <1>1, <1>3, <1>5, <1>7
  <2> QED
    BY <1>1, <1>5, <1>7, <2>1, FrontFacts
<1>8. ASSUME NEW c \in DOMAIN sent, Decodes(c)
      PROVE  c = n /\ Len(buf) = size
  <2>1. SizeOf[sent[c]] \in Nat \ {0}
    BY EndFacts
  <2>2. /\ SizeOf[sent[c]] <= Len(buf)
        /\ \A i \in 1 .. SizeOf[sent[c]] : buf[i] = <<c, Prefix + i>>
    <3>1. PICK b \in Seq(Byte) : b = Body(c)
      BY BodyFacts
    <3>2. IsPrefix(b, buf)
      BY <1>8, <3>1 DEF Decodes
    <3>3. Len(b) <= Len(buf) /\ \A i \in 1 .. Len(b) : buf[i] = b[i]
      BY <1>6, <3>2, PrefixFacts
    <3> QED
      BY <3>1, <3>3, BodyFacts
  <2>3. 1 \in 1 .. SizeOf[sent[c]] /\ 1 \in 1 .. Len(buf) /\ 1 \in 1 .. Len(p)
    BY <1>6, <2>1, <2>2
  <2>4. p # <<>> /\ p[1] = <<c, Prefix + 1>>
    BY <1>6, <2>2, <2>3, EmptySeq
  <2>5. c = n
    BY <1>1, <1>5, <2>4
  <2> QED
    BY <1>2, <1>4, <1>6, <2>2, <2>5
<1>9. ASSUME sender = "open", Fits(sent[n])
      PROVE  Decodes(n)
  <2>1. Len(buf) = size
    BY <1>2, <1>4, <1>9 DEF Fits
  <2>2. p # <<>>
    BY <1>1, <1>5, <1>9
  <2>3. PICK b \in Seq(Byte) : b = Body(n)
    BY <1>1, BodyFacts
  <2>4. Len(b) = size /\ \A i \in 1 .. size : b[i] = <<n, Prefix + i>>
    BY <1>1, <1>2, <2>3, BodyFacts
  <2>5. \A i \in 1 .. size : buf[i] = b[i]
    <3>1. \A i \in 1 .. size : i \in 1 .. Len(p) /\ Prefix + i <= End(n)
      BY <1>2, <1>3, <1>6, <2>1
    <3> QED
      BY <1>6, <1>7, <2>1, <2>2, <2>4, <3>1
  <2>6. IsPrefix(b, buf)
    BY <1>2, <1>6, <2>1, <2>4, <2>5, PrefixFacts
  <2> QED
    BY <2>3, <2>6 DEF Decodes
<1> QED
  BY <1>1, <1>2, <1>8, <1>9

LEMMA TakeBodyInv ==
    ASSUME TypeOK, TypeOK', FramingInv, TakeBody
    PROVE  FramingInv'
<1>1. PICK n : n = Len(received) + 1
  OBVIOUS
<1>2. /\ reader = "body" /\ ReadComplete /\ buf' = <<>> /\ need' = Prefix
      /\ UNCHANGED <<sent, writing, wire, sender>>
  BY DEF TakeBody
<1>3. /\ n \in DOMAIN sent
      /\ \A c \in DOMAIN sent : Decodes(c) => c = n /\ Len(buf) = SizeOf[sent[n]]
      /\ sender = "open" /\ Fits(sent[n]) => Decodes(n)
      /\ sender = "open" => Pending # <<>>
      /\ Pending # <<>> => Pending[1] = <<n, Prefix + 1>>
  BY <1>1, <1>2, BodyRead
<1>4. /\ received \in Seq(Message) /\ sent \in Seq(Message)
      /\ Len(received) \in Nat /\ DOMAIN received = 1 .. Len(received)
      /\ Len(sent) \in Nat /\ DOMAIN sent = 1 .. Len(sent)
  BY LenProperties DEF TypeOK
<1>5. ReceivedInOrder /\ ClosedWritesNothing /\ ClosedWritesNothing'
  BY <1>2 DEF FramingInv, ClosedWritesNothing
<1>6. CASE /\ \A c \in DOMAIN sent : ~Decodes(c)
           /\ reader' = ReaderAfterError
           /\ UNCHANGED received
  <2>1. ~Receiving' /\ ReceivedInOrder'
    BY <1>2, <1>5, <1>6 DEF Receiving, ReaderAfterError, ReceivedInOrder
  <2>2. FailureHasCause'
    <3>1. sender = "closed" \/ ~Fits(sent[n])
      BY <1>3, <1>6 DEF TypeOK
    <3> QED
      BY <1>2, <1>3, <3>1 DEF FailureHasCause, Fits
  <2> QED
    BY <1>5, <2>1, <2>2 DEF FramingInv
<1>7. ASSUME NEW c \in DOMAIN sent, Decodes(c),
             received' = Append(received, sent[c]), reader' = "prefix"
      PROVE  FramingInv'
  <2>1. c = n /\ Len(buf) = SizeOf[sent[n]]
    BY <1>3, <1>7
  <2>2. /\ Len(received') = n /\ n \in 1 .. Len(sent)
        /\ DOMAIN received' = 1 .. n
        /\ \A i \in 1 .. Len(received) : received'[i] = received[i]
        /\ received'[n] = sent[n]
    <3>1. sent[n] \in Message /\ n \in 1 .. Len(sent)
      BY <1>3, EndFacts
    <3>2. received' \in Seq(Message)
      BY <1>4, <1>7, <2>1, <3>1, AppendProperties
    <3>3. /\ Len(received') = n /\ received'[n] = sent[n]
          /\ \A i \in 1 .. Len(received) : received'[i] = received[i]
      BY <1>1, <1>4, <1>7, <2>1, <3>1, AppendProperties
    <3> QED
      BY <3>1, <3>2, <3>3, LenProperties
  <2>3. ReceivedInOrder'
    BY <1>1, <1>2, <1>4, <1>5, <2>2 DEF ReceivedInOrder
  <2>4. FailureHasCause'
    BY <1>7 DEF FailureHasCause
  <2>5. PICK size \in Nat \ {0} : size = SizeOf[sent[n]]
    BY <1>3, EndFacts
  <2>6. Prefix \in Nat \ {0} /\ End(n) = Prefix + size /\ Len(buf) = size
    BY <1>3, <2>1, <2>5, EndFacts
  <2>7. Consecutive(Pending) /\ NothingLost
    BY <1>2 DEF FramingInv, Receiving
  <2>8. PICK p \in Seq(Byte) : p = Pending
    BY PendingFacts
  <2>9. /\ Pending' \in Seq(Byte)
        /\ Len(p) \in Nat
        /\ Len(Pending') = Len(p) - size
        /\ \A i \in 1 .. Len(Pending') : Pending'[i] = p[size + i]
        /\ Consecutive(Pending)'
    BY <1>2, <2>6, <2>7, <2>8, RestFacts
  <2>10. PICK q \in Seq(Byte) : q = Pending'
    BY <2>9
  <2>11. /\ Len(q) = Len(p) - size /\ Len(q) \in Nat
         /\ \A i \in 1 .. Len(q) : q[i] = p[size + i]
         /\ q # <<>> <=> Len(q) >= 1
         /\ p # <<>>
    BY <2>5, <2>9, <2>10, EmptySeq, LenProperties
  <2>12. /\ \A i \in 1 .. Len(p) : Prefix + i <= End(n) => p[i] = <<n, Prefix + i>>
         /\ \A i \in 1 .. Len(p) : i = End(n) - Prefix + 1 => p[i] = <<n + 1, 1>>
    <3>1. Prefix \in Nat /\ p[1] = <<n, Prefix + 1>>
      BY <1>3, <2>6, <2>8, <2>11
    <3> QED
      BY <2>7, <2>8, <2>11, <3>1, FrontFacts
  <2>13. ReceiveInStep'
    <3>1. ASSUME q # <<>>
          PROVE  q[1] = <<n + 1, 1>>
      <4>1. 1 \in 1 .. Len(q) /\ size + 1 \in 1 .. Len(p) /\ size + 1 = End(n) - Prefix + 1
        BY <2>5, <2>6, <2>9, <2>11, <3>1
      <4> QED
        BY <2>11, <2>12, <4>1
    <3> QED
      BY <1>2, <1>7, <2>2, <2>10, <3>1 DEF ReceiveInStep
  <2>14. NothingLost'
    <3>1. ASSUME sender = "open"
          PROVE  IF q = <<>> THEN n = Len(sent)
                             ELSE q[Len(q)] = <<Len(sent), End(Len(sent))>>
      <4>1. p[Len(p)] = <<Len(sent), End(Len(sent))>>
        BY <2>7, <2>8, <2>11, <3>1 DEF NothingLost
      <4>2. CASE q = <<>>
        <5>1. Len(p) = size
          BY <2>5, <2>9, <2>11, <4>2
        <5>2. Len(p) \in 1 .. Len(p) /\ Prefix + Len(p) <= End(n)
          BY <2>5, <2>6, <5>1
        <5>3. p[Len(p)] = <<n, Prefix + Len(p)>>
          BY <2>12, <5>2
        <5> QED
          BY <4>1, <4>2, <5>3
      <4>3. CASE q # <<>>
        <5>1. Len(q) \in 1 .. Len(q) /\ size + Len(q) = Len(p)
          BY <2>5, <2>9, <2>11, <4>3
        <5> QED
          BY <2>11, <4>1, <4>3, <5>1
      <4> QED
        BY <4>2, <4>3
    <3> QED
      BY <1>2, <1>7, <2>2, <2>10, <3>1 DEF NothingLost, End
  <2> QED
    BY <1>5, <2>3, <2>4, <2>9, <2>13, <2>14 DEF FramingInv
<1> QED
  BY <1>6, <1>7 DEF TakeBody

LEMMA NextInv == TypeOK /\ TypeOK' /\ FramingInv /\ [Next]_vars => FramingInv'
<1> SUFFICES ASSUME TypeOK, TypeOK', FramingInv, [Next]_vars
             PROVE  FramingInv'
  OBVIOUS
<1>1. ASSUME NEW m \in Message, SendMsg(m)
      PROVE  FramingInv'
  BY <1>1, SendInv
<1>2. CASE Write
  BY <1>2, WriteInv
<1>3. CASE WriteToNobody
  BY <1>3 DEF WriteToNobody, FramingInv, Receiving, ReceivedInOrder,
              ClosedWritesNothing, FailureHasCause
<1>4. CASE Close
  BY <1>4, CloseInv
<1>5. CASE Abort
  BY <1>5, AbortInv
<1>6. CASE Read
  BY <1>6, ReadInv
<1>7. CASE ReadHitsEnd
  BY <1>7 DEF ReadHitsEnd, FramingInv, Receiving, ReceivedInOrder,
              ClosedWritesNothing, FailureHasCause
<1>8. CASE TakeLength
  BY <1>8, TakeLengthInv
<1>9. CASE TakeBody
  BY <1>9, TakeBodyInv
<1>10. CASE Leave
  BY <1>10 DEF Leave, FramingInv, Receiving, ReceivedInOrder,
               ClosedWritesNothing, FailureHasCause
<1>11. CASE UNCHANGED vars
  <2>1. UNCHANGED <<sent, sender, reader, need, received, Pending>> /\ ClosedWritesNothing'
    BY <1>11 DEF vars, Pending, FramingInv, ClosedWritesNothing
  <2> QED
    BY <2>1, StableInv
<1> QED
  BY <1>1, <1>2, <1>3, <1>4, <1>5, <1>6, <1>7, <1>8, <1>9, <1>10, <1>11
  DEF Next, WriteAll, RecvMsg

(***************************************************************************)
(* The bytes not yet received are consecutive, start where the receive in  *)
(* progress is and, while the connection is open, end where the last       *)
(* message sent does (FramingInv), whatever the sizes of writes and reads. *)
(***************************************************************************)
THEOREM FramingInvariant == Spec => [](TypeOK /\ FramingInv)
<1>1. Init => TypeOK /\ FramingInv
  BY InitType, InitInv
<1>2. TypeOK /\ FramingInv /\ [Next]_vars => (TypeOK /\ FramingInv)'
  BY NextType, NextInv
<1> QED
  BY <1>1, <1>2, PTL DEF Spec

(***************************************************************************)
(* recv_msg fails only after the connection has ended or on a message that *)
(* is too long for its prefix, wherever write_all and read_exact cut the   *)
(* bytes: those read are the next ones of the message being received, and  *)
(* while the connection is open none of them is missing.                   *)
(***************************************************************************)
THEOREM FailuresHaveCauses == Spec => []FailureHasCause
<1>1. FramingInv => FailureHasCause
  BY DEF FramingInv
<1> QED
  BY <1>1, FramingInvariant, PTL

(***************************************************************************)
(* The bytes read so far are the first of the next message and fewer than  *)
(* it has; while the connection is open the last byte pending is the last  *)
(* of the last message, so it cannot be among them.                        *)
(***************************************************************************)
LEMMA QuietBetweenMessages ==
    ASSUME TypeOK, FramingInv, Quiet
    PROVE  reader = "prefix" /\ buf = <<>> /\ received = sent
<1>1. PICK n : n = Len(received) + 1
  OBVIOUS
<1>2. /\ Receiving /\ ~ReadComplete /\ wire = <<>> /\ sender = "open"
      /\ writing = <<>> \/ Len(wire) >= Capacity
  BY DEF Quiet
<1>3. Consecutive(Pending) /\ ReceiveInStep /\ NothingLost /\ ReceivedInOrder
  BY <1>2 DEF FramingInv
<1>4. writing = <<>>
  BY <1>2, EmptySeq, Sizes
<1>5. buf \in Seq(Byte) /\ Len(buf) \in Nat /\ Len(buf) <= need
  BY LenProperties DEF TypeOK
<1>6. Pending = buf
  <2>1. wire \o writing = <<>>
    BY <1>2, <1>4, ConcatEmptySeq, EmptySeq
  <2> QED
    BY <1>5, <2>1, ConcatEmptySeq DEF Pending
<1>7. CASE buf = <<>>
  <2>1. reader = "prefix" /\ Len(received) = Len(sent)
    BY <1>2, <1>3, <1>6, <1>7 DEF NothingLost
  <2>2. received \in Seq(Message) /\ sent \in Seq(Message)
    BY DEF TypeOK
  <2>3. \A i \in 1 .. Len(received) : received[i] = sent[i]
    BY <1>3, <2>2, LenProperties DEF ReceivedInOrder
  <2>4. received = sent
    BY <2>1, <2>2, <2>3, SeqEqual
  <2> QED
    BY <1>7, <2>1, <2>4
<1>8. ASSUME buf # <<>>, NEW k \in Nat, buf[1] = <<n, k + 1>>,
             n \in DOMAIN sent, k + Len(buf) < End(n)
      PROVE  FALSE
  <2>1. buf[Len(buf)] = <<Len(sent), End(Len(sent))>>
    BY <1>2, <1>3, <1>6, <1>8 DEF NothingLost
  <2>2. Len(buf) \in 1 .. Len(buf)
    BY <1>5, <1>8, EmptySeq
  <2>3. \A i \in 1 .. Len(buf) : k + i <= End(n) => buf[i] = <<n, k + i>>
    BY <1>3, <1>6, <1>8, FrontFacts
  <2>4. End(n) \in Nat
    BY <1>8, EndFacts
  <2>5. buf[Len(buf)] = <<n, k + Len(buf)>>
    BY <1>5, <1>8, <2>2, <2>3, <2>4
  <2>6. n = Len(sent) /\ k + Len(buf) = End(Len(sent))
    BY <2>1, <2>5
  <2> QED
    BY <1>5, <1>8, <2>4, <2>6
<1>9. CASE buf # <<>> /\ reader = "prefix"
  <2>1. need = Prefix /\ buf[1] = <<n, 0 + 1>>
    BY <1>1, <1>3, <1>6, <1>9 DEF ReceiveInStep
  <2>2. n \in DOMAIN sent
    BY <1>3, <1>6, <1>9, <2>1, FrontFacts
  <2>3. End(n) \in Nat /\ End(n) > Prefix /\ Prefix \in Nat
    BY <2>2, EndFacts
  <2>4. 0 + Len(buf) < End(n)
    BY <1>2, <1>5, <2>1, <2>3 DEF ReadComplete
  <2> QED
    BY <1>8, <1>9, <2>1, <2>2, <2>4
<1>10. CASE buf # <<>> /\ reader = "body"
  <2>1. /\ n \in DOMAIN sent /\ need = Announced(SizeOf[sent[n]])
        /\ buf[1] = <<n, Prefix + 1>>
    BY <1>1, <1>3, <1>6, <1>10 DEF ReceiveInStep
  <2>2. PICK size \in Nat \ {0} : size = SizeOf[sent[n]]
    BY <2>1, EndFacts
  <2>3. Prefix \in Nat /\ End(n) = Prefix + size
    BY <2>1, <2>2, EndFacts
  <2>4. need = size % Modulus /\ need <= size
    BY <2>1, <2>2, Sizes, ModFacts DEF Announced
  <2>5. need \in Nat
    BY <2>2, <2>4, Sizes, ModFacts
  <2>6. Prefix + Len(buf) < End(n)
    BY <1>2, <1>5, <2>2, <2>3, <2>4, <2>5 DEF ReadComplete
  <2> QED
    BY <1>8, <1>10, <2>1, <2>3, <2>6
<1> QED
  BY <1>2, <1>7, <1>9, <1>10 DEF Receiving

(***************************************************************************)
(* send_msg and recv_msg never wait for one another: when write_all has    *)
(* nothing to write or no room and read_exact nothing to read, every       *)
(* message sent has been received, whatever the room between the two and   *)
(* the lengths announced.                                                  *)
(***************************************************************************)
THEOREM QuietWhenReceived == Spec => []QuietMeansReceived
<1>1. TypeOK /\ FramingInv => QuietMeansReceived
  BY QuietBetweenMessages DEF QuietMeansReceived
<1> QED
  BY <1>1, FramingInvariant, PTL

-----------------------------------------------------------------------------
(* Refinement *)

(***************************************************************************)
(* Every step on the bytes is a send, a receive, the failure of a receive  *)
(* or nothing to those who call send_msg and recv_msg.                     *)
(***************************************************************************)
LEMMA StepImplements ==
    TypeOK /\ FramingInv /\ [Next]_vars => [Channel!Next]_(Channel!vars)
<1> SUFFICES ASSUME TypeOK, FramingInv, [Next]_vars
             PROVE  [Channel!Next]_(Channel!vars)
  OBVIOUS
<1> USE DEF Channel!vars
<1>1. ASSUME NEW m \in Message, SendMsg(m)
      PROVE  Channel!Next
  BY <1>1 DEF SendMsg, Receiving, Channel!Next, Channel!Send
<1>2. CASE WriteAll
  BY <1>2 DEF WriteAll, Write, WriteToNobody, Receiving
<1>3. CASE Close \/ Abort
  BY <1>3 DEF Close, Abort, Receiving
<1>4. CASE Read
  BY <1>4 DEF Read, Receiving
<1>5. CASE ReadHitsEnd \/ Leave
  BY <1>5 DEF ReadHitsEnd, Leave, Receiving, Channel!Next, Channel!Fail
<1>6. CASE TakeLength
  BY <1>6 DEF TakeLength, Receiving
<1>7. CASE TakeBody
  <2>1. PICK n : n = Len(received) + 1
    OBVIOUS
  <2>2. reader = "body" /\ ReadComplete /\ UNCHANGED sent
    BY <1>7 DEF TakeBody
  <2>3. n \in DOMAIN sent /\ \A c \in DOMAIN sent : Decodes(c) => c = n
    BY <2>1, <2>2, BodyRead
  <2>4. CASE reader' = ReaderAfterError /\ UNCHANGED received
    BY <2>2, <2>4 DEF Receiving, ReaderAfterError, Channel!Next, Channel!Fail
  <2>5. ASSUME NEW c \in DOMAIN sent, Decodes(c),
               received' = Append(received, sent[c]), reader' = "prefix"
        PROVE  Channel!Next
    <3>1. c = n /\ n <= Len(sent)
      BY <2>3, <2>5, EndFacts
    <3> QED
      BY <2>1, <2>2, <2>5, <3>1 DEF Receiving, Channel!Next, Channel!Receive
  <2> QED
    BY <1>7, <2>4, <2>5 DEF TakeBody
<1>8. CASE UNCHANGED vars
  BY <1>8 DEF vars, Receiving
<1> QED
  BY <1>1, <1>2, <1>3, <1>4, <1>5, <1>6, <1>7, <1>8 DEF Next, RecvMsg

(***************************************************************************)
(* send_msg and recv_msg over the bytes implement a channel of whole       *)
(* messages: they arrive in the order they were sent until a receive       *)
(* fails, and none after that.                                             *)
(***************************************************************************)
THEOREM ChannelImplemented == Spec => ImplementsFrameChannel
<1>1. Init => Channel!Init
  BY DEF Init, Channel!Init, Receiving
<1>2. TypeOK /\ FramingInv /\ [Next]_vars => [Channel!Next]_(Channel!vars)
  BY StepImplements
<1> QED
  BY <1>1, <1>2, FramingInvariant, PTL DEF Spec, ImplementsFrameChannel, Channel!Spec
=============================================================================
