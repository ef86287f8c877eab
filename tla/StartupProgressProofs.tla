----------------------- MODULE StartupProgressProofs ------------------------
(***************************************************************************)
(* Theorems about what Startup comes to rest in, for any number of         *)
(* instances and failures: the safety halves of NobodyLeftWaiting and      *)
(* EndTravels.                                                             *)
(***************************************************************************)
EXTENDS StartupProofs

-----------------------------------------------------------------------------
(* The invariant *)

(***************************************************************************)
(* Nobody has started, and there is no connection.                         *)
(***************************************************************************)
LEMMA WaitingInit == Init => WaitingInv
BY DEF Init, WaitingInv, Roles, HasPeer, BoundApart, Bound, PeersHold, OneAccept,
       InitArrives, AnswerArrives, Initiator, Listener, Instance

(***************************************************************************)
(* All steps but Connect and Accept: one process goes on, never back from  *)
(* being bound, and a message disappears only by being handled.            *)
(***************************************************************************)
LEMMA WaitingGoesOn ==
    ASSUME TypeOK, StartupInv, WaitingInv,
           NEW p \in Instance, NEW next \in PC,
           Goes(p, next), UNCHANGED <<peer, backlog, serving>>,
           p \in Server => next \notin {"connected", "waiting"},
           p \in Client => next \notin {"listening", "serving"},
           p \in Initiator /\ next \notin {"down", "loaded", "ended"} => peer[p] # None,
           p \in Listener /\ next \in {"listening", "serving", "waiting", "established"}
               => Bound(p) \/ AddressFree(p),
           Bound(p) => next \in {"listening", "serving", "waiting", "established", "ended"},
           Ended(p) => next = "ended",
           p \in Listener /\ next \in {"down", "loaded", "connected", "listening"}
               => serving[p] = None,
           pc[p] \in {"waiting", "established", "ended"}
               => next \in {"waiting", "established", "ended"},
           p \in Initiator /\ next = "waiting" => pc[p] = "waiting" \/ up'[p],
           \A i \in Initiator : up[i] => \/ up'[i]
                                         \/ /\ serving[peer[i]] = i
                                            /\ pc'[peer[i]] \in {"waiting", "established", "ended"},
           p \in Listener /\ next = "established" => down'[serving[p]],
           \A i \in Initiator : down[i] => down'[i]
    PROVE  WaitingInv'
<1>1. pc'[p] = next /\ \A q \in Instance \ {p} : pc'[q] = pc[q]
  BY DEF TypeOK, Goes
<1>2. Roles'
  BY <1>1, Instances DEF WaitingInv, Roles, Instance
<1>3. HasPeer'
  BY <1>1 DEF WaitingInv, HasPeer, Initiator, Instance
<1>4. BoundApart'
  <2> SUFFICES ASSUME NEW l \in Listener, NEW m \in Listener, Bound(l)', Bound(m)',
                      ListenAddr[l] = ListenAddr[m], l # m
               PROVE  FALSE
    BY DEF BoundApart
  <2>1. \A k \in Listener : k # p /\ Bound(k)' => Bound(k)
    BY <1>1 DEF Bound, Listener, Instance
  <2>2. ~(Bound(l) /\ Bound(m))
    BY DEF WaitingInv, BoundApart
  <2>3. \A k \in Listener : Bound(k)' /\ ~Bound(k) => k = p /\ AddressFree(k)
    BY <1>1, <2>1 DEF Bound
  <2> QED
    BY <2>1, <2>2, <2>3 DEF AddressFree
<1>5. PeersHold'
  <2> SUFFICES ASSUME NEW i \in Initiator, peer[i] # None, ~Ended(peer[i])'
               PROVE  Bound(peer[i])' /\ Held(i)'
    BY DEF PeersHold
  <2>1. peer[i] \in Listener /\ peer[i] \in Instance
    BY DEF TypeOK, Listener, Instance
  <2>2. ~Ended(peer[i])
    BY <1>1, <2>1 DEF Ended
  <2>3. Bound(peer[i]) /\ Held(i)
    BY <2>2 DEF WaitingInv, PeersHold
  <2>4. Bound(peer[i])'
    BY <1>1, <2>1, <2>2, <2>3 DEF Bound, Ended
  <2>5. Held(i)'
    BY <2>3 DEF Held
  <2> QED
    BY <2>4, <2>5
<1>6. OneAccept'
  BY <1>1 DEF WaitingInv, OneAccept, Listener, Instance
<1>7. InitArrives'
  <2> SUFFICES ASSUME NEW i \in Initiator, pc'[i] = "waiting"
               PROVE  \/ up'[i]
                      \/ /\ serving[peer[i]] = i
                         /\ pc'[peer[i]] \in {"waiting", "established", "ended"}
    BY DEF InitArrives
  <2>1. up'[i] \/ pc[i] = "waiting"
    BY <1>1 DEF Initiator, Instance
  <2>2. CASE pc[i] = "waiting" /\ ~up[i]
    <3>1. serving[peer[i]] = i /\ pc[peer[i]] \in {"waiting", "established", "ended"}
      BY <2>2 DEF WaitingInv, InitArrives
    <3>2. peer[i] \in Instance
      BY <2>2 DEF TypeOK, WaitingInv, HasPeer, Listener, Instance
    <3> QED
      BY <1>1, <3>1, <3>2
  <2> QED
    BY <2>1, <2>2
<1>8. AnswerArrives'
  <2> SUFFICES ASSUME NEW l \in Listener, pc'[l] = "established"
               PROVE  down'[serving[l]]
    BY DEF AnswerArrives
  <2>1. CASE l = p
    BY <1>1, <2>1
  <2>2. CASE l # p
    <3>1. pc[l] = "established"
      BY <1>1, <2>2 DEF Listener, Instance
    <3>2. serving[l] \in Initiator
      BY <3>1 DEF TypeOK, StartupInv, ConnectionsKept
    <3> QED
      BY <3>1, <3>2 DEF WaitingInv, AnswerArrives
  <2> QED
    BY <2>1, <2>2
<1> QED
  BY <1>2, <1>3, <1>4, <1>5, <1>6, <1>7, <1>8 DEF WaitingInv

(***************************************************************************)
(* A connection is opened to a bound listener, which queues it.            *)
(***************************************************************************)
LEMMA ConnectWaits ==
    ASSUME TypeOK, StartupInv, WaitingInv, NEW p \in Instance, Connect(p)
    PROVE  WaitingInv'
<1>1. p \in Initiator /\ pc[p] = "loaded" /\ UNCHANGED <<serving, up, down>>
  BY DEF Connect
<1>2. CASE Reachable(p) = {}
  <2>1. Goes(p, "ended") /\ UNCHANGED <<peer, backlog, serving, up, down>>
    BY <1>2 DEF Connect
  <2> QED
    BY <1>1, <2>1, WaitingGoesOn DEF PC
<1>3. CASE Reachable(p) # {}
  <2>1. PICK l \in Reachable(p) :
            /\ peer' = [peer EXCEPT ![p] = l]
            /\ backlog' = Queued(l, p)
            /\ Goes(p, "connected")
    BY <1>3 DEF Connect
  <2>2. l \in Listener /\ Bound(l) /\ l # p
    BY <1>1 DEF Reachable, Bound
  <2>3. /\ pc'[p] = "connected" /\ \A q \in Instance \ {p} : pc'[q] = pc[q]
        /\ p \in Instance /\ l \in Instance
    BY <2>1, <2>2 DEF TypeOK, Goes, Listener, Instance
  <2>4. /\ peer'[p] = l /\ \A i \in Initiator \ {p} : peer'[i] = peer[i]
        /\ peer[p] = None
    BY <1>1, <2>1 DEF TypeOK, StartupInv, NotYetConnected
  <2>5. /\ backlog'[l] = Append(backlog[l], p)
        /\ \A m \in Listener \ {l} : backlog'[m] = backlog[m]
    BY <2>1, <2>2 DEF TypeOK, Queued
  <2>6. Roles'
    BY <1>1, <2>3, Instances DEF WaitingInv, Roles, Initiator, Instance
  <2>7. HasPeer'
    BY <1>1, <2>2, <2>3, <2>4, Instances
    DEF WaitingInv, HasPeer, Initiator, Listener, Instance
  <2>8. BoundApart'
    BY <1>1, <2>3 DEF WaitingInv, BoundApart, Bound, Listener, Instance
  <2>9. PeersHold'
    <3> SUFFICES ASSUME NEW i \in Initiator, peer'[i] # None, ~Ended(peer[i])'
                 PROVE  Bound(peer[i])' /\ Held(i)'
      BY DEF PeersHold
    <3>1. CASE i = p
      <4>1. Bound(l)'
        BY <2>2, <2>3 DEF Bound
      <4>2. \E n \in DOMAIN backlog'[l] : backlog'[l][n] = p
        <5>1. backlog[l] \in Seq(Initiator)
          BY <2>2 DEF TypeOK
        <5> QED
          BY <1>1, <2>5, <5>1
      <4> QED
        BY <2>4, <3>1, <4>1, <4>2 DEF Held
    <3>2. CASE i # p
      <4>1. peer'[i] = peer[i]
        BY <2>4, <3>2
      <4>2. PICK m \in Listener : m = peer[i]
        BY <4>1 DEF TypeOK
      <4>3. ~Ended(m)
        BY <1>1, <2>3, <4>1, <4>2 DEF Ended, Listener, Instance
      <4>4. Bound(m) /\ Held(i)
        BY <4>1, <4>2, <4>3 DEF WaitingInv, PeersHold
      <4>5. Bound(m)'
        BY <1>1, <2>3, <4>4 DEF Bound, Listener, Instance
      <4>6. CASE serving[m] = i
        BY <1>1, <4>1, <4>2, <4>5, <4>6 DEF Held
      <4>7. ASSUME NEW n \in DOMAIN backlog[m], backlog[m][n] = i
            PROVE  Held(i)'
        <5>1. backlog[m] \in Seq(Initiator)
          BY DEF TypeOK
        <5>2. n \in DOMAIN backlog'[m] /\ backlog'[m][n] = i
          <6>1. CASE m = l
            BY <1>1, <2>5, <4>7, <5>1, <6>1
          <6>2. CASE m # l
            BY <2>5, <4>7, <6>2
          <6> QED
            BY <6>1, <6>2
        <5> QED
          BY <4>1, <4>2, <5>2 DEF Held
      <4> QED
        BY <4>1, <4>2, <4>4, <4>5, <4>6, <4>7 DEF Held
    <3> QED
      BY <3>1, <3>2
  <2>10. OneAccept'
    BY <1>1, <2>3 DEF WaitingInv, OneAccept, Listener, Instance
  <2>11. InitArrives'
    <3> SUFFICES ASSUME NEW i \in Initiator, pc'[i] = "waiting"
                 PROVE  \/ up[i]
                        \/ /\ serving[peer'[i]] = i
                           /\ pc'[peer'[i]] \in {"waiting", "established", "ended"}
      BY <1>1 DEF InitArrives
    <3>1. i # p /\ pc[i] = "waiting"
      BY <2>3 DEF Initiator, Instance
    <3>2. peer'[i] = peer[i]
      BY <2>4, <3>1
    <3>3. pc[peer[i]] # "loaded" => pc'[peer[i]] = pc[peer[i]]
      BY <1>1, <2>3, <3>1 DEF TypeOK, WaitingInv, HasPeer, Listener, Instance
    <3> QED
      BY <3>1, <3>2, <3>3 DEF WaitingInv, InitArrives
  <2>12. AnswerArrives'
    BY <1>1, <2>3 DEF WaitingInv, AnswerArrives, Listener, Instance
  <2> QED
    BY <2>6, <2>7, <2>8, <2>9, <2>10, <2>11, <2>12 DEF WaitingInv
<1> QED
  BY <1>2, <1>3

(***************************************************************************)
(* What is accepted was the first in the backlog, and the listener has     *)
(* accepted nothing before.                                                *)
(***************************************************************************)
LEMMA AcceptWaits ==
    ASSUME TypeOK, StartupInv, WaitingInv, NEW p \in Instance, Accept(p)
    PROVE  WaitingInv'
<1>1. /\ p \in Listener /\ pc[p] = "listening"
      /\ backlog[p] \in Seq(Initiator) /\ backlog[p] # <<>>
      /\ UNCHANGED <<peer, up, down>>
  BY DEF Accept, AcceptsNow, TypeOK
<1>2. /\ pc'[p] = "serving" /\ \A q \in Instance \ {p} : pc'[q] = pc[q]
      /\ p \in Instance
  BY DEF Accept, TypeOK, Goes
<1>3. /\ serving'[p] = Head(backlog[p])
      /\ \A m \in Listener \ {p} : serving'[m] = serving[m]
      /\ serving[p] = None
  BY <1>1 DEF Accept, TypeOK, WaitingInv, OneAccept
<1>4. /\ backlog'[p] = Tail(backlog[p])
      /\ \A m \in Listener \ {p} : backlog'[m] = backlog[m]
  BY <1>1 DEF Accept, TypeOK
<1>5. Roles'
  BY <1>1, <1>2, Instances DEF WaitingInv, Roles, Listener, Instance
<1>6. HasPeer'
  BY <1>1, <1>2 DEF WaitingInv, HasPeer, Initiator, Instance
<1>7. BoundApart'
  BY <1>1, <1>2 DEF WaitingInv, BoundApart, Bound, Listener, Instance
<1>8. PeersHold'
  <2> SUFFICES ASSUME NEW i \in Initiator, peer[i] # None, ~Ended(peer[i])'
               PROVE  Bound(peer[i])' /\ Held(i)'
    BY <1>1 DEF PeersHold
  <2>1. PICK m \in Listener : m = peer[i]
    BY DEF TypeOK
  <2>2. ~Ended(m)
    BY <1>1, <1>2, <2>1 DEF Ended, Listener, Instance
  <2>3. Bound(m) /\ Held(i)
    BY <2>1, <2>2 DEF WaitingInv, PeersHold
  <2>4. Bound(m)'
    BY <1>2, <2>3 DEF Bound, Listener, Instance
  <2>5. i # None
    BY Instances DEF Initiator, Instance
  <2>6. CASE m # p
    BY <1>1, <1>3, <1>4, <2>1, <2>3, <2>4, <2>6 DEF Held
  <2>7. CASE m = p
    <3>1. PICK n \in DOMAIN backlog[p] : backlog[p][n] = i
      BY <1>3, <2>1, <2>3, <2>5, <2>7 DEF Held
    <3>2. CASE n = 1
      BY <1>1, <1>3, <2>1, <2>4, <2>7, <3>1, <3>2 DEF Held
    <3>3. CASE n # 1
      <4>1. n - 1 \in DOMAIN Tail(backlog[p]) /\ Tail(backlog[p])[n - 1] = i
        BY <1>1, <3>1, <3>3
      <4> QED
        BY <1>1, <1>4, <2>1, <2>4, <2>7, <4>1 DEF Held
    <3> QED
      BY <3>2, <3>3
  <2> QED
    BY <2>1, <2>4, <2>6, <2>7
<1>9. OneAccept'
  BY <1>2, <1>3 DEF WaitingInv, OneAccept, Listener, Instance
<1>10. InitArrives'
  <2> SUFFICES ASSUME NEW i \in Initiator, pc'[i] = "waiting"
               PROVE  \/ up[i]
                      \/ /\ serving'[peer[i]] = i
                         /\ pc'[peer[i]] \in {"waiting", "established", "ended"}
    BY <1>1 DEF InitArrives
  <2>1. pc[i] = "waiting"
    BY <1>1, <1>2 DEF Initiator, Instance
  <2>2. peer[i] \in Listener /\ peer[i] \in Instance
    BY <2>1 DEF TypeOK, WaitingInv, HasPeer, Listener, Instance
  <2> QED
    BY <1>1, <1>2, <1>3, <2>1, <2>2 DEF WaitingInv, InitArrives
<1>11. AnswerArrives'
  BY <1>1, <1>2, <1>3 DEF WaitingInv, AnswerArrives, Listener, Instance
<1> QED
  BY <1>5, <1>6, <1>7, <1>8, <1>9, <1>10, <1>11 DEF WaitingInv

(***************************************************************************)
(* The message handled is that of the connection served; if the handler    *)
(* passes one on, it is in flight to the process the sender then waits     *)
(* for.                                                                    *)
(***************************************************************************)
LEMMA HandlerWaits ==
    ASSUME TypeOK, StartupInv, WaitingInv, NEW p \in Listener, HasInit(p),
           NEW next \in {"waiting", "established", "ended"},
           Goes(p, next), UNCHANGED <<peer, backlog, serving>>,
           up' = [up EXCEPT ![serving[p]] = FALSE] \/
               (p \in Firewall /\ up' = [up EXCEPT ![serving[p]] = FALSE, ![p] = TRUE]),
           next = "waiting" => p \in Firewall /\ up'[p],
           next = "established" => p \in Server /\ down'[serving[p]],
           \A i \in Initiator : down[i] => down'[i]
    PROVE  WaitingInv'
<1>1. pc[p] = "serving" /\ p \in Instance /\ next \in PC
  BY DEF HasInit, Listener, Instance, PC
<1>2. serving[p] \in Initiator /\ peer[serving[p]] = p
  BY <1>1 DEF TypeOK, StartupInv, ConnectionsKept
<1>3. Bound(p) /\ ~Ended(p)
  BY <1>1 DEF Bound, Ended
<1>4. pc'[p] = next
  BY <1>1 DEF TypeOK, Goes
<1>5. \A i \in Initiator : up[i] =>
          \/ up'[i]
          \/ /\ serving[peer[i]] = i
             /\ pc'[peer[i]] \in {"waiting", "established", "ended"}
  <2>1. \A i \in Initiator : up[i] => up'[i] \/ i = serving[p]
    BY DEF TypeOK
  <2> QED
    BY <1>2, <1>4, <2>1
<1>6. p \in Initiator => peer[p] # None
  BY <1>1 DEF WaitingInv, HasPeer
<1>7. p \in Firewall => p \notin Server
  BY Instances
<1>8. p \notin Client
  BY Instances DEF Listener
<1> QED
  BY <1>1, <1>3, <1>5, <1>6, <1>7, <1>8, WaitingGoesOn

(***************************************************************************)
(* Every step of Next preserves the invariant.                             *)
(***************************************************************************)
LEMMA WaitingStep == TypeOK /\ StartupInv /\ WaitingInv /\ [Next]_vars => WaitingInv'
<1> SUFFICES ASSUME TypeOK, StartupInv, WaitingInv, [Next]_vars
             PROVE  WaitingInv'
  OBVIOUS
<1>0. CASE UNCHANGED vars
  BY <1>0 DEF vars, WaitingInv, Roles, HasPeer, BoundApart, Bound, PeersHold, Held,
     Ended, OneAccept, InitArrives, AnswerArrives
<1> SUFFICES ASSUME NEW p \in Instance, Step(p) \/ Environment(p)
             PROVE  WaitingInv'
  BY <1>0 DEF Next
<1>a. /\ p \in Server => p \in Listener /\ p \notin Initiator /\ p \notin Client
      /\ p \in Firewall => p \in Listener /\ p \in Initiator /\ p \notin Server
      /\ p \in Firewall => p \notin Client
      /\ p \in Client => p \in Initiator /\ p \notin Listener
  BY Instances DEF Listener, Initiator
<1>b. /\ p \in Server => pc[p] \notin {"connected", "waiting"}
      /\ p \in Client => pc[p] \notin {"listening", "serving"}
      /\ p \in Initiator /\ pc[p] \notin {"down", "loaded", "ended"} => peer[p] # None
      /\ p \in Listener /\ pc[p] \in {"down", "loaded", "connected", "listening"}
            => serving[p] = None
  BY DEF WaitingInv, Roles, HasPeer, OneAccept
<1>c. ASSUME pc[p] # "ended", Goes(p, "ended"),
             UNCHANGED <<peer, backlog, serving, up>>,
             \A i \in Initiator : down[i] => down'[i]
      PROVE  WaitingInv'
  BY <1>c, WaitingGoesOn DEF PC, Ended
<1>1. CASE Start(p)
  <2>1. PICK next \in {"loaded", "ended"} : Goes(p, next)
    BY <1>1 DEF Start
  <2>2. pc[p] = "down" /\ UNCHANGED <<peer, backlog, serving, up, down>>
    BY <1>1 DEF Start
  <2> QED
    BY <1>b, <2>1, <2>2, WaitingGoesOn DEF PC, Bound, Ended
<1>2. CASE Connect(p)
  BY <1>2, ConnectWaits
<1>3. CASE Bind(p)
  <2>1. UNCHANGED <<peer, backlog, serving, up, down>>
    BY <1>3 DEF Bind
  <2>2. /\ pc[p] \in {"loaded", "connected"}
        /\ p \in Listener
        /\ p \in Initiator => pc[p] = "connected"
    BY <1>3, <1>a DEF Bind, ReadyToBind
  <2>3. CASE AddressFree(p)
    <3>1. Goes(p, "listening")
      BY <1>3, <2>3 DEF Bind
    <3> QED
      BY <1>a, <1>b, <2>1, <2>2, <2>3, <3>1, WaitingGoesOn DEF PC, Ended
  <2>4. CASE ~AddressFree(p)
    BY <1>3, <1>c, <2>1, <2>2, <2>4 DEF Bind
  <2> QED
    BY <2>3, <2>4
<1>4. CASE Accept(p)
  BY <1>4, AcceptWaits
<1>5. CASE ClientSendsInit(p)
  <2>1. CASE up' = [up EXCEPT ![p] = TRUE] /\ Goes(p, "waiting")
    <3>1. /\ p \in Client /\ pc[p] = "connected"
          /\ UNCHANGED <<peer, backlog, serving, down>>
      BY <1>5 DEF ClientSendsInit
    <3>2. up'[p] /\ \A i \in Initiator : up[i] => up'[i]
      BY <1>a, <2>1, <3>1 DEF TypeOK
    <3> QED
      BY <1>a, <1>b, <2>1, <3>1, <3>2, WaitingGoesOn DEF PC, Ended, Bound
  <2>2. CASE Goes(p, "ended") /\ UNCHANGED up
    BY <1>5, <1>c, <2>2 DEF ClientSendsInit
  <2> QED
    BY <1>5, <2>1, <2>2 DEF ClientSendsInit
<1>6. CASE FirewallForwardsInit(p)
  <2>1. PICK next \in {"waiting", "ended"} :
            /\ Goes(p, next)
            /\ next = "waiting" =>
                  up' = [up EXCEPT ![serving[p]] = FALSE, ![p] = TRUE]
            /\ next = "ended" => up' = [up EXCEPT ![serving[p]] = FALSE]
    BY <1>6 DEF FirewallForwardsInit
  <2>2. /\ p \in Firewall /\ HasInit(p)
        /\ UNCHANGED <<peer, backlog, serving, down>>
    BY <1>6 DEF FirewallForwardsInit
  <2>3. next = "waiting" => up'[p]
    BY <1>a, <2>1, <2>2 DEF TypeOK
  <2> QED
    BY <1>a, <2>1, <2>2, <2>3, HandlerWaits
<1>7. CASE ServerResponds(p)
  <2>1. /\ p \in Server /\ HasInit(p)
        /\ UNCHANGED <<peer, backlog, serving>>
        /\ up' = [up EXCEPT ![serving[p]] = FALSE]
    BY <1>7 DEF ServerResponds
  <2>2. PICK i \in Initiator : i = serving[p]
    BY <1>a, <2>1 DEF HasInit, TypeOK, StartupInv, ConnectionsKept
  <2>3. CASE ResponseSent(i) /\ Goes(p, "established")
    <3>1. down'[i] /\ \A j \in Initiator : down[j] => down'[j]
      BY <2>3 DEF ResponseSent, TypeOK
    <3> QED
      BY <1>a, <2>1, <2>2, <2>3, <3>1, HandlerWaits
  <2>4. CASE Goes(p, "ended") /\ UNCHANGED down
    BY <1>a, <2>1, <2>4, HandlerWaits
  <2> QED
    BY <1>7, <2>2, <2>3, <2>4 DEF ServerResponds, Answers
<1>8. CASE FirewallRelaysResponse(p)
  <2>1. /\ p \in Firewall /\ pc[p] = "waiting"
        /\ UNCHANGED <<peer, backlog, serving, up>>
    BY <1>8 DEF FirewallRelaysResponse, HasResponse
  <2>2. PICK i \in Initiator : i = serving[p]
    BY <1>a, <2>1 DEF TypeOK, StartupInv, ConnectionsKept
  <2>3. CASE ResponseSent(i) /\ Goes(p, "established")
    <3>1. down'[i] /\ \A j \in Initiator : down[j] => down'[j]
      BY <2>3 DEF ResponseSent, TypeOK
    <3>2. Bound(p)
      BY <1>a, <2>1 DEF Bound
    <3> QED
      BY <1>a, <1>b, <2>1, <2>2, <2>3, <3>1, <3>2, WaitingGoesOn DEF PC, Ended
  <2>4. CASE Goes(p, "ended") /\ UNCHANGED down
    BY <1>c, <2>1, <2>4
  <2> QED
    BY <1>8, <2>2, <2>3, <2>4 DEF FirewallRelaysResponse, Answers
<1>9. CASE ClientFinalizes(p)
  <2>1. /\ p \in Client /\ pc[p] = "waiting" /\ Goes(p, "established")
        /\ UNCHANGED <<peer, backlog, serving, up, down>>
    BY <1>9 DEF ClientFinalizes, HasResponse
  <2> QED
    BY <1>a, <1>b, <2>1, WaitingGoesOn DEF PC, Ended, Bound
<1>10. CASE RecvError(p)
  BY <1>10, <1>c DEF RecvError, ReadsEnd
<1>11. CASE FirewallSendFails(p)
  BY <1>11, <1>c DEF FirewallSendFails
<1>12. CASE ClientLeaves(p)
  BY <1>12, <1>c DEF ClientLeaves
<1>13. CASE Fails(p)
  BY <1>13, <1>c DEF Fails, Ended
<1> QED
  BY <1>1, <1>2, <1>3, <1>4, <1>5, <1>6, <1>7, <1>8, <1>9, <1>10, <1>11,
     <1>12, <1>13
     DEF Step, Environment

(***************************************************************************)
(* A connection is held by the listener it was opened to for as long as    *)
(* that listener lives, no two listeners share an address, and the         *)
(* messages of the exchange that are owed are in flight.                   *)
(***************************************************************************)
THEOREM WaitingInvariant == Spec => []WaitingInv
BY WaitingInit, WaitingStep, TypeCorrect, StartupInvariant, PTL DEF Spec

-----------------------------------------------------------------------------
(* Rest *)

(***************************************************************************)
(* Whoever is served at rest lives and is owed nothing: it is in its       *)
(* record loop or is a firewall that waits for a client, or for the first  *)
(* message of one.                                                         *)
(***************************************************************************)
LEMMA ServedAtRest ==
    ASSUME TypeOK, StartupInv, WaitingInv, Quiet,
           NEW l \in Listener, pc[l] \in {"serving", "established"}
    PROVE  /\ serving[l] \in Initiator /\ peer[serving[l]] = l
           /\ pc[serving[l]] \notin {"down", "loaded", "connected", "waiting", "ended"}
<1>1. PICK i \in Initiator : i = serving[l] /\ peer[i] = l
  BY DEF TypeOK, StartupInv, ConnectionsKept
<1>2. l \in Instance /\ i \in Instance /\ i # None /\ l # None
  BY Instances DEF Listener, Initiator, Instance
<1>3. pc[i] \notin {"down", "loaded"}
  BY <1>1, <1>2 DEF StartupInv, NotYetConnected
<1>4. pc[i] # "connected"
  BY <1>2 DEF Quiet
<1>5. ~HasInit(l) /\ ~ReadsEnd(l) /\ ~HasResponse(i)
  BY <1>2 DEF Quiet
<1>6. CASE pc[l] = "serving"
  <2>1. ~up[i]
    BY <1>1, <1>5, <1>6 DEF HasInit
  <2>2. pc[i] # "ended"
    BY <1>1, <1>5, <1>6, <2>1 DEF ReadsEnd, Ended
  <2>3. pc[i] # "waiting"
    BY <1>1, <1>6, <2>1 DEF WaitingInv, InitArrives
  <2> QED
    BY <1>1, <1>3, <1>4, <2>2, <2>3
<1>7. CASE pc[l] = "established"
  <2>1. pc[i] # "ended"
    BY <1>1, <1>5, <1>7 DEF ReadsEnd, Ended
  <2>2. down[i]
    BY <1>1, <1>7 DEF WaitingInv, AnswerArrives
  <2>3. pc[i] # "waiting"
    BY <1>5, <2>2 DEF HasResponse
  <2> QED
    BY <1>1, <1>3, <1>4, <2>1, <2>3
<1> QED
  BY <1>6, <1>7

(***************************************************************************)
(* An initiator that waits at rest waits for a living listener that serves *)
(* a connection other than its own, or that itself waits.                  *)
(***************************************************************************)
LEMMA WaitsForListener ==
    ASSUME TypeOK, StartupInv, WaitingInv, Quiet,
           NEW i \in Initiator, pc[i] = "waiting"
    PROVE  /\ peer[i] \in Listener
           /\ ListenAddr[peer[i]] = TargetAddr[i]
           /\ pc[peer[i]] \in {"serving", "waiting", "established"}
<1>1. peer[i] # None /\ peer[i] \in Listener
  BY DEF TypeOK, WaitingInv, HasPeer
<1>2. i \in Instance /\ peer[i] \in Instance /\ i # None
  BY <1>1, Instances DEF Listener, Initiator, Instance
<1>3. ListenAddr[peer[i]] = TargetAddr[i]
  BY <1>1 DEF StartupInv, AddressReached
<1>4. ~HasResponse(i) /\ ~ReadsEnd(i)
  BY <1>2 DEF Quiet
<1>5. ~Ended(peer[i])
  BY <1>4 DEF HasResponse, ReadsEnd
<1>6. Bound(peer[i]) /\ Held(i)
  BY <1>1, <1>5 DEF WaitingInv, PeersHold
<1>7. pc[peer[i]] # "listening"
  <2> SUFFICES ASSUME pc[peer[i]] = "listening"
               PROVE  FALSE
    OBVIOUS
  <2>1. backlog[peer[i]] = <<>>
    BY <1>2 DEF Quiet
  <2>2. serving[peer[i]] = None
    BY <1>1 DEF WaitingInv, OneAccept
  <2> QED
    BY <1>2, <1>6, <2>1, <2>2 DEF Held
<1> QED
  BY <1>1, <1>3, <1>6, <1>7 DEF Bound

(***************************************************************************)
(* With one address for all firewalls a server that is at rest serves the  *)
(* one firewall that could bind, and no firewall waits for a server.       *)
(***************************************************************************)
LEMMA NoFirewallWaits ==
    ASSUME TypeOK, StartupInv, WaitingInv, Quiet, OneFirewallAddress,
           NEW f \in Firewall
    PROVE  pc[f] # "waiting"
<1> SUFFICES ASSUME pc[f] = "waiting"
             PROVE  FALSE
  OBVIOUS
<1>1. f \in Initiator /\ f \in Listener
  BY DEF Initiator, Listener
<1>2. PICK s \in Listener : s = peer[f]
  BY <1>1, WaitsForListener
<1>3. /\ ListenAddr[s] = TargetAddr[f]
      /\ pc[s] \in {"serving", "waiting", "established"}
  BY <1>1, <1>2, WaitsForListener
<1>4. s \in Server
  BY <1>3, Addresses DEF Listener
<1>5. pc[s] \in {"serving", "established"}
  BY <1>3, <1>4 DEF WaitingInv, Roles
<1>6. PICK g \in Initiator : g = serving[s]
  BY <1>5, ServedAtRest
<1>7. /\ peer[g] = s
      /\ pc[g] \notin {"down", "loaded", "connected", "waiting", "ended"}
  BY <1>5, <1>6, ServedAtRest
<1>8. g \in Firewall
  <2>1. s # None
    BY <1>4, Instances DEF Instance
  <2>2. ListenAddr[s] = TargetAddr[g]
    BY <1>7, <2>1 DEF StartupInv, AddressReached
  <2> QED
    BY <1>4, <2>2, Addresses DEF Initiator
<1>9. g \in Listener /\ Bound(g)
  BY <1>7, <1>8 DEF TypeOK, PC, Bound, Listener, Instance
<1>10. Bound(f)
  BY <1>1 DEF Bound
<1>11. g = f
  BY <1>1, <1>8, <1>9, <1>10 DEF OneFirewallAddress, WaitingInv, BoundApart
<1> QED
  BY <1>7, <1>11

(***************************************************************************)
(* A client that waits would wait for a firewall that serves a client at   *)
(* rest, and that one would have a session.                                *)
(***************************************************************************)
LEMMA RestServed == TypeOK /\ StartupInv /\ WaitingInv => QuietMeansServed
<1> SUFFICES ASSUME TypeOK, StartupInv, WaitingInv, OneFirewallAddress, Quiet,
                    \A c \in Client : pc[c] # "established",
                    NEW c \in Client, pc[c] = "waiting"
             PROVE  FALSE
  BY DEF QuietMeansServed
<1>1. c \in Initiator
  BY DEF Initiator
<1>2. PICK f \in Listener : f = peer[c]
  BY <1>1, WaitsForListener
<1>3. /\ ListenAddr[f] = TargetAddr[c]
      /\ pc[f] \in {"serving", "waiting", "established"}
  BY <1>1, <1>2, WaitsForListener
<1>4. f \in Firewall
  BY <1>3, Addresses DEF Listener
<1>5. pc[f] \in {"serving", "established"}
  BY <1>3, <1>4, NoFirewallWaits
<1>6. PICK d \in Initiator : d = serving[f]
  BY <1>5, ServedAtRest
<1>7. /\ peer[d] = f
      /\ pc[d] \notin {"down", "loaded", "connected", "waiting", "ended"}
  BY <1>5, <1>6, ServedAtRest
<1>8. d \in Client
  <2>1. f # None
    BY <1>4, Instances DEF Instance
  <2>2. ListenAddr[f] = TargetAddr[d]
    BY <1>7, <2>1 DEF StartupInv, AddressReached
  <2> QED
    BY <1>4, <2>2, Addresses DEF Initiator
<1>9. pc[d] \notin {"listening", "serving"}
  BY <1>8 DEF WaitingInv, Roles
<1>10. pc[d] \in PC
  BY DEF TypeOK, Initiator, Instance
<1> QED
  BY <1>7, <1>8, <1>9, <1>10 DEF PC

(***************************************************************************)
(* On any addresses, a firewall that waits at rest is in the backlog of a  *)
(* living server: one that serves it has its init, and one that is gone    *)
(* would be noticed.                                                       *)
(***************************************************************************)
LEMMA WaitsInBacklog ==
    ASSUME TypeOK, StartupInv, WaitingInv, Quiet,
           NEW f \in Firewall, pc[f] = "waiting"
    PROVE  InBacklog(f)
<1>1. f \in Initiator
  BY DEF Initiator
<1>2. PICK s \in Listener : s = peer[f]
  BY <1>1, WaitsForListener
<1>3. /\ pc[s] \in {"serving", "waiting", "established"}
      /\ s \in Server
  BY <1>1, <1>2, WaitsForListener, Addresses DEF Listener
<1>4. pc[s] \in {"serving", "established"}
  BY <1>3 DEF WaitingInv, Roles
<1>5. serving[s] # f
  BY <1>4, ServedAtRest
<1> QED
  BY <1>2, <1>4, <1>5 DEF InBacklog, Ended

(***************************************************************************)
(* A listener that has accepted reads from its initiator, unless it is a   *)
(* firewall that waits for its server.                                     *)
(***************************************************************************)
LEMMA RestNoticed == TypeOK /\ StartupInv /\ WaitingInv => QuietMeansEndsNoticed
<1> SUFFICES ASSUME TypeOK, StartupInv, WaitingInv, Quiet,
                    NEW l \in Listener, serving[l] # None, Ended(serving[l]),
                    OneFirewallAddress \/ ~InBacklog(l),
                    ~Ended(l)
             PROVE  FALSE
  BY DEF QuietMeansEndsNoticed
<1>1. pc[l] \notin {"serving", "established"}
  BY ServedAtRest DEF Ended
<1>2. pc[l] # "waiting"
  <2>1. l \in Server => pc[l] # "waiting"
    BY DEF WaitingInv, Roles
  <2>2. l \in Firewall => pc[l] # "waiting"
    BY NoFirewallWaits, WaitsInBacklog
  <2> QED
    BY <2>1, <2>2 DEF Listener
<1>3. pc[l] \notin {"down", "loaded", "connected", "listening"}
  BY DEF WaitingInv, OneAccept
<1>4. pc[l] \in PC
  BY DEF TypeOK, Listener, Instance
<1> QED
  BY <1>1, <1>2, <1>3, <1>4 DEF PC, Ended

(***************************************************************************)
(* The blocking accepts and reads of the three programs form no cycle of   *)
(* waiting that excludes all clients: with one address for all firewalls   *)
(* and no session open, no client is left waiting.                         *)
(***************************************************************************)
THEOREM RestMeansServed == Spec => []QuietMeansServed
BY RestServed, TypeCorrect, StartupInvariant, WaitingInvariant, PTL

(***************************************************************************)
(* Nobody serves a connection whose other end is gone, once nobody can go  *)
(* on, but a firewall in a server's backlog if firewalls have several      *)
(* addresses.                                                              *)
(***************************************************************************)
THEOREM RestMeansEndsNoticed == Spec => []QuietMeansEndsNoticed
BY RestNoticed, TypeCorrect, StartupInvariant, WaitingInvariant, PTL

-----------------------------------------------------------------------------
(* Sessions *)

(***************************************************************************)
(* Nobody has accepted a connection at the start.                          *)
(***************************************************************************)
LEMMA LivesInit == Init => LivesInv
BY DEF Init, LivesInv, EndsHaveCause, ChainLives, Ended, Listener, Instance

(***************************************************************************)
(* All steps but Connect and Accept: one process goes on, and one that     *)
(* serves a connection ends because that connection has ended or, if it is *)
(* a firewall, its own.                                                    *)
(***************************************************************************)
LEMMA LivesGoesOn ==
    ASSUME TypeOK, StartupInv, LivesInv, NEW p \in Instance, NEW next,
           Goes(p, next), UNCHANGED <<peer, serving, failures>>,
           Ended(p) => next = "ended",
           p \in Listener /\ serving[p] # None /\ next = "ended" /\ ~Ended(p) =>
               Ended(serving[p]) \/ (p \in Firewall /\ Ended(peer[p]))
    PROVE  LivesInv'
<1> SUFFICES ASSUME failures = 0
             PROVE  EndsHaveCause' /\ ChainLives'
  BY DEF LivesInv
<1>0. EndsHaveCause /\ ChainLives
  BY DEF LivesInv
<1>1. pc'[p] = next /\ \A q \in Instance \ {p} : pc'[q] = pc[q]
  BY DEF TypeOK, Goes
<1>2. \A q \in Instance : Ended(q) => Ended(q)'
  BY <1>1 DEF Ended
<1>3. \A q \in Instance : Ended(q)' /\ ~Ended(q) => q = p /\ next = "ended"
  BY <1>1 DEF Ended
<1>4. EndsHaveCause'
  <2> SUFFICES ASSUME NEW l \in Listener, serving[l] # None, Ended(l)'
               PROVE  Ended(serving[l])' \/ (l \in Firewall /\ Ended(peer[l])')
    BY DEF EndsHaveCause, Ended
  <2>1. Ended(serving[l]) \/ (l \in Firewall /\ Ended(peer[l]))
    BY <1>0, <1>3 DEF EndsHaveCause, Listener, Instance
  <2>2. PICK i \in Instance : i = serving[l] /\ peer[i] = l
    BY DEF TypeOK, StartupInv, ConnectionsKept, Initiator, Instance
  <2>3. CASE Ended(serving[l])
    BY <1>2, <2>2, <2>3 DEF Ended
  <2>4. CASE l \in Firewall /\ Ended(peer[l])
    <3>1. peer[l] \in Listener \cup {None}
      BY <2>4 DEF TypeOK, Initiator
    <3>2. CASE peer[l] \in Instance
      BY <1>2, <2>4, <3>2 DEF Ended
    <3>3. CASE peer[l] = None
      BY <1>1, <2>4, <3>3, Instances DEF Ended, TypeOK, Goes
    <3> QED
      BY <3>1, <3>2, <3>3 DEF Listener, Instance
  <2> QED
    BY <2>1, <2>3, <2>4
<1>5. ChainLives'
  <2> SUFFICES ASSUME NEW c \in Client, NEW f \in Firewall, NEW s \in Server,
                      serving[f] = c, serving[s] = f, ~Ended(c)'
               PROVE  ~Ended(f)' /\ ~Ended(s)'
    BY DEF ChainLives, Ended
  <2>1. /\ c \in Instance /\ f \in Instance /\ s \in Instance
        /\ c # None /\ f # None
        /\ f \in Listener /\ s \in Listener /\ s \notin Firewall
    BY Instances DEF Instance, Listener
  <2>2. ~Ended(c)
    BY <1>2, <2>1
  <2>3. ~Ended(f) /\ ~Ended(s)
    BY <1>0, <2>2 DEF ChainLives
  <2>4. peer[f] = s
    BY <2>1 DEF StartupInv, ConnectionsKept
  <2>5. ~Ended(f)'
    BY <1>3, <2>1, <2>2, <2>3, <2>4
  <2>6. ~Ended(s)'
    BY <1>3, <2>1, <2>3
  <2> QED
    BY <2>5, <2>6
<1> QED
  BY <1>4, <1>5

(***************************************************************************)
(* Who connects serves nobody yet.                                         *)
(***************************************************************************)
LEMMA ConnectLives ==
    ASSUME TypeOK, StartupInv, WaitingInv, LivesInv, NEW p \in Instance, Connect(p)
    PROVE  LivesInv'
<1>1. /\ p \in Initiator /\ pc[p] = "loaded" /\ UNCHANGED <<serving, failures>>
      /\ p \in Listener => serving[p] = None
  BY DEF Connect, WaitingInv, OneAccept
<1>2. CASE Reachable(p) = {}
  BY <1>1, <1>2, LivesGoesOn DEF Connect, Ended
<1>3. CASE Reachable(p) # {}
  <2>1. PICK l \in Reachable(p) :
            peer' = [peer EXCEPT ![p] = l] /\ Goes(p, "connected")
    BY <1>3 DEF Connect
  <2>2. \A q : Ended(q)' <=> Ended(q)
    BY <1>1, <2>1 DEF TypeOK, Goes, Ended
  <2>3. \A i \in Initiator \ {p} : peer'[i] = peer[i]
    BY <2>1 DEF TypeOK
  <2>4. EndsHaveCause => EndsHaveCause'
    <3> SUFFICES ASSUME EndsHaveCause, NEW m \in Listener, serving[m] # None, Ended(m)
                 PROVE  Ended(serving[m]) \/ (m \in Firewall /\ Ended(peer'[m]))
      BY <1>1, <2>2 DEF EndsHaveCause, Ended
    <3> QED
      BY <1>1, <2>3 DEF EndsHaveCause, Initiator
  <2>5. ChainLives => ChainLives'
    BY <1>1, <2>2 DEF ChainLives, Ended
  <2> QED
    BY <1>1, <2>4, <2>5 DEF LivesInv
<1> QED
  BY <1>2, <1>3

(***************************************************************************)
(* Who accepts is alive, and so is a firewall with a client that is alive  *)
(* when its connection is accepted.                                        *)
(***************************************************************************)
LEMMA AcceptLives ==
    ASSUME TypeOK, StartupInv, StartupInv', WaitingInv, LivesInv, NEW p \in Instance,
           Accept(p)
    PROVE  LivesInv'
<1> SUFFICES ASSUME failures = 0
             PROVE  EndsHaveCause' /\ ChainLives'
  BY DEF LivesInv, Accept
<1>0. EndsHaveCause /\ ChainLives
  BY DEF LivesInv
<1>1. /\ p \in Listener /\ pc[p] = "listening" /\ UNCHANGED peer
      /\ Goes(p, "serving")
      /\ serving' = [serving EXCEPT ![p] = Head(backlog[p])]
  BY DEF Accept, AcceptsNow
<1>2. \A q : Ended(q)' <=> Ended(q)
  BY <1>1 DEF TypeOK, Goes, Ended
<1>3. \A l \in Listener \ {p} : serving'[l] = serving[l]
  BY <1>1 DEF TypeOK
<1>4. ~Ended(p)
  BY <1>1 DEF Ended
<1>5. EndsHaveCause'
  <2> SUFFICES ASSUME NEW l \in Listener, serving'[l] # None, Ended(l)
               PROVE  Ended(serving'[l]) \/ (l \in Firewall /\ Ended(peer[l]))
    BY <1>1, <1>2 DEF EndsHaveCause, Ended
  <2> QED
    BY <1>0, <1>3, <1>4 DEF EndsHaveCause
<1>6. ChainLives'
  <2> SUFFICES ASSUME NEW c \in Client, NEW f \in Firewall, NEW s \in Server,
                      serving'[f] = c, serving'[s] = f, ~Ended(c)
               PROVE  ~Ended(f) /\ ~Ended(s)
    BY <1>2 DEF ChainLives, Ended
  <2>1. /\ c # None /\ f # None /\ f \in Listener /\ s \in Listener
        /\ s \notin Firewall
    BY Instances DEF Instance, Listener
  <2>2. peer[f] = s
    BY <1>1, <2>1 DEF StartupInv, ConnectionsKept
  <2>3. CASE p = s
    <3>1. serving[f] = c /\ ~Ended(s)
      BY <1>3, <1>4, <2>1, <2>3
    <3> QED
      BY <1>0, <2>1, <2>2, <3>1 DEF EndsHaveCause
  <2>4. CASE p = f
    <3>1. serving[s] = f /\ ~Ended(f)
      BY <1>3, <1>4, <2>1, <2>4
    <3> QED
      BY <1>0, <2>1, <3>1 DEF EndsHaveCause
  <2>5. CASE p # s /\ p # f
    BY <1>0, <1>3, <2>1, <2>5 DEF ChainLives
  <2> QED
    BY <2>3, <2>4, <2>5
<1> QED
  BY <1>5, <1>6

(***************************************************************************)
(* Every step of Next preserves the invariant.                             *)
(***************************************************************************)
LEMMA LivesStep ==
    TypeOK /\ StartupInv /\ StartupInv' /\ WaitingInv /\ LivesInv /\ [Next]_vars
        => LivesInv'
<1> SUFFICES ASSUME TypeOK, StartupInv, StartupInv', WaitingInv, LivesInv, [Next]_vars
             PROVE  LivesInv'
  OBVIOUS
<1>0. CASE UNCHANGED vars
  BY <1>0 DEF vars, LivesInv, EndsHaveCause, ChainLives, Ended
<1> SUFFICES ASSUME NEW p \in Instance, Step(p) \/ Environment(p)
             PROVE  LivesInv'
  BY <1>0 DEF Next
<1>a. /\ p \in Server => p \notin Firewall /\ p \notin Client
      /\ p \in Client => p \notin Listener
  BY Instances DEF Listener
<1>b. /\ p \in Server => pc[p] # "waiting"
      /\ p \in Listener /\ pc[p] \in {"down", "loaded", "connected", "listening"}
            => serving[p] = None
  BY DEF WaitingInv, Roles, OneAccept
<1>c. ASSUME NEW next, Goes(p, next), UNCHANGED <<peer, serving, failures>>,
             ~Ended(p),
             \/ next # "ended"
             \/ p \notin Listener
             \/ serving[p] = None
             \/ Ended(serving[p])
             \/ p \in Firewall /\ Ended(peer[p])
      PROVE  LivesInv'
  BY <1>c, LivesGoesOn
<1>1. CASE Start(p)
  <2>1. PICK next \in {"loaded", "ended"} : Goes(p, next)
    BY <1>1 DEF Start
  <2> QED
    BY <1>1, <1>b, <1>c, <2>1 DEF Start, Ended
<1>2. CASE Connect(p)
  BY <1>2, ConnectLives
<1>3. CASE Bind(p)
  <2>1. PICK next \in {"listening", "ended"} : Goes(p, next)
    BY <1>3 DEF Bind
  <2> QED
    BY <1>3, <1>b, <1>c, <2>1 DEF Bind, ReadyToBind, Ended
<1>4. CASE Accept(p)
  BY <1>4, AcceptLives
<1>5. CASE ClientSendsInit(p)
  <2>1. PICK next \in {"waiting", "ended"} : Goes(p, next)
    BY <1>5 DEF ClientSendsInit
  <2> QED
    BY <1>5, <1>a, <1>c, <2>1 DEF ClientSendsInit, Ended
<1>6. CASE FirewallForwardsInit(p)
  <2>1. PICK next \in {"waiting", "ended"} :
            Goes(p, next) /\ (next = "ended" => Ended(peer[p]))
    BY <1>6 DEF FirewallForwardsInit, SendMayFail
  <2> QED
    BY <1>6, <1>c, <2>1 DEF FirewallForwardsInit, HasInit, Ended
<1>7. CASE ServerResponds(p)
  <2>1. PICK next \in {"established", "ended"} :
            Goes(p, next) /\ (next = "ended" => Ended(serving[p]))
    BY <1>7 DEF ServerResponds, Answers, SendMayFail
  <2> QED
    BY <1>7, <1>c, <2>1 DEF ServerResponds, HasInit, Ended
<1>8. CASE FirewallRelaysResponse(p)
  <2>1. PICK next \in {"established", "ended"} :
            Goes(p, next) /\ (next = "ended" => Ended(serving[p]))
    BY <1>8 DEF FirewallRelaysResponse, Answers, SendMayFail
  <2> QED
    BY <1>8, <1>c, <2>1 DEF FirewallRelaysResponse, HasResponse, Ended
<1>9. CASE ClientFinalizes(p)
  BY <1>9, <1>c DEF ClientFinalizes, HasResponse, Ended
<1>10. CASE RecvError(p)
  <2>1. Goes(p, "ended") /\ UNCHANGED <<peer, serving, failures>>
    BY <1>10 DEF RecvError
  <2>2. CASE pc[p] = "waiting" /\ Ended(peer[p])
    BY <1>b, <1>c, <2>1, <2>2 DEF Ended, Listener
  <2>3. CASE pc[p] \in {"serving", "established"} /\ Ended(serving[p])
    BY <1>c, <2>1, <2>3 DEF Ended
  <2> QED
    BY <1>10, <2>2, <2>3 DEF RecvError, ReadsEnd
<1>11. CASE FirewallSendFails(p)
  BY <1>11, <1>c DEF FirewallSendFails, SendMayFail, Ended
<1>12. CASE ClientLeaves(p)
  BY <1>12, <1>a, <1>c DEF ClientLeaves, Ended
<1>13. CASE Fails(p)
  <2>1. failures' = failures + 1 /\ failures \in Nat
    BY <1>13, FailureBound DEF Fails, TypeOK
  <2>2. failures' # 0
    BY <2>1
  <2> QED
    BY <2>2 DEF LivesInv
<1> QED
  BY <1>1, <1>2, <1>3, <1>4, <1>5, <1>6, <1>7, <1>8, <1>9, <1>10, <1>11,
     <1>12, <1>13
     DEF Step, Environment

(***************************************************************************)
(* If nothing fails, a firewall and a server that a client has got live as *)
(* long as the client does.                                                *)
(***************************************************************************)
THEOREM LivesInvariant == Spec => []LivesInv
BY LivesInit, LivesStep, TypeCorrect, StartupInvariant, WaitingInvariant, PTL DEF Spec

(***************************************************************************)
(* The server serves a firewall that is at rest, and that one the client.  *)
(***************************************************************************)
LEMMA RestInSession ==
    TypeOK /\ StartupInv /\ WaitingInv /\ LivesInv => QuietMeansSession
<1> SUFFICES ASSUME TypeOK, StartupInv, WaitingInv, LivesInv, failures = 0, Quiet,
                    NEW c \in Client, NEW f \in Firewall, NEW s \in Server,
                    serving[f] = c, serving[s] = f, ~Ended(c)
             PROVE  /\ pc[c] = "established"
                    /\ pc[f] = "established"
                    /\ pc[s] = "established"
  BY DEF QuietMeansSession
<1>1. /\ c # None /\ f # None /\ f \in Listener /\ s \in Listener
      /\ c \in Initiator /\ f \in Initiator
  BY Instances DEF Instance, Listener, Initiator
<1>2. pc[c] \in PC /\ pc[f] \in PC /\ pc[s] \in PC
  BY DEF TypeOK, Instance
<1>3. pc[f] # "ended" /\ pc[s] # "ended"
  BY DEF LivesInv, ChainLives, Ended
<1>4. /\ pc[f] \notin {"down", "loaded", "connected", "listening"}
      /\ pc[s] \notin {"down", "loaded", "connected", "listening"}
  BY <1>1 DEF WaitingInv, OneAccept
<1>5. pc[s] \in {"serving", "established"}
  BY <1>2, <1>3, <1>4 DEF PC, WaitingInv, Roles
<1>6. pc[f] # "waiting"
  BY <1>1, <1>5, ServedAtRest
<1>7. pc[f] \in {"serving", "established"}
  BY <1>2, <1>3, <1>4, <1>6 DEF PC
<1>8. pc[c] \notin {"down", "loaded", "connected", "waiting", "ended"}
  BY <1>1, <1>7, ServedAtRest
<1>9. pc[c] = "established"
  BY <1>2, <1>8 DEF PC, WaitingInv, Roles
<1>10. peer[c] = f /\ peer[f] = s
  BY <1>1 DEF StartupInv, ConnectionsKept
<1>11. Linked(c) /\ Linked(f)
  BY <1>9, <1>10, InvChain DEF SessionChain
<1> QED
  BY <1>3, <1>9, <1>10, <1>11 DEF Linked

(***************************************************************************)
(* Without failures, a client that a firewall serves, which a server       *)
(* serves, comes to rest in a session with both, or leaves.                *)
(***************************************************************************)
THEOREM RestMeansSession == Spec => []QuietMeansSession
BY RestInSession, TypeCorrect, StartupInvariant, WaitingInvariant, LivesInvariant, PTL
=============================================================================
