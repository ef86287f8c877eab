--------------------------- MODULE StartupProofs ----------------------------
(***************************************************************************)
(* Theorems about Startup, for any number of instances and failures, on    *)
(* any addresses that keep firewalls and servers apart.                    *)
(***************************************************************************)
EXTENDS Startup, SequenceTheorems, TLAPS

-----------------------------------------------------------------------------
(* Types *)

LEMMA InitTypeOK == Init => TypeOK
BY Instances, FailureBound DEF Init, TypeOK, PC, Instance, Initiator, Listener

(***************************************************************************)
(* Whom a connection reaches, by its address.                              *)
(***************************************************************************)
LEMMA ReachableTyped ==
    /\ \A f \in Firewall : Reachable(f) \subseteq Server
    /\ \A c \in Client : Reachable(c) \subseteq Firewall
BY Addresses DEF Reachable, Listener

LEMMA NextTypeOK == TypeOK /\ [Next]_vars => TypeOK'
<1> SUFFICES ASSUME TypeOK, [Next]_vars PROVE TypeOK'
    OBVIOUS
<1> USE Instances, FailureBound
    DEF TypeOK, PC, Instance, Initiator, Listener, Goes, ResponseSent
<1>0. CASE UNCHANGED vars
    BY <1>0 DEF vars
<1> SUFFICES ASSUME NEW p \in Instance, Step(p) \/ Environment(p)
             PROVE  TypeOK'
    BY <1>0 DEF Next
<1>1. CASE Start(p)
    BY <1>1 DEF Start
<1>2. CASE Connect(p)
    <2>1. backlog' \in [Listener -> Seq(Initiator)]
        <3>1. CASE backlog' = backlog
            BY <3>1
        <3>2. ASSUME NEW l \in Listener, backlog' = Queued(l, p)
              PROVE  backlog' \in [Listener -> Seq(Initiator)]
            <4>1. Append(backlog[l], p) \in Seq(Initiator)
                BY <1>2 DEF Connect
            <4> QED
                BY <3>2, <4>1 DEF Queued
        <3>3. Reachable(p) \subseteq Listener
            BY DEF Reachable
        <3> QED
            BY <1>2, <3>1, <3>2, <3>3 DEF Connect
    <2>2. peer' \in [Initiator -> Listener \cup {None}]
        BY <1>2 DEF Connect, Reachable
    <2>3. pc' \in [Instance -> PC]
        BY <1>2 DEF Connect
    <2>4. /\ \A f \in Firewall : peer'[f] \in Server \cup {None}
          /\ \A c \in Client : peer'[c] \in Firewall \cup {None}
        <3>1. CASE UNCHANGED peer
            BY <3>1
        <3>2. ASSUME NEW l \in Reachable(p), peer' = [peer EXCEPT ![p] = l]
              PROVE  /\ \A f \in Firewall : peer'[f] \in Server \cup {None}
                     /\ \A c \in Client : peer'[c] \in Firewall \cup {None}
            <4>1. /\ p \in Firewall => l \in Server
                  /\ p \in Client => l \in Firewall
                BY ReachableTyped
            <4> QED
                BY <3>2, <4>1
        <3> QED
            BY <1>2, <3>1, <3>2 DEF Connect
    <2> QED
        BY <1>2, <2>1, <2>2, <2>3, <2>4 DEF Connect
<1>3. CASE Bind(p)
    BY <1>3 DEF Bind
<1>4. CASE Accept(p)
    BY <1>4 DEF Accept
<1>5. CASE ClientSendsInit(p)
    BY <1>5 DEF ClientSendsInit
<1>6. CASE FirewallForwardsInit(p)
    BY <1>6 DEF FirewallForwardsInit
<1>7. CASE ServerResponds(p)
    BY <1>7 DEF ServerResponds, Answers
<1>8. CASE FirewallRelaysResponse(p)
    BY <1>8 DEF FirewallRelaysResponse, Answers
<1>9. CASE ClientFinalizes(p)
    BY <1>9 DEF ClientFinalizes
<1>10. CASE RecvError(p)
    BY <1>10 DEF RecvError
<1>11. CASE FirewallSendFails(p)
    BY <1>11 DEF FirewallSendFails
<1>12. CASE ClientLeaves(p)
    BY <1>12 DEF ClientLeaves
<1>13. CASE Fails(p)
    BY <1>13 DEF Fails
<1> QED
    BY <1>1, <1>2, <1>3, <1>4, <1>5, <1>6, <1>7, <1>8, <1>9, <1>10, <1>11,
       <1>12, <1>13
       DEF Step, Environment

(***************************************************************************)
(* Every variable keeps its type.                                          *)
(***************************************************************************)
THEOREM TypeCorrect == Spec => []TypeOK
BY InitTypeOK, NextTypeOK, PTL DEF Spec

-----------------------------------------------------------------------------
(* The invariant *)

LEMMA InitInv == Init => StartupInv
BY DEF Init, StartupInv, ConnectionsKept, NotYetConnected, AddressReached,
       AnswersLinked, Initiator, Listener, Instance

(***************************************************************************)
(* All steps but Connect and Accept: one process goes on, the connections  *)
(* stay as they are, and an answer is sent on a linked connection only.    *)
(***************************************************************************)
LEMMA ProcessGoesOn ==
    ASSUME TypeOK, StartupInv,
           NEW p \in Instance, NEW next \in PC,
           Goes(p, next), UNCHANGED <<peer, backlog, serving>>,
           pc[p] \in {"established", "ended"} => next \in {"established", "ended"},
           p \in Listener /\ next \in {"serving", "waiting", "established"}
               => serving[p] # None,
           p \in Initiator /\ next = "established" => down[p],
           p \in Initiator /\ next \in {"down", "loaded"} => peer[p] = None,
           \A i \in Initiator : down'[i] /\ ~down[i] =>
               Linked(i)' /\ (peer[i] \in Firewall => Linked(peer[i])')
    PROVE  StartupInv'
<1> USE DEF TypeOK, Goes
<1>1. ConnectionsKept'
    BY DEF StartupInv, ConnectionsKept, Listener, Instance
<1>2. NotYetConnected'
    BY DEF StartupInv, NotYetConnected, Initiator, Instance
<1>3. AddressReached'
    BY DEF StartupInv, AddressReached
<1>4. ASSUME NEW i \in Initiator, Linked(i) PROVE Linked(i)'
    BY <1>4, Instances DEF Linked, Listener, Instance
<1>5. AnswersLinked'
    <2> SUFFICES ASSUME NEW i \in Initiator, down'[i] \/ (pc'[i] = "established")
                 PROVE  /\ Linked(i)'
                        /\ peer[i] \in Firewall => Linked(peer[i])'
        BY DEF AnswersLinked
    <2>1. CASE down'[i] /\ ~down[i]
        BY <2>1
    <2>2. CASE down[i] \/ pc[i] = "established"
        <3>1. Linked(i) /\ (peer[i] \in Firewall => Linked(peer[i]))
            BY <2>2 DEF StartupInv, AnswersLinked
        <3> QED
            BY <3>1, <1>4 DEF Initiator
    <2>3. CASE pc'[i] = "established" /\ pc[i] # "established"
        BY <2>2, <2>3 DEF Initiator, Instance
    <2> QED
        BY <2>1, <2>2, <2>3
<1> QED
    BY <1>1, <1>2, <1>3, <1>5 DEF StartupInv

LEMMA ConnectInv ==
    ASSUME TypeOK, StartupInv, NEW p \in Instance, Connect(p)
    PROVE  StartupInv'
<1>1. CASE Reachable(p) = {}
    <2>1. Goes(p, "ended") /\ UNCHANGED <<peer, backlog, serving, down>>
        BY <1>1 DEF Connect
    <2> QED
        BY <2>1, ProcessGoesOn DEF PC
<1>2. CASE Reachable(p) # {}
    <2>1. PICK l \in Reachable(p) :
              /\ peer' = [peer EXCEPT ![p] = l]
              /\ backlog' = Queued(l, p)
              /\ Goes(p, "connected")
        BY <1>2 DEF Connect
    <2>2. l \in Listener /\ ListenAddr[l] = TargetAddr[p]
        BY DEF Reachable
    <2>3. /\ p \in Initiator
          /\ pc[p] = "loaded"
          /\ peer[p] = None
          /\ UNCHANGED <<serving, down>>
        BY DEF Connect, StartupInv, NotYetConnected
    <2> USE DEF TypeOK, Goes
    <2>4. ConnectionsKept'
        <3> SUFFICES ASSUME NEW m \in Listener
                     PROVE  /\ \A n \in DOMAIN backlog'[m] : peer'[backlog'[m][n]] = m
                            /\ serving'[m] # None => peer'[serving'[m]] = m
                            /\ pc'[m] \in {"serving", "waiting", "established"}
                                   => serving'[m] # None
            BY DEF ConnectionsKept
        <3>1. \A n \in DOMAIN backlog[m] : peer[backlog[m][n]] = m
            BY DEF StartupInv, ConnectionsKept
        <3>2. \A n \in DOMAIN backlog[m] :
                  backlog[m][n] \in Initiator /\ backlog[m][n] # p
            BY <2>3, <3>1, Instances DEF Listener, Instance
        <3>3. \A n \in DOMAIN backlog'[m] : peer'[backlog'[m][n]] = m
            <4>1. CASE m # l
                BY <2>1, <3>1, <3>2, <4>1 DEF Queued
            <4>2. CASE m = l
                <5>1. backlog'[m] = Append(backlog[m], p)
                    BY <2>1, <2>2, <4>2 DEF Queued
                <5>2. ASSUME NEW n \in DOMAIN backlog'[m]
                      PROVE  \/ n \in DOMAIN backlog[m] /\ backlog'[m][n] = backlog[m][n]
                             \/ backlog'[m][n] = p
                    BY <2>3, <5>1, <5>2
                <5> QED
                    BY <2>1, <2>2, <2>3, <3>1, <3>2, <4>2, <5>2
            <4> QED
                BY <4>1, <4>2
        <3>4. serving'[m] # None => peer'[serving'[m]] = m
            BY <2>1, <2>3, Instances
               DEF StartupInv, ConnectionsKept, Listener, Instance
        <3>5. pc'[m] \in {"serving", "waiting", "established"}
                  => serving'[m] # None
            BY <2>1, <2>3 DEF StartupInv, ConnectionsKept, Listener, Instance
        <3> QED
            BY <3>3, <3>4, <3>5
    <2>5. NotYetConnected'
        BY <2>1, <2>3 DEF StartupInv, NotYetConnected, Initiator, Instance
    <2>6. AddressReached'
        BY <2>1, <2>2, <2>3 DEF StartupInv, AddressReached
    <2>7. ASSUME NEW i \in Initiator, Linked(i) PROVE Linked(i)' /\ peer'[i] = peer[i]
        BY <2>1, <2>3, <2>7, Instances DEF Linked, Listener, Instance
    <2>8. AnswersLinked'
        <3>1. ASSUME NEW i \in Initiator, down'[i] \/ (pc'[i] = "established")
              PROVE  /\ Linked(i)
                     /\ peer[i] \in Firewall => Linked(peer[i])
            <4>1. down[i] \/ (pc[i] = "established")
                BY <2>1, <2>3, <3>1 DEF Initiator, Instance
            <4> QED
                BY <4>1 DEF StartupInv, AnswersLinked
        <3>2. ASSUME NEW i \in Initiator, down'[i] \/ (pc'[i] = "established")
              PROVE  Linked(i)' /\ peer'[i] = peer[i]
            BY <2>7, <3>1, <3>2
        <3>3. ASSUME NEW i \in Initiator, down'[i] \/ (pc'[i] = "established"),
                     NEW f \in Firewall, f = peer[i]
              PROVE  Linked(f)'
            BY <2>7, <3>1, <3>3 DEF Initiator
        <3> QED
            BY <3>2, <3>3 DEF AnswersLinked, Linked
    <2> QED
        BY <2>4, <2>5, <2>6, <2>8 DEF StartupInv
<1> QED
    BY <1>1, <1>2

LEMMA AcceptInv ==
    ASSUME TypeOK, StartupInv, NEW p \in Instance, Accept(p)
    PROVE  StartupInv'
<1> DEFINE i == Head(backlog[p])
<1>1. /\ p \in Listener
      /\ pc[p] = "listening"
      /\ backlog[p] \in Seq(Initiator) /\ backlog[p] # <<>>
      /\ serving' = [serving EXCEPT ![p] = i]
      /\ backlog' = [backlog EXCEPT ![p] = Tail(@)]
      /\ Goes(p, "serving")
      /\ UNCHANGED <<peer, down>>
    BY DEF Accept, AcceptsNow, TypeOK
<1>2. i \in Initiator /\ peer[i] = p /\ i # None
    BY <1>1, Instances
       DEF StartupInv, ConnectionsKept, Initiator, Instance
<1> HIDE DEF i
<1> USE DEF TypeOK, Goes
<1>3. ConnectionsKept'
    <2> SUFFICES ASSUME NEW m \in Listener
                 PROVE  /\ \A n \in DOMAIN backlog'[m] : peer'[backlog'[m][n]] = m
                        /\ serving'[m] # None => peer'[serving'[m]] = m
                        /\ pc'[m] \in {"serving", "waiting", "established"}
                               => serving'[m] # None
        BY DEF ConnectionsKept
    <2>1. \A n \in DOMAIN backlog'[m] : peer'[backlog'[m][n]] = m
        <3>1. CASE m = p
            <4>1. \A n \in DOMAIN Tail(backlog[p]) :
                      /\ n + 1 \in DOMAIN backlog[p]
                      /\ Tail(backlog[p])[n] = backlog[p][n + 1]
                BY <1>1
            <4> QED
                BY <1>1, <3>1, <4>1 DEF StartupInv, ConnectionsKept
        <3>2. CASE m # p
            BY <1>1, <3>2 DEF StartupInv, ConnectionsKept
        <3> QED
            BY <3>1, <3>2
    <2>2. serving'[m] # None => peer'[serving'[m]] = m
        BY <1>1, <1>2 DEF StartupInv, ConnectionsKept
    <2>3. pc'[m] \in {"serving", "waiting", "established"} => serving'[m] # None
        BY <1>1, <1>2 DEF StartupInv, ConnectionsKept, Listener, Instance
    <2> QED
        BY <2>1, <2>2, <2>3
<1>4. NotYetConnected'
    BY <1>1 DEF StartupInv, NotYetConnected, Initiator, Instance
<1>5. AddressReached'
    BY <1>1 DEF StartupInv, AddressReached
<1>6. ASSUME NEW j \in Initiator, Linked(j) PROVE Linked(j)'
    BY <1>1, <1>6, Instances DEF Linked, Listener, Instance
<1>7. AnswersLinked'
    <2>1. ASSUME NEW j \in Initiator, down'[j] \/ (pc'[j] = "established")
          PROVE  Linked(j) /\ (peer[j] \in Firewall => Linked(peer[j]))
        <3>1. down[j] \/ (pc[j] = "established")
            BY <1>1, <2>1 DEF Initiator, Instance
        <3> QED
            BY <3>1 DEF StartupInv, AnswersLinked
    <2>2. ASSUME NEW j \in Initiator, down'[j] \/ (pc'[j] = "established")
          PROVE  Linked(j)' /\ peer'[j] = peer[j]
        BY <1>1, <1>6, <2>1, <2>2
    <2>3. ASSUME NEW j \in Initiator, down'[j] \/ (pc'[j] = "established"),
                 NEW f \in Firewall, f = peer[j]
          PROVE  Linked(f)'
        BY <1>6, <2>1, <2>3 DEF Initiator
    <2> QED
        BY <2>2, <2>3 DEF AnswersLinked, Linked
<1> QED
    BY <1>3, <1>4, <1>5, <1>7 DEF StartupInv

(***************************************************************************)
(* The answer goes to the connection being served, which is then linked;   *)
(* a firewall has its own answer by then, and so a linked server.          *)
(***************************************************************************)
LEMMA AnswersInv ==
    ASSUME TypeOK, StartupInv, NEW p \in Listener, Answers(p),
           pc[p] \in {"serving", "waiting"},
           p \in Firewall => down[p],
           UNCHANGED <<peer, backlog, serving>>
    PROVE  StartupInv'
<1>1. CASE ResponseSent(serving[p]) /\ Goes(p, "established")
    <2>1. PICK i \in Initiator : i = serving[p] /\ peer[i] = p /\ p # None
        BY Instances
           DEF TypeOK, StartupInv, ConnectionsKept, Listener, Instance
    <2>2. down' = [down EXCEPT ![i] = TRUE] /\ pc' = [pc EXCEPT ![p] = "established"]
        BY <1>1, <2>1 DEF ResponseSent, Goes
    <2>3. Linked(i)'
        BY <2>1, <2>2 DEF Linked, TypeOK, Listener, Instance
    <2>4. ASSUME p \in Firewall PROVE Linked(p)'
        <3>1. Linked(p)
            BY <2>4 DEF StartupInv, AnswersLinked, Initiator
        <3> QED
            BY <2>2, <3>1, Instances
               DEF Linked, TypeOK, Listener, Instance, Initiator
    <2>5. \A j \in Initiator : down'[j] /\ ~down[j] =>
              Linked(j)' /\ (peer[j] \in Firewall => Linked(peer[j])')
        <3>1. \A j \in Initiator : down'[j] /\ ~down[j] => j = i
            BY <2>2 DEF TypeOK
        <3>2. peer[i] \in Firewall => Linked(peer[i])'
            BY <2>1, <2>4 DEF Linked
        <3> QED
            BY <2>3, <3>1, <3>2
    <2>6. p \in Instance /\ "established" \in PC /\ serving[p] # None
        BY DEF Listener, Instance, PC, StartupInv, ConnectionsKept
    <2>7. p \in Initiator => down[p]
        BY Instances DEF Listener, Initiator
    <2> QED
        BY <1>1, <2>5, <2>6, <2>7, ProcessGoesOn
<1>2. CASE Goes(p, "ended") /\ UNCHANGED down
    BY <1>2, ProcessGoesOn DEF PC, Listener, Instance
<1> QED
    BY <1>1, <1>2 DEF Answers

LEMMA NextInv == TypeOK /\ StartupInv /\ [Next]_vars => StartupInv'
<1> SUFFICES ASSUME TypeOK, StartupInv, [Next]_vars PROVE StartupInv'
    OBVIOUS
<1>0. CASE UNCHANGED vars
    BY <1>0 DEF vars, StartupInv, ConnectionsKept, NotYetConnected,
                AddressReached, AnswersLinked, Linked
<1> SUFFICES ASSUME NEW p \in Instance, Step(p) \/ Environment(p)
             PROVE  StartupInv'
    BY <1>0 DEF Next
<1>a. p \in Listener /\ pc[p] \in {"serving", "waiting", "established"}
          => serving[p] # None
    BY DEF StartupInv, ConnectionsKept
<1>b. p \in Initiator /\ pc[p] \in {"down", "loaded"} => peer[p] = None
    BY DEF StartupInv, NotYetConnected
<1>1. CASE Start(p)
    <2>1. PICK next \in {"loaded", "ended"} : Goes(p, next)
        BY <1>1 DEF Start
    <2> QED
        BY <1>1, <1>b, <2>1, ProcessGoesOn DEF Start, PC
<1>2. CASE Connect(p)
    BY <1>2, ConnectInv
<1>3. CASE Bind(p)
    <2>1. PICK next \in {"listening", "ended"} : Goes(p, next)
        BY <1>3 DEF Bind
    <2> QED
        BY <1>3, <2>1, ProcessGoesOn DEF Bind, ReadyToBind, PC
<1>4. CASE Accept(p)
    BY <1>4, AcceptInv
<1>5. CASE ClientSendsInit(p)
    <2>1. PICK next \in {"waiting", "ended"} : Goes(p, next)
        BY <1>5 DEF ClientSendsInit
    <2> QED
        BY <1>5, <2>1, Instances, ProcessGoesOn
           DEF ClientSendsInit, PC, Listener
<1>6. CASE FirewallForwardsInit(p)
    <2>1. PICK next \in {"waiting", "ended"} : Goes(p, next)
        BY <1>6 DEF FirewallForwardsInit
    <2> QED
        BY <1>6, <1>a, <2>1, ProcessGoesOn
           DEF FirewallForwardsInit, HasInit, PC, Listener
<1>7. CASE ServerResponds(p)
    BY <1>7, Instances, AnswersInv DEF ServerResponds, HasInit, Listener
<1>8. CASE FirewallRelaysResponse(p)
    BY <1>8, AnswersInv DEF FirewallRelaysResponse, HasResponse, Listener
<1>9. CASE ClientFinalizes(p)
    BY <1>9, Instances, ProcessGoesOn
       DEF ClientFinalizes, HasResponse, PC, Listener, Initiator
<1>10. CASE RecvError(p)
    BY <1>10, ProcessGoesOn DEF RecvError, PC
<1>11. CASE FirewallSendFails(p)
    BY <1>11, ProcessGoesOn DEF FirewallSendFails, PC
<1>12. CASE ClientLeaves(p)
    BY <1>12, ProcessGoesOn DEF ClientLeaves, PC
<1>13. CASE Fails(p)
    BY <1>13, ProcessGoesOn DEF Fails, PC
<1> QED
    BY <1>1, <1>2, <1>3, <1>4, <1>5, <1>6, <1>7, <1>8, <1>9, <1>10, <1>11,
       <1>12, <1>13
       DEF Step, Environment

(***************************************************************************)
(* Connections stay with the listener they were opened to, and answers     *)
(* travel on linked connections only.                                      *)
(***************************************************************************)
THEOREM StartupInvariant == Spec => []StartupInv
BY InitTypeOK, NextTypeOK, InitInv, NextInv, PTL DEF Spec

(***************************************************************************)
(* A client's peer is a firewall.                                          *)
(***************************************************************************)
LEMMA InvChain == TypeOK /\ StartupInv => SessionChain
<1> SUFFICES ASSUME TypeOK, StartupInv,
                    NEW c \in Client, pc[c] = "established"
             PROVE  Linked(c) /\ Linked(peer[c])
    BY DEF SessionChain
<1>1. /\ c \in Initiator
      /\ Linked(c)
      /\ peer[c] \in Firewall => Linked(peer[c])
    BY DEF StartupInv, AnswersLinked, Initiator
<1>2. peer[c] \in Firewall
    BY <1>1 DEF TypeOK, Linked
<1> QED
    BY <1>1, <1>2

(***************************************************************************)
(* An established client has a firewall and a server to itself.            *)
(***************************************************************************)
THEOREM SessionsKeptApart == Spec => []SessionChain
BY InitTypeOK, NextTypeOK, InitInv, NextInv, InvChain, PTL DEF Spec
=============================================================================
