------------------------------ MODULE Startup -------------------------------
(***************************************************************************)
(* From three programs that nobody has started to sessions that have       *)
(* ended: src/bin and src/config.rs, with several instances of each        *)
(* program.  Loading and publishing keys, connecting, binding, accepting,  *)
(* the four messages of the key exchange and the ends of the connections   *)
(* are kept; what the messages say is the subject of Handshake, the        *)
(* records that of RecordLayer and the key files that of Deployment.       *)
(*                                                                         *)
(* An instance runs once: starting a program again is another instance.    *)
(* A connection is named by the instance that opened it.                   *)
(***************************************************************************)
EXTENDS Naturals, Sequences

CONSTANTS
    Server, Firewall, Client,   \* the instances of the three programs
    ListenAddr,     \* the address each server and firewall binds
    TargetAddr,     \* the address each firewall and client connects to
    None,           \* no instance
    MaxFailures     \* bound on the instances that fail or are killed

Listener == Server \cup Firewall

Initiator == Firewall \cup Client

Instance == Server \cup Firewall \cup Client

ASSUME Instances ==
    /\ Server \cap Firewall = {}
    /\ Server \cap Client = {}
    /\ Firewall \cap Client = {}
    /\ None \notin Instance

ASSUME FailureBound == MaxFailures \in Nat

(***************************************************************************)
(* The firewalls connect to servers and the clients to firewalls, as the   *)
(* defaults and the deployment script set them.                            *)
(***************************************************************************)
ASSUME Addresses ==
    /\ \A f, g \in Firewall : TargetAddr[f] # ListenAddr[g]
    /\ \A c \in Client, s \in Server : TargetAddr[c] # ListenAddr[s]

VARIABLES
    pc,         \* what each instance does next or is blocked in
    peer,       \* the listener that each initiator's connection reached
    backlog,    \* connections waiting for each listener's accept
    serving,    \* the connection each listener has accepted
    up,         \* is a message in flight from the initiator on its connection?
    down,       \* is one in flight to it?
    published,  \* is there a firewall_pk_ristretto.bin for clients to read?
    failures    \* how many instances failed or were killed so far

vars == <<pc, peer, backlog, serving, up, down, published, failures>>

-----------------------------------------------------------------------------
(* Control *)

(***************************************************************************)
(* down        not started                                                 *)
(* loaded      has its keys (and, a firewall, published its public key)    *)
(* connected   its connection is open                                      *)
(* listening   blocked in accept                                           *)
(* serving     blocked in the receive of its client's (or firewall's) init *)
(* waiting     blocked in the receive of the answer                        *)
(* established in its record loop                                          *)
(* ended       gone, its sockets closed by the system                      *)
(***************************************************************************)
PC == {"down", "loaded", "connected", "listening", "serving", "waiting",
       "established", "ended"}

Goes(p, next) == pc' = [pc EXCEPT ![p] = next]

Ended(p) == pc[p] = "ended"

(***************************************************************************)
(* The listening socket lives until its process ends: nothing closes it    *)
(* after the one accept.                                                   *)
(***************************************************************************)
Bound(l) ==
    /\ l \in Listener
    /\ pc[l] \in {"listening", "serving", "waiting", "established"}

-----------------------------------------------------------------------------
(* Start-up *)

Start(p) ==
    /\ pc[p] = "down"
    /\ \/ /\ p \in Client
          /\ Goes(p, IF published THEN "loaded" ELSE "ended")
          /\ UNCHANGED published
       \/ /\ p \in Server
          /\ Goes(p, "loaded")
          /\ UNCHANGED published
       \/ /\ p \in Firewall
          /\ Goes(p, "loaded")
          /\ published' = TRUE
    /\ UNCHANGED <<peer, backlog, serving, up, down, failures>>

\* Mutant: everybody dials the address of the server.
ReachableAsServer(i) ==
    {l \in Listener : Bound(l) /\ \E f \in Firewall : ListenAddr[l] = TargetAddr[f]}

Reachable(i) == {l \in Listener : Bound(l) /\ ListenAddr[l] = TargetAddr[i]}

Queued(l, i) == [backlog EXCEPT ![l] = Append(@, i)]

(***************************************************************************)
(* A connection is open as soon as the listener's system has queued it; a  *)
(* refused one ends the initiator, which does not try again.               *)
(***************************************************************************)
Connect(i) ==
    /\ i \in Initiator
    /\ pc[i] = "loaded"
    /\ \/ \E l \in Reachable(i) :
             /\ peer' = [peer EXCEPT ![i] = l]
             /\ backlog' = Queued(l, i)
             /\ Goes(i, "connected")
       \/ /\ Reachable(i) = {}
          /\ Goes(i, "ended")
          /\ UNCHANGED <<peer, backlog>>
    /\ UNCHANGED <<serving, up, down, published, failures>>

\* Mutant: nobody looks whether the address is taken.
AddressFreeAnyway(l) == TRUE

AddressFree(l) == \A m \in Listener : Bound(m) => ListenAddr[m] # ListenAddr[l]

(***************************************************************************)
(* A firewall binds after it has connected to a server.                    *)
(***************************************************************************)
ReadyToBind(l) ==
    \/ l \in Server /\ pc[l] = "loaded"
    \/ l \in Firewall /\ pc[l] = "connected"

Bind(l) ==
    /\ ReadyToBind(l)
    /\ Goes(l, IF AddressFree(l) THEN "listening" ELSE "ended")
    /\ UNCHANGED <<peer, backlog, serving, up, down, published, failures>>

\* Mutant: a listener in its record loop accepts the next connection.
AcceptsAgain(l) == pc[l] \in {"listening", "established"}

AcceptsNow(l) == pc[l] = "listening"

(***************************************************************************)
(* One accept per process, in the order of arrival.  What was queued is    *)
(* accepted even if its initiator is gone by now.                          *)
(***************************************************************************)
Accept(l) ==
    /\ l \in Listener
    /\ AcceptsNow(l)
    /\ backlog[l] # <<>>
    /\ serving' = [serving EXCEPT ![l] = Head(backlog[l])]
    /\ backlog' = [backlog EXCEPT ![l] = Tail(@)]
    /\ Goes(l, "serving")
    /\ UNCHANGED <<peer, up, down, published, failures>>

-----------------------------------------------------------------------------
(* The key exchange *)

(***************************************************************************)
(* Bytes sent to a process that is gone reach nobody, or the send fails    *)
(* and ends the sender.                                                    *)
(***************************************************************************)
SendMayFail(to) == Ended(to)

ClientSendsInit(c) ==
    /\ c \in Client
    /\ pc[c] = "connected"
    /\ \/ up' = [up EXCEPT ![c] = TRUE] /\ Goes(c, "waiting")
       \/ SendMayFail(peer[c]) /\ Goes(c, "ended") /\ UNCHANGED up
    /\ UNCHANGED <<peer, backlog, serving, down, published, failures>>

HasInit(l) == pc[l] = "serving" /\ up[serving[l]]

(***************************************************************************)
(* The firewall's own connection may still be in the server's backlog.     *)
(***************************************************************************)
FirewallForwardsInit(f) ==
    /\ f \in Firewall
    /\ HasInit(f)
    /\ \/ /\ up' = [up EXCEPT ![serving[f]] = FALSE, ![f] = TRUE]
          /\ Goes(f, "waiting")
       \/ /\ SendMayFail(peer[f])
          /\ up' = [up EXCEPT ![serving[f]] = FALSE]
          /\ Goes(f, "ended")
    /\ UNCHANGED <<peer, backlog, serving, down, published, failures>>

\* Mutant: the response stays in a buffer that nothing flushes.
ResponseUnflushed(i) == UNCHANGED down

ResponseSent(i) == down' = [down EXCEPT ![i] = TRUE]

(***************************************************************************)
(* The handler that answers on the connection accepted, and goes on to the *)
(* record loop.                                                            *)
(***************************************************************************)
Answers(l) ==
    \/ ResponseSent(serving[l]) /\ Goes(l, "established")
    \/ SendMayFail(serving[l]) /\ Goes(l, "ended") /\ UNCHANGED down

ServerResponds(s) ==
    /\ s \in Server
    /\ HasInit(s)
    /\ up' = [up EXCEPT ![serving[s]] = FALSE]
    /\ Answers(s)
    /\ UNCHANGED <<peer, backlog, serving, published, failures>>

HasResponse(i) == pc[i] = "waiting" /\ down[i]

FirewallRelaysResponse(f) ==
    /\ f \in Firewall
    /\ HasResponse(f)
    /\ Answers(f)
    /\ UNCHANGED <<peer, backlog, serving, up, published, failures>>

ClientFinalizes(c) ==
    /\ c \in Client
    /\ HasResponse(c)
    /\ Goes(c, "established")
    /\ UNCHANGED <<peer, backlog, serving, up, down, published, failures>>

-----------------------------------------------------------------------------
(* Ends *)

\* Mutant: a listener's read is tried again when its connection is closed.
EndUnnoticed(p) == pc[p] = "waiting" /\ ~down[p] /\ Ended(peer[p])

(***************************************************************************)
(* Blocked in a read on a connection whose other end is gone, with nothing *)
(* left to read.  A firewall that waits for the server does not look at    *)
(* its client, and one in its record loop does not look at the server.     *)
(***************************************************************************)
ReadsEnd(p) ==
    \/ pc[p] = "waiting" /\ ~down[p] /\ Ended(peer[p])
    \/ pc[p] = "serving" /\ ~up[serving[p]] /\ Ended(serving[p])
    \/ p \in Listener /\ pc[p] = "established" /\ Ended(serving[p])

RecvError(p) ==
    /\ ReadsEnd(p)
    /\ Goes(p, "ended")
    /\ UNCHANGED <<peer, backlog, serving, up, down, published, failures>>

(***************************************************************************)
(* The user types a line and the firewall finds the server gone.           *)
(***************************************************************************)
FirewallSendFails(f) ==
    /\ f \in Firewall
    /\ pc[f] = "established"
    /\ pc[serving[f]] = "established"
    /\ SendMayFail(peer[f])
    /\ Goes(f, "ended")
    /\ UNCHANGED <<peer, backlog, serving, up, down, published, failures>>

ClientLeaves(c) ==
    /\ c \in Client
    /\ pc[c] = "established"
    /\ Goes(c, "ended")
    /\ UNCHANGED <<peer, backlog, serving, up, down, published, failures>>

(***************************************************************************)
(* Keys that do not load (before the start shows any effect), a handler    *)
(* that rejects a message, or a kill.                                      *)
(***************************************************************************)
Fails(p) ==
    /\ failures < MaxFailures
    /\ ~Ended(p)
    /\ failures' = failures + 1
    /\ Goes(p, "ended")
    /\ UNCHANGED <<peer, backlog, serving, up, down, published>>

-----------------------------------------------------------------------------
(* Specification *)

(***************************************************************************)
(* A key file of an earlier run may be there from the start.               *)
(***************************************************************************)
Init ==
    /\ pc = [p \in Instance |-> "down"]
    /\ peer = [i \in Initiator |-> None]
    /\ backlog = [l \in Listener |-> <<>>]
    /\ serving = [l \in Listener |-> None]
    /\ up = [i \in Initiator |-> FALSE]
    /\ down = [i \in Initiator |-> FALSE]
    /\ published \in BOOLEAN
    /\ failures = 0

(***************************************************************************)
(* What a started process does by itself.                                  *)
(***************************************************************************)
Step(p) ==
    \/ Connect(p)
    \/ Bind(p)
    \/ Accept(p)
    \/ ClientSendsInit(p)
    \/ FirewallForwardsInit(p)
    \/ ServerResponds(p)
    \/ FirewallRelaysResponse(p)
    \/ ClientFinalizes(p)
    \/ RecvError(p)

Environment(p) ==
    Start(p) \/ FirewallSendFails(p) \/ ClientLeaves(p) \/ Fails(p)

Next == \E p \in Instance : Step(p) \/ Environment(p)

Spec == Init /\ [][Next]_vars

(***************************************************************************)
(* The system runs a process that is not blocked.  Nothing makes anybody   *)
(* start a program, type or leave.                                         *)
(***************************************************************************)
FairSpec == Spec /\ \A p \in Instance : WF_vars(Step(p))

(***************************************************************************)
(* The order that run_demo of the deployment script keeps and then asks of *)
(* its user: the firewall; the server once pk_fw is published; the client  *)
(* once the server listens.                                                *)
(***************************************************************************)
AsInstructed ==
    /\ \A s \in Server : pc[s] = "down" /\ pc'[s] # "down" => published
    /\ \A c \in Client : pc[c] = "down" /\ pc'[c] # "down" =>
          \E s \in Server : Bound(s)

DemoSpec == Init /\ published = FALSE /\ [][Next /\ AsInstructed]_vars

-----------------------------------------------------------------------------
(* Properties *)

(***************************************************************************)
(* The types of the variables.  A firewall's own connection is to a server *)
(* and a client's to a firewall.                                           *)
(***************************************************************************)
TypeOK ==
    /\ pc \in [Instance -> PC]
    /\ peer \in [Initiator -> Listener \cup {None}]
    /\ \A f \in Firewall : peer[f] \in Server \cup {None}
    /\ \A c \in Client : peer[c] \in Firewall \cup {None}
    /\ backlog \in [Listener -> Seq(Initiator)]
    /\ serving \in [Listener -> Initiator \cup {None}]
    /\ up \in [Initiator -> BOOLEAN]
    /\ down \in [Initiator -> BOOLEAN]
    /\ published \in BOOLEAN
    /\ failures \in 0 .. MaxFailures

(***************************************************************************)
(* The listener at the other end has accepted this connection, answered on *)
(* it and turned to no other since.                                        *)
(***************************************************************************)
Linked(i) ==
    /\ peer[i] # None
    /\ serving[peer[i]] = i
    /\ pc[peer[i]] \in {"established", "ended"}

(***************************************************************************)
(* A client in its record loop has a firewall and a server to itself, for  *)
(* as long as any of the three lives: a second client in the firewall's    *)
(* backlog, or a second firewall in the server's, is never let into the    *)
(* session nor given an answer that belongs to another.                    *)
(***************************************************************************)
SessionChain ==
    \A c \in Client : pc[c] = "established" => Linked(c) /\ Linked(peer[c])

OneFirewallAddress ==
    \A f, g \in Firewall : ListenAddr[f] = ListenAddr[g]

ClientsLeave ==
    \A c \in Client : pc[c] = "established" ~> Ended(c)

(***************************************************************************)
(* With one address for all firewalls: if every session ends some time, no *)
(* client waits for ever, not one in a backlog that is never accepted from *)
(* again either.  The reads have no time limit; what frees a client is the *)
(* end of the process that holds its connection.                           *)
(***************************************************************************)
NobodyLeftWaiting ==
    OneFirewallAddress /\ ClientsLeave =>
        \A c \in Client : pc[c] = "waiting" ~> pc[c] # "waiting"

(***************************************************************************)
(* A firewall that waits its turn: its server is alive and has not         *)
(* accepted its connection.                                                *)
(***************************************************************************)
InBacklog(l) == l \in Firewall /\ ~Ended(peer[l]) /\ serving[peer[l]] # l

(***************************************************************************)
(* The end of whoever opened a connection ends the process that serves it: *)
(* no server is left reading from a firewall that could not bind, no       *)
(* firewall from a client that was turned away.  A firewall that has       *)
(* forwarded the init does not look at its client, so this is claimed of   *)
(* one in a server's backlog only if all firewalls have one address: then  *)
(* the server never stays with another.  With an address of its own it     *)
(* waits, its client gone, as long as the server serves another.           *)
(***************************************************************************)
EndTravels ==
    \A l \in Listener : \A i \in Initiator :
        serving[l] = i /\ Ended(i) /\ (OneFirewallAddress \/ ~InBacklog(l))
            ~> Ended(l)

(***************************************************************************)
(* If nothing fails, a client whose connection is accepted by a firewall   *)
(* whose own is accepted by a server gets to its record loop.              *)
(***************************************************************************)
ServedIsEstablished ==
    [](failures = 0) =>
        \A c \in Client : \A f \in Firewall : \A s \in Server :
            serving[f] = c /\ serving[s] = f /\ ~Ended(c)
                ~> pc[c] = "established"

(***************************************************************************)
(* "Now start manually", says the deployment script: the server, then the  *)
(* client; and the client asks for "server and firewall already started".  *)
(* So the firewall should still be there when the server has come up.      *)
(***************************************************************************)
FirewallAwaitsServer ==
    failures = 0 /\ (\E s \in Server : pc[s] = "listening") =>
        \E f \in Firewall : pc[f] \notin {"down", "ended"}

(***************************************************************************)
(* No started process can go on by itself.                                 *)
(***************************************************************************)
Quiet ==
    \A p \in Instance :
        /\ pc[p] \notin {"loaded", "connected"}
        /\ pc[p] = "listening" => backlog[p] = <<>>
        /\ ~HasInit(p) /\ ~HasResponse(p) /\ ~ReadsEnd(p)

(***************************************************************************)
(* What NobodyLeftWaiting comes to in every state: the blocking accepts    *)
(* and reads of any number of processes form no cycle and end at a session *)
(* that a user keeps open.  With one address for all firewalls and no such *)
(* session, nobody is left in a backlog or without an answer.              *)
(***************************************************************************)
QuietMeansServed ==
    OneFirewallAddress /\ Quiet /\ (\A c \in Client : pc[c] # "established") =>
        \A c \in Client : pc[c] # "waiting"

(***************************************************************************)
(* And EndTravels: once nobody can go on, a listener is gone if whoever it *)
(* served is.  A firewall that does not look at its client while it waits  *)
(* for the server does not wait for ever, unless it is in the backlog of a *)
(* server and the firewalls have several addresses.                        *)
(***************************************************************************)
QuietMeansEndsNoticed ==
    Quiet =>
        \A l \in Listener :
            serving[l] # None /\ Ended(serving[l])
                    /\ (OneFirewallAddress \/ ~InBacklog(l)) =>
                Ended(l)

(***************************************************************************)
(* And ServedIsEstablished: if nothing failed, a client that a firewall    *)
(* serves, itself served by a server, is not left without a session while  *)
(* all three are alive, nor do the other two end before it.                *)
(***************************************************************************)
QuietMeansSession ==
    failures = 0 /\ Quiet =>
        \A c \in Client : \A f \in Firewall : \A s \in Server :
            serving[f] = c /\ serving[s] = f /\ ~Ended(c) =>
                pc[c] = "established" /\ pc[f] = "established" /\ pc[s] = "established"

-----------------------------------------------------------------------------
(* The inductive invariant behind SessionChain. *)

(***************************************************************************)
(* A connection is in the hands of the listener it was opened to.          *)
(***************************************************************************)
ConnectionsKept ==
    \A l \in Listener :
        /\ \A n \in DOMAIN backlog[l] : peer[backlog[l][n]] = l
        /\ serving[l] # None => peer[serving[l]] = l
        /\ pc[l] \in {"serving", "waiting", "established"} => serving[l] # None

NotYetConnected ==
    \A i \in Initiator : pc[i] \in {"down", "loaded"} => peer[i] = None

AddressReached ==
    \A i \in Initiator : peer[i] # None => ListenAddr[peer[i]] = TargetAddr[i]

(***************************************************************************)
(* An answer, in flight or received, is from a listener that has answered; *)
(* a firewall answers after its server.                                    *)
(***************************************************************************)
AnswersLinked ==
    \A i \in Initiator : down[i] \/ (pc[i] = "established") =>
        /\ Linked(i)
        /\ peer[i] \in Firewall => Linked(peer[i])

StartupInv ==
    /\ ConnectionsKept
    /\ NotYetConnected
    /\ AddressReached
    /\ AnswersLinked

-----------------------------------------------------------------------------
(* The inductive invariant behind QuietMeansServed and                     *)
(* QuietMeansEndsNoticed: who holds which connection, and which message of *)
(* the exchange is owed on it.                                             *)

Roles ==
    /\ \A s \in Server : pc[s] \notin {"connected", "waiting"}
    /\ \A c \in Client : pc[c] \notin {"listening", "serving"}

HasPeer ==
    \A i \in Initiator : pc[i] \notin {"down", "loaded", "ended"} => peer[i] # None

(***************************************************************************)
(* An address has one listener at a time.                                  *)
(***************************************************************************)
BoundApart ==
    \A l, m \in Listener :
        Bound(l) /\ Bound(m) /\ ListenAddr[l] = ListenAddr[m] => l = m

Held(i) ==
    \/ serving[peer[i]] = i
    \/ \E n \in DOMAIN backlog[peer[i]] : backlog[peer[i]][n] = i

PeersHold ==
    \A i \in Initiator : peer[i] # None /\ ~Ended(peer[i]) =>
        Bound(peer[i]) /\ Held(i)

OneAccept ==
    \A l \in Listener :
        pc[l] \in {"down", "loaded", "connected", "listening"} => serving[l] = None

(***************************************************************************)
(* The first message on a connection is in flight until it is handled.     *)
(***************************************************************************)
InitArrives ==
    \A i \in Initiator : pc[i] = "waiting" =>
        \/ up[i]
        \/ serving[peer[i]] = i /\ pc[peer[i]] \in {"waiting", "established", "ended"}

AnswerArrives ==
    \A l \in Listener : pc[l] = "established" => down[serving[l]]

WaitingInv ==
    /\ Roles
    /\ HasPeer
    /\ BoundApart
    /\ PeersHold
    /\ OneAccept
    /\ InitArrives
    /\ AnswerArrives

-----------------------------------------------------------------------------
(* With WaitingInv, the inductive invariant behind QuietMeansSession: why  *)
(* a listener that has accepted may have ended if nothing failed.          *)

EndsHaveCause ==
    \A l \in Listener : serving[l] # None /\ Ended(l) =>
        Ended(serving[l]) \/ (l \in Firewall /\ Ended(peer[l]))

ChainLives ==
    \A c \in Client : \A f \in Firewall : \A s \in Server :
        serving[f] = c /\ serving[s] = f /\ ~Ended(c) => ~Ended(f) /\ ~Ended(s)

LivesInv == failures = 0 => EndsHaveCause /\ ChainLives
=============================================================================
