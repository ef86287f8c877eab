------------------------------ MODULE MCStartup -----------------------------
(***************************************************************************)
(* Small instances of Startup with the defaults of src/config.rs: servers  *)
(* on one port, to which firewalls connect, and firewalls on another, to   *)
(* which clients connect; or with a port for each firewall, as             *)
(* FIREWALL_LISTEN may set it, and a client for each of them.              *)
(***************************************************************************)
EXTENDS Startup, TLC, Functions

SharedListen == [l \in Listener |-> IF l \in Server THEN "server" ELSE "rf"]

Target == [i \in Initiator |-> IF i \in Firewall THEN "server" ELSE "rf"]

OwnListen == [l \in Listener |-> IF l \in Server THEN "server" ELSE l]

OwnTarget ==
    LET firewallOf == CHOOSE f \in Bijection(Client, Firewall) : TRUE
    IN  [i \in Initiator |-> IF i \in Firewall THEN "server" ELSE firewallOf[i]]

Symmetry ==
    Permutations(Server) \cup Permutations(Firewall) \cup Permutations(Client)
=============================================================================
