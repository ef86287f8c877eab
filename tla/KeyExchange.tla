---------------------------- MODULE KeyExchange -----------------------------
(***************************************************************************)
(* What the key exchange promises, with no messages, signatures or scalars *)
(* in it: the server chooses the two keys, but only for a client that the  *)
(* firewall has checked; the firewall comes to share kcfs, and after it    *)
(* the client both; and nobody ever changes a key again.  Each of them may *)
(* be left without.                                                        *)
(***************************************************************************)

CONSTANTS Key, NoKey

VARIABLES
    checked,    \* has the firewall checked the client?
    server,     \* the keys of the server
    firewall,   \* kcfs of the firewall
    client      \* the keys of the client

vars == <<checked, server, firewall, client>>

Init ==
    /\ checked = FALSE
    /\ server = NoKey
    /\ firewall = NoKey
    /\ client = NoKey

Check ==
    /\ checked = FALSE
    /\ checked' = TRUE
    /\ UNCHANGED <<server, firewall, client>>

ServerChooses ==
    /\ checked = TRUE
    /\ server = NoKey
    /\ server' \in [kcs : Key, kcfs : Key]
    /\ UNCHANGED <<checked, firewall, client>>

FirewallShares ==
    /\ server # NoKey
    /\ firewall = NoKey
    /\ firewall' = server.kcfs
    /\ UNCHANGED <<checked, server, client>>

ClientShares ==
    /\ firewall # NoKey
    /\ client = NoKey
    /\ client' = server
    /\ UNCHANGED <<checked, server, firewall>>

Next == Check \/ ServerChooses \/ FirewallShares \/ ClientShares

Spec == Init /\ [][Next]_vars
=============================================================================
