----------------------------- MODULE Deployment -----------------------------
(***************************************************************************)
(* The key files of three machines: setup_pki.sh makes a new generation,   *)
(* the deployment script clears each directory, fills it file by file,     *)
(* starts the firewall and carries its public key to the client; meanwhile *)
(* the programs load the files one read at a time (src/pki/pki.rs).        *)
(*                                                                         *)
(* A file is known by the generation it comes from: certificates verify    *)
(* against the authority of their own generation only.                     *)
(***************************************************************************)
EXTENDS Naturals, Sequences

CONSTANTS
    MaxGen,     \* bound on the generations made
    ByHand,     \* the machines on which a user starts the program
    Absent,     \* no file
    Torn        \* a file created or truncated but not yet written

ASSUME Generations ==
    /\ MaxGen \in Nat
    /\ Absent \notin Nat
    /\ Torn \notin Nat
    /\ Absent # Torn

Gen == 1 .. MaxGen

Machine == {"server", "firewall", "client"}

ASSUME Users == ByHand \subseteq Machine

(***************************************************************************)
(* The two .csr files, ca.key and firewall_pub.pem reach no machine.       *)
(***************************************************************************)
Listing == <<"ca.crt", "firewall.crt", "firewall.key",
             "firewall_pk_ristretto.bin", "server.crt", "server.key",
             "server_pub.pem">>

File == {Listing[n] : n \in DOMAIN Listing}

Certificate == {"server.crt", "firewall.crt"}

PkFw == "firewall_pk_ristretto.bin"

VARIABLES
    made,       \* how many generations were made so far; the last is staged
    script,     \* what the script does next, on which machine, which file
    complete,   \* did the deployment of the last generation finish?
    ready,      \* has the script reported that the programs can be started?
    pki,        \* what is in each file of each machine's pki directory
    at,         \* which read each program is at; 0 if it does not run
    holds,      \* what a program has read since its start
    disturbed,  \* history: the programs under which the script has changed
                \* the directory since they started
    straggler   \* history: was a firewall loading while its directory was
                \* cleared for the last generation?

scriptVars == <<made, script, complete, ready>>

programVars == <<at, holds>>

vars == <<scriptVars, pki, programVars, disturbed, straggler>>

-----------------------------------------------------------------------------
(* Loading keys (src/pki/pki.rs, from_pki of src/server.rs, src/firewall.rs) *)

(***************************************************************************)
(* The files in the order in which the loaders open them.  A certificate   *)
(* is verified against the ca.crt read just before it.                     *)
(***************************************************************************)
Reads ==
    [server   |-> <<"ca.crt", "server.crt", "server.key">>,
     firewall |-> <<"ca.crt", "firewall.crt", "firewall.key",
                    "ca.crt", "server.crt", "server_pub.pem">>,
     client   |-> <<"ca.crt", "server.crt", "ca.crt", "firewall.crt",
                    "server_pub.pem", PkFw>>]

(***************************************************************************)
(* After its reads the firewall truncates and writes the file of its key.  *)
(***************************************************************************)
LastStep == [server |-> 3, firewall |-> 8, client |-> 6]

Loading(m) == at[m] \in 1 .. LastStep[m]

Loaded(m) == at[m] = LastStep[m] + 1

Reading(m) == at[m] \in 1 .. Len(Reads[m])

NextFile(m) == Reads[m][at[m]]

\* Mutant: a file that is there is taken as it is.
PassesIfThere(m, f) == pki[m][f] # Absent

(***************************************************************************)
(* The file is there and parses, and openssl accepts it if it is a         *)
(* certificate.                                                            *)
(***************************************************************************)
Passes(m, f) ==
    /\ pki[m][f] \in Gen
    /\ f \in Certificate => pki[m][f] = holds[m]["ca.crt"]

NothingRead == [f \in File |-> Absent]

Exits(m) ==
    /\ at' = [at EXCEPT ![m] = 0]
    /\ holds' = [holds EXCEPT ![m] = NothingRead]

LoadStep(m) ==
    /\ Reading(m)
    /\ LET f == NextFile(m) IN
          \/ /\ Passes(m, f)
             /\ at' = [at EXCEPT ![m] = @ + 1]
             /\ holds' = [holds EXCEPT ![m] = [@ EXCEPT ![f] = pki[m][f]]]
          \/ /\ ~Passes(m, f)
             /\ Exits(m)
    /\ UNCHANGED <<scriptVars, pki, disturbed, straggler>>

(***************************************************************************)
(* fs::write: the file is empty for a moment.                              *)
(***************************************************************************)
Publish ==
    /\ \/ at["firewall"] = 7 /\ pki' = [pki EXCEPT !["firewall"][PkFw] = Torn]
       \/ /\ at["firewall"] = 8
          /\ pki' = [pki EXCEPT !["firewall"][PkFw] =
                                    holds["firewall"]["firewall.key"]]
    /\ at' = [at EXCEPT !["firewall"] = @ + 1]
    /\ UNCHANGED <<scriptVars, holds, disturbed, straggler>>

-----------------------------------------------------------------------------
(* The user *)

Changing(m) == script.op \in {"clear", "copy"} /\ script.on = m

(***************************************************************************)
(* A program is started by hand, at any time.                              *)
(***************************************************************************)
Begin(m) ==
    /\ at[m] = 0
    /\ at' = [at EXCEPT ![m] = 1]
    /\ disturbed' = IF Changing(m) THEN disturbed \cup {m} ELSE disturbed \ {m}
    /\ straggler' = (straggler \/ (m = "firewall" /\ Changing(m)))
    /\ UNCHANGED <<scriptVars, pki, holds>>

(***************************************************************************)
(* It ends, or is killed (--clean-runtime kills the firewall).             *)
(***************************************************************************)
Stop(m) ==
    /\ at[m] # 0
    /\ Exits(m)
    /\ UNCHANGED <<scriptVars, pki, disturbed, straggler>>

Idle == [op |-> "none", on |-> "server", nth |-> 1]

(***************************************************************************)
(* --deploy-pki or --all, and --run-demo.                                  *)
(***************************************************************************)
RunsScript ==
    /\ script = Idle
    /\ \/ made < MaxGen /\ script' = [Idle EXCEPT !.op = "generate"]
       \/ script' = [Idle EXCEPT !.op = "start"]
    /\ ready' = FALSE
    /\ UNCHANGED <<made, complete, pki, programVars, disturbed, straggler>>

-----------------------------------------------------------------------------
(* generate_pki_once and deploy_pki *)

(***************************************************************************)
(* One run of setup_pki.sh into an empty directory, and the bundles: all   *)
(* files of a new authority and of keys it certified.                      *)
(***************************************************************************)
Generate ==
    /\ script.op = "generate"
    /\ made' = made + 1
    /\ complete' = FALSE
    /\ straggler' = FALSE
    /\ script' = [op |-> "clear", on |-> "server", nth |-> 1]
    /\ UNCHANGED <<ready, pki, programVars, disturbed>>

Bundle ==
    [server   |-> <<"ca.crt", "server.crt", "server.key">>,
     firewall |-> <<"ca.crt", "firewall.crt", "firewall.key", "server.crt",
                    "server_pub.pem">>,
     client   |-> <<"ca.crt", "server.crt", "firewall.crt", "server_pub.pem">>]

\* Mutant: the directories are filled without being cleared.
ClearsNothing(m) == {}

\* Mutant: only the certificates are removed.
ClearsCertificates(m) ==
    {n \in DOMAIN Listing :
        pki[m][Listing[n]] # Absent /\ Listing[n] \in Certificate \cup {"ca.crt"}}

(***************************************************************************)
(* What is left in the directory, as positions in the order in which the   *)
(* shell lists it and rm unlinks it.                                       *)
(***************************************************************************)
ToClear(m) == {n \in DOMAIN Listing : pki[m][Listing[n]] # Absent}

Clear ==
    LET m == script.on IN
    /\ script.op = "clear"
    /\ \/ \E n \in ToClear(m) :
             /\ \A k \in ToClear(m) : n <= k
             /\ pki' = [pki EXCEPT ![m][Listing[n]] = Absent]
             /\ disturbed' = disturbed \cup {m}
             /\ UNCHANGED script
       \/ /\ ToClear(m) = {}
          /\ script' = [script EXCEPT !.op = "copy"]
          /\ UNCHANGED <<pki, disturbed>>
    /\ straggler' = (straggler \/ (m = "firewall" /\ Loading("firewall")))
    /\ UNCHANGED <<made, complete, ready, programVars>>

NextMachine == [server |-> "firewall", firewall |-> "client"]

LastCopy == script.on = "client" /\ script.nth = Len(Bundle["client"])

(***************************************************************************)
(* After the last file --deploy-pki ends, and --all goes on.               *)
(***************************************************************************)
CopyDone ==
    \/ /\ LastCopy
       /\ complete' = TRUE
       /\ script' \in {Idle, [Idle EXCEPT !.op = "start"]}
    \/ /\ ~LastCopy
       /\ script' = IF script.nth < Len(Bundle[script.on])
                    THEN [script EXCEPT !.nth = @ + 1]
                    ELSE [op |-> "clear", on |-> NextMachine[script.on],
                          nth |-> 1]
       /\ UNCHANGED complete

Copy ==
    LET m == script.on
        f == Bundle[m][script.nth]
    IN  /\ script.op = "copy"
        /\ \/ /\ pki[m][f] # Torn
              /\ pki' = [pki EXCEPT ![m][f] = Torn]
              /\ UNCHANGED <<script, complete>>
           \/ /\ pki[m][f] = Torn
              /\ pki' = [pki EXCEPT ![m][f] = made]
              /\ CopyDone
        /\ disturbed' = disturbed \cup {m}
        /\ UNCHANGED <<made, ready, programVars, straggler>>

-----------------------------------------------------------------------------
(* start_firewall and send_firewall_pk_to_client *)

StartFirewall ==
    /\ script.op = "start"
    /\ at' = [at EXCEPT !["firewall"] = 1]
    /\ holds' = [holds EXCEPT !["firewall"] = NothingRead]
    /\ disturbed' = disturbed \ {"firewall"}
    /\ script' = [script EXCEPT !.op = "await"]
    /\ UNCHANGED <<made, complete, ready, pki, straggler>>

Whole(m, f) == pki[m][f] \notin {Absent, Torn}

(***************************************************************************)
(* The file is waited for by name: one that was there before will do.      *)
(***************************************************************************)
AwaitPk ==
    /\ script.op = "await"
    /\ Whole("firewall", PkFw)
    /\ script' = [script EXCEPT !.op = "check"]
    /\ UNCHANGED <<made, complete, ready, pki, programVars, disturbed, straggler>>

CheckPk ==
    /\ script.op = "check"
    /\ Whole("firewall", PkFw)
    /\ script' = [script EXCEPT !.op = "send"]
    /\ UNCHANGED <<made, complete, ready, pki, programVars, disturbed, straggler>>

(***************************************************************************)
(* scp copies what the firewall's file is by then.                         *)
(***************************************************************************)
SendPk ==
    /\ \/ /\ script.op = "send"
          /\ pki' = [pki EXCEPT !["client"][PkFw] = Torn]
          /\ script' = [script EXCEPT !.op = "sending"]
       \/ /\ script.op = "sending"
          /\ Whole("firewall", PkFw)
          /\ pki' = [pki EXCEPT !["client"][PkFw] = pki["firewall"][PkFw]]
          /\ script' = [script EXCEPT !.op = "verify"]
       \/ /\ script.op = "sending"
          /\ ~Whole("firewall", PkFw)
          /\ script' = [script EXCEPT !.op = "verify"]
          /\ UNCHANGED pki
    /\ disturbed' = disturbed \cup {"client"}
    /\ UNCHANGED <<made, complete, ready, programVars, straggler>>

\* Mutant: the size on the client is not looked at.
ArrivedUnseen == TRUE

Arrived == Whole("client", PkFw)

VerifyPk ==
    /\ script.op = "verify"
    /\ Arrived
    /\ ready' = TRUE
    /\ script' = Idle
    /\ UNCHANGED <<made, complete, pki, programVars, disturbed, straggler>>

(***************************************************************************)
(* A command fails, a check of the script's own, or the wait times out.    *)
(***************************************************************************)
ScriptFails ==
    /\ script # Idle
    /\ script' = Idle
    /\ UNCHANGED <<made, complete, ready, pki, programVars, disturbed, straggler>>

-----------------------------------------------------------------------------
(* Specification *)

Init ==
    /\ made = 0
    /\ script = Idle
    /\ complete = FALSE
    /\ ready = FALSE
    /\ pki = [m \in Machine |-> [f \in File |-> Absent]]
    /\ at = [m \in Machine |-> 0]
    /\ holds = [m \in Machine |-> NothingRead]
    /\ disturbed = {}
    /\ straggler = FALSE

ScriptStep ==
    \/ Generate
    \/ Clear
    \/ Copy
    \/ StartFirewall
    \/ AwaitPk
    \/ CheckPk
    \/ SendPk
    \/ VerifyPk

Next ==
    \/ RunsScript
    \/ ScriptStep
    \/ ScriptFails
    \/ Publish
    \/ \E m \in ByHand : Begin(m)
    \/ \E m \in Machine : LoadStep(m) \/ Stop(m)

Spec == Init /\ [][Next]_vars

-----------------------------------------------------------------------------
(* Properties *)

Content == Gen \cup {Absent, Torn}

ScriptState ==
    [op : {"none", "generate", "clear", "copy", "start", "await", "check",
           "send", "sending", "verify"},
     on : Machine, nth : 1 .. 5]

TypeOK ==
    /\ made \in 0 .. MaxGen
    /\ script \in ScriptState
    /\ script.op = "copy" => script.nth <= Len(Bundle[script.on])
    /\ script.op = "clear" => script.nth = 1
    /\ script.op = "generate" => made < MaxGen
    /\ script.op \in {"clear", "copy"} => made > 0
    /\ complete \in BOOLEAN
    /\ ready \in BOOLEAN
    /\ pki \in [Machine -> [File -> Content]]
    /\ at \in [Machine -> 0 .. 9]
    /\ \A m \in Machine : at[m] <= LastStep[m] + 1
    /\ holds \in [Machine -> [File -> Gen \cup {Absent}]]
    /\ disturbed \in SUBSET Machine
    /\ straggler \in BOOLEAN

(***************************************************************************)
(* What the script has put into one directory is of one generation, while  *)
(* it is being cleared and filled, and however often the script has failed *)
(* half-way and been run again.                                            *)
(***************************************************************************)
DirectoryOfOneGeneration ==
    \A m \in Machine : \A f, g \in File \ {PkFw} :
        Whole(m, f) /\ Whole(m, g) => pki[m][f] = pki[m][g]

(***************************************************************************)
(* A server or firewall whose directory was left alone while it loaded has *)
(* the keys of one generation: the private key read is the one that was    *)
(* certified, though no loader compares the two, and the firewall's copy   *)
(* of pk_server is that of the certificate it verified.                    *)
(***************************************************************************)
UndisturbedLoad ==
    \A m \in {"server", "firewall"} \ disturbed : Loaded(m) =>
        \A f \in {Reads[m][n] : n \in DOMAIN Reads[m]} :
            holds[m][f] = holds[m]["ca.crt"]

(***************************************************************************)
(* Once the script has told the user to start the programs, after a        *)
(* complete deployment, every file that any of the three will read is of   *)
(* the generation deployed, pk_fw at the client included; unless a         *)
(* firewall was loading while its directory was cleared and has published  *)
(* the key it had read before.                                             *)
(***************************************************************************)
ReadyMeansMatched ==
    ready /\ complete /\ ~straggler =>
        \A m \in Machine : \A n \in DOMAIN Reads[m] :
            pki[m][Reads[m][n]] = made

(***************************************************************************)
(* "Extracts pk_server from server.crt", and "pk_server and pk_fw verified *)
(* by the CA", says client_bin.rs of its keys: they are of the generation  *)
(* of the certificates that it verified.                                   *)
(***************************************************************************)
KeysFromCertificates ==
    Loaded("client") =>
        /\ holds["client"]["server_pub.pem"] = holds["client"]["server.crt"]
        /\ holds["client"][PkFw] = holds["client"]["firewall.crt"]

-----------------------------------------------------------------------------
(* The inductive invariant behind the properties of the directories. *)

Underway == script.op \in {"clear", "copy"}

Filling(m) == script.op = "copy" /\ script.on = m

(***************************************************************************)
(* The deployment of the generation made last is done with this machine.   *)
(***************************************************************************)
Passed(m) ==
    \/ complete
    \/ Underway /\ m = "server" /\ script.on \in {"firewall", "client"}
    \/ Underway /\ m = "firewall" /\ script.on = "client"

UpToDate(m, f) == pki[m][f] \in {Absent, Torn, made}

FillingFromEmpty ==
    \A m \in Machine : Filling(m) => \A f \in File \ {PkFw} : UpToDate(m, f)

CopiedSoFar ==
    \A m \in Machine : \A n \in DOMAIN Bundle[m] :
        Passed(m) \/ (Filling(m) /\ n < script.nth) => pki[m][Bundle[m][n]] = made

CompleteMeansOver == complete => ~Underway

(***************************************************************************)
(* What an undisturbed program has read is still in its directory.         *)
(***************************************************************************)
ReadsStand ==
    \A m \in {"server", "firewall"} \ disturbed : \A n \in DOMAIN Reads[m] :
        n < at[m] => LET f == Reads[m][n] IN
                     holds[m][f] = pki[m][f] /\ pki[m][f] \in Gen

NothingHeld == \A m \in Machine : at[m] = 0 => holds[m] = NothingRead

(***************************************************************************)
(* Without a straggler, no old key is published after the firewall's       *)
(* directory was cleared, and none reaches the client.                     *)
(***************************************************************************)
NoOldKey ==
    ~straggler =>
        /\ Passed("firewall") \/ Filling("firewall") =>
              /\ UpToDate("firewall", PkFw)
              /\ Loading("firewall") =>
                     holds["firewall"]["firewall.key"] \in {Absent, made}
        /\ Passed("client") \/ Filling("client") => UpToDate("client", PkFw)

ReadyMeansSent == ready => script = Idle /\ Whole("client", PkFw)

DeploymentInv ==
    /\ DirectoryOfOneGeneration
    /\ FillingFromEmpty
    /\ CopiedSoFar
    /\ CompleteMeansOver
    /\ ReadsStand
    /\ NothingHeld
    /\ NoOldKey
    /\ ReadyMeansSent
=============================================================================
