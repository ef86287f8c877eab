-------------------------- MODULE DeploymentProofs --------------------------
(***************************************************************************)
(* Theorems about Deployment, for any number of generations and any users. *)
(***************************************************************************)
EXTENDS Deployment, SequenceTheorems, TLAPS

-----------------------------------------------------------------------------
(* The files, the bundles and the reads *)

LEMMA Layout ==
    /\ File = {"ca.crt", "server.crt", "server.key", "server_pub.pem",
               "firewall.crt", "firewall.key", PkFw}
    /\ PkFw = "firewall_pk_ristretto.bin"
    /\ \A f \in File : \E n \in DOMAIN Listing : Listing[n] = f
    /\ \A n \in DOMAIN Listing : Listing[n] \in File
BY DEF File, Listing, PkFw

LEMMA BundleLayout ==
    \A m \in Machine :
        /\ Len(Bundle[m]) \in 1 .. 5
        /\ DOMAIN Bundle[m] = 1 .. Len(Bundle[m])
        /\ \A n \in DOMAIN Bundle[m] : Bundle[m][n] \in File \ {PkFw}
        /\ \A n, k \in DOMAIN Bundle[m] : n # k => Bundle[m][n] # Bundle[m][k]
BY Layout DEF Machine, Bundle

LEMMA ReadsLayout ==
    \A m \in Machine :
        /\ DOMAIN Reads[m] = 1 .. Len(Reads[m])
        /\ Len(Reads[m]) \in 1 .. LastStep[m]
        /\ LastStep[m] \in 1 .. 8
        /\ m \in {"server", "firewall"} => Len(Reads[m]) <= 6
        /\ \A n \in DOMAIN Reads[m] :
              /\ Reads[m][n] \in File
              /\ Reads[m][n] = PkFw => m = "client"
<1>1. ASSUME NEW m \in Machine
      PROVE  /\ DOMAIN Reads[m] = 1 .. Len(Reads[m])
             /\ Len(Reads[m]) \in 1 .. LastStep[m]
             /\ LastStep[m] \in 1 .. 8
             /\ m \in {"server", "firewall"} => Len(Reads[m]) <= 6
    <2>1. CASE m = "server"
        BY <2>1 DEF Reads, LastStep
    <2>2. CASE m = "firewall"
        BY <2>2 DEF Reads, LastStep
    <2>3. CASE m = "client"
        BY <2>3 DEF Reads, LastStep
    <2> QED
        BY <2>1, <2>2, <2>3 DEF Machine
<1>2. ASSUME NEW m \in Machine, NEW n \in DOMAIN Reads[m]
      PROVE  /\ Reads[m][n] \in File
             /\ Reads[m][n] = PkFw => m = "client"
    <2>1. CASE m = "server"
        BY <2>1, Layout DEF Reads
    <2>2. CASE m = "firewall"
        <3>1. Reads[m] = <<"ca.crt", "firewall.crt", "firewall.key",
                           "ca.crt", "server.crt", "server_pub.pem">>
            BY <2>2 DEF Reads
        <3>2. n \in 1 .. 6
            BY <3>1
        <3> QED
            BY <3>1, <3>2, Layout
    <2>3. CASE m = "client"
        <3>1. Reads[m] = <<"ca.crt", "server.crt", "ca.crt", "firewall.crt",
                           "server_pub.pem", PkFw>>
            BY <2>3 DEF Reads
        <3>2. n \in 1 .. 6
            BY <3>1
        <3> QED
            BY <2>3, <3>1, <3>2, Layout
    <2> QED
        BY <2>1, <2>2, <2>3 DEF Machine
<1> QED
    BY <1>1, <1>2

(***************************************************************************)
(* What is read was deployed, the firewall's public key excepted.          *)
(***************************************************************************)
LEMMA ReadsBundled ==
    ASSUME NEW m \in Machine, NEW n \in DOMAIN Reads[m], Reads[m][n] # PkFw
    PROVE  \E k \in DOMAIN Bundle[m] : Bundle[m][k] = Reads[m][n]
<1>1. CASE m = "server"
    BY <1>1 DEF Reads, Bundle
<1>2. CASE m = "firewall"
    <2>1. Reads[m] = <<"ca.crt", "firewall.crt", "firewall.key",
                       "ca.crt", "server.crt", "server_pub.pem">>
        BY <1>2 DEF Reads
    <2>2. Bundle[m] = <<"ca.crt", "firewall.crt", "firewall.key", "server.crt",
                        "server_pub.pem">>
        BY <1>2 DEF Bundle
    <2>3. n \in 1 .. 6
        BY <2>1
    <2>4. CASE n \in {1, 2, 3}
        BY <2>1, <2>2, <2>4
    <2>5. CASE n = 4
        BY <2>1, <2>2, <2>5
    <2>6. CASE n = 5
        BY <2>1, <2>2, <2>6
    <2>7. CASE n = 6
        BY <2>1, <2>2, <2>7
    <2> QED
        BY <2>3, <2>4, <2>5, <2>6, <2>7
<1>3. CASE m = "client"
    <2>1. Reads[m] = <<"ca.crt", "server.crt", "ca.crt", "firewall.crt",
                       "server_pub.pem", PkFw>>
        BY <1>3 DEF Reads
    <2>2. Bundle[m] = <<"ca.crt", "server.crt", "firewall.crt",
                        "server_pub.pem">>
        BY <1>3 DEF Bundle
    <2>3. n \in 1 .. 5
        BY <2>1
    <2>4. CASE n \in {1, 2}
        BY <2>1, <2>2, <2>4
    <2>5. CASE n \in {3, 4, 5}
        <3>1. n = 3 \/ n = 4 \/ n = 5
            BY <2>5
        <3>2. CASE n = 3
            BY <2>1, <2>2, <3>2
        <3>3. CASE n = 4
            BY <2>1, <2>2, <3>3
        <3>4. CASE n = 5
            BY <2>1, <2>2, <3>4
        <3> QED
            BY <3>1, <3>2, <3>3, <3>4
    <2> QED
        BY <2>3, <2>4, <2>5
<1> QED
    BY <1>1, <1>2, <1>3 DEF Machine

-----------------------------------------------------------------------------
(* Types *)

LEMMA InitTypeOK == Init => TypeOK
<1> SUFFICES ASSUME Init PROVE TypeOK
    OBVIOUS
<1>1. \A m \in Machine : at[m] <= LastStep[m] + 1
    BY DEF Init, Machine, LastStep
<1>2. script \in ScriptState /\ script.op = "none"
    BY DEF Init, Idle, ScriptState, Machine
<1>3. /\ pki \in [Machine -> [File -> Content]]
      /\ holds \in [Machine -> [File -> Gen \cup {Absent}]]
      /\ at \in [Machine -> 0 .. 9]
    BY DEF Init, Content, NothingRead
<1>4. /\ made = 0
      /\ complete \in BOOLEAN /\ ready \in BOOLEAN /\ straggler \in BOOLEAN
      /\ disturbed = {}
    BY DEF Init
<1> QED
    BY <1>1, <1>2, <1>3, <1>4, Generations DEF TypeOK

(***************************************************************************)
(* What a write of one file leaves as it was.                              *)
(***************************************************************************)
LEMMA WriteFile ==
    ASSUME TypeOK, NEW m \in Machine, NEW f \in File, NEW v \in Content,
           pki' = [pki EXCEPT ![m][f] = v]
    PROVE  /\ pki' \in [Machine -> [File -> Content]]
           /\ pki'[m][f] = v
           /\ \A k \in Machine, g \in File :
                 k # m \/ g # f => pki'[k][g] = pki[k][g]
BY DEF TypeOK

LEMMA ClearStep ==
    ASSUME TypeOK, Clear
    PROVE  /\ script.op = "clear"
           /\ UNCHANGED <<made, complete, ready, at, holds>>
           /\ straggler' = (straggler \/ (script.on = "firewall" /\ Loading("firewall")))
           /\ \/ /\ UNCHANGED script
                 /\ disturbed' = disturbed \cup {script.on}
                 /\ pki' \in [Machine -> [File -> Content]]
                 /\ \E f \in File :
                       /\ pki'[script.on][f] = Absent
                       /\ \A k \in Machine, g \in File :
                             k # script.on \/ g # f => pki'[k][g] = pki[k][g]
              \/ /\ UNCHANGED <<pki, disturbed>>
                 /\ script' = [script EXCEPT !.op = "copy"]
                 /\ \A f \in File : pki[script.on][f] = Absent
<1>1. script.on \in Machine
    BY DEF TypeOK, ScriptState
<1>2. ASSUME NEW n \in ToClear(script.on),
             pki' = [pki EXCEPT ![script.on][Listing[n]] = Absent]
      PROVE  /\ pki' \in [Machine -> [File -> Content]]
             /\ \E f \in File :
                   /\ pki'[script.on][f] = Absent
                   /\ \A k \in Machine, g \in File :
                         k # script.on \/ g # f => pki'[k][g] = pki[k][g]
    <2>1. Listing[n] \in File /\ Absent \in Content
        BY Layout DEF ToClear, Content
    <2>2. /\ pki' \in [Machine -> [File -> Content]]
          /\ pki'[script.on][Listing[n]] = Absent
          /\ \A k \in Machine, g \in File :
                k # script.on \/ g # Listing[n] => pki'[k][g] = pki[k][g]
        BY <1>1, <1>2, <2>1, WriteFile
    <2> QED
        BY <2>1, <2>2
<1>3. ToClear(script.on) = {} => \A f \in File : pki[script.on][f] = Absent
    BY Layout DEF ToClear
<1> QED
    BY <1>2, <1>3 DEF Clear, programVars

LEMMA CopyStep ==
    ASSUME TypeOK, Copy
    PROVE  \E f \in File \ {PkFw} :
           /\ script.op = "copy"
           /\ script.on \in Machine
           /\ script.nth \in DOMAIN Bundle[script.on]
           /\ f = Bundle[script.on][script.nth]
           /\ UNCHANGED <<made, ready, at, holds, straggler>>
           /\ disturbed' = disturbed \cup {script.on}
           /\ pki' \in [Machine -> [File -> Content]]
           /\ \A k \in Machine, g \in File :
                 k # script.on \/ g # f => pki'[k][g] = pki[k][g]
           /\ \/ pki'[script.on][f] = Torn /\ UNCHANGED <<script, complete>>
              \/ pki'[script.on][f] = made /\ made \in Gen /\ CopyDone
<1>1. PICK f \in File \ {PkFw} :
          /\ script.op = "copy"
          /\ script.on \in Machine
          /\ script.nth \in DOMAIN Bundle[script.on]
          /\ f = Bundle[script.on][script.nth]
    BY BundleLayout DEF Copy, TypeOK, ScriptState
<1>2. UNCHANGED <<made, ready, at, holds, straggler>>
      /\ disturbed' = disturbed \cup {script.on}
    BY DEF Copy, programVars
<1>3. made \in Content /\ Torn \in Content /\ made \in Gen
    BY <1>1 DEF TypeOK, Content, Gen
<1>4. PICK v \in {Torn, made} :
          /\ pki' = [pki EXCEPT ![script.on][f] = v]
          /\ \/ v = Torn /\ UNCHANGED <<script, complete>>
             \/ v = made /\ CopyDone
    BY <1>1 DEF Copy
<1>5. /\ pki' \in [Machine -> [File -> Content]]
      /\ pki'[script.on][f] = v
      /\ \A k \in Machine, g \in File :
            k # script.on \/ g # f => pki'[k][g] = pki[k][g]
    <2>1. /\ v \in Content
          /\ f \in File
          /\ script.on \in Machine
          /\ pki' = [pki EXCEPT ![script.on][f] = v]
        BY <1>1, <1>3, <1>4
    <2> QED
        BY <2>1 DEF TypeOK
<1> QED
    BY <1>1, <1>2, <1>3, <1>4, <1>5

(***************************************************************************)
(* Where the script is after a file has been copied.                       *)
(***************************************************************************)
LEMMA AfterCopy ==
    ASSUME TypeOK, Copy, CopyDone
    PROVE  /\ script' \in ScriptState
           /\ \/ /\ script.on = "client" /\ script.nth = Len(Bundle["client"])
                 /\ complete' = TRUE
                 /\ script'.op \in {"none", "start"}
              \/ /\ complete' = complete
                 /\ script.nth < Len(Bundle[script.on])
                 /\ script'.op = "copy"
                 /\ script'.on = script.on
                 /\ script'.nth = script.nth + 1
              \/ /\ complete' = complete
                 /\ script.nth = Len(Bundle[script.on])
                 /\ script'.op = "clear"
                 /\ \/ script.on = "server" /\ script'.on = "firewall"
                    \/ script.on = "firewall" /\ script'.on = "client"
                 /\ script'.nth = 1
<1>1. /\ script.op = "copy"
      /\ script.on \in Machine
      /\ script.nth \in 1 .. Len(Bundle[script.on])
      /\ Len(Bundle[script.on]) \in 1 .. 5
    BY BundleLayout DEF Copy, TypeOK, ScriptState
<1>2. CASE LastCopy /\ complete' = TRUE
           /\ script' \in {Idle, [Idle EXCEPT !.op = "start"]}
    <2>1. script.on = "client" /\ script.nth = Len(Bundle["client"])
        BY <1>2 DEF LastCopy
    <2>2. script' \in {Idle, [Idle EXCEPT !.op = "start"]}
        BY <1>2
    <2>3. script' \in ScriptState /\ script'.op \in {"none", "start"}
        BY <2>2 DEF Idle, ScriptState, Machine
    <2> QED
        BY <1>2, <2>1, <2>3
<1>3. CASE ~LastCopy /\ script.nth < Len(Bundle[script.on])
           /\ script' = [script EXCEPT !.nth = @ + 1] /\ complete' = complete
    <2> DEFINE n == script.nth
               last == Len(Bundle[script.on])
    <2>1. n \in 1 .. last /\ last \in 1 .. 5 /\ n < last
        BY <1>1, <1>3
    <2> HIDE DEF n, last
    <2>2. n + 1 \in 1 .. 5
        BY <2>1
    <2> USE DEF n, last
    <2>3. script' = [script EXCEPT !.nth = @ + 1]
        BY <1>3
    <2>4. /\ script' \in ScriptState
          /\ script'.op = "copy"
          /\ script'.on = script.on
          /\ script'.nth = script.nth + 1
        BY <1>1, <2>2, <2>3 DEF TypeOK, ScriptState
    <2> QED
        BY <1>3, <2>4
<1>4. CASE ~LastCopy /\ ~(script.nth < Len(Bundle[script.on])) /\ complete' = complete
           /\ script' = [op |-> "clear", on |-> NextMachine[script.on], nth |-> 1]
    <2>1. script.nth = Len(Bundle[script.on]) /\ script.on # "client"
        BY <1>1, <1>4 DEF LastCopy
    <2>2. \/ script.on = "server" /\ NextMachine[script.on] = "firewall"
          \/ script.on = "firewall" /\ NextMachine[script.on] = "client"
        BY <1>1, <2>1 DEF Machine, NextMachine
    <2>3. script' \in ScriptState
        BY <1>4, <2>2 DEF ScriptState, Machine
    <2> QED
        BY <1>4, <2>1, <2>2, <2>3
<1> QED
    BY <1>2, <1>3, <1>4 DEF CopyDone

(***************************************************************************)
(* The steps that neither make a generation nor deploy it.                 *)
(***************************************************************************)
Quiet ==
    \/ RunsScript
    \/ StartFirewall
    \/ AwaitPk
    \/ CheckPk
    \/ SendPk
    \/ VerifyPk
    \/ ScriptFails
    \/ Publish
    \/ \E m \in Machine : Begin(m) \/ LoadStep(m) \/ Stop(m)
    \/ UNCHANGED vars

LEMMA NextCases == [Next]_vars => Generate \/ Clear \/ Copy \/ Quiet
BY Users DEF Next, ScriptStep, Quiet

LEMMA QuietTypeOK == TypeOK /\ Quiet => TypeOK'
<1> SUFFICES ASSUME TypeOK, Quiet PROVE TypeOK'
    OBVIOUS
<1>a. /\ PkFw \in File
      /\ \A m \in Machine : LastStep[m] \in 1 .. 8 /\ Len(Reads[m]) <= LastStep[m]
      /\ LastStep["firewall"] = 8
      /\ "server" \in Machine /\ "firewall" \in Machine /\ "client" \in Machine
    BY Layout, ReadsLayout DEF LastStep, Machine
<1>b. NothingRead \in [File -> Gen \cup {Absent}]
    BY DEF NothingRead
<1>c. Torn \in Content /\ Absent \in Content /\ Gen \subseteq Content
    BY DEF Content
<1>1. CASE RunsScript
    BY <1>1 DEF RunsScript, TypeOK, Idle, ScriptState, Machine, programVars
<1>2. CASE StartFirewall
    <2>1. script' \in ScriptState /\ script'.op = "await"
        BY <1>2 DEF StartFirewall, TypeOK, ScriptState
    <2>2. /\ at' \in [Machine -> 0 .. 9]
          /\ \A m \in Machine : at'[m] <= LastStep[m] + 1
          /\ holds' \in [Machine -> [File -> Gen \cup {Absent}]]
          /\ disturbed' \in SUBSET Machine
        BY <1>2, <1>a, <1>b DEF StartFirewall, TypeOK
    <2> QED
        BY <1>2, <2>1, <2>2 DEF StartFirewall, TypeOK
<1>3. CASE AwaitPk \/ CheckPk \/ VerifyPk \/ ScriptFails
    <2>1. script' \in ScriptState /\ script'.op \notin {"generate", "clear", "copy"}
        BY <1>3
           DEF AwaitPk, CheckPk, VerifyPk, ScriptFails, TypeOK, ScriptState,
               Idle, Machine
    <2>2. /\ UNCHANGED <<made, complete, pki, at, holds, disturbed, straggler>>
          /\ ready' = TRUE \/ ready' = ready
        BY <1>3 DEF AwaitPk, CheckPk, VerifyPk, ScriptFails, programVars
    <2> QED
        BY <2>1, <2>2 DEF TypeOK
<1>4. CASE SendPk
    <2>1. script' \in ScriptState /\ script'.op \in {"sending", "verify"}
        BY <1>4 DEF SendPk, TypeOK, ScriptState
    <2>2. pki' \in [Machine -> [File -> Content]]
        <3>1. \/ pki' = pki
              \/ pki' = [pki EXCEPT !["client"][PkFw] = Torn]
              \/ pki' = [pki EXCEPT !["client"][PkFw] = pki["firewall"][PkFw]]
            BY <1>4 DEF SendPk
        <3>2. pki["firewall"][PkFw] \in Content
            BY <1>a DEF TypeOK
        <3>3. pki \in [Machine -> [File -> Content]]
            BY DEF TypeOK
        <3> QED
            BY <1>a, <1>c, <3>1, <3>2, <3>3
    <2>3. /\ UNCHANGED <<made, complete, ready, at, holds, straggler>>
          /\ disturbed' = disturbed \cup {"client"}
        BY <1>4 DEF SendPk, programVars
    <2> QED
        BY <1>a, <2>1, <2>2, <2>3 DEF TypeOK
<1>5. CASE Publish
    <2>1. pki' \in [Machine -> [File -> Content]]
        <3>1. holds["firewall"]["firewall.key"] \in Content
            BY <1>a, <1>c, Layout DEF TypeOK
        <3>2. \/ pki' = [pki EXCEPT !["firewall"][PkFw] = Torn]
              \/ pki' = [pki EXCEPT !["firewall"][PkFw] =
                                        holds["firewall"]["firewall.key"]]
            BY <1>5 DEF Publish
        <3>3. pki \in [Machine -> [File -> Content]]
            BY DEF TypeOK
        <3> QED
            BY <1>a, <1>c, <3>1, <3>2, <3>3
    <2>2. /\ at' \in [Machine -> 0 .. 9]
          /\ \A m \in Machine : at'[m] <= LastStep[m] + 1
        BY <1>5, <1>a DEF Publish, TypeOK
    <2> QED
        BY <1>5, <2>1, <2>2 DEF Publish, TypeOK, scriptVars
<1>6. ASSUME NEW m \in Machine, Begin(m) PROVE TypeOK'
    <2>1. /\ at' \in [Machine -> 0 .. 9]
          /\ \A k \in Machine : at'[k] <= LastStep[k] + 1
        <3>1. at' = [at EXCEPT ![m] = 1]
            BY <1>6 DEF Begin
        <3>2. \A k \in Machine : LastStep[k] \in Nat
            BY <1>a
        <3> QED
            BY <3>1, <3>2 DEF TypeOK
    <2>2. disturbed' \in SUBSET Machine
        BY <1>6 DEF Begin, TypeOK
    <2>3. straggler' \in BOOLEAN
        BY <1>6 DEF Begin
    <2>4. UNCHANGED <<made, script, complete, ready, pki, holds>>
        BY <1>6 DEF Begin, scriptVars
    <2> QED
        BY <2>1, <2>2, <2>3, <2>4 DEF TypeOK
<1>7. ASSUME NEW m \in Machine, Exits(m),
             UNCHANGED <<scriptVars, pki, disturbed, straggler>>
      PROVE  TypeOK'
    <2>1. /\ at' \in [Machine -> 0 .. 9]
          /\ \A k \in Machine : at'[k] <= LastStep[k] + 1
          /\ holds' \in [Machine -> [File -> Gen \cup {Absent}]]
        <3>1. /\ at' = [at EXCEPT ![m] = 0]
              /\ holds' = [holds EXCEPT ![m] = NothingRead]
            BY <1>7 DEF Exits
        <3>2. \A k \in Machine : LastStep[k] \in Nat
            BY <1>a
        <3>3. holds' \in [Machine -> [File -> Gen \cup {Absent}]]
            BY <1>b, <3>1 DEF TypeOK
        <3> QED
            BY <3>1, <3>2, <3>3 DEF TypeOK
    <2> QED
        BY <1>7, <2>1 DEF TypeOK, scriptVars
<1>8. ASSUME NEW m \in Machine, LoadStep(m) PROVE TypeOK'
    <2>1. CASE ~Passes(m, NextFile(m))
        BY <1>7, <1>8, <2>1 DEF LoadStep
    <2>2. CASE Passes(m, NextFile(m))
        <3>1. /\ at[m] \in 1 .. Len(Reads[m])
              /\ at' = [at EXCEPT ![m] = @ + 1]
              /\ holds' = [holds EXCEPT ![m] =
                              [@ EXCEPT ![NextFile(m)] = pki[m][NextFile(m)]]]
              /\ UNCHANGED <<scriptVars, pki, disturbed, straggler>>
            BY <1>8, <2>2 DEF LoadStep, Reading
        <3>2. /\ at' \in [Machine -> 0 .. 9]
              /\ \A k \in Machine : at'[k] <= LastStep[k] + 1
            <4>1. /\ \A k \in Machine : LastStep[k] \in 1 .. 8
                  /\ at[m] + 1 <= LastStep[m] + 1
                  /\ at[m] + 1 \in 0 .. 9
                <5> DEFINE a == at[m]
                           n == Len(Reads[m])
                           k == LastStep[m]
                <5>1. a \in 1 .. n /\ n \in Nat /\ n <= k /\ k \in 1 .. 8
                    BY <1>a, <3>1, ReadsLayout
                <5> HIDE DEF a, n, k
                <5>2. a + 1 <= k + 1 /\ a + 1 \in 0 .. 9
                    BY <5>1
                <5> QED
                    BY <1>a, <5>2 DEF a, k
            <4> QED
                BY <3>1, <4>1 DEF TypeOK
        <3>3. holds' \in [Machine -> [File -> Gen \cup {Absent}]]
            BY <2>2, <3>1 DEF Passes, TypeOK
        <3> QED
            BY <3>1, <3>2, <3>3 DEF TypeOK, scriptVars
    <2> QED
        BY <2>1, <2>2
<1>9. ASSUME NEW m \in Machine, Stop(m) PROVE TypeOK'
    BY <1>7, <1>9 DEF Stop
<1>10. CASE UNCHANGED vars
    BY <1>10 DEF vars, scriptVars, programVars, TypeOK
<1> QED
    BY <1>1, <1>2, <1>3, <1>4, <1>5, <1>6, <1>8, <1>9, <1>10 DEF Quiet

LEMMA NextTypeOK == TypeOK /\ [Next]_vars => TypeOK'
<1> SUFFICES ASSUME TypeOK, [Next]_vars PROVE TypeOK'
    OBVIOUS
<1>1. CASE Generate
    <2>1. /\ made' \in 0 .. MaxGen /\ made' > 0
          /\ script' = [op |-> "clear", on |-> "server", nth |-> 1]
          /\ complete' \in BOOLEAN /\ straggler' \in BOOLEAN
          /\ UNCHANGED <<ready, pki, at, holds, disturbed>>
        <3>1. made' = made + 1 /\ made \in 0 .. MaxGen /\ made < MaxGen
            BY <1>1 DEF Generate, TypeOK
        <3>2. complete' \in BOOLEAN /\ straggler' \in BOOLEAN
            BY <1>1 DEF Generate
        <3>3. made' \in 0 .. MaxGen /\ made' > 0
            BY <3>1, Generations
        <3> QED
            BY <1>1, <3>2, <3>3 DEF Generate, programVars
    <2> QED
        BY <2>1 DEF TypeOK, ScriptState, Machine
<1>2. CASE Clear
    <2>1. script' \in ScriptState /\ script'.on \in Machine
        BY <1>2, ClearStep DEF TypeOK, ScriptState
    <2>2. /\ script'.op \in {"clear", "copy"}
          /\ script'.nth = 1
          /\ 1 <= Len(Bundle[script'.on])
        <3>1. script.op = "clear" /\ script.nth = 1 /\ script \in ScriptState
            BY <1>2, ClearStep DEF TypeOK
        <3>2. script' = script \/ script' = [script EXCEPT !.op = "copy"]
            BY <1>2, ClearStep
        <3>3. script'.op \in {"clear", "copy"} /\ script'.nth = 1
            BY <3>1, <3>2 DEF ScriptState
        <3>4. Len(Bundle[script'.on]) \in 1 .. 5
            BY <2>1, BundleLayout
        <3>5. \A n \in 1 .. 5 : 1 <= n
            OBVIOUS
        <3>6. 1 <= Len(Bundle[script'.on])
            BY <3>4, <3>5, Zenon
        <3> QED
            BY <3>3, <3>6, Zenon
    <2>3. straggler' \in BOOLEAN
        BY <1>2 DEF Clear
    <2>4. pki' \in [Machine -> [File -> Content]] /\ disturbed' \in SUBSET Machine
        BY <1>2, <2>1, ClearStep DEF TypeOK
    <2>5. UNCHANGED <<made, complete, ready, at, holds>> /\ made > 0
        BY <1>2, ClearStep DEF TypeOK
    <2> QED
        BY <2>1, <2>2, <2>3, <2>4, <2>5 DEF TypeOK
<1>3. CASE Copy
    <2>1. /\ UNCHANGED <<made, ready, at, holds, straggler>>
          /\ disturbed' \in SUBSET Machine
          /\ pki' \in [Machine -> [File -> Content]]
          /\ made > 0
        BY <1>3, CopyStep DEF TypeOK
    <2>2. /\ script' \in ScriptState
          /\ complete' \in BOOLEAN
          /\ script'.op = "copy" => script'.nth <= Len(Bundle[script'.on])
          /\ script'.op = "clear" => script'.nth = 1
          /\ script'.op # "generate"
        <3>1. CASE UNCHANGED <<script, complete>>
            BY <1>3, <3>1 DEF TypeOK, Copy
        <3>2. CASE CopyDone
            <4>1. /\ script.nth \in 1 .. Len(Bundle[script.on])
                  /\ Len(Bundle[script.on]) \in 1 .. 5
                BY <1>3, CopyStep, BundleLayout
            <4>2. script' \in ScriptState /\ script'.op # "generate"
                BY <1>3, <3>2, AfterCopy
            <4>3. complete' = complete \/ complete' = TRUE
                BY <1>3, <3>2, AfterCopy
            <4>4. complete' \in BOOLEAN
                BY <4>3 DEF TypeOK
            <4>5. script'.op = "copy" => script'.nth <= Len(Bundle[script'.on])
                BY <1>3, <3>2, <4>1, AfterCopy
            <4>6. script'.op = "clear" => script'.nth = 1
                BY <1>3, <3>2, AfterCopy
            <4> QED
                BY <4>2, <4>4, <4>5, <4>6
        <3> QED
            BY <1>3, <3>1, <3>2, CopyStep
    <2> QED
        BY <2>1, <2>2 DEF TypeOK
<1>4. CASE Quiet
    BY <1>4, QuietTypeOK
<1> QED
    BY <1>1, <1>2, <1>3, <1>4, NextCases

(***************************************************************************)
(* The script's state, its history and the files, as they are typed.       *)
(***************************************************************************)
THEOREM TypeCorrect == Spec => []TypeOK
<1>1. Init => TypeOK
    BY InitTypeOK
<1>2. TypeOK /\ [Next]_vars => TypeOK'
    BY NextTypeOK
<1> QED
    BY <1>1, <1>2, PTL DEF Spec

-----------------------------------------------------------------------------
(* What each kind of step does to the files and to the script *)

LEMMA GenerateStep ==
    ASSUME TypeOK, Generate
    PROVE  /\ script.op = "generate"
           /\ script'.op = "clear"
           /\ script'.on = "server"
           /\ complete' = FALSE
           /\ UNCHANGED <<ready, pki, at, holds, disturbed>>
BY DEF Generate, programVars

LEMMA QuietStep ==
    ASSUME TypeOK, Quiet
    PROVE  /\ UNCHANGED <<made, complete>>
           /\ script' = script \/ script'.op \notin {"clear", "copy"}
           /\ \A m \in Machine, f \in File :
                 f # PkFw => pki'[m][f] = pki[m][f]
<1>1. UNCHANGED <<made, complete>>
    BY DEF Quiet, RunsScript, StartFirewall, AwaitPk, CheckPk, SendPk, VerifyPk,
           ScriptFails, Publish, Begin, LoadStep, Stop, vars, scriptVars
<1>2. script' = script \/ script'.op \notin {"clear", "copy"}
    BY DEF Quiet, RunsScript, StartFirewall, AwaitPk, CheckPk, SendPk, VerifyPk,
           ScriptFails, Publish, Begin, LoadStep, Stop, vars, scriptVars, Idle,
           TypeOK, ScriptState
<1>3. \/ pki' = pki
      \/ \E m \in Machine : \E v : pki' = [pki EXCEPT ![m][PkFw] = v]
    BY DEF Quiet, RunsScript, StartFirewall, AwaitPk, CheckPk, SendPk, VerifyPk,
           ScriptFails, Publish, Begin, LoadStep, Stop, vars, Machine
<1>4. \A m \in Machine, f \in File : f # PkFw => pki'[m][f] = pki[m][f]
    BY <1>3 DEF TypeOK
<1> QED
    BY <1>1, <1>2, <1>4

-----------------------------------------------------------------------------
(* One generation in a directory *)

LEMMA InitFilling ==
    Init => DirectoryOfOneGeneration /\ FillingFromEmpty
BY DEF Init, DirectoryOfOneGeneration, FillingFromEmpty, Filling, Whole, Idle

(***************************************************************************)
(* The directory is filled with one generation because it was empty.       *)
(***************************************************************************)
LEMMA NextFilling ==
    ASSUME TypeOK, [Next]_vars, DirectoryOfOneGeneration, FillingFromEmpty
    PROVE  DirectoryOfOneGeneration' /\ FillingFromEmpty'
<1>1. CASE Generate
    BY <1>1, GenerateStep
       DEF DirectoryOfOneGeneration, FillingFromEmpty, Filling, Whole
<1>2. CASE Clear
    <2>1. CASE UNCHANGED script
        <3>1. script'.op = "clear"
            BY <1>2, <2>1, ClearStep
        <3>2. \A m \in Machine, f \in File :
                  pki'[m][f] = pki[m][f] \/ pki'[m][f] = Absent
            BY <1>2, <2>1, ClearStep
        <3> QED
            BY <3>1, <3>2
               DEF DirectoryOfOneGeneration, FillingFromEmpty, Filling, Whole
    <2>2. CASE pki' = pki /\ \A f \in File : pki[script.on][f] = Absent
        <3>1. script'.on = script.on
            BY <1>2, ClearStep DEF TypeOK, ScriptState
        <3> QED
            BY <2>2, <3>1
               DEF DirectoryOfOneGeneration, FillingFromEmpty, Filling, Whole,
                   UpToDate
    <2> QED
        BY <1>2, <2>1, <2>2, ClearStep
<1>3. CASE Copy
    <2>1. PICK f \in File \ {PkFw} :
              /\ script.op = "copy"
              /\ script.on \in Machine
              /\ made' = made
              /\ \A k \in Machine, g \in File :
                    k # script.on \/ g # f => pki'[k][g] = pki[k][g]
              /\ pki'[script.on][f] \in {Torn, made}
              /\ script' = script \/ CopyDone
        BY <1>3, CopyStep
    <2>2. \A g \in File \ {PkFw} : UpToDate(script.on, g)
        BY <2>1 DEF FillingFromEmpty, Filling
    <2>3. \A g \in File \ {PkFw} : pki'[script.on][g] \in {Absent, Torn, made}
        BY <2>1, <2>2 DEF UpToDate
    <2>4. script'.op = "copy" => script'.on = script.on
        BY <1>3, <2>1, AfterCopy
    <2>5. FillingFromEmpty'
        BY <2>1, <2>3, <2>4 DEF FillingFromEmpty, Filling, UpToDate
    <2>6. DirectoryOfOneGeneration'
        BY <2>1, <2>3 DEF DirectoryOfOneGeneration, Whole
    <2> QED
        BY <2>5, <2>6
<1>4. CASE Quiet
    <2>1. /\ \A m \in Machine, f \in File : f # PkFw => pki'[m][f] = pki[m][f]
          /\ script' = script \/ script'.op # "copy"
          /\ made' = made
        BY <1>4, QuietStep
    <2> QED
        BY <2>1
           DEF DirectoryOfOneGeneration, FillingFromEmpty, Filling, Whole, UpToDate
<1> QED
    BY <1>1, <1>2, <1>3, <1>4, NextCases

(***************************************************************************)
(* Whatever a directory has been through, a deployment aborted half-way    *)
(* and begun again included, what the script put there is of one           *)
(* generation.                                                             *)
(***************************************************************************)
THEOREM NoMixedDirectory == Spec => []DirectoryOfOneGeneration
<1> DEFINE Inv == TypeOK /\ DirectoryOfOneGeneration /\ FillingFromEmpty
<1>1. Init => Inv
    BY InitTypeOK, InitFilling
<1>2. Inv /\ [Next]_vars => Inv'
    BY NextTypeOK, NextFilling
<1> QED
    BY <1>1, <1>2, PTL DEF Spec

-----------------------------------------------------------------------------
(* Programs whose directory is left alone *)

(***************************************************************************)
(* What a quiet step does to the programs other than the client.           *)
(***************************************************************************)
LEMMA QuietReads ==
    ASSUME TypeOK, ReadsStand, Quiet
    PROVE  ReadsStand'
<1> DEFINE Stands(m) ==
               \A n \in DOMAIN Reads[m] :
                   n < at[m] => LET f == Reads[m][n] IN
                                holds[m][f] = pki[m][f] /\ pki[m][f] \in Gen
<1>a. \A m \in {"server", "firewall"} : \A n \in DOMAIN Reads[m] :
          /\ m \in Machine
          /\ Reads[m][n] \in File \ {PkFw}
          /\ n \in 1 .. 6
    BY ReadsLayout DEF Machine
<1>b. \A m \in {"server", "firewall"} : \A n \in DOMAIN Reads[m] :
          pki'[m][Reads[m][n]] = pki[m][Reads[m][n]]
    BY <1>a, QuietStep
<1>c. \A m \in {"server", "firewall"} : m \notin disturbed => Stands(m)
    BY DEF ReadsStand
<1>d. SUFFICES ASSUME NEW m \in {"server", "firewall"}, m \notin disturbed',
                      NEW n \in DOMAIN Reads[m], n < at'[m]
               PROVE  /\ holds'[m][Reads[m][n]] = pki[m][Reads[m][n]]
                      /\ pki[m][Reads[m][n]] \in Gen
    BY <1>b DEF ReadsStand
<1>e. n \in 1 .. 6 /\ m \in Machine
    BY <1>a
<1>1. CASE at'[m] = at[m] /\ holds'[m] = holds[m] /\ m \notin disturbed
    BY <1>1, <1>c, <1>d
<1>2. CASE at'[m] \in {0, 1}
    BY <1>2, <1>d, <1>e
<1>3. CASE LoadStep(m)
    <2>1. CASE ~Passes(m, NextFile(m))
        <3>1. at' = [at EXCEPT ![m] = 0]
            BY <1>3, <2>1 DEF LoadStep, Exits
        <3>2. at'[m] = 0
            BY <1>e, <3>1 DEF TypeOK
        <3> QED
            BY <1>2, <3>2
    <2>2. CASE Passes(m, NextFile(m))
        <3>1. /\ at' = [at EXCEPT ![m] = @ + 1]
              /\ holds' = [holds EXCEPT ![m] =
                              [@ EXCEPT ![NextFile(m)] = pki[m][NextFile(m)]]]
              /\ pki[m][NextFile(m)] \in Gen
              /\ disturbed' = disturbed
            BY <1>3, <2>2 DEF LoadStep, Passes
        <3>2. at'[m] = at[m] + 1 /\ at[m] \in 0 .. 9
            BY <1>e, <3>1 DEF TypeOK
        <3>3. \A f \in File :
                  holds'[m][f] = IF f = NextFile(m) THEN pki[m][f] ELSE holds[m][f]
            BY <1>e, <3>1 DEF TypeOK
        <3>4. n = at[m] \/ n < at[m]
            BY <1>d, <1>e, <3>2
        <3>5. n = at[m] => Reads[m][n] = NextFile(m)
            BY DEF NextFile
        <3>6. n < at[m] => /\ holds[m][Reads[m][n]] = pki[m][Reads[m][n]]
                           /\ pki[m][Reads[m][n]] \in Gen
            BY <1>c, <1>d, <3>1
        <3> QED
            BY <1>a, <3>1, <3>3, <3>4, <3>5, <3>6
    <2> QED
        BY <2>1, <2>2
<1>4. CASE Publish
    <2>1. /\ at["firewall"] \in {7, 8}
          /\ at' = [at EXCEPT !["firewall"] = @ + 1]
          /\ holds' = holds
          /\ disturbed' = disturbed
        BY <1>4 DEF Publish
    <2>2. n < at[m]
        <3>1. CASE m = "firewall"
            BY <1>e, <2>1, <3>1
        <3>2. CASE m = "server"
            BY <1>d, <1>e, <2>1, <3>2 DEF TypeOK
        <3> QED
            BY <3>1, <3>2
    <2> QED
        BY <1>c, <1>d, <2>1, <2>2
<1>5. CASE StartFirewall
    <2>1. /\ at' = [at EXCEPT !["firewall"] = 1]
          /\ holds' = [holds EXCEPT !["firewall"] = NothingRead]
          /\ disturbed' = disturbed \ {"firewall"}
        BY <1>5 DEF StartFirewall
    <2>2. \/ at'[m] = 1
          \/ at'[m] = at[m] /\ holds'[m] = holds[m] /\ m \notin disturbed
        BY <1>d, <1>e, <2>1 DEF TypeOK
    <2> QED
        BY <1>1, <1>2, <2>2
<1>6. ASSUME NEW k \in Machine, Begin(k) \/ (LoadStep(k) /\ k # m) \/ Stop(k)
      PROVE  \/ at'[m] \in {0, 1}
             \/ at'[m] = at[m] /\ holds'[m] = holds[m] /\ m \notin disturbed
    <2>1. CASE Begin(k)
        BY <1>d, <1>e, <2>1 DEF Begin, TypeOK
    <2>2. CASE Stop(k)
        BY <1>d, <1>e, <2>2 DEF Stop, Exits, TypeOK
    <2>3. CASE LoadStep(k) /\ k # m
        BY <1>d, <1>e, <2>3 DEF LoadStep, Exits, TypeOK
    <2> QED
        BY <1>6, <2>1, <2>2, <2>3
<1>7. CASE \/ RunsScript \/ AwaitPk \/ CheckPk \/ SendPk \/ VerifyPk
           \/ ScriptFails \/ UNCHANGED vars
    <2>1. at' = at /\ holds' = holds /\ disturbed \subseteq disturbed'
        BY <1>7
           DEF RunsScript, AwaitPk, CheckPk, SendPk, VerifyPk, ScriptFails, vars,
               programVars
    <2> QED
        BY <1>1, <1>d, <2>1
<1> QED
    BY <1>1, <1>2, <1>3, <1>4, <1>5, <1>6, <1>7 DEF Quiet

LEMMA NextReads ==
    ASSUME TypeOK, ReadsStand, [Next]_vars
    PROVE  ReadsStand'
<1>a. \A m \in {"server", "firewall"} : \A n \in DOMAIN Reads[m] :
          m \in Machine /\ Reads[m][n] \in File
    BY ReadsLayout DEF Machine
<1>1. CASE Quiet
    BY <1>1, QuietReads
<1>2. CASE Generate
    BY <1>2, GenerateStep DEF ReadsStand
<1>3. CASE Clear \/ Copy
    <2>1. /\ at' = at /\ holds' = holds
          /\ disturbed \subseteq disturbed'
          /\ \A m \in Machine \ disturbed', f \in File : pki'[m][f] = pki[m][f]
        <3>1. CASE Clear
            BY <3>1, ClearStep
        <3>2. CASE Copy
            BY <3>2, CopyStep
        <3> QED
            BY <1>3, <3>1, <3>2
    <2> QED
        BY <1>a, <2>1 DEF ReadsStand
<1> QED
    BY <1>1, <1>2, <1>3, NextCases

(***************************************************************************)
(* A server or a firewall that nobody disturbed while it loaded has a      *)
(* private key of the authority whose certificate it verified, though the  *)
(* code never compares them, whenever it was started.                      *)
(***************************************************************************)
THEOREM UndisturbedLoadMatches == Spec => []UndisturbedLoad
<1> DEFINE Inv == /\ TypeOK
                  /\ DirectoryOfOneGeneration
                  /\ FillingFromEmpty
                  /\ ReadsStand
<1>1. Init => Inv
    <2>1. Init => ReadsStand
        BY ReadsLayout DEF Init, ReadsStand, Machine
    <2> QED
        BY <2>1, InitTypeOK, InitFilling
<1>2. Inv /\ [Next]_vars => Inv'
    BY NextTypeOK, NextFilling, NextReads
<1>3. Inv => UndisturbedLoad
    <2> SUFFICES ASSUME Inv, NEW m \in {"server", "firewall"}, m \notin disturbed,
                        Loaded(m), NEW n \in DOMAIN Reads[m]
                 PROVE  holds[m][Reads[m][n]] = holds[m]["ca.crt"]
        BY DEF UndisturbedLoad
    <2>1. /\ m \in Machine
          /\ Reads[m][1] = "ca.crt"
          /\ 1 \in DOMAIN Reads[m]
        BY DEF Machine, Reads
    <2>2. \A k \in DOMAIN Reads[m] :
              /\ Reads[m][k] \in File \ {PkFw}
              /\ k < at[m]
        <3>1. \A k \in DOMAIN Reads[m] :
                  /\ Reads[m][k] \in File \ {PkFw}
                  /\ k \in 1 .. 6
            BY <2>1, ReadsLayout
        <3>2. CASE m = "firewall"
            BY <3>1, <3>2 DEF Loaded, LastStep
        <3>3. CASE m = "server"
            <4>1. DOMAIN Reads[m] = 1 .. 3 /\ at[m] = 4
                BY <3>3 DEF Loaded, LastStep, Reads
            <4> QED
                BY <3>1, <4>1
        <3> QED
            BY <3>2, <3>3
    <2>3. \A k \in DOMAIN Reads[m] :
              /\ holds[m][Reads[m][k]] = pki[m][Reads[m][k]]
              /\ pki[m][Reads[m][k]] \in Gen
        BY <2>2 DEF ReadsStand
    <2>4. Absent \notin Gen /\ Torn \notin Gen
        BY Generations DEF Gen
    <2>5. pki[m][Reads[m][n]] = pki[m][Reads[m][1]]
        BY <2>1, <2>2, <2>3, <2>4 DEF DirectoryOfOneGeneration, Whole
    <2> QED
        BY <2>1, <2>3, <2>5
<1> QED
    BY <1>1, <1>2, <1>3, PTL DEF Spec

-----------------------------------------------------------------------------
(* A complete deployment *)

LEMMA NextCopied ==
    ASSUME TypeOK, [Next]_vars, CompleteMeansOver, CopiedSoFar
    PROVE  CompleteMeansOver' /\ CopiedSoFar'
<1>a. \A m \in Machine : \A n \in DOMAIN Bundle[m] :
          /\ Bundle[m][n] \in File \ {PkFw}
          /\ n \in 1 .. 5
    <2>1. ASSUME NEW m \in Machine, NEW n \in DOMAIN Bundle[m]
          PROVE  Bundle[m][n] \in File \ {PkFw} /\ n \in 1 .. 5
        <3>1. /\ Len(Bundle[m]) \in 1 .. 5
              /\ DOMAIN Bundle[m] = 1 .. Len(Bundle[m])
              /\ Bundle[m][n] \in File \ {PkFw}
            BY BundleLayout
        <3> QED
            BY <3>1
    <2> QED
        BY <2>1
<1>1. CASE Generate
    BY <1>1, GenerateStep
       DEF CompleteMeansOver, CopiedSoFar, Passed, Filling, Underway
<1>2. CASE Clear
    <2>1. /\ script.op = "clear"
          /\ ~complete
          /\ UNCHANGED <<made, complete>>
          /\ script' = script \/ script' = [script EXCEPT !.op = "copy"]
        BY <1>2, ClearStep DEF CompleteMeansOver, Underway
    <2>2. /\ script'.on = script.on /\ script'.nth = 1
          /\ script.on \in Machine
          /\ script'.op \in {"clear", "copy"}
        BY <2>1 DEF TypeOK, ScriptState
    <2>3. \A m \in Machine, f \in File :
              m # script.on => pki'[m][f] = pki[m][f]
        BY <1>2, ClearStep
    <2>4. CopiedSoFar'
        <3> SUFFICES ASSUME NEW m \in Machine, NEW n \in DOMAIN Bundle[m],
                            (Passed(m) \/ (Filling(m) /\ n < script.nth))'
                     PROVE  pki'[m][Bundle[m][n]] = made'
            BY DEF CopiedSoFar
        <3>1. Passed(m)'
            BY <1>a, <2>2
        <3>2. Passed(m) /\ m # script.on
            BY <2>1, <2>2, <3>1 DEF Passed, Underway
        <3> QED
            BY <1>a, <2>1, <2>3, <3>2 DEF CopiedSoFar
    <2> QED
        BY <2>1, <2>4 DEF CompleteMeansOver
<1>3. CASE Copy
    <2>1. PICK f \in File \ {PkFw} :
              /\ script.op = "copy"
              /\ script.on \in Machine
              /\ script.nth \in DOMAIN Bundle[script.on]
              /\ f = Bundle[script.on][script.nth]
              /\ made' = made
              /\ \A k \in Machine, g \in File :
                    k # script.on \/ g # f => pki'[k][g] = pki[k][g]
              /\ \/ UNCHANGED <<script, complete>>
                 \/ pki'[script.on][f] = made /\ CopyDone
        BY <1>3, CopyStep
    <2>2. ~complete
        BY <2>1 DEF CompleteMeansOver, Underway
    <2>3. /\ \A m \in Machine : \A n \in DOMAIN Bundle[m] :
                /\ Passed(m) => pki'[m][Bundle[m][n]] = made
                /\ m = script.on /\ n < script.nth =>
                        pki'[m][Bundle[m][n]] = made
          /\ \A m \in Machine : Passed(m) => m # script.on
        <3>1. \A m \in Machine : Passed(m) => m # script.on
            BY <2>1, <2>2 DEF Passed
        <3>2. ASSUME NEW m \in Machine, NEW n \in DOMAIN Bundle[m], Passed(m)
              PROVE  pki'[m][Bundle[m][n]] = made
            BY <1>a, <2>1, <3>1, <3>2 DEF CopiedSoFar
        <3>3. ASSUME NEW n \in DOMAIN Bundle[script.on], n < script.nth
              PROVE  pki'[script.on][Bundle[script.on][n]] = made
            <4>1. n # script.nth
                BY <1>a, <2>1, <3>3
            <4>2. Bundle[script.on][n] # f
                BY <2>1, <4>1, BundleLayout
            <4> QED
                BY <1>a, <2>1, <3>3, <4>2 DEF CopiedSoFar, Filling
        <3> QED
            BY <3>1, <3>2, <3>3
    <2>4. CASE UNCHANGED <<script, complete>>
        <3>1. CompleteMeansOver'
            BY <2>2, <2>4 DEF CompleteMeansOver
        <3>2. CopiedSoFar'
            BY <2>1, <2>3, <2>4
               DEF CopiedSoFar, Filling, Passed, Underway
        <3> QED
            BY <3>1, <3>2
    <2>5. CASE pki'[script.on][f] = made /\ CopyDone
        <3>1. \A n \in DOMAIN Bundle[script.on] :
                  n <= script.nth => pki'[script.on][Bundle[script.on][n]] = made
            BY <1>a, <2>1, <2>3, <2>5
        <3>2. \A n \in DOMAIN Bundle[script.on] : n <= Len(Bundle[script.on])
            BY <2>1, BundleLayout
        <3>3. CASE /\ script.on = "client" /\ script.nth = Len(Bundle["client"])
                   /\ script'.op \in {"none", "start"}
            <4>1. \A m \in Machine : m = "client" \/ Passed(m)
                BY <2>1, <3>3 DEF Passed, Underway, Machine
            <4>2. \A m \in Machine : \A n \in DOMAIN Bundle[m] :
                      pki'[m][Bundle[m][n]] = made
                BY <2>3, <3>1, <3>2, <3>3, <4>1
            <4>3. ~Underway'
                BY <3>3 DEF Underway
            <4> QED
                BY <2>1, <4>2, <4>3 DEF CopiedSoFar, CompleteMeansOver
        <3>4. CASE /\ complete' = complete
                   /\ script'.op = "copy"
                   /\ script'.on = script.on
                   /\ script'.nth = script.nth + 1
            <4>1. CompleteMeansOver'
                BY <2>2, <3>4 DEF CompleteMeansOver
            <4>2. ASSUME NEW m \in Machine, NEW n \in DOMAIN Bundle[m],
                         (Passed(m) \/ (Filling(m) /\ n < script.nth))'
                  PROVE  pki'[m][Bundle[m][n]] = made'
                <5>1. CASE Passed(m)'
                    <6>1. Passed(m)
                        BY <2>1, <3>4, <5>1 DEF Passed, Underway
                    <6> QED
                        BY <2>1, <2>3, <6>1
                <5>2. CASE (Filling(m) /\ n < script.nth)'
                    <6>1. m = script.on /\ n < script.nth + 1
                        BY <3>4, <5>2 DEF Filling
                    <6>2. n \in 1 .. 5 /\ script.nth \in 1 .. 5
                        BY <1>a, <2>1
                    <6>3. n <= script.nth
                        BY <6>1, <6>2
                    <6> QED
                        BY <2>1, <3>1, <6>1, <6>3
                <5> QED
                    BY <4>2, <5>1, <5>2
            <4> QED
                BY <4>1, <4>2 DEF CopiedSoFar
        <3>5. CASE /\ complete' = complete
                   /\ script.nth = Len(Bundle[script.on])
                   /\ script'.op = "clear"
                   /\ \/ script.on = "server" /\ script'.on = "firewall"
                      \/ script.on = "firewall" /\ script'.on = "client"
            <4>1. CompleteMeansOver'
                BY <2>2, <3>5 DEF CompleteMeansOver
            <4>2. ASSUME NEW m \in Machine, NEW n \in DOMAIN Bundle[m],
                         (Passed(m) \/ (Filling(m) /\ n < script.nth))'
                  PROVE  pki'[m][Bundle[m][n]] = made'
                <5>1. Passed(m)'
                    BY <3>5, <4>2 DEF Filling
                <5>2. Passed(m) \/ m = script.on
                    BY <2>1, <2>2, <3>5, <5>1 DEF Passed, Underway
                <5> QED
                    BY <2>1, <2>3, <3>1, <3>2, <3>5, <5>2
            <4> QED
                BY <4>1, <4>2 DEF CopiedSoFar
        <3> QED
            BY <1>3, <2>5, <3>3, <3>4, <3>5, AfterCopy
    <2> QED
        BY <2>1, <2>4, <2>5
<1>4. CASE Quiet
    <2>1. /\ UNCHANGED <<made, complete>>
          /\ script' = script \/ ~Underway'
          /\ \A m \in Machine, f \in File : f # PkFw => pki'[m][f] = pki[m][f]
        BY <1>4, QuietStep DEF Underway
    <2>2. CompleteMeansOver'
        BY <2>1 DEF CompleteMeansOver, Underway
    <2>3. CopiedSoFar'
        BY <1>a, <2>1 DEF CopiedSoFar, Passed, Filling, Underway
    <2> QED
        BY <2>2, <2>3
<1> QED
    BY <1>1, <1>2, <1>3, <1>4, NextCases

LEMMA NextNothingHeld ==
    ASSUME TypeOK, [Next]_vars, NothingHeld
    PROVE  NothingHeld'
<1>1. CASE Generate \/ Clear \/ Copy
    <2>1. at' = at /\ holds' = holds
        BY <1>1 DEF Generate, Clear, Copy, programVars
    <2> QED
        BY <2>1 DEF NothingHeld
<1>2. CASE Quiet
    <2>1. CASE \/ RunsScript \/ AwaitPk \/ CheckPk \/ SendPk \/ VerifyPk
               \/ ScriptFails \/ UNCHANGED vars
        <3>1. at' = at /\ holds' = holds
            BY <2>1
               DEF RunsScript, AwaitPk, CheckPk, SendPk, VerifyPk, ScriptFails,
                   vars, programVars
        <3> QED
            BY <3>1 DEF NothingHeld
    <2>2. CASE StartFirewall
        BY <2>2 DEF StartFirewall, NothingHeld, TypeOK
    <2>3. CASE Publish
        BY <2>3 DEF Publish, NothingHeld, TypeOK
    <2>4. ASSUME NEW m \in Machine, Begin(m) PROVE NothingHeld'
        BY <2>4 DEF Begin, NothingHeld, TypeOK
    <2>5. ASSUME NEW m \in Machine, Stop(m) PROVE NothingHeld'
        BY <2>5 DEF Stop, Exits, NothingHeld, TypeOK
    <2>6. ASSUME NEW m \in Machine, LoadStep(m) PROVE NothingHeld'
        <3>1. \/ Exits(m)
              \/ /\ at' = [at EXCEPT ![m] = @ + 1]
                 /\ \A k \in Machine : k # m => holds'[k] = holds[k]
            BY <2>6 DEF LoadStep, TypeOK
        <3>2. at[m] \in Nat
            BY DEF TypeOK
        <3> QED
            BY <3>1, <3>2 DEF Exits, NothingHeld, TypeOK
    <2> QED
        BY <1>2, <2>1, <2>2, <2>3, <2>4, <2>5, <2>6 DEF Quiet
<1> QED
    BY <1>1, <1>2, NextCases

(***************************************************************************)
(* NoOldKey speaks of the firewall, of its key file, and of the client's.  *)
(***************************************************************************)
LEMMA QuietNoOldKey ==
    ASSUME TypeOK, Quiet, FillingFromEmpty, CopiedSoFar, NothingHeld, NoOldKey
    PROVE  NoOldKey'
<1> DEFINE key == "firewall.key"
           Reached(m) == Passed(m) \/ Filling(m)
<1>a. /\ "firewall" \in Machine /\ "client" \in Machine
      /\ PkFw \in File /\ key \in File /\ key # PkFw
    BY Layout DEF Machine
<1>b. /\ made' = made /\ complete' = complete
      /\ script' = script \/ ~Underway'
    BY QuietStep DEF Underway
<1>c. \A m \in Machine : Reached(m)' => Reached(m)
    BY <1>b DEF Passed, Filling, Underway
<1>d. straggler => straggler'
    BY DEF Quiet, RunsScript, StartFirewall, AwaitPk, CheckPk, SendPk, VerifyPk,
           ScriptFails, Publish, Begin, LoadStep, Stop, vars
<1>e. Reached("firewall") => pki["firewall"][key] \in {Absent, Torn, made}
    <2>1. key \in File \ {PkFw} /\ Bundle["firewall"][3] = key
          /\ 3 \in DOMAIN Bundle["firewall"]
        BY <1>a DEF Bundle
    <2> QED
        BY <1>a, <2>1 DEF CopiedSoFar, FillingFromEmpty, UpToDate
<1>f. SUFFICES ASSUME ~straggler' PROVE NoOldKey'
    BY DEF NoOldKey
<1>g. /\ Reached("firewall") =>
             /\ pki["firewall"][PkFw] \in {Absent, Torn, made}
             /\ Loading("firewall") => holds["firewall"][key] \in {Absent, made}
      /\ Reached("client") => pki["client"][PkFw] \in {Absent, Torn, made}
    BY <1>d, <1>f DEF NoOldKey, UpToDate
<1>1. ASSUME \/ at'["firewall"] = at["firewall"]
             \/ ~Loading("firewall")',
             \/ holds'["firewall"] = holds["firewall"]
             \/ holds'["firewall"] = NothingRead,
             pki'["firewall"][PkFw] = pki["firewall"][PkFw],
             pki'["client"][PkFw] = pki["client"][PkFw]
      PROVE  NoOldKey'
    <2>1. Loading("firewall")' => Loading("firewall")
        BY <1>1 DEF Loading
    <2>2. NothingRead[key] = Absent
        BY <1>a DEF NothingRead
    <2> QED
        BY <1>1, <1>a, <1>b, <1>c, <1>g, <2>1, <2>2 DEF NoOldKey, UpToDate
<1>2. ASSUME holds'["firewall"] = NothingRead,
             pki' = pki
      PROVE  NoOldKey'
    <2>1. NothingRead[key] = Absent
        BY <1>a DEF NothingRead
    <2> QED
        BY <1>2, <1>a, <1>b, <1>c, <1>g, <2>1 DEF NoOldKey, UpToDate
<1>3. CASE \/ RunsScript \/ AwaitPk \/ CheckPk \/ VerifyPk \/ ScriptFails
           \/ UNCHANGED vars
    <2>1. at' = at /\ holds' = holds /\ pki' = pki
        BY <1>3
           DEF RunsScript, AwaitPk, CheckPk, VerifyPk, ScriptFails, vars, programVars
    <2> QED
        BY <1>1, <2>1
<1>4. CASE StartFirewall
    <2>1. holds' = [holds EXCEPT !["firewall"] = NothingRead] /\ pki' = pki
        BY <1>4 DEF StartFirewall
    <2>2. holds'["firewall"] = NothingRead
        BY <1>a, <2>1 DEF TypeOK
    <2> QED
        BY <1>2, <2>1, <2>2
<1>5. CASE SendPk
    <2>1. at' = at /\ holds' = holds /\ script' # script
        BY <1>5 DEF SendPk, programVars, TypeOK, ScriptState
    <2>2. \/ pki' = pki
          \/ pki' = [pki EXCEPT !["client"][PkFw] = Torn]
          \/ pki' = [pki EXCEPT !["client"][PkFw] = pki["firewall"][PkFw]]
        BY <1>5 DEF SendPk
    <2>3. /\ pki'["firewall"][PkFw] = pki["firewall"][PkFw]
          /\ pki'["client"][PkFw] \in
                 {Torn, pki["client"][PkFw], pki["firewall"][PkFw]}
        BY <1>a, <2>2 DEF TypeOK
    <2>4. Reached("client")' => complete /\ Reached("client") /\ Reached("firewall")
        BY <1>b, <1>c, <1>a, <2>1 DEF Passed, Filling, Underway
    <2>5. Loading("firewall")' = Loading("firewall")
        BY <2>1 DEF Loading
    <2> QED
        BY <1>a, <1>b, <1>c, <1>g, <2>1, <2>3, <2>4, <2>5 DEF NoOldKey, UpToDate
<1>6. CASE Publish
    <2>1. /\ at["firewall"] \in {7, 8}
          /\ holds' = holds
          /\ \/ pki' = [pki EXCEPT !["firewall"][PkFw] = Torn]
             \/ pki' = [pki EXCEPT !["firewall"][PkFw] = holds["firewall"][key]]
        BY <1>6 DEF Publish
    <2>2. Loading("firewall")
        BY <2>1 DEF Loading, LastStep
    <2>3. /\ pki'["firewall"][PkFw] \in {Torn, holds["firewall"][key]}
          /\ pki'["client"][PkFw] = pki["client"][PkFw]
        BY <1>a, <2>1 DEF TypeOK
    <2> QED
        BY <1>a, <1>b, <1>c, <1>g, <2>1, <2>2, <2>3 DEF NoOldKey, UpToDate
<1>7. ASSUME NEW m \in Machine, Begin(m) PROVE NoOldKey'
    <2>1. pki' = pki /\ holds' = holds /\ at[m] = 0 /\ at' = [at EXCEPT ![m] = 1]
        BY <1>7 DEF Begin
    <2>2. CASE m = "firewall"
        <3>1. holds["firewall"] = NothingRead
            BY <1>a, <2>1, <2>2 DEF NothingHeld
        <3> QED
            BY <1>2, <2>1, <3>1
    <2>3. CASE m # "firewall"
        <3>1. at'["firewall"] = at["firewall"]
            BY <1>a, <2>1, <2>3 DEF TypeOK
        <3> QED
            BY <1>1, <2>1, <3>1
    <2> QED
        BY <2>2, <2>3
<1>8. ASSUME NEW m \in Machine, Exits(m), pki' = pki PROVE NoOldKey'
    <2>1. \/ holds'["firewall"] = NothingRead
          \/ /\ holds'["firewall"] = holds["firewall"]
             /\ at'["firewall"] = at["firewall"]
        BY <1>8, <1>a DEF Exits, TypeOK
    <2> QED
        BY <1>1, <1>2, <1>8, <2>1
<1>9. ASSUME NEW m \in Machine, LoadStep(m) PROVE NoOldKey'
    <2>1. pki' = pki
        BY <1>9 DEF LoadStep
    <2>2. CASE ~Passes(m, NextFile(m))
        BY <1>8, <1>9, <2>1, <2>2 DEF LoadStep
    <2>3. CASE Passes(m, NextFile(m)) /\ m # "firewall"
        <3>1. at'["firewall"] = at["firewall"] /\ holds'["firewall"] = holds["firewall"]
            BY <1>9, <1>a, <2>3 DEF LoadStep, TypeOK
        <3> QED
            BY <1>1, <2>1, <3>1
    <2>4. CASE Passes(m, NextFile(m)) /\ m = "firewall"
        <3>1. /\ Reading("firewall")
              /\ holds' = [holds EXCEPT !["firewall"] =
                              [@ EXCEPT ![NextFile("firewall")] =
                                            pki["firewall"][NextFile("firewall")]]]
              /\ pki["firewall"][NextFile("firewall")] \in Gen
            BY <1>9, <2>4 DEF LoadStep, Passes
        <3>2. Loading("firewall")
            BY <1>a, <3>1, ReadsLayout DEF Reading, Loading
        <3>3. \/ holds'["firewall"][key] = holds["firewall"][key]
              \/ /\ holds'["firewall"][key] = pki["firewall"][key]
                 /\ pki["firewall"][key] \in Gen
            BY <1>a, <3>1 DEF TypeOK
        <3>4. Torn \notin Gen
            BY Generations DEF Gen
        <3> QED
            BY <1>a, <1>b, <1>c, <1>e, <1>g, <2>1, <3>2, <3>3, <3>4
               DEF NoOldKey, UpToDate
    <2> QED
        BY <2>2, <2>3, <2>4
<1>10. ASSUME NEW m \in Machine, Stop(m) PROVE NoOldKey'
    BY <1>8, <1>10 DEF Stop
<1> QED
    BY <1>3, <1>4, <1>5, <1>6, <1>7, <1>9, <1>10 DEF Quiet

LEMMA NextNoOldKey ==
    ASSUME TypeOK, [Next]_vars, FillingFromEmpty, CompleteMeansOver, CopiedSoFar,
           NothingHeld, NoOldKey
    PROVE  NoOldKey'
<1> DEFINE key == "firewall.key"
           Reached(m) == Passed(m) \/ Filling(m)
<1>a. /\ "firewall" \in Machine /\ "client" \in Machine
      /\ PkFw \in File
    BY Layout DEF Machine
<1>1. CASE Generate
    <2>1. /\ complete' = FALSE
          /\ script'.op = "clear" /\ script'.on = "server"
        BY <1>1, GenerateStep
    <2>2. ~Reached("firewall")' /\ ~Reached("client")'
        BY <2>1 DEF Passed, Filling
    <2> QED
        BY <2>2 DEF NoOldKey
<1>2. ASSUME Reached("firewall")' => Reached("firewall"),
             Reached("client")' => Reached("client"),
             UNCHANGED <<made, at, holds>>,
             straggler => straggler',
             pki'["firewall"][PkFw] \in {Absent, pki["firewall"][PkFw]},
             pki'["client"][PkFw] \in {Absent, pki["client"][PkFw]}
      PROVE  NoOldKey'
    <2>1. Loading("firewall")' = Loading("firewall")
        BY <1>2 DEF Loading
    <2> QED
        BY <1>2, <2>1 DEF NoOldKey, UpToDate
<1>3. CASE Clear
    <2>1. /\ script.op = "clear"
          /\ UNCHANGED <<made, complete, at, holds>>
          /\ straggler' = (straggler \/ (script.on = "firewall" /\ Loading("firewall")))
        BY <1>3, ClearStep
    <2>2. /\ pki'["firewall"][PkFw] \in {Absent, pki["firewall"][PkFw]}
          /\ pki'["client"][PkFw] \in {Absent, pki["client"][PkFw]}
        BY <1>3, <1>a, ClearStep
    <2>3. CASE script' = script
        BY <1>2, <2>1, <2>2, <2>3 DEF Passed, Filling, Underway
    <2>4. CASE /\ script' = [script EXCEPT !.op = "copy"]
               /\ pki' = pki
               /\ \A f \in File : pki[script.on][f] = Absent
        <3>1. script'.on = script.on /\ script'.op = "copy"
            BY <2>4 DEF TypeOK, ScriptState
        <3>2. /\ Passed("firewall")' = Passed("firewall")
              /\ Passed("client")' = Passed("client")
            BY <2>1, <3>1 DEF Passed, Underway
        <3>3. CASE script.on = "firewall"
            <4>1. Loading("firewall")' => straggler'
                <5>1. Loading("firewall")' => Loading("firewall")
                    BY <2>1 DEF Loading
                <5> QED
                    BY <2>1, <3>3, <5>1, Zenon
            <4>2. pki'["firewall"][PkFw] = Absent
                BY <1>a, <2>4, <3>3
            <4>3. ~Passed("client") /\ ~Filling("client")'
                BY <2>1, <3>1, <3>3 DEF Passed, Filling, Underway, CompleteMeansOver
            <4> QED
                BY <3>2, <4>1, <4>2, <4>3 DEF NoOldKey, UpToDate
        <3>4. CASE script.on = "client"
            <4>1. Passed("firewall") /\ pki'["client"][PkFw] = Absent
                BY <1>a, <2>1, <2>4, <3>4 DEF Passed, Underway
            <4>2. Loading("firewall")' = Loading("firewall")
                BY <2>1 DEF Loading
            <4>3. ~straggler' => ~straggler
                BY <2>1
            <4> QED
                BY <2>1, <2>4, <4>1, <4>2, <4>3 DEF NoOldKey, UpToDate
        <3>5. CASE script.on \notin {"firewall", "client"}
            BY <1>2, <2>1, <2>2, <3>1, <3>2, <3>5 DEF Filling
        <3> QED
            BY <3>3, <3>4, <3>5
    <2> QED
        BY <1>3, <2>3, <2>4, ClearStep
<1>4. CASE Copy
    <2>1. /\ script.op = "copy"
          /\ script.on \in Machine
          /\ UNCHANGED <<made, at, holds, straggler>>
          /\ \A m \in Machine : pki'[m][PkFw] = pki[m][PkFw]
          /\ UNCHANGED <<script, complete>> \/ CopyDone
        BY <1>4, <1>a, CopyStep
    <2>2. /\ Reached("firewall")' => Reached("firewall")
          /\ Reached("client")' => Reached("client")
        <3>1. CASE UNCHANGED <<script, complete>>
            BY <3>1 DEF Passed, Filling, Underway
        <3>2. CASE CopyDone
            <4>1. CASE script.on = "client"
                BY <2>1, <4>1 DEF Passed, Filling, Underway
            <4>2. CASE /\ script.on # "client" /\ complete' = complete
                       /\ \/ script'.op = "copy" /\ script'.on = script.on
                          \/ /\ script'.op = "clear"
                             /\ \/ script.on = "server" /\ script'.on = "firewall"
                                \/ script.on = "firewall" /\ script'.on = "client"
                BY <2>1, <4>2 DEF Passed, Filling, Underway
            <4> QED
                BY <1>4, <3>2, <4>1, <4>2, AfterCopy
        <3> QED
            BY <2>1, <3>1, <3>2
    <2> QED
        BY <1>2, <1>a, <2>1, <2>2
<1>5. CASE Quiet
    BY <1>5, QuietNoOldKey
<1> QED
    BY <1>1, <1>3, <1>4, <1>5, NextCases

LEMMA NextReady ==
    ASSUME TypeOK, [Next]_vars, ReadyMeansSent
    PROVE  ReadyMeansSent'
<1>a. "client" \in Machine /\ PkFw \in File
    BY Layout DEF Machine
<1>1. CASE Generate \/ Clear \/ Copy \/ StartFirewall \/ AwaitPk \/ CheckPk
           \/ SendPk \/ ScriptFails
    <2>1. script # Idle /\ ready' = ready
        BY <1>1
           DEF Generate, Clear, Copy, StartFirewall, AwaitPk, CheckPk, SendPk,
               ScriptFails, Idle
    <2> QED
        BY <2>1 DEF ReadyMeansSent
<1>2. CASE RunsScript
    BY <1>2 DEF RunsScript, ReadyMeansSent
<1>3. CASE VerifyPk
    <2>1. script' = Idle /\ Whole("client", PkFw)'
        BY <1>3 DEF VerifyPk, Arrived, Whole
    <2> QED
        BY <2>1 DEF ReadyMeansSent
<1>4. CASE Publish \/ (\E m \in Machine : Begin(m) \/ LoadStep(m) \/ Stop(m))
           \/ UNCHANGED vars
    <2>1. UNCHANGED <<ready, script>>
        BY <1>4 DEF Publish, Begin, LoadStep, Stop, vars, scriptVars
    <2>2. pki'["client"][PkFw] = pki["client"][PkFw]
        <3>1. pki' = pki \/ \E v : pki' = [pki EXCEPT !["firewall"][PkFw] = v]
            BY <1>4 DEF Publish, Begin, LoadStep, Stop, vars
        <3> QED
            BY <1>a, <3>1 DEF TypeOK
    <2> QED
        BY <2>1, <2>2 DEF ReadyMeansSent, Whole
<1> QED
    BY <1>1, <1>2, <1>3, <1>4, NextCases DEF Quiet

(***************************************************************************)
(* The invariant behind the properties of the directories holds.           *)
(***************************************************************************)
THEOREM DeploymentInvariant == Spec => []DeploymentInv
<1>1. Init => TypeOK /\ DeploymentInv
    <2>1. Init => /\ CopiedSoFar
                  /\ CompleteMeansOver
                  /\ ReadsStand
                  /\ NothingHeld
                  /\ NoOldKey
                  /\ ReadyMeansSent
        BY ReadsLayout, Layout
           DEF Init, CopiedSoFar, CompleteMeansOver, ReadsStand, NothingHeld,
               NoOldKey, ReadyMeansSent, Passed, Filling, Underway, Idle, Machine
    <2> QED
        BY <2>1, InitTypeOK, InitFilling DEF DeploymentInv
<1>2. (TypeOK /\ DeploymentInv) /\ [Next]_vars => (TypeOK /\ DeploymentInv)'
    BY NextTypeOK, NextFilling, NextCopied, NextReads, NextNothingHeld,
       NextNoOldKey, NextReady
       DEF DeploymentInv
<1> QED
    BY <1>1, <1>2, PTL DEF Spec

(***************************************************************************)
(* When the script says that the programs can be started after a complete  *)
(* deployment, what they will read is of one generation, the last one,     *)
(* unless a firewall was loading while its directory was cleared.          *)
(***************************************************************************)
THEOREM ReadyMatches == Spec => []ReadyMeansMatched
<1>1. DeploymentInv => ReadyMeansMatched
    <2> SUFFICES ASSUME DeploymentInv, ready, complete, ~straggler,
                        NEW m \in Machine, NEW n \in DOMAIN Reads[m]
                 PROVE  pki[m][Reads[m][n]] = made
        BY DEF ReadyMeansMatched
    <2>1. CASE Reads[m][n] # PkFw
        <3>1. PICK k \in DOMAIN Bundle[m] : Bundle[m][k] = Reads[m][n]
            BY <2>1, ReadsBundled
        <3> QED
            BY <3>1 DEF DeploymentInv, CopiedSoFar, Passed
    <2>2. CASE Reads[m][n] = PkFw
        <3>1. m = "client"
            BY <2>2, ReadsLayout
        <3>2. UpToDate("client", PkFw) /\ Whole("client", PkFw)
            BY DEF DeploymentInv, NoOldKey, ReadyMeansSent, Passed
        <3> QED
            BY <2>2, <3>1, <3>2 DEF UpToDate, Whole
    <2> QED
        BY <2>1, <2>2
<1> QED
    BY <1>1, DeploymentInvariant, PTL
=============================================================================
