------------------------------ MODULE FleetProofs ------------------------------
(* Who a handset is, and how a SIM enters service: the promises of Fleet for *)
(* every number of devices, SIMs, handsets, codes, runs and API workers.     *)
EXTENDS Fleet, WellFoundedInduction, TLAPS

(* Types.                                                                    *)

RowsTyped ==
  /\ status \in [Devices -> DeviceStatuses]
  /\ sim \in [Sims -> SimStatuses]
  /\ seen \in [Devices -> {"never", "fresh", "late"}]
  /\ capable \in [Devices -> BOOLEAN]
  /\ runs \in [Devices -> Seq(Run)] /\ \A d \in Devices : Len(runs[d]) <= MaxRuns
  /\ work \in [Sims -> {"none", "open", "failed"}]
  /\ history \in [Devices -> BOOLEAN]

CodesTyped == code \in [Codes -> [device : Devices \cup {None}, open : BOOLEAN]]

CredentialsTyped ==
  /\ token \in [Devices -> 0..MaxCodes]
  /\ hardware \in [Devices -> Handsets \cup {None}]
  /\ CodesTyped
  /\ retired \in [Devices -> BOOLEAN]

LEMMA Types == TypeOK <=> RowsTyped /\ CredentialsTyped /\ txn \in [Workers -> Txn]
  BY DEF TypeOK, RowsTyped, CredentialsTyped, CodesTyped

\* A code that can be redeemed is a device's.
CodesBelong == \A c \in Codes : code[c].open => code[c].device \in Devices

\* No two records hold a credential for one handset.
Identity ==
  \A d \in Devices : token[d] # 0 =>
    /\ hardware[d] # None
    /\ \A e \in Devices \ {d} : token[e] # 0 => hardware[e] # hardware[d]

FleetInv == TypeOK /\ CodesBelong /\ Identity

-----------------------------------------------------------------------------
(* Lemmas about the operators of the model.                                  *)

LEMMA SetTyped ==
  ASSUME NEW S, NEW T, NEW f \in [S -> T], NEW d, NEW v \in T
  PROVE  /\ Set(f, d, v) \in [S -> T]
         /\ \A e \in S : Set(f, d, v)[e] = IF e = d THEN v ELSE f[e]
  BY DEF Set

LEMMA SimsTyped ==
  ASSUME TypeOK, NEW d, NEW from, NEW st \in SimStatuses, SetSims(d, from, st)
  PROVE  sim' \in [Sims -> SimStatuses]
  BY DEF TypeOK, SetSims

\* A fresh code is its device's; the others stay whose they were.
LEMMA IssueTyped ==
  ASSUME TypeOK, CodesBelong, NEW d \in Devices, NEW spent, Issue(d, spent)
  PROVE  CodesTyped' /\ CodesBelong'
  <1>1. PICK c \in Codes : code' = [e \in Codes |-> IF e = c THEN [device |-> d, open |-> TRUE]
                                ELSE [code[e] EXCEPT !.open = @ /\ e \notin spent]]
    BY DEF Issue, Unissued
  <1>2. ASSUME NEW e \in Codes
        PROVE  /\ code'[e] \in [device : Devices \cup {None}, open : BOOLEAN]
               /\ code'[e].open => code'[e].device \in Devices
    <2>1. CASE e = c
      BY <1>1, <2>1
    <2>2. CASE e # c
      <3>1. code[e] \in [device : Devices \cup {None}, open : BOOLEAN]
        BY DEF TypeOK
      <3>2. code'[e] = [code[e] EXCEPT !.open = @ /\ e \notin spent]
        BY <1>1, <2>2
      <3>3. (e \notin spent) \in BOOLEAN
        OBVIOUS
      <3>4. /\ code'[e] \in [device : Devices \cup {None}, open : BOOLEAN]
            /\ code'[e].device = code[e].device /\ (code'[e].open => code[e].open)
        BY <3>1, <3>2, <3>3
      <3> QED BY <3>4 DEF CodesBelong
    <2> QED BY <2>1, <2>2
  <1> QED BY <1>1, <1>2 DEF CodesTyped, CodesBelong

\* Closing codes.
LEMMA CodesClosed ==
  ASSUME TypeOK, CodesBelong, NEW X,
         code' = [c \in Codes |-> IF c \in X THEN [code[c] EXCEPT !.open = FALSE] ELSE code[c]]
  PROVE  CodesTyped' /\ CodesBelong'
  <1>1. ASSUME NEW c \in Codes
        PROVE  /\ code'[c] \in [device : Devices \cup {None}, open : BOOLEAN]
               /\ code'[c].open => code'[c].device \in Devices
    <2>1. code[c] \in [device : Devices \cup {None}, open : BOOLEAN]
      BY DEF TypeOK
    <2>2. code'[c] = [code[c] EXCEPT !.open = FALSE] \/ code'[c] = code[c]
      OBVIOUS
    <2> QED BY <2>1, <2>2 DEF CodesBelong
  <1> QED BY <1>1 DEF CodesTyped, CodesBelong

\* What a transaction in flight carries.
LEMMA TxnShape ==
  ASSUME NEW t \in Txn
  PROVE  /\ t.kind = "idle" => t = Idle
         /\ t.kind # "idle" => t.device \in Devices /\ t # Idle
         /\ t.kind \in {"record", "approve", "reject"} => t.run \in 1..MaxRuns
         /\ t.kind = "rest_heartbeat" => t.run \in 0..MaxRuns
         /\ t.kind = "switch" => t.online \in BOOLEAN
         /\ t.kind \in {"idle", "heartbeat", "guarded", "rest_heartbeat", "switch", "code", "record", "approve", "reject"}
  BY DEF Txn, Idle

LEMMA TxnMoves ==
  ASSUME txn \in [Workers -> Txn], NEW w \in Workers
  PROVE  /\ \A t \in Txn : Begin(w, t) => txn' \in [Workers -> Txn]
         /\ End(w) => txn' \in [Workers -> Txn] /\ txn'[w] = Idle
  BY DEF Begin, End, Set, Txn

\* Among finitely many run numbers there is a greatest.
LEMMA GreatestExists ==
  ASSUME NEW n \in Nat, NEW S \in SUBSET (0..n), S # {}
  PROVE  \E i \in S : \A j \in S : j <= i
  <1> DEFINE R == {ss \in Nat \X Nat : ss[1] < ss[2]}
             T == {k \in Nat : \E i \in S : k + i = n}
  <1>1. IsWellFoundedOn(R, Nat)
    BY NatLessThanWellFounded DEF OpToRel
  <1>2. \A i \in S : n - i \in T
    <2> SUFFICES ASSUME NEW i \in S PROVE n - i \in Nat /\ (n - i) + i = n
      OBVIOUS
    <2>1. i \in Nat /\ i <= n
      OBVIOUS
    <2> QED BY <2>1
  <1>3. T \subseteq Nat /\ T # {}
    BY <1>2
  <1>4. \A x, y \in Nat : <<y, x>> \in R <=> y < x
    OBVIOUS
  <1> HIDE DEF R
  <1>5. PICK x \in T : \A y \in T : ~(<<y, x>> \in R)
    BY <1>1, <1>3, WFMin
  <1>6. PICK i \in S : x + i = n
    BY <1>5
  <1>7. ASSUME NEW j \in S PROVE j <= i
    <2>1. n - j \in T /\ n - j \in Nat /\ x \in Nat
      BY <1>2, <1>3
    <2>2. ~(n - j < x)
      BY <1>4, <1>5, <2>1
    <2>3. i \in Nat /\ j \in Nat /\ j <= n
      OBVIOUS
    <2> QED BY <1>6, <2>1, <2>2, <2>3
  <1> QED BY <1>7

\* The run a heartbeat adds evidence to is one of the device's, or none.
LEMMA OpenRun ==
  ASSUME TypeOK, NEW d \in Devices
  PROVE  openQualification(d) \in 0..MaxRuns
  <1> DEFINE open == {i \in DOMAIN runs[d] : runs[d][i].status = "running"}
  <1>1. runs[d] \in Seq(Run) /\ Len(runs[d]) <= MaxRuns /\ Len(runs[d]) \in Nat /\ MaxRuns \in Nat
    BY FleetAssumption DEF TypeOK
  <1>2. open \subseteq 0..MaxRuns
    BY <1>1
  <1>3. openQualification(d) = IF open = {} THEN 0 ELSE CHOOSE i \in open : \A j \in open : j <= i
    BY DEF openQualification
  <1> HIDE DEF open
  <1>4. CASE open = {}
    BY <1>1, <1>3, <1>4
  <1>5. CASE open # {}
    <2>1. \E i \in open : \A j \in open : j <= i
      BY <1>1, <1>2, <1>5, GreatestExists
    <2>2. (CHOOSE i \in open : \A j \in open : j <= i) \in open
      BY <2>1
    <2> QED BY <1>2, <1>3, <1>5, <2>2
  <1> QED BY <1>4, <1>5

\* Handing out no credential keeps the identities.
LEMMA IdentityKept ==
  ASSUME Identity, \A d \in Devices : token'[d] # 0 => token'[d] = token[d] /\ hardware'[d] = hardware[d]
  PROVE  Identity'
  BY DEF Identity

\* A step that leaves the credentials alone.
LEMMA RowsStep ==
  ASSUME FleetInv, RowsTyped', txn' \in [Workers -> Txn], UNCHANGED credentials
  PROVE  FleetInv'
  <1>1. CredentialsTyped'
    BY Types DEF FleetInv, credentials, CredentialsTyped, CodesTyped
  <1>2. TypeOK'
    BY <1>1 DEF TypeOK, RowsTyped, CredentialsTyped, CodesTyped
  <1>3. CodesBelong' /\ Identity'
    BY DEF FleetInv, credentials, CodesBelong, Identity
  <1> QED BY <1>2, <1>3 DEF FleetInv

\* A step that hands out no credential.
LEMMA CredentialsStep ==
  ASSUME FleetInv, RowsTyped', CredentialsTyped', CodesBelong', txn' \in [Workers -> Txn],
         \A d \in Devices : token'[d] # 0 => token'[d] = token[d] /\ hardware'[d] = hardware[d]
  PROVE  FleetInv'
  <1>1. TypeOK'
    BY DEF TypeOK, RowsTyped, CredentialsTyped, CodesTyped
  <1>2. Identity'
    BY IdentityKept DEF FleetInv
  <1> QED BY <1>1, <1>2 DEF FleetInv

-----------------------------------------------------------------------------
(* The steps.                                                                *)

\* What a heartbeat writes is typed.
LEMMA BeatTyped ==
  ASSUME TypeOK, NEW w \in Workers, txn[w].device \in Devices, NEW keep \in BOOLEAN,
         NEW wrong, NEW ahead \in BOOLEAN, NEW ok \in BOOLEAN, Beat(w, keep, wrong, ahead, ok)
  PROVE  /\ sim' \in [Sims -> SimStatuses]
         /\ status' \in [Devices -> DeviceStatuses]
         /\ seen' \in [Devices -> {"never", "fresh", "late"}]
         /\ capable' \in [Devices -> BOOLEAN]
  <1> DEFINE new == operatorControlledDeviceStatus(keep \/ wrong # {} \/ ahead, txn[w].read = "online")
             d == txn[w].device
  <1>1. new \in DeviceStatuses
    BY DEF operatorControlledDeviceStatus, DeviceStatuses
  <1>2. /\ sim' = [s \in Sims |-> IF s \in wrong THEN "quarantined" ELSE sim[s]]
        /\ status' = Set(status, d, new) /\ seen' = Set(seen, d, "fresh") /\ capable' = Set(capable, d, ok)
    BY DEF Beat
  <1> HIDE DEF new, d
  <1>3. sim' \in [Sims -> SimStatuses]
    BY <1>2 DEF TypeOK, SimStatuses
  <1>4. status \in [Devices -> DeviceStatuses] /\ seen \in [Devices -> {"never", "fresh", "late"}] /\ capable \in [Devices -> BOOLEAN]
    BY DEF TypeOK
  <1>5. /\ status' \in [Devices -> DeviceStatuses]
        /\ seen' \in [Devices -> {"never", "fresh", "late"}]
        /\ capable' \in [Devices -> BOOLEAN]
    BY <1>1, <1>2, <1>4 DEF Set
  <1> QED BY <1>3, <1>5

\* The creation, deletion and retirement of a record, its recovery, and its codes.
LEMMA RecordSteps ==
  ASSUME FleetInv, NEW d \in Devices, createDevice(d) \/ deleteDevice(d) \/ retireDevice(d) \/ beginDeviceRecovery(d)
  PROVE  FleetInv'
  <1>a. TypeOK /\ CodesBelong /\ RowsTyped /\ CredentialsTyped /\ txn \in [Workers -> Txn]
    BY Types DEF FleetInv
  <1>b. /\ status \in [Devices -> DeviceStatuses] /\ token \in [Devices -> 0..MaxCodes] /\ 0 \in 0..MaxCodes
        /\ hardware \in [Devices -> Handsets \cup {None}] /\ retired \in [Devices -> BOOLEAN]
        /\ seen \in [Devices -> {"never", "fresh", "late"}] /\ capable \in [Devices -> BOOLEAN]
        /\ runs \in [Devices -> Seq(Run)]
    BY <1>a, FleetAssumption DEF TypeOK
  <1>c. {"none", "pending", "retired"} \subseteq DeviceStatuses /\ {"pending", "disabled"} \subseteq SimStatuses
    BY DEF DeviceStatuses, SimStatuses
  <1>d. /\ CodesTyped /\ CodesBelong
        /\ (code' = code => CodesTyped' /\ CodesBelong')
    BY <1>a DEF CredentialsTyped, CodesTyped, CodesBelong
  <1>e. ASSUME code' = [c \in Codes |-> IF code[c].device = d THEN [code[c] EXCEPT !.open = FALSE] ELSE code[c]]
        PROVE  CodesTyped' /\ CodesBelong'
    <2>1. code' = [c \in Codes |-> IF c \in CodesOf(d) THEN [code[c] EXCEPT !.open = FALSE] ELSE code[c]]
      BY <1>e DEF CodesOf
    <2> QED BY <2>1, <1>a, CodesClosed
  <1>1. CASE createDevice(d)
    <2>1. status' \in [Devices -> DeviceStatuses]
      BY <1>1, <1>b, <1>c, SetTyped DEF createDevice
    <2>2. CodesTyped' /\ CodesBelong'
      BY <1>1, <1>a, IssueTyped DEF createDevice
    <2>3. RowsTyped'
      BY <1>1, <2>1, <1>a DEF createDevice, RowsTyped
    <2>4. CredentialsTyped'
      BY <1>1, <2>2, <1>a DEF createDevice, CredentialsTyped
    <2> QED BY <1>1, <1>a, <2>2, <2>3, <2>4, CredentialsStep DEF createDevice
  <1>2. CASE deleteDevice(d)
    <2>1. status' \in [Devices -> DeviceStatuses]
      BY <1>2, <1>b, <1>c, SetTyped DEF deleteDevice
    <2>2. CodesTyped' /\ CodesBelong'
      BY <1>2, <1>e DEF deleteDevice
    <2>3. runs' \in [Devices -> Seq(Run)] /\ \A e \in Devices : Len(runs'[e]) <= MaxRuns
      <3>1. <<>> \in Seq(Run) /\ Len(<<>>) = 0 /\ 0 <= MaxRuns
        BY FleetAssumption
      <3>2. runs' = Set(runs, d, <<>>)
        BY <1>2 DEF deleteDevice
      <3> QED BY <3>1, <3>2, <1>a, <1>b DEF RowsTyped, Set
    <2>4. /\ token' \in [Devices -> 0..MaxCodes] /\ hardware' \in [Devices -> Handsets \cup {None}]
          /\ \A e \in Devices : token'[e] # 0 => token'[e] = token[e] /\ hardware'[e] = hardware[e]
      <3>1. token' = Set(token, d, 0) /\ hardware' = Set(hardware, d, None)
        BY <1>2 DEF deleteDevice
      <3> QED BY <3>1, <1>b DEF Set
    <2>5. RowsTyped'
      BY <1>2, <2>1, <2>3, <1>a DEF deleteDevice, RowsTyped
    <2>6. CredentialsTyped'
      BY <1>2, <2>2, <2>4, <1>a DEF deleteDevice, CredentialsTyped
    <2> QED BY <1>2, <1>a, <2>2, <2>4, <2>5, <2>6, CredentialsStep DEF deleteDevice
  <1>3. CASE retireDevice(d)
    <2>1. status' \in [Devices -> DeviceStatuses] /\ retired' \in [Devices -> BOOLEAN]
      BY <1>3, <1>b, <1>c, SetTyped DEF retireDevice
    <2>2. CodesTyped' /\ CodesBelong'
      BY <1>3, <1>e DEF retireDevice
    <2>3. sim' \in [Sims -> SimStatuses]
      BY <1>3, <1>a, <1>c, SimsTyped DEF retireDevice
    <2>4. /\ token' \in [Devices -> 0..MaxCodes]
          /\ \A e \in Devices : token'[e] # 0 => token'[e] = token[e] /\ hardware'[e] = hardware[e]
      <3>1. token' = Set(token, d, 0) /\ hardware' = hardware
        BY <1>3 DEF retireDevice
      <3> QED BY <3>1, <1>b DEF Set
    <2>5. RowsTyped'
      BY <1>3, <2>1, <2>3, <1>a DEF retireDevice, RowsTyped
    <2>6. CredentialsTyped'
      BY <1>3, <2>1, <2>2, <2>4, <1>a DEF retireDevice, CredentialsTyped
    <2> QED BY <1>3, <1>a, <2>2, <2>4, <2>5, <2>6, CredentialsStep DEF retireDevice
  <1>4. CASE beginDeviceRecovery(d)
    <2>1. status' \in [Devices -> DeviceStatuses] /\ retired' \in [Devices -> BOOLEAN]
      BY <1>4, <1>b, <1>c, SetTyped DEF beginDeviceRecovery
    <2>2. CodesTyped' /\ CodesBelong'
      BY <1>4, <1>a, IssueTyped DEF beginDeviceRecovery
    <2>3. sim' \in [Sims -> SimStatuses]
      BY <1>4, <1>a, <1>c, SimsTyped DEF beginDeviceRecovery
    <2>4. seen' \in [Devices -> {"never", "fresh", "late"}] /\ capable' \in [Devices -> BOOLEAN]
      BY <1>4, <1>b DEF beginDeviceRecovery, Set
    <2>5. /\ token' \in [Devices -> 0..MaxCodes] /\ hardware' \in [Devices -> Handsets \cup {None}]
          /\ \A e \in Devices : token'[e] # 0 => token'[e] = token[e] /\ hardware'[e] = hardware[e]
      <3>1. token' = Set(token, d, 0) /\ (hardware' = Set(hardware, d, None) \/ hardware' = hardware)
        BY <1>4 DEF beginDeviceRecovery
      <3> QED BY <3>1, <1>b DEF Set
    <2>6. runs' \in [Devices -> Seq(Run)] /\ \A e \in Devices : Len(runs'[e]) <= MaxRuns
      <3> DEFINE new == [i \in DOMAIN runs[d] |-> IF runs[d][i].status = "approved" THEN runs[d][i]
                                                  ELSE [runs[d][i] EXCEPT !.status = "rejected"]]
      <3>1. runs[d] \in Seq(Run) /\ Len(runs[d]) \in Nat /\ DOMAIN runs[d] = 1..Len(runs[d])
        BY <1>b
      <3>2. \A i \in 1..Len(runs[d]) : runs[d][i] \in Run
        BY <3>1
      <3>3. \A r \in Run : [r EXCEPT !.status = "rejected"] \in Run
        BY DEF Run, RunStatuses
      <3>4. new \in [1..Len(runs[d]) -> Run]
        BY <3>1, <3>2, <3>3
      <3>5. runs' = Set(runs, d, new)
        BY <1>4 DEF beginDeviceRecovery
      <3> HIDE DEF new
      <3>6. new \in Seq(Run) /\ Len(new) = Len(runs[d])
        BY <3>1, <3>4
      <3> QED BY <3>5, <3>6, <1>a, <1>b DEF RowsTyped, Set
    <2>7. RowsTyped'
      BY <1>4, <2>1, <2>3, <2>4, <2>6, <1>a DEF beginDeviceRecovery, RowsTyped
    <2>8. CredentialsTyped'
      BY <1>4, <2>1, <2>2, <2>5 DEF CredentialsTyped
    <2> QED BY <1>4, <1>a, <2>2, <2>5, <2>7, <2>8, CredentialsStep DEF beginDeviceRecovery
  <1> QED BY <1>1, <1>2, <1>3, <1>4

\* A code that expires, or that an activation or another code replaces.
LEMMA CodeSteps ==
  ASSUME FleetInv,
         \/ \E c \in Codes : CodeExpires(c)
         \/ \E w \in Workers : regenerateActivationCode(w)
  PROVE  FleetInv'
  <1>a. TypeOK /\ CodesBelong /\ RowsTyped /\ CredentialsTyped /\ txn \in [Workers -> Txn]
    BY Types DEF FleetInv
  <1>1. ASSUME NEW c \in Codes, CodeExpires(c) PROVE FleetInv'
    <2>1. code' = [e \in Codes |-> IF e \in {c} THEN [code[e] EXCEPT !.open = FALSE] ELSE code[e]]
      <3>1. code' = [code EXCEPT ![c].open = FALSE]
        BY <1>1 DEF CodeExpires
      <3> QED BY <3>1, <1>a DEF TypeOK
    <2>2. CodesTyped' /\ CodesBelong'
      BY <2>1, <1>a, CodesClosed
    <2>3. RowsTyped' /\ CredentialsTyped'
      BY <1>1, <2>2, <1>a DEF CodeExpires, RowsTyped, CredentialsTyped
    <2> QED BY <1>1, <2>2, <2>3, <1>a, CredentialsStep DEF CodeExpires
  <1>2. ASSUME NEW w \in Workers, regenerateActivationCode(w) PROVE FleetInv'
    <2>1. txn[w] \in Txn /\ txn[w].kind = "code"
      BY <1>2, <1>a DEF regenerateActivationCode
    <2>2. txn[w].device \in Devices
      BY <2>1, TxnShape
    <2>3. CodesTyped' /\ CodesBelong'
      <3>1. CASE code' = code
        BY <3>1, <1>a DEF CredentialsTyped, CodesTyped, CodesBelong
      <3>2. CASE Issue(txn[w].device, txn[w].stale)
        BY <3>2, <2>2, <1>a, IssueTyped
      <3> QED BY <1>2, <3>1, <3>2 DEF regenerateActivationCode
    <2>4. RowsTyped' /\ CredentialsTyped'
      BY <1>2, <2>3, <1>a DEF regenerateActivationCode, RowsTyped, CredentialsTyped
    <2>5. txn' \in [Workers -> Txn]
      BY <1>2, <1>a, TxnMoves DEF regenerateActivationCode
    <2> QED BY <1>2, <2>3, <2>4, <2>5, <1>a, CredentialsStep DEF regenerateActivationCode
  <1> QED BY <1>1, <1>2

\* The handset gets the record's credential and every other record loses its own.
LEMMA ActivateStep ==
  ASSUME FleetInv, NEW c \in Codes, NEW h \in Handsets, activate(c, h)
  PROVE  FleetInv'
  <1> DEFINE d == code[c].device
             released == Released(h, d)
  <1>a. TypeOK /\ CodesBelong /\ Identity /\ RowsTyped /\ CredentialsTyped /\ txn \in [Workers -> Txn]
    BY Types DEF FleetInv
  <1>b. d \in Devices /\ h # None /\ h \in Handsets /\ c \in 0..MaxCodes /\ c # 0 /\ 0 \in 0..MaxCodes
    BY <1>a, FleetAssumption DEF activate, CodesBelong, Codes
  <1>c. /\ token' = [e \in Devices |-> IF e = d THEN c ELSE IF e \in released THEN 0 ELSE token[e]]
        /\ hardware' = [e \in Devices |-> IF e = d THEN h ELSE IF e \in released THEN None ELSE hardware[e]]
        /\ status' = [e \in Devices |-> IF e = d \/ e \in released THEN "offline" ELSE status[e]]
        /\ sim' = [s \in Sims |-> IF Home[s] \in released THEN "pending" ELSE sim[s]]
        /\ code' = [code EXCEPT ![c].open = FALSE]
        /\ UNCHANGED <<seen, capable, runs, work, history, retired, txn>>
    BY DEF activate
  <1>d. \A e \in Devices \ {d} : e \notin released => hardware[e] # h
    BY DEF Released
  <1> HIDE DEF d, released
  <1>1. CodesTyped' /\ CodesBelong'
    <2>1. code' = [e \in Codes |-> IF e \in {c} THEN [code[e] EXCEPT !.open = FALSE] ELSE code[e]]
      BY <1>a, <1>c DEF TypeOK
    <2> QED BY <2>1, <1>a, CodesClosed
  <1>2. RowsTyped'
    BY <1>a, <1>c DEF RowsTyped, DeviceStatuses, SimStatuses
  <1>3. CredentialsTyped'
    BY <1>a, <1>b, <1>c, <1>1 DEF CredentialsTyped
  <1>4. TypeOK'
    BY <1>2, <1>3, <1>a, <1>c DEF TypeOK, RowsTyped, CredentialsTyped, CodesTyped
  <1>5. Identity'
    BY <1>a, <1>b, <1>c, <1>d DEF Identity
  <1> QED BY <1>1, <1>4, <1>5 DEF FleetInv

\* The steps of a device that leave its credentials alone.
LEMMA DeviceSteps ==
  ASSUME FleetInv, NEW d \in Devices,
         \/ quarantine(d) \/ EvidenceQuarantine(d) \/ startQualification(d)
         \/ HeartbeatMissed(d) \/ updateHealthOffline(d)
  PROVE  FleetInv'
  <1>a. TypeOK /\ RowsTyped /\ txn \in [Workers -> Txn]
    BY Types DEF FleetInv
  <1>b. /\ status \in [Devices -> DeviceStatuses] /\ history \in [Devices -> BOOLEAN]
        /\ seen \in [Devices -> {"never", "fresh", "late"}] /\ runs \in [Devices -> Seq(Run)]
        /\ sim \in [Sims -> SimStatuses]
    BY <1>a DEF TypeOK
  <1>c. /\ {"quarantined", "qualifying", "offline"} \subseteq DeviceStatuses
        /\ {"pending", "quarantined"} \subseteq SimStatuses
    BY DEF DeviceStatuses, SimStatuses
  <1>1. CASE quarantine(d)
    <2>1. status' \in [Devices -> DeviceStatuses]
      BY <1>1, <1>b, <1>c DEF quarantine, Set
    <2>2. sim' \in [Sims -> SimStatuses]
      BY <1>1, <1>a, <1>c, SimsTyped DEF quarantine
    <2> QED BY <1>1, <2>1, <2>2, <1>a, RowsStep DEF quarantine, RowsTyped
  <1>2. CASE EvidenceQuarantine(d)
    <2>1. status' \in [Devices -> DeviceStatuses] /\ history' \in [Devices -> BOOLEAN]
      BY <1>2, <1>b, <1>c DEF EvidenceQuarantine, Set
    <2>2. PICK affected : sim' = [s \in Sims |-> IF s \in affected THEN "quarantined" ELSE sim[s]]
      BY <1>2 DEF EvidenceQuarantine
    <2>3. sim' \in [Sims -> SimStatuses]
      BY <2>2, <1>b, <1>c
    <2> QED BY <1>2, <2>1, <2>3, <1>a, RowsStep DEF EvidenceQuarantine, RowsTyped
  <1>3. CASE startQualification(d)
    <2>1. status' \in [Devices -> DeviceStatuses]
      BY <1>3, <1>b, <1>c DEF startQualification, Set
    <2>2. sim' \in [Sims -> SimStatuses]
      BY <1>3, <1>a, <1>c, SimsTyped DEF startQualification
    <2>3. runs' \in [Devices -> Seq(Run)] /\ \A e \in Devices : Len(runs'[e]) <= MaxRuns
      <3> DEFINE new == [status |-> "running", checks |-> [c \in Checks |-> "pending"]]
      <3>1. new \in Run
        BY DEF Run, RunStatuses
      <3>2. runs' = Set(runs, d, Append(runs[d], new)) /\ Len(runs[d]) < MaxRuns
        BY <1>3 DEF startQualification
      <3> HIDE DEF new
      <3>3. runs[d] \in Seq(Run) /\ Len(runs[d]) \in Nat /\ MaxRuns \in Nat
        BY <1>b, FleetAssumption
      <3>4. Append(runs[d], new) \in Seq(Run) /\ Len(Append(runs[d], new)) = Len(runs[d]) + 1
        BY <3>1, <3>3
      <3>5. PICK r : r = Append(runs[d], new)
        OBVIOUS
      <3>6. r \in Seq(Run) /\ Len(r) <= MaxRuns
        BY <3>2, <3>3, <3>4, <3>5
      <3>7. runs' = Set(runs, d, r)
        BY <3>2, <3>5
      <3> QED BY <3>6, <3>7, <1>a, <1>b DEF RowsTyped, Set
    <2> QED BY <1>3, <2>1, <2>2, <2>3, <1>a, RowsStep DEF startQualification, RowsTyped
  <1>4. CASE HeartbeatMissed(d)
    <2>1. seen' \in [Devices -> {"never", "fresh", "late"}]
      BY <1>4, <1>b DEF HeartbeatMissed, Set
    <2> QED BY <1>4, <2>1, <1>a, RowsStep DEF HeartbeatMissed, RowsTyped
  <1>5. CASE updateHealthOffline(d)
    <2>1. status' \in [Devices -> DeviceStatuses]
      BY <1>5, <1>b, <1>c DEF updateHealthOffline, Set
    <2> QED BY <1>5, <2>1, <1>a, RowsStep DEF updateHealthOffline, RowsTyped
  <1> QED BY <1>1, <1>2, <1>3, <1>4, <1>5

\* The steps of a SIM.
LEMMA SimSteps ==
  ASSUME FleetInv, NEW s \in Sims,
         updateHealthStale(s) \/ applyBalance(s) \/ Assign(s) \/ Conclude(s) \/ retryDeviceJob(s)
  PROVE  FleetInv'
  <1>a. TypeOK /\ RowsTyped /\ txn \in [Workers -> Txn]
    BY Types DEF FleetInv
  <1>b. sim \in [Sims -> SimStatuses] /\ work \in [Sims -> {"none", "open", "failed"}] /\ history \in [Devices -> BOOLEAN]
    BY <1>a DEF TypeOK
  <1>1. CASE updateHealthStale(s)
    <2>1. sim' \in [Sims -> SimStatuses]
      BY <1>1, <1>b DEF updateHealthStale, SimStatuses
    <2> QED BY <1>1, <2>1, <1>a, RowsStep DEF updateHealthStale, RowsTyped
  <1>2. CASE applyBalance(s)
    <2>1. sim' \in [Sims -> SimStatuses] /\ history' \in [Devices -> BOOLEAN]
      BY <1>2, <1>b DEF applyBalance, balanceRefreshStatus, SimStatuses, Set
    <2> QED BY <1>2, <2>1, <1>a, RowsStep DEF applyBalance, RowsTyped
  <1>3. CASE Assign(s)
    <2>1. work' \in [Sims -> {"none", "open", "failed"}] /\ history' \in [Devices -> BOOLEAN]
      BY <1>3, <1>b DEF Assign, Set
    <2> QED BY <1>3, <2>1, <1>a, RowsStep DEF Assign, RowsTyped
  <1>4. CASE Conclude(s)
    <2>1. work' \in [Sims -> {"none", "open", "failed"}]
      BY <1>4, <1>b DEF Conclude
    <2> QED BY <1>4, <2>1, <1>a, RowsStep DEF Conclude, RowsTyped
  <1>5. CASE retryDeviceJob(s)
    <2>1. work' \in [Sims -> {"none", "open", "failed"}]
      BY <1>5, <1>b DEF retryDeviceJob
    <2> QED BY <1>5, <2>1, <1>a, RowsStep DEF retryDeviceJob, RowsTyped
  <1> QED BY <1>1, <1>2, <1>3, <1>4, <1>5

\* A worker reads.
LEMMA ReadSteps ==
  ASSUME FleetInv, NEW w \in Workers,
         \/ \E d \in Devices :
              \/ regenerateActivationCodeBegins(w, d) \/ setDeviceOnlineBegins(w, d)
              \/ applyHeartbeatBegins(w, d) \/ heartbeatGuarded(w, d)
              \/ \E i \in DOMAIN runs[d] :
                   \/ recordQualificationCheckBegins(w, d, i) \/ approveQualificationBegins(w, d, i)
                   \/ rejectQualificationBegins(w, d, i)
         \/ heartbeatBegins(w)
  PROVE  FleetInv'
  <1>a. TypeOK /\ RowsTyped /\ txn \in [Workers -> Txn]
    BY Types DEF FleetInv
  <1>b. ASSUME NEW t \in Txn, Begin(w, t), UNCHANGED <<status, sim, seen, capable, runs, work, history, credentials>>
        PROVE  FleetInv'
    <2>1. txn' \in [Workers -> Txn]
      BY <1>a, <1>b, TxnMoves
    <2> QED BY <1>a, <1>b, <2>1, RowsStep DEF RowsTyped
  <1>1. ASSUME NEW d \in Devices, regenerateActivationCodeBegins(w, d) PROVE FleetInv'
    <2>1. [kind |-> "code", device |-> d, stale |-> {c \in CodesOf(d) : code[c].open}] \in Txn
      BY DEF Txn, CodesOf
    <2> QED BY <1>1, <1>b, <2>1 DEF regenerateActivationCodeBegins
  <1>2. ASSUME NEW d \in Devices, setDeviceOnlineBegins(w, d) PROVE FleetInv'
    <2>1. PICK online \in BOOLEAN : Begin(w, [kind |-> "switch", device |-> d, online |-> online])
      BY <1>2 DEF setDeviceOnlineBegins
    <2>2. [kind |-> "switch", device |-> d, online |-> online] \in Txn
      BY DEF Txn
    <2> QED BY <1>2, <1>b, <2>1, <2>2 DEF setDeviceOnlineBegins
  <1>3. ASSUME NEW d \in Devices, applyHeartbeatBegins(w, d) PROVE FleetInv'
    <2>1. [kind |-> "heartbeat", device |-> d, read |-> status[d]] \in Txn
      BY <1>a DEF TypeOK, Txn
    <2> QED BY <1>3, <1>b, <2>1 DEF applyHeartbeatBegins
  <1>4. ASSUME NEW d \in Devices, heartbeatGuarded(w, d) PROVE FleetInv'
    <2>1. [kind |-> "guarded", device |-> d] \in Txn
      BY DEF Txn
    <2> QED BY <1>4, <1>b, <2>1 DEF heartbeatGuarded
  <1>5. ASSUME NEW d \in Devices, NEW i \in DOMAIN runs[d],
               \/ recordQualificationCheckBegins(w, d, i) \/ approveQualificationBegins(w, d, i)
               \/ rejectQualificationBegins(w, d, i)
        PROVE  FleetInv'
    <2>1. runs[d] \in Seq(Run) /\ Len(runs[d]) \in Nat /\ Len(runs[d]) <= MaxRuns /\ MaxRuns \in Nat
      BY <1>a, FleetAssumption DEF TypeOK
    <2>2. i \in 1..MaxRuns
      BY <2>1
    <2>3. \A kind \in {"record", "approve", "reject"} : [kind |-> kind, device |-> d, run |-> i] \in Txn
      BY <2>2 DEF Txn
    <2>4. PICK kind \in {"record", "approve", "reject"} : OnRun(w, kind, d, i)
      BY <1>5 DEF recordQualificationCheckBegins, approveQualificationBegins, rejectQualificationBegins
    <2> QED BY <1>b, <2>3, <2>4 DEF OnRun
  <1>6. CASE heartbeatBegins(w)
    <2> DEFINE d == txn[w].device
               t == IF status[d] \in {"none", "retired"} THEN Idle
                    ELSE [kind |-> "rest_heartbeat", device |-> d, read |-> status[d], run |-> openQualification(d)]
    <2>1. txn[w] \in Txn /\ txn[w].kind = "guarded"
      BY <1>6, <1>a DEF heartbeatBegins
    <2>2. d \in Devices
      BY <2>1, TxnShape
    <2>3. status[d] \in DeviceStatuses /\ openQualification(d) \in 0..MaxRuns
      BY <2>2, <1>a, OpenRun DEF TypeOK
    <2>4. t \in Txn
      BY <2>2, <2>3 DEF Txn
    <2>5. txn' = Set(txn, w, t) /\ UNCHANGED <<status, sim, seen, capable, runs, work, history, credentials>>
      BY <1>6 DEF heartbeatBegins
    <2> HIDE DEF t
    <2>6. txn' \in [Workers -> Txn]
      BY <2>4, <2>5, <1>a DEF Set
    <2> QED BY <2>5, <2>6, <1>a, RowsStep DEF RowsTyped
  <1> QED BY <1>1, <1>2, <1>3, <1>4, <1>5, <1>6

\* Writing one run of a device.
LEMMA RunTyped ==
  ASSUME TypeOK, NEW d \in Devices, NEW i, NEW r, i \in DOMAIN runs[d] => r \in Run,
         runs' = [runs EXCEPT ![d][i] = r]
  PROVE  runs' \in [Devices -> Seq(Run)] /\ \A e \in Devices : Len(runs'[e]) <= MaxRuns
  <1>1. runs \in [Devices -> Seq(Run)] /\ runs[d] \in Seq(Run) /\ \A e \in Devices : Len(runs[e]) <= MaxRuns
    BY DEF TypeOK
  <1>2. PICK p \in Seq(Run) : p = runs[d] /\ Len(p) \in Nat /\ p \in [1..Len(p) -> Run] /\ DOMAIN p = 1..Len(p)
    BY <1>1
  <1>3. PICK q : q = [p EXCEPT ![i] = r]
    OBVIOUS
  <1>a. q \in [1..Len(p) -> Run]
    BY <1>2, <1>3
  <1>4. q \in Seq(Run) /\ Len(q) = Len(p)
    BY <1>2, <1>a
  <1>5. runs' = [runs EXCEPT ![d] = q]
    BY <1>1, <1>2, <1>3
  <1> QED BY <1>1, <1>2, <1>4, <1>5

\* A worker writes what it decided.
LEMMA WriteSteps ==
  ASSUME FleetInv, NEW w \in Workers,
         \/ setDeviceOnline(w) \/ applyHeartbeat(w) \/ heartbeat(w)
         \/ recordQualificationCheck(w) \/ approveQualification(w) \/ rejectQualification(w)
  PROVE  FleetInv'
  <1> DEFINE d == txn[w].device
             i == txn[w].run
  <1>a. TypeOK /\ RowsTyped /\ txn \in [Workers -> Txn]
    BY Types DEF FleetInv
  <1>b. /\ status \in [Devices -> DeviceStatuses] /\ history \in [Devices -> BOOLEAN]
        /\ seen \in [Devices -> {"never", "fresh", "late"}] /\ capable \in [Devices -> BOOLEAN]
        /\ sim \in [Sims -> SimStatuses] /\ runs \in [Devices -> Seq(Run)]
        /\ \A e \in Devices : Len(runs[e]) <= MaxRuns
    BY <1>a DEF TypeOK
  <1>c. /\ {"online", "offline", "qualifying"} \subseteq DeviceStatuses
        /\ {"pending", "active"} \subseteq SimStatuses
    BY DEF DeviceStatuses, SimStatuses
  <1>d. txn[w] \in Txn
    BY <1>a
  <1>e. End(w) /\ UNCHANGED credentials
    BY DEF setDeviceOnline, applyHeartbeat, heartbeat, recordQualificationCheck, approveQualification, rejectQualification
  <1>f. d \in Devices
    <2>1. txn[w].kind # "idle"
      BY DEF setDeviceOnline, applyHeartbeat, heartbeat, recordQualificationCheck, approveQualification, rejectQualification
    <2> QED BY <2>1, <1>d, TxnShape
  <1>g. RowsTyped' => FleetInv'
    BY <1>a, <1>e, TxnMoves, RowsStep
  <1>1. CASE setDeviceOnline(w)
    <2>1. status' \in [Devices -> DeviceStatuses]
      BY <1>1, <1>b, <1>c DEF setDeviceOnline, Set
    <2>2. sim' \in [Sims -> SimStatuses]
      BY <1>1, <1>a, <1>b, <1>c, SimsTyped DEF setDeviceOnline
    <2> QED BY <1>1, <2>1, <2>2, <1>a, <1>g DEF setDeviceOnline, RowsTyped
  <1>2. CASE applyHeartbeat(w)
    <2>1. /\ sim' \in [Sims -> SimStatuses]
          /\ status' \in [Devices -> DeviceStatuses]
          /\ seen' \in [Devices -> {"never", "fresh", "late"}]
          /\ capable' \in [Devices -> BOOLEAN]
      <3>1. CASE UNCHANGED <<status, sim, seen, capable>>
        BY <3>1, <1>b
      <3>2. CASE \E wrong \in SUBSET SimsOf(d), ahead, ok \in BOOLEAN : Beat(w, txn[w].read = "quarantined", wrong, ahead, ok)
        <4>1. PICK wrong \in SUBSET SimsOf(d), ahead \in BOOLEAN, ok \in BOOLEAN :
                     Beat(w, txn[w].read = "quarantined", wrong, ahead, ok)
          BY <3>2
        <4>2. PICK keep \in BOOLEAN : Beat(w, keep, wrong, ahead, ok)
          BY <4>1
        <4> QED BY <4>2, <1>a, <1>f, BeatTyped
      <3> QED BY <1>2, <3>1, <3>2 DEF applyHeartbeat
    <2> QED BY <1>2, <2>1, <1>a, <1>g DEF applyHeartbeat, RowsTyped
  <1>3. CASE heartbeat(w)
    <2>1. CASE UNCHANGED <<status, sim, seen, capable, runs, history>>
      BY <1>3, <2>1, <1>a, <1>g DEF heartbeat, RowsTyped
    <2>2. ASSUME NEW wrong \in SUBSET SimsOf(d), NEW ahead \in BOOLEAN, NEW ok \in BOOLEAN,
                 Beat(w, FALSE, wrong, ahead, ok),
                 IF i = 0 THEN UNCHANGED <<runs, history>>
                 ELSE /\ runs' = [runs EXCEPT ![d][i] =
                                    [status |-> "running",
                                     checks |-> Set(@.checks, "observed", IF ok THEN "passed" ELSE "failed")]]
                      /\ history' = Set(history, d, TRUE)
          PROVE  FleetInv'
      <3>1. /\ sim' \in [Sims -> SimStatuses]
            /\ status' \in [Devices -> DeviceStatuses]
            /\ seen' \in [Devices -> {"never", "fresh", "late"}]
            /\ capable' \in [Devices -> BOOLEAN]
        BY <2>2, <1>a, <1>f, BeatTyped
      <3>2. history' \in [Devices -> BOOLEAN]
        BY <2>2, <1>b DEF Set
      <3>3. runs' \in [Devices -> Seq(Run)] /\ \A e \in Devices : Len(runs'[e]) <= MaxRuns
        <4>1. CASE runs' = runs
          BY <4>1, <1>b
        <4>2. CASE i # 0
          <5>1. PICK checks : checks = Set(runs[d][i].checks, "observed", IF ok THEN "passed" ELSE "failed")
            OBVIOUS
          <5>2. ASSUME i \in DOMAIN runs[d] PROVE [status |-> "running", checks |-> checks] \in Run
            <6>1. runs[d][i] \in Run
              BY <5>2, <1>b, <1>f
            <6>2. checks \in [Checks -> {"pending", "passed", "failed"}]
              BY <5>1, <6>1 DEF Run, Set
            <6> QED BY <6>2 DEF Run, RunStatuses
          <5>3. runs' = [runs EXCEPT ![d][i] = [status |-> "running", checks |-> checks]]
            BY <2>2, <4>2, <5>1
          <5> QED BY <5>2, <5>3, <1>a, <1>f, RunTyped
        <4> QED BY <2>2, <4>1, <4>2
      <3> QED BY <1>3, <3>1, <3>2, <3>3, <1>a, <1>g DEF heartbeat, RowsTyped
    <2> QED BY <1>3, <2>1, <2>2 DEF heartbeat
  <1>4. CASE recordQualificationCheck(w)
    <2>1. CASE UNCHANGED <<runs, history>>
      BY <1>4, <2>1, <1>a, <1>g DEF recordQualificationCheck, RowsTyped
    <2>2. CASE RunExists(w)
      <3>1. PICK c \in Checks, result \in {"passed", "failed"} :
                   LET checks == Set(runs[d][i].checks, c, result)
                   IN runs' = [runs EXCEPT ![d][i] = [status |-> Outcome(checks), checks |-> checks]]
        BY <1>4, <2>2 DEF recordQualificationCheck
      <3>2. PICK checks : checks = Set(runs[d][i].checks, c, result)
        OBVIOUS
      <3>3. runs[d] \in Seq(Run)
        BY <1>b, <1>f
      <3>4. runs[d][i] \in Run
        BY <2>2, <3>3 DEF RunExists
      <3>5. checks \in [Checks -> {"pending", "passed", "failed"}] /\ Outcome(checks) \in RunStatuses
        BY <3>2, <3>4 DEF Run, Set, Outcome, RunStatuses
      <3>6. [status |-> Outcome(checks), checks |-> checks] \in Run
        BY <3>5 DEF Run
      <3>7. runs' = [runs EXCEPT ![d][i] = [status |-> Outcome(checks), checks |-> checks]]
        BY <3>1, <3>2
      <3>8. runs' \in [Devices -> Seq(Run)] /\ \A e \in Devices : Len(runs'[e]) <= MaxRuns
        BY <3>6, <3>7, <1>a, <1>f, RunTyped
      <3>9. history' \in [Devices -> BOOLEAN]
        BY <1>4, <2>2, <1>b DEF recordQualificationCheck, Set
      <3> QED BY <1>4, <3>8, <3>9, <1>a, <1>g DEF recordQualificationCheck, RowsTyped
    <2> QED BY <1>4, <2>1, <2>2 DEF recordQualificationCheck
  <1>h. ASSUME NEW st \in RunStatuses, RunExists(w), runs' = [runs EXCEPT ![d][i].status = st]
        PROVE  runs' \in [Devices -> Seq(Run)] /\ \A e \in Devices : Len(runs'[e]) <= MaxRuns
    <2>1. runs[d] \in Seq(Run)
      BY <1>b, <1>f
    <2>2. runs[d][i] \in Run
      BY <1>h, <2>1 DEF RunExists
    <2>3. PICK r : r = [runs[d][i] EXCEPT !.status = st]
      OBVIOUS
    <2>4. r \in Run
      BY <2>2, <2>3 DEF Run
    <2>5. runs' = [runs EXCEPT ![d][i] = r]
      BY <1>h, <2>3
    <2> QED BY <2>4, <2>5, <1>a, <1>f, RunTyped
  <1>i. "approved" \in RunStatuses /\ "rejected" \in RunStatuses
    BY DEF RunStatuses
  <1>5. CASE approveQualification(w)
    <2>1. CASE UNCHANGED <<runs, sim, status>>
      BY <1>5, <2>1, <1>a, <1>g DEF approveQualification, RowsTyped
    <2>2. CASE RunExists(w)
      <3>1. runs' \in [Devices -> Seq(Run)] /\ \A e \in Devices : Len(runs'[e]) <= MaxRuns
        BY <1>5, <2>2, <1>h, <1>i DEF approveQualification
      <3>2. sim' \in [Sims -> SimStatuses]
        BY <1>5, <2>2, <1>a, <1>c, SimsTyped DEF approveQualification
      <3>3. status' \in [Devices -> DeviceStatuses]
        BY <1>5, <2>2, <1>b, <1>c DEF approveQualification, Set
      <3> QED BY <1>5, <3>1, <3>2, <3>3, <1>a, <1>g DEF approveQualification, RowsTyped
    <2> QED BY <1>5, <2>1, <2>2 DEF approveQualification
  <1>6. CASE rejectQualification(w)
    <2>1. CASE UNCHANGED <<runs, sim, status>>
      BY <1>6, <2>1, <1>a, <1>g DEF rejectQualification, RowsTyped
    <2>2. CASE RunExists(w)
      <3>1. runs' \in [Devices -> Seq(Run)] /\ \A e \in Devices : Len(runs'[e]) <= MaxRuns
        BY <1>6, <2>2, <1>h, <1>i DEF rejectQualification
      <3>2. sim' \in [Sims -> SimStatuses]
        BY <1>6, <2>2, <1>a, <1>c, SimsTyped DEF rejectQualification
      <3>3. status' \in [Devices -> DeviceStatuses]
        BY <1>6, <2>2, <1>b, <1>c DEF rejectQualification, Set
      <3> QED BY <1>6, <3>1, <3>2, <3>3, <1>a, <1>g DEF rejectQualification, RowsTyped
    <2> QED BY <1>6, <2>1, <2>2 DEF rejectQualification
  <1> QED BY <1>1, <1>2, <1>3, <1>4, <1>5, <1>6

-----------------------------------------------------------------------------
LEMMA FleetInitially == Init => FleetInv
  <1> SUFFICES ASSUME Init PROVE FleetInv
    OBVIOUS
  <1>1. /\ 0 \in 0..MaxCodes /\ <<>> \in Seq(Run) /\ Len(<<>>) = 0 /\ 0 <= MaxRuns
        /\ "none" \in DeviceStatuses /\ "pending" \in SimStatuses /\ Idle \in Txn
    BY FleetAssumption DEF DeviceStatuses, SimStatuses, Txn
  <1>2. RowsTyped
    BY <1>1 DEF Init, RowsTyped
  <1>3. CredentialsTyped
    BY <1>1 DEF Init, CredentialsTyped, CodesTyped
  <1>4. txn \in [Workers -> Txn]
    BY <1>1 DEF Init
  <1>5. CodesBelong /\ Identity
    BY DEF Init, CodesBelong, Identity
  <1> QED BY <1>2, <1>3, <1>4, <1>5, Types DEF FleetInv

\* FleetInv is inductive.
LEMMA FleetNext == FleetInv /\ [Next]_vars => FleetInv'
  <1> SUFFICES ASSUME FleetInv, [Next]_vars PROVE FleetInv'
    OBVIOUS
  <1>1. ASSUME NEW d \in Devices,
               \/ createDevice(d) \/ deleteDevice(d) \/ quarantine(d) \/ EvidenceQuarantine(d)
               \/ beginDeviceRecovery(d) \/ retireDevice(d) \/ startQualification(d)
               \/ HeartbeatMissed(d) \/ updateHealthOffline(d)
        PROVE  FleetInv'
    BY <1>1, RecordSteps, DeviceSteps
  <1>2. ASSUME NEW c \in Codes, CodeExpires(c) \/ \E h \in Handsets : activate(c, h) PROVE FleetInv'
    BY <1>2, CodeSteps, ActivateStep
  <1>3. ASSUME NEW s \in Sims,
               updateHealthStale(s) \/ applyBalance(s) \/ Assign(s) \/ Conclude(s) \/ retryDeviceJob(s)
        PROVE  FleetInv'
    BY <1>3, SimSteps
  <1>4. ASSUME NEW w \in Workers,
               \/ \E d \in Devices :
                    \/ regenerateActivationCodeBegins(w, d) \/ setDeviceOnlineBegins(w, d)
                    \/ applyHeartbeatBegins(w, d) \/ heartbeatGuarded(w, d)
                    \/ \E i \in DOMAIN runs[d] :
                         \/ recordQualificationCheckBegins(w, d, i) \/ approveQualificationBegins(w, d, i)
                         \/ rejectQualificationBegins(w, d, i)
               \/ regenerateActivationCode(w) \/ setDeviceOnline(w)
               \/ applyHeartbeat(w) \/ heartbeatBegins(w) \/ heartbeat(w)
               \/ recordQualificationCheck(w) \/ approveQualification(w) \/ rejectQualification(w)
        PROVE  FleetInv'
    <2>1. CASE heartbeatBegins(w)
      BY <2>1, ReadSteps
    <2>2. CASE regenerateActivationCode(w)
      BY <2>2, CodeSteps
    <2>3. CASE \/ setDeviceOnline(w) \/ applyHeartbeat(w) \/ heartbeat(w)
               \/ recordQualificationCheck(w) \/ approveQualification(w) \/ rejectQualification(w)
      BY <2>3, WriteSteps
    <2>4. CASE \E d \in Devices :
                 \/ regenerateActivationCodeBegins(w, d) \/ setDeviceOnlineBegins(w, d)
                 \/ applyHeartbeatBegins(w, d) \/ heartbeatGuarded(w, d)
                 \/ \E i \in DOMAIN runs[d] :
                      \/ recordQualificationCheckBegins(w, d, i) \/ approveQualificationBegins(w, d, i)
                      \/ rejectQualificationBegins(w, d, i)
      BY <2>4, ReadSteps
    <2> QED BY <1>4, <2>1, <2>2, <2>3, <2>4
  <1>5. CASE UNCHANGED vars
    <2>1. RowsTyped /\ txn \in [Workers -> Txn]
      BY Types DEF FleetInv
    <2> QED BY <1>5, <2>1, RowsStep DEF vars, RowsTyped, credentials
  <1> QED BY <1>1, <1>2, <1>3, <1>4, <1>5 DEF Next

\* However many records are activated for one hardware serial, deleted, retired and
\* recovered, with heartbeats and codes in flight, a record that holds a credential
\* is bound to a handset and no other record with a credential is bound to it
\* (device-jobs.service.ts activate, admin.service.ts beginDeviceRecovery).
THEOREM OneIdentityAlways == Spec => []OneIdentityPerHandset
  <1>1. FleetInv => OneIdentityPerHandset
    BY DEF FleetInv, Identity, OneIdentityPerHandset
  <1> QED BY <1>1, FleetInitially, FleetNext, PTL DEF Spec

-----------------------------------------------------------------------------
(* How a SIM enters service.                                                 *)

NoEntry == \A s \in Sims : sim'[s] \in InService => sim[s] \in InService

\* A SIM that enters is set active by the commit of the staff's transaction.
Entry(s) ==
  /\ sim[s] = "pending"
  /\ \E w \in Workers : /\ txn[w] # Idle /\ txn'[w] = Idle
                        /\ txn[w].kind \in {"switch", "approve"} /\ txn[w].device = Home[s]

LEMMA LeavesService ==
  ASSUME NEW d, NEW from, NEW st \in SimStatuses \ InService, SetSims(d, from, st)
  PROVE  NoEntry
  BY DEF SetSims, NoEntry

LEMMA SameSims ==
  UNCHANGED sim => NoEntry
  BY DEF NoEntry

LEMMA HealthEntry ==
  ASSUME TypeOK, NEW w \in Workers, NEW keep, NEW wrong, NEW ahead, NEW ok, Beat(w, keep, wrong, ahead, ok)
  PROVE  NoEntry
  BY DEF Beat, NoEntry, InService

\* No step but the commit of the online switch or of an approval lets a SIM in.
LEMMA OnlyStaffEnters ==
  ASSUME TypeOK, [Next]_vars, NEW s \in Sims, sim[s] \notin InService, sim'[s] \in InService
  PROVE  Entry(s)
  <1>a. {"pending", "disabled", "quarantined"} \subseteq SimStatuses \ InService
    BY DEF SimStatuses, InService
  <1>b. NoEntry => FALSE
    BY DEF NoEntry
  <1>c. sim \in [Sims -> SimStatuses] /\ txn \in [Workers -> Txn]
    BY DEF TypeOK
  <1>1. ASSUME NEW d \in Devices,
               \/ createDevice(d) \/ deleteDevice(d) \/ quarantine(d) \/ EvidenceQuarantine(d)
               \/ beginDeviceRecovery(d) \/ retireDevice(d) \/ startQualification(d)
               \/ HeartbeatMissed(d) \/ updateHealthOffline(d)
        PROVE  NoEntry
    <2>1. CASE createDevice(d) \/ deleteDevice(d) \/ HeartbeatMissed(d) \/ updateHealthOffline(d)
      BY <2>1, SameSims DEF createDevice, deleteDevice, HeartbeatMissed, updateHealthOffline
    <2>2. CASE quarantine(d)
      BY <2>2, <1>a, LeavesService DEF quarantine
    <2>3. CASE EvidenceQuarantine(d)
      <3>1. PICK affected : sim' = [x \in Sims |-> IF x \in affected THEN "quarantined" ELSE sim[x]]
        BY <2>3 DEF EvidenceQuarantine
      <3> QED BY <3>1 DEF NoEntry, InService
    <2>4. CASE beginDeviceRecovery(d)
      BY <2>4, <1>a, LeavesService DEF beginDeviceRecovery
    <2>5. CASE retireDevice(d)
      BY <2>5, <1>a, LeavesService DEF retireDevice
    <2>6. CASE startQualification(d)
      BY <2>6, <1>a, LeavesService DEF startQualification
    <2> QED BY <1>1, <2>1, <2>2, <2>3, <2>4, <2>5, <2>6
  <1>2. ASSUME NEW c \in Codes, CodeExpires(c) \/ \E h \in Handsets : activate(c, h) PROVE NoEntry
    <2>1. ASSUME NEW h \in Handsets, activate(c, h) PROVE NoEntry
      <3>1. PICK released : sim' = [x \in Sims |-> IF Home[x] \in released THEN "pending" ELSE sim[x]]
        BY <2>1 DEF activate
      <3> QED BY <3>1 DEF NoEntry, InService
    <2> QED BY <1>2, <2>1, SameSims DEF CodeExpires
  <1>3. ASSUME NEW x \in Sims,
               updateHealthStale(x) \/ applyBalance(x) \/ Assign(x) \/ Conclude(x) \/ retryDeviceJob(x)
        PROVE  NoEntry
    <2>1. CASE updateHealthStale(x)
      BY <2>1, <1>c DEF updateHealthStale, NoEntry, InService
    <2>2. CASE applyBalance(x)
      BY <2>2, <1>c DEF applyBalance, balanceRefreshStatus, NoEntry, InService
    <2>3. CASE Assign(x) \/ Conclude(x) \/ retryDeviceJob(x)
      BY <2>3, SameSims DEF Assign, Conclude, retryDeviceJob
    <2> QED BY <1>3, <2>1, <2>2, <2>3
  <1>4. ASSUME NEW w \in Workers, NEW d \in Devices,
               \/ regenerateActivationCodeBegins(w, d) \/ setDeviceOnlineBegins(w, d)
               \/ applyHeartbeatBegins(w, d) \/ heartbeatGuarded(w, d)
               \/ \E i \in DOMAIN runs[d] :
                    \/ recordQualificationCheckBegins(w, d, i) \/ approveQualificationBegins(w, d, i)
                    \/ rejectQualificationBegins(w, d, i)
        PROVE  NoEntry
    BY <1>4, SameSims DEF regenerateActivationCodeBegins, setDeviceOnlineBegins, applyHeartbeatBegins, heartbeatGuarded,
       recordQualificationCheckBegins, approveQualificationBegins, rejectQualificationBegins, OnRun
  <1>5. ASSUME NEW w \in Workers,
               \/ regenerateActivationCode(w) \/ applyHeartbeat(w) \/ heartbeatBegins(w) \/ heartbeat(w)
               \/ recordQualificationCheck(w) \/ rejectQualification(w)
        PROVE  NoEntry
    <2>1. CASE regenerateActivationCode(w) \/ heartbeatBegins(w) \/ recordQualificationCheck(w)
      BY <2>1, SameSims DEF regenerateActivationCode, heartbeatBegins, recordQualificationCheck
    <2>2. CASE applyHeartbeat(w)
      BY <2>2, SameSims, HealthEntry DEF applyHeartbeat
    <2>3. CASE heartbeat(w)
      BY <2>3, SameSims, HealthEntry DEF heartbeat
    <2>4. CASE rejectQualification(w)
      BY <2>4, <1>a, SameSims, LeavesService DEF rejectQualification
    <2> QED BY <1>5, <2>1, <2>2, <2>3, <2>4
  <1>6. ASSUME NEW w \in Workers, setDeviceOnline(w) PROVE Entry(s)
    <2>1. txn[w].kind = "switch" /\ txn[w] # Idle /\ txn'[w] = Idle
      BY <1>6, <1>c, TxnMoves DEF setDeviceOnline, Idle
    <2>2. SetSims(txn[w].device, SimStatuses \ {"quarantined", "disabled"}, "active")
      <3>1. CASE sim' = sim
        BY <3>1, <1>b, SameSims
      <3>2. CASE SetSims(txn[w].device, {"active", "payout_stale"}, "pending")
        BY <3>2, <1>a, <1>b, LeavesService
      <3> QED BY <1>6, <3>1, <3>2 DEF setDeviceOnline
    <2>3. Home[s] = txn[w].device /\ sim[s] \in SimStatuses \ {"quarantined", "disabled"}
      BY <2>2 DEF SetSims
    <2>4. sim[s] = "pending"
      BY <2>3 DEF SimStatuses, InService
    <2> QED BY <2>1, <2>3, <2>4 DEF Entry
  <1>7. ASSUME NEW w \in Workers, approveQualification(w) PROVE Entry(s)
    <2>1. txn[w].kind = "approve" /\ txn[w] # Idle /\ txn'[w] = Idle
      BY <1>7, <1>c, TxnMoves DEF approveQualification, Idle
    <2>2. SetSims(txn[w].device, {"pending"}, "active")
      BY <1>7, <1>b, SameSims DEF approveQualification
    <2>3. Home[s] = txn[w].device /\ sim[s] = "pending"
      BY <2>2 DEF SetSims
    <2> QED BY <2>1, <2>3 DEF Entry
  <1>8. CASE UNCHANGED vars
    BY <1>8, <1>b, SameSims DEF vars
  <1> QED BY <1>b, <1>1, <1>2, <1>3, <1>4, <1>5, <1>6, <1>7, <1>8 DEF Next

\* A SIM enters service only from pending, by the commit of a staff member's switch
\* or approval of its own device, whatever committed since that transaction read;
\* never by a heartbeat, a balance SMS, an activation or a recovery
\* (admin.service.ts setDeviceOnline, approveQualification; the gateway's and the
\* controller's heartbeats).
THEOREM ServiceOnlyByStaff == Spec => EntersServiceByStaff
  <1>1. FleetInv => TypeOK
    BY DEF FleetInv
  <1>2. TypeOK /\ [Next]_vars =>
          [\A s \in Sims : sim[s] \notin InService /\ sim'[s] \in InService =>
             /\ sim[s] = "pending"
             /\ \E w \in Workers : /\ txn[w] # Idle /\ txn'[w] = Idle
                                   /\ txn[w].kind \in {"switch", "approve"} /\ txn[w].device = Home[s]]_vars
    BY OnlyStaffEnters DEF Entry
  <1> QED BY <1>1, <1>2, FleetInitially, FleetNext, PTL DEF Spec, EntersServiceByStaff
=============================================================================
