-------------------------------- MODULE Fleet --------------------------------
(***************************************************************************)
(* The life of a handset in the fleet: enrolment, activation, the switch   *)
(* staff turn online and offline, qualification runs, quarantine, recovery *)
(* and retirement, with the heartbeats that write the same rows.           *)
(*                                                                         *)
(* Serializable transactions, and transactions that write without having   *)
(* read, are one step.  The others run at read committed: they read, and   *)
(* write later what they decided, so whatever commits in between is        *)
(* overwritten.  A worker of the API holds such a transaction in "txn".    *)
(* A run's mandatory checks are reduced to the one a heartbeat records and *)
(* the ones staff record.                                                  *)
(***************************************************************************)
EXTENDS Naturals, Sequences, FiniteSets

CONSTANTS
  Devices,     \* device records
  Sims,        \* enrolled SIMs
  Home,        \* the device a SIM is enrolled on
  Handsets,    \* physical phones
  Workers,     \* API workers: read-committed transactions in flight
  None,        \* no device, no handset
  MaxCodes,    \* bound on activation codes
  MaxRuns      \* bound on qualification runs of a device

ASSUME FleetAssumption ==
  /\ Home \in [Sims -> Devices]
  /\ None \notin Devices \cup Handsets
  /\ MaxCodes \in Nat \ {0}
  /\ MaxRuns \in Nat

DeviceStatuses == {"none", "pending", "qualifying", "online", "offline", "quarantined", "retired"}
SimStatuses == {"pending", "active", "payout_stale", "quarantined", "disabled"}
RunStatuses == {"running", "passed", "failed", "approved", "rejected"}
Checks == {"observed", "recorded"}
Run == [status : RunStatuses, checks : [Checks -> {"pending", "passed", "failed"}]]
Codes == 1..MaxCodes

VARIABLES
  status,    \* Device.status; "none" before the record exists and after it is deleted
  sim,       \* SimWallet.status
  token,     \* Device.authTokenHash, named by the code it was issued for; 0 is null
  hardware,  \* Device.hardwareSerial
  seen,      \* Device.lastHeartbeatAt: never, within 90 seconds, or before
  capable,   \* Device.lastPermissionsOk and lastAccessibilityOk
  code,      \* DeviceActivationCode: its device, and whether it can still be used
  runs,      \* DeviceQualificationRun rows of a device, oldest first
  work,      \* financial work of a SIM: none, open, or a failed job
  history,   \* the device has operational or qualification records
  retired,   \* the device was retired and not recovered since
  txn        \* per worker: the read-committed transaction in flight

vars == <<status, sim, token, hardware, seen, capable, code, runs, work, history, retired, txn>>

Idle == [kind |-> "idle"]
Txn ==
  {Idle}
  \cup [kind : {"heartbeat"}, device : Devices, read : DeviceStatuses]
  \cup [kind : {"guarded"}, device : Devices]
  \cup [kind : {"rest_heartbeat"}, device : Devices, read : DeviceStatuses, run : 0..MaxRuns]
  \cup [kind : {"switch"}, device : Devices, online : BOOLEAN]
  \cup [kind : {"code"}, device : Devices, stale : SUBSET Codes]
  \cup [kind : {"record", "approve", "reject"}, device : Devices, run : 1..MaxRuns]

TypeOK ==
  /\ status \in [Devices -> DeviceStatuses]
  /\ sim \in [Sims -> SimStatuses]
  /\ token \in [Devices -> 0..MaxCodes]
  /\ hardware \in [Devices -> Handsets \cup {None}]
  /\ seen \in [Devices -> {"never", "fresh", "late"}]
  /\ capable \in [Devices -> BOOLEAN]
  /\ code \in [Codes -> [device : Devices \cup {None}, open : BOOLEAN]]
  /\ runs \in [Devices -> Seq(Run)] /\ \A d \in Devices : Len(runs[d]) <= MaxRuns
  /\ work \in [Sims -> {"none", "open", "failed"}]
  /\ history \in [Devices -> BOOLEAN]
  /\ retired \in [Devices -> BOOLEAN]
  /\ txn \in [Workers -> Txn]

Init ==
  /\ status = [d \in Devices |-> "none"]
  /\ sim = [s \in Sims |-> "pending"]
  /\ token = [d \in Devices |-> 0]
  /\ hardware = [d \in Devices |-> None]
  /\ seen = [d \in Devices |-> "never"]
  /\ capable = [d \in Devices |-> FALSE]
  /\ code = [c \in Codes |-> [device |-> None, open |-> FALSE]]
  /\ runs = [d \in Devices |-> <<>>]
  /\ work = [s \in Sims |-> "none"]
  /\ history = [d \in Devices |-> FALSE]
  /\ retired = [d \in Devices |-> FALSE]
  /\ txn = [w \in Workers |-> Idle]

SimsOf(d) == {s \in Sims : Home[s] = d}
Set(f, d, v) == [f EXCEPT ![d] = v]
\* UPDATE of the device's SIMs in the given statuses.
SetSims(d, from, st) == sim' = [s \in Sims |-> IF Home[s] = d /\ sim[s] \in from THEN st ELSE sim[s]]
Unissued == {c \in Codes : code[c].device = None}
\* A fresh code for the device; the codes in "spent" can no longer be used.
Issue(d, spent) ==
  \E c \in Unissued :
    /\ \A e \in Unissued : c <= e
    /\ code' = [e \in Codes |-> IF e = c THEN [device |-> d, open |-> TRUE]
                                ELSE [code[e] EXCEPT !.open = @ /\ e \notin spent]]
CodesOf(d) == {c \in Codes : code[c].device = d}
Begin(w, t) == txn[w] = Idle /\ txn' = Set(txn, w, t)
End(w) == txn' = Set(txn, w, Idle)
credentials == <<token, hardware, code, retired>>

-----------------------------------------------------------------------------
(* Enrolment and activation *)

createDevice(d) ==
  /\ status[d] = "none" /\ CodesOf(d) = {}
  /\ status' = Set(status, d, "pending")
  /\ Issue(d, {})
  /\ UNCHANGED <<sim, token, hardware, seen, capable, runs, work, history, retired, txn>>

\* The code's fifteen minutes are over.
CodeExpires(c) ==
  /\ code[c].open
  /\ code' = [code EXCEPT ![c].open = FALSE]
  /\ UNCHANGED <<status, sim, token, hardware, seen, capable, runs, work, history, retired, txn>>

\* The codes this transaction consumes are the ones its UPDATE statement saw.
regenerateActivationCodeBegins(w, d) ==
  /\ status[d] # "none" /\ token[d] = 0
  /\ Begin(w, [kind |-> "code", device |-> d, stale |-> {c \in CodesOf(d) : code[c].open}])
  /\ UNCHANGED <<status, sim, seen, capable, runs, work, history, credentials>>

regenerateActivationCode(w) ==
  /\ txn[w].kind = "code"
  /\ IF status[txn[w].device] = "none" THEN UNCHANGED code ELSE Issue(txn[w].device, txn[w].stale)
  /\ End(w)
  /\ UNCHANGED <<status, sim, token, hardware, seen, capable, runs, work, history, retired>>

Released_Kept(h, d) == {}

\* The records, other than d, that the handset was bound to.
Released(h, d) == {e \in Devices \ {d} : hardware[e] = h}

\* The handset redeems a code; another record it was bound to loses it, its
\* credential and its place in service.
activate(c, h) ==
  LET d == code[c].device
      released == Released(h, d)
  IN
  /\ code[c].open
  /\ code' = [code EXCEPT ![c].open = FALSE]
  /\ token' = [e \in Devices |-> IF e = d THEN c ELSE IF e \in released THEN 0 ELSE token[e]]
  /\ hardware' = [e \in Devices |-> IF e = d THEN h ELSE IF e \in released THEN None ELSE hardware[e]]
  /\ status' = [e \in Devices |-> IF e = d \/ e \in released THEN "offline" ELSE status[e]]
  /\ sim' = [s \in Sims |-> IF Home[s] \in released THEN "pending" ELSE sim[s]]
  /\ UNCHANGED <<seen, capable, runs, work, history, retired, txn>>

deleteDevice(d) ==
  /\ status[d] \in {"pending", "qualifying"}
  /\ ~history[d]
  /\ status' = Set(status, d, "none")
  /\ token' = Set(token, d, 0)
  /\ hardware' = Set(hardware, d, None)
  /\ runs' = Set(runs, d, <<>>)
  /\ code' = [c \in Codes |-> IF code[c].device = d THEN [code[c] EXCEPT !.open = FALSE] ELSE code[c]]
  /\ UNCHANGED <<sim, seen, capable, work, history, retired, txn>>

-----------------------------------------------------------------------------
(* Heartbeats *)

operatorControlledDeviceStatus(quarantine, operatorOnline) ==
  IF quarantine THEN "quarantined" ELSE IF operatorOnline THEN "online" ELSE "offline"

\* connectionAuthorized and the read of the gateway's applyHeartbeat.
applyHeartbeatBegins(w, d) ==
  /\ token[d] # 0 /\ status[d] # "retired"
  /\ Begin(w, [kind |-> "heartbeat", device |-> d, read |-> status[d]])
  /\ UNCHANGED <<status, sim, seen, capable, runs, work, history, credentials>>

\* DeviceAuthGuard of the HTTP heartbeat, a query of its own.
heartbeatGuarded(w, d) ==
  /\ token[d] # 0 /\ status[d] \notin {"quarantined", "retired"}
  /\ Begin(w, [kind |-> "guarded", device |-> d])
  /\ UNCHANGED <<status, sim, seen, capable, runs, work, history, credentials>>

\* The latest run a heartbeat adds evidence to, 0 when there is none.
openQualification(d) ==
  LET open == {i \in DOMAIN runs[d] : runs[d][i].status = "running"}
  IN IF open = {} THEN 0 ELSE CHOOSE i \in open : \A j \in open : j <= i

heartbeatBegins(w) ==
  LET d == txn[w].device IN
  /\ txn[w].kind = "guarded"
  /\ txn' = Set(txn, w, IF status[d] \in {"none", "retired"} THEN Idle
                        ELSE [kind |-> "rest_heartbeat", device |-> d, read |-> status[d],
                              run |-> openQualification(d)])
  /\ UNCHANGED <<status, sim, seen, capable, runs, work, history, credentials>>

\* The writes both heartbeats share: SIMs with a wrong identity are quarantined,
\* and so is the device, also for a clock ahead of the server's.
Beat(w, keep, wrong, ahead, ok) ==
  LET d == txn[w].device IN
  /\ sim' = [s \in Sims |-> IF s \in wrong THEN "quarantined" ELSE sim[s]]
  /\ status' = Set(status, d, operatorControlledDeviceStatus(keep \/ wrong # {} \/ ahead, txn[w].read = "online"))
  /\ seen' = Set(seen, d, "fresh")
  /\ capable' = Set(capable, d, ok)

\* A quarantine that was read is kept.
applyHeartbeat(w) ==
  LET d == txn[w].device IN
  /\ txn[w].kind = "heartbeat"
  /\ End(w)
  /\ IF status[d] = "none" THEN UNCHANGED <<status, sim, seen, capable>>
     ELSE \E wrong \in SUBSET SimsOf(d), ahead, ok \in BOOLEAN :
            Beat(w, txn[w].read = "quarantined", wrong, ahead, ok)
  /\ UNCHANGED <<runs, work, history, credentials>>

\* The HTTP heartbeat also writes the run it read, and the check it observes.
heartbeat(w) ==
  LET d == txn[w].device
      i == txn[w].run
  IN
  /\ txn[w].kind = "rest_heartbeat"
  /\ End(w)
  /\ IF status[d] = "none" THEN UNCHANGED <<status, sim, seen, capable, runs, history>>
     ELSE \E wrong \in SUBSET SimsOf(d), ahead, ok \in BOOLEAN :
            /\ Beat(w, FALSE, wrong, ahead, ok)
            /\ IF i = 0 THEN UNCHANGED <<runs, history>>
               ELSE /\ runs' = [runs EXCEPT ![d][i] =
                                  [status |-> "running",
                                   checks |-> Set(@.checks, "observed", IF ok THEN "passed" ELSE "failed")]]
                    /\ history' = Set(history, d, TRUE)
  /\ UNCHANGED <<work, credentials>>

\* Ninety seconds without a heartbeat.
HeartbeatMissed(d) ==
  /\ seen[d] = "fresh"
  /\ seen' = Set(seen, d, "late")
  /\ UNCHANGED <<status, sim, capable, runs, work, history, credentials, txn>>

\* updateHealth takes a silent device offline; the three minutes it waits for are
\* not told apart from the ninety seconds of the selection.
updateHealthOffline(d) ==
  /\ status[d] = "online" /\ seen[d] = "late"
  /\ status' = Set(status, d, "offline")
  /\ UNCHANGED <<sim, seen, capable, runs, work, history, credentials, txn>>

updateHealthStale(s) ==
  /\ sim[s] = "active"
  /\ sim' = [sim EXCEPT ![s] = "payout_stale"]
  /\ UNCHANGED <<status, seen, capable, runs, work, history, credentials, txn>>

balanceRefreshStatus(current) == IF current = "payout_stale" THEN "active" ELSE current

\* A balance SMS is applied; serializable, so a SIM row written since is a retry.
applyBalance(s) ==
  /\ status[Home[s]] # "none" /\ token[Home[s]] # 0
  /\ sim' = [sim EXCEPT ![s] = balanceRefreshStatus(@)]
  /\ history' = Set(history, Home[s], TRUE)
  /\ UNCHANGED <<status, seen, capable, runs, work, credentials, txn>>

-----------------------------------------------------------------------------
(* The online switch and qualification *)

setDeviceOnlineBegins(w, d) ==
  /\ status[d] \notin {"none", "quarantined", "retired"}
  /\ \E online \in BOOLEAN : Begin(w, [kind |-> "switch", device |-> d, online |-> online])
  /\ UNCHANGED <<status, sim, seen, capable, runs, work, history, credentials>>

setDeviceOnline(w) ==
  LET d == txn[w].device IN
  /\ txn[w].kind = "switch"
  /\ End(w)
  /\ IF status[d] = "none" THEN UNCHANGED <<status, sim>>
     ELSE /\ status' = Set(status, d, IF txn[w].online THEN "online" ELSE "offline")
          /\ IF txn[w].online THEN SetSims(d, SimStatuses \ {"quarantined", "disabled"}, "active")
             ELSE SetSims(d, {"active", "payout_stale"}, "pending")
  /\ UNCHANGED <<seen, capable, runs, work, history, credentials>>

\* Returns the run that is under way, or opens one.
startQualification(d) ==
  /\ status[d] # "none"
  /\ \A i \in DOMAIN runs[d] : runs[d][i].status \notin {"running", "passed"}
  /\ Len(runs[d]) < MaxRuns
  /\ runs' = Set(runs, d, Append(runs[d], [status |-> "running", checks |-> [c \in Checks |-> "pending"]]))
  /\ status' = Set(status, d, "qualifying")
  /\ SetSims(d, SimStatuses, "pending")
  /\ UNCHANGED <<seen, capable, work, history, credentials, txn>>

\* The advisory lock qualification-run:<id>, which rejectQualification does not take.
RunLockFree(d, i) ==
  \A w \in Workers : ~(txn[w].kind \in {"record", "approve"} /\ txn[w].device = d /\ txn[w].run = i)

OnRun(w, kind, d, i) ==
  /\ Begin(w, [kind |-> kind, device |-> d, run |-> i])
  /\ UNCHANGED <<status, sim, seen, capable, runs, work, history, credentials>>

recordQualificationCheckBegins(w, d, i) ==
  /\ RunLockFree(d, i)
  /\ runs[d][i].status \in {"running", "passed", "failed"}
  /\ OnRun(w, "record", d, i)

\* The run of the transaction is still there: it was not deleted with its device.
RunExists(w) == txn[w].run \in DOMAIN runs[txn[w].device]

\* The run's status after a check was recorded.
Outcome(checks) ==
  IF \E c \in Checks : checks[c] = "pending" THEN "running"
  ELSE IF \A c \in Checks : checks[c] = "passed" THEN "passed" ELSE "failed"

recordQualificationCheck(w) ==
  LET d == txn[w].device
      i == txn[w].run
  IN
  /\ txn[w].kind = "record"
  /\ End(w)
  /\ IF ~RunExists(w) THEN UNCHANGED <<runs, history>>
     ELSE /\ \E c \in Checks, result \in {"passed", "failed"} :
               LET checks == Set(runs[d][i].checks, c, result)
               IN runs' = [runs EXCEPT ![d][i] = [status |-> Outcome(checks), checks |-> checks]]
          /\ history' = Set(history, d, TRUE)
  /\ UNCHANGED <<status, sim, seen, capable, work, credentials>>

approveQualificationBegins(w, d, i) ==
  /\ RunLockFree(d, i)
  /\ runs[d][i].status = "passed" /\ \A c \in Checks : runs[d][i].checks[c] = "passed"
  /\ i = Len(runs[d])
  /\ seen[d] = "fresh" /\ capable[d]
  /\ \A s \in SimsOf(d) : sim[s] \notin {"quarantined", "disabled"}
  /\ OnRun(w, "approve", d, i)

approveQualification_AllSims(w) ==
  LET d == txn[w].device IN
  /\ txn[w].kind = "approve"
  /\ End(w)
  /\ IF ~RunExists(w) THEN UNCHANGED <<runs, sim, status>>
     ELSE /\ runs' = [runs EXCEPT ![d][txn[w].run].status = "approved"]
          /\ SetSims(d, SimStatuses, "active")
          /\ status' = Set(status, d, "online")
  /\ UNCHANGED <<seen, capable, work, history, credentials>>

approveQualification(w) ==
  LET d == txn[w].device IN
  /\ txn[w].kind = "approve"
  /\ End(w)
  /\ IF ~RunExists(w) THEN UNCHANGED <<runs, sim, status>>
     ELSE /\ runs' = [runs EXCEPT ![d][txn[w].run].status = "approved"]
          /\ SetSims(d, {"pending"}, "active")
          /\ status' = Set(status, d, "online")
  /\ UNCHANGED <<seen, capable, work, history, credentials>>

rejectQualificationBegins(w, d, i) ==
  /\ runs[d][i].status \notin {"approved", "rejected"}
  /\ OnRun(w, "reject", d, i)

rejectQualification(w) ==
  LET d == txn[w].device IN
  /\ txn[w].kind = "reject"
  /\ End(w)
  /\ IF ~RunExists(w) THEN UNCHANGED <<runs, sim, status>>
     ELSE /\ runs' = [runs EXCEPT ![d][txn[w].run].status = "rejected"]
          /\ SetSims(d, SimStatuses, "pending")
          /\ status' = Set(status, d, "qualifying")
  /\ UNCHANGED <<seen, capable, work, history, credentials>>

-----------------------------------------------------------------------------
(* Quarantine, recovery, retirement *)

quarantine(d) ==
  /\ status[d] # "none"
  /\ status' = Set(status, d, "quarantined")
  /\ SetSims(d, SimStatuses, "quarantined")
  /\ UNCHANGED <<seen, capable, runs, work, history, credentials, txn>>

\* Spooled evidence the backend cannot trust: an SMS without a SIM takes the whole
\* device out, a clock ahead of the server's the SIM it came with.
EvidenceQuarantine(d) ==
  /\ token[d] # 0 /\ status[d] # "retired"
  /\ \E affected \in {SimsOf(d)} \cup {{s} : s \in SimsOf(d)} :
       sim' = [s \in Sims |-> IF s \in affected THEN "quarantined" ELSE sim[s]]
  /\ status' = Set(status, d, "quarantined")
  /\ history' = Set(history, d, TRUE)
  /\ UNCHANGED <<seen, capable, runs, work, credentials, txn>>

Unresolved(d) == \E s \in SimsOf(d) : work[s] = "open"

beginDeviceRecovery(d) ==
  /\ status[d] \in {"quarantined", "retired"}
  /\ ~Unresolved(d)
  /\ Issue(d, CodesOf(d))
  /\ runs' = Set(runs, d, [i \in DOMAIN runs[d] |->
                             IF runs[d][i].status = "approved" THEN runs[d][i]
                             ELSE [runs[d][i] EXCEPT !.status = "rejected"]])
  /\ status' = Set(status, d, "pending")
  /\ token' = Set(token, d, 0)
  /\ seen' = Set(seen, d, "never")
  /\ capable' = Set(capable, d, FALSE)
  /\ \E replacementHardware \in BOOLEAN :
       hardware' = IF replacementHardware THEN Set(hardware, d, None) ELSE hardware
  /\ SetSims(d, SimStatuses, "pending")
  /\ retired' = Set(retired, d, FALSE)
  /\ UNCHANGED <<work, history, txn>>

retireDevice(d) ==
  /\ status[d] \notin {"none", "retired"}
  /\ ~Unresolved(d)
  /\ code' = [c \in Codes |-> IF code[c].device = d THEN [code[c] EXCEPT !.open = FALSE] ELSE code[c]]
  /\ SetSims(d, SimStatuses, "disabled")
  /\ status' = Set(status, d, "retired")
  /\ token' = Set(token, d, 0)
  /\ retired' = Set(retired, d, TRUE)
  /\ UNCHANGED <<hardware, seen, capable, runs, work, history, txn>>

-----------------------------------------------------------------------------
(* Financial work *)

\* SimSelectionService.candidates and the transaction that takes the SIM.
candidate(s) ==
  /\ sim[s] \in {"active", "payout_stale"}
  /\ status[Home[s]] = "online" /\ seen[Home[s]] = "fresh" /\ capable[Home[s]]

Assign(s) ==
  /\ work[s] = "none" /\ candidate(s)
  /\ work' = [work EXCEPT ![s] = "open"]
  /\ history' = Set(history, Home[s], TRUE)
  /\ UNCHANGED <<status, sim, seen, capable, runs, credentials, txn>>

\* The work is settled, or fails before the PIN.
Conclude(s) ==
  /\ work[s] = "open"
  /\ \E end \in {"none", "failed"} : work' = [work EXCEPT ![s] = end]
  /\ UNCHANGED <<status, sim, seen, capable, runs, history, credentials, txn>>

\* A failed job is queued again, whatever became of its SIM.
retryDeviceJob(s) ==
  /\ work[s] = "failed"
  /\ work' = [work EXCEPT ![s] = "open"]
  /\ UNCHANGED <<status, sim, seen, capable, runs, history, credentials, txn>>

Next ==
  \/ \E d \in Devices :
       \/ createDevice(d) \/ deleteDevice(d) \/ quarantine(d) \/ EvidenceQuarantine(d)
       \/ beginDeviceRecovery(d) \/ retireDevice(d) \/ startQualification(d)
       \/ HeartbeatMissed(d) \/ updateHealthOffline(d)
  \/ \E c \in Codes : CodeExpires(c) \/ \E h \in Handsets : activate(c, h)
  \/ \E s \in Sims :
       updateHealthStale(s) \/ applyBalance(s) \/ Assign(s) \/ Conclude(s) \/ retryDeviceJob(s)
  \/ \E w \in Workers :
       \/ \E d \in Devices :
            \/ regenerateActivationCodeBegins(w, d) \/ setDeviceOnlineBegins(w, d)
            \/ applyHeartbeatBegins(w, d) \/ heartbeatGuarded(w, d)
            \/ \E i \in DOMAIN runs[d] :
                 \/ recordQualificationCheckBegins(w, d, i) \/ approveQualificationBegins(w, d, i)
                 \/ rejectQualificationBegins(w, d, i)
       \/ regenerateActivationCode(w) \/ setDeviceOnline(w)
       \/ applyHeartbeat(w) \/ heartbeatBegins(w) \/ heartbeat(w)
       \/ recordQualificationCheck(w) \/ approveQualification(w) \/ rejectQualification(w)

Spec == Init /\ [][Next]_vars

-----------------------------------------------------------------------------
(* A handset that is activated for a second record loses the first one (activate): *)
(* no two records hold a credential for the same handset, and none holds one       *)
(* without a handset.                                                              *)
OneIdentityPerHandset ==
  /\ TypeOK
  /\ \A d \in Devices : token[d] # 0 =>
       /\ hardware[d] # None
       /\ \A e \in Devices \ {d} : token[e] # 0 => hardware[e] # hardware[d]

InService == {"active", "payout_stale"}

(* "A rejected, quarantined or disabled SIM must never be enabled by heartbeat     *)
(* alone": a SIM enters service only from pending, by the commit of a staff        *)
(* member's switch or approval of its own device, whatever committed since that    *)
(* transaction read; never by a heartbeat, a balance SMS or a retry.               *)
EntersServiceByStaff ==
  [][\A s \in Sims : sim[s] \notin InService /\ sim'[s] \in InService =>
       /\ sim[s] = "pending"
       /\ \E w \in Workers : /\ txn[w] # Idle /\ txn'[w] = Idle
                             /\ txn[w].kind \in {"switch", "approve"} /\ txn[w].device = Home[s]]_vars

(* The gateway's "A heartbeat may add new reasons to quarantine, but it can never  *)
(* promote a quarantined handset": a step of a heartbeat leaves a quarantined      *)
(* device quarantined.                                                             *)
HeartbeatNeverPromotes ==
  [][\A w \in Workers : txn[w].kind \in {"heartbeat", "rest_heartbeat"} /\ txn'[w] = Idle
       /\ status[txn[w].device] = "quarantined" => status'[txn[w].device] = "quarantined"]_vars

(* "Only this approval changes pending SIM wallets to active": a SIM in service is *)
(* on a device one of whose qualification runs was approved.                       *)
ServiceNeedsApproval ==
  \A s \in Sims : sim[s] \in InService => \E i \in DOMAIN runs[Home[s]] : runs[Home[s]][i].status = "approved"

(* A retired device comes back through the audited recovery only: until then it    *)
(* holds no credential (retireDevice, docs/en/operations.md).                      *)
RetirementNeedsRecovery == \A d \in Devices : retired[d] => token[d] = 0
=============================================================================
