------------------------------- MODULE Payouts -------------------------------
(***************************************************************************)
(* The cloud side of a payout: transfers, their attempts and device jobs,  *)
(* the handset lock, the ledger and SIM reservations, reconciliation cases *)
(* and the matching of outgoing provider SMS.                              *)
(*                                                                         *)
(* An action is one serializable database transaction of the API.  The     *)
(* exception is the staff retry of a job, which runs at PostgreSQL's       *)
(* default isolation: its check and its writes are two actions.  Time is   *)
(* abstracted: a lease or a job may be found expired at any moment.        *)
(* Amounts are abstracted: a reservation is one unit, posted to the ledger *)
(* as a journal and to the SIM wallet as a counter.                        *)
(***************************************************************************)
EXTENDS Integers, FiniteSets

CONSTANTS
  Transfers,    \* payout requests
  Devices,      \* handsets
  Sims,         \* SIM wallets
  DeviceOf,     \* the handset each SIM is enrolled on
  Payments,     \* provider transaction ids
  Describes,    \* the transfers whose amount and phone a payment's SMS agrees with
  MaxAttempts,  \* bound on the attempts (jobs) of one transfer
  MaxRetries,   \* bound on staff retries of one job
  MaxInFlight,  \* bound on concurrent retry requests for one job
  NoJob, NoSim, NoTx

Jobs == Transfers \X (1..MaxAttempts)

ASSUME PayoutsAssumption ==
  /\ DeviceOf \in [Sims -> Devices]
  /\ Describes \in [Payments -> SUBSET Transfers]
  /\ MaxAttempts \in Nat \ {0}
  /\ MaxRetries \in Nat
  /\ MaxInFlight \in Nat
  /\ NoJob \notin Jobs
  /\ NoSim \notin Sims
  /\ NoTx \notin Payments

VARIABLES
  status,           \* Transfer.status ("none": not created)
  committed,        \* Transfer.committedAt is set
  sim,              \* Transfer.simWalletId
  txid,             \* Transfer.providerTransactionId
  attempts,         \* number of TransferAttempt rows
  jobState,         \* DeviceJob.state ("none": not created)
  jobCommitted,     \* DeviceJob.committedAt is set
  fencingToken,     \* DeviceJob.fencingToken
  retries,          \* staff retries of the job (DeviceJob.attempt - attemptNumber)
  retrying,         \* retry requests that have checked the job and not yet written
  nextFencingToken, \* SimWallet.nextFencingToken
  activeUssdJob,    \* Device.activeUssdJobId, the handset lock
  online,           \* handsets with status online and a healthy heartbeat
  active,           \* SIMs with status active and a fresh balance
  unbound,          \* history: jobs whose handset was bound to another record, without their lock
  journals,         \* LedgerJournal rows, keyed by (sourceType, sourceId)
  reservedBalance,  \* what the transfer holds in SimWallet.reservedBalanceMinor
  cases,            \* open or proposed ReconciliationCase types of the transfer
  receipt,          \* the SIM whose SmsReceipt carries the payment, or NoSim
  sentToday         \* how often the payment was added to SimWallet.sentTodayMinor

transferVars == <<status, committed, sim, txid, attempts>>
fenceVars    == <<fencingToken, nextFencingToken, retries, retrying>>
jobVars      == <<jobState, jobCommitted, activeUssdJob, fenceVars>>
fleetVars    == <<online, active, unbound>>
moneyVars    == <<journals, reservedBalance, sentToday>>
recordVars   == <<cases, receipt>>
vars == <<transferVars, jobVars, moneyVars, recordVars, fleetVars>>

-----------------------------------------------------------------------------
(* States.  "accepted" exists only inside queueTransfer's transaction and   *)
(* no code path sets "device_assigned".                                     *)

Delivered == {"leased", "device_started", "committed", "provider_pending"}
LiveJob   == Delivered \cup {"queued"}
JobStates == LiveJob \cup {"none", "succeeded", "failed", "unknown", "cancelled"}

\* The list expireFinancialJobs treats as no longer driven by a device job.
Closed   == {"success", "failed", "unknown", "manual_review", "cancelled"}
Open     == {"queued", "device_started", "committed", "provider_pending", "unknown", "manual_review"}
Statuses == Open \cup Closed \cup {"none"}

JournalTypes == {"reservation", "release", "restoration", "settlement"}
CaseTypes == {"unknown_payout", "precommit_cancelled", "receiver_name_review", "late_success_after_manual_failure"}

Latest(t) == <<t, attempts[t]>>

\* What the handset's JOB_STATUS event tells the cloud: the state, how the
\* receiver name on the confirmation screen compares with the expected one, and
\* whether the handset's clock is plausible.
ReportStates == {"device_started", "committed", "provider_pending", "succeeded", "failed", "unknown", "cancelled"}
NameResults == {"none", "uncertain", "mismatch"}
Reports ==
  UNION {[job : {j}, fence : {fencingToken[j]}, state : ReportStates, name : NameResults, clockValid : BOOLEAN] : j \in Jobs}

TypeOK ==
  /\ status \in [Transfers -> Statuses]
  /\ committed \in [Transfers -> BOOLEAN]
  /\ sim \in [Transfers -> Sims \cup {NoSim}]
  /\ txid \in [Transfers -> Payments \cup {NoTx}]
  /\ attempts \in [Transfers -> 0..MaxAttempts]
  /\ jobState \in [Jobs -> JobStates]
  /\ jobCommitted \in [Jobs -> BOOLEAN]
  /\ fencingToken \in [Jobs -> Nat]
  /\ retries \in [Jobs -> 0..MaxRetries]
  /\ retrying \in [Jobs -> 0..MaxInFlight]
  /\ nextFencingToken \in [Sims -> Nat]
  /\ activeUssdJob \in [Devices -> Jobs \cup {NoJob}]
  /\ online \subseteq Devices
  /\ active \subseteq Sims
  /\ unbound \subseteq Jobs
  /\ journals \subseteq JournalTypes \X Transfers
  /\ reservedBalance \in [Transfers -> Int]
  /\ cases \in [Transfers -> SUBSET CaseTypes]
  /\ receipt \in [Payments -> Sims \cup {NoSim}]
  /\ sentToday \in [Payments -> Nat]

Init ==
  /\ status = [t \in Transfers |-> "none"]
  /\ committed = [t \in Transfers |-> FALSE]
  /\ sim = [t \in Transfers |-> NoSim]
  /\ txid = [t \in Transfers |-> NoTx]
  /\ attempts = [t \in Transfers |-> 0]
  /\ jobState = [j \in Jobs |-> "none"]
  /\ jobCommitted = [j \in Jobs |-> FALSE]
  /\ fencingToken = [j \in Jobs |-> 0]
  /\ retries = [j \in Jobs |-> 0]
  /\ retrying = [j \in Jobs |-> 0]
  /\ nextFencingToken = [s \in Sims |-> 0]
  /\ activeUssdJob = [d \in Devices |-> NoJob]
  /\ online = Devices
  /\ active = Sims
  /\ unbound = {}
  /\ journals = {}
  /\ reservedBalance = [t \in Transfers |-> 0]
  /\ cases = [t \in Transfers |-> {}]
  /\ receipt = [x \in Payments |-> NoSim]
  /\ sentToday = [x \in Payments |-> 0]

-----------------------------------------------------------------------------
(* The ledger's post returns early when a journal with the same source      *)
(* exists: posting twice has no second effect.  The SIM wallet's counters   *)
(* have no such guard.                                                      *)

Post(kinds, t) == journals' = journals \cup (kinds \X {t})
AddReserved(t, n) == reservedBalance' = [reservedBalance EXCEPT ![t] = @ + n]

\* The ledger's release journal with the wallet counter's decrement.
ReleaseReservations(t) == Post({"release"}, t) /\ AddReserved(t, -1)

\* updateMany({ where: { activeUssdJobId: job } }): only the holder's lock is cleared.
Unlocked(j) == [d \in Devices |-> IF activeUssdJob[d] = j THEN NoJob ELSE activeUssdJob[d]]

SetJob(j, s)    == jobState' = [jobState EXCEPT ![j] = s]
SetStatus(t, s) == status' = [status EXCEPT ![t] = s]
OpenCase(t, c)  == cases' = [cases EXCEPT ![t] = @ \cup {c}]

\* The job gets the next fencing token of its SIM.
AllocateFence(j, s) ==
  /\ nextFencingToken' = [nextFencingToken EXCEPT ![s] = @ + 1]
  /\ fencingToken' = [fencingToken EXCEPT ![j] = nextFencingToken[s] + 1]

CreateJob_NoAttemptRow(t, n, s) ==
  /\ SetJob(<<t, n>>, "queued")
  /\ AllocateFence(<<t, n>>, s)
  /\ UNCHANGED attempts

CreateJob(t, n, s) ==
  /\ SetJob(<<t, n>>, "queued")
  /\ AllocateFence(<<t, n>>, s)
  /\ attempts' = [attempts EXCEPT ![t] = n]

\* A SIM that may be given money jobs.
Payable(s) == s \in active /\ DeviceOf[s] \in online

\* An implausible clock in an accepted event quarantines the handset and the SIM.
QuarantineOnBadClock(d, s, clockValid) ==
  /\ online' = IF clockValid THEN online ELSE online \ {d}
  /\ active' = IF clockValid THEN active ELSE active \ {s}
  /\ UNCHANGED unbound

-----------------------------------------------------------------------------
(* WithdrawalsService *)

QueueTransfer(t, s) ==
  /\ status[t] = "none"
  /\ Payable(s)
  /\ SetStatus(t, "queued")
  /\ sim' = [sim EXCEPT ![t] = s]
  /\ CreateJob(t, 1, s)
  /\ Post({"reservation"}, t)
  /\ AddReserved(t, 1)
  /\ UNCHANGED <<committed, txid, jobCommitted, retries, retrying, activeUssdJob, sentToday, recordVars, fleetVars>>

CancelBeforeStart(t) ==
  /\ status[t] = "queued"
  /\ jobState[Latest(t)] = "queued"
  /\ ReleaseReservations(t)
  /\ SetJob(Latest(t), "cancelled")
  /\ SetStatus(t, "cancelled")
  /\ UNCHANGED <<committed, sim, txid, attempts, jobCommitted, fenceVars,
                 activeUssdJob, sentToday, recordVars, fleetVars>>

\* Transfer.providerTransactionId is unique: a second transfer with it aborts.
TxFree(t, x) == \A u \in Transfers \ {t} : txid[u] # x

\* resolveUnknown with outcome success.  A receipt that is already stored must
\* be this payout's; then the SMS path has applied the outflow to the wallet.
ResolveSuccess(t, x) ==
  /\ status[t] \in {"unknown", "manual_review"}
  /\ receipt[x] # NoSim => receipt[x] = sim[t] /\ t \in Describes[x]
  /\ TxFree(t, x)
  /\ Post({"settlement"}, t)
  /\ AddReserved(t, -1)
  /\ sentToday' = IF receipt[x] = NoSim THEN [sentToday EXCEPT ![x] = @ + 1] ELSE sentToday
  /\ SetStatus(t, "success")
  /\ txid' = [txid EXCEPT ![t] = x]
  /\ SetJob(Latest(t), "succeeded")
  /\ cases' = [cases EXCEPT ![t] = {}]
  /\ UNCHANGED <<committed, sim, attempts, jobCommitted, fenceVars,
                 activeUssdJob, receipt, fleetVars>>

\* resolveUnknown with outcome failed; after commit staff attach the provider's
\* failure evidence, which the code records but cannot verify.
ResolveFailed(t) ==
  /\ status[t] \in {"unknown", "manual_review"}
  /\ ReleaseReservations(t)
  /\ SetStatus(t, "failed")
  /\ SetJob(Latest(t), "failed")
  /\ cases' = [cases EXCEPT ![t] = {}]
  /\ UNCHANGED <<committed, sim, txid, attempts, jobCommitted, fenceVars,
                 activeUssdJob, sentToday, receipt, fleetVars>>

ApproveNameAndRetry(t) ==
  /\ status[t] = "manual_review"
  /\ ~committed[t]
  /\ jobState[Latest(t)] \in {"cancelled", "failed"}
  /\ "receiver_name_review" \in cases[t]
  /\ attempts[t] < MaxAttempts
  /\ CreateJob(t, attempts[t] + 1, sim[t])
  /\ SetStatus(t, "queued")
  /\ cases' = [cases EXCEPT ![t] = @ \ {"receiver_name_review"}]
  /\ UNCHANGED <<committed, sim, txid, jobCommitted, retries, retrying, activeUssdJob, moneyVars, receipt, fleetVars>>

-----------------------------------------------------------------------------
(* DeviceJobsService: lease, report, expiry *)

\* Closing the job of a transfer whose lease or job has expired after delivery:
\* PIN entry is possible, so the outcome is unknown and every reservation stays.
\* A transfer that is already closed only has its job aligned.
AlignedState(t) ==
  IF status[t] = "success" THEN "succeeded"
  ELSE IF status[t] \in {"failed", "cancelled"} THEN "failed" ELSE "unknown"

HoldUnknown(j) ==
  LET t == j[1] IN
  IF status[t] \in Closed
  THEN UNCHANGED <<status, committed, jobCommitted, cases>>
  ELSE /\ SetStatus(t, "unknown")
       /\ committed' = [committed EXCEPT ![t] = TRUE]
       /\ jobCommitted' = [jobCommitted EXCEPT ![j] = TRUE]
       /\ OpenCase(t, "unknown_payout")

Leasable(d, j) ==
  /\ jobState[j] = "queued"
  /\ Payable(sim[j[1]])
  /\ DeviceOf[sim[j[1]]] = d

\* leaseNext on a free handset.  Jobs come in priority order; the model lets
\* any leasable job be next.
LeaseNext(d, j) ==
  /\ d \in online
  /\ activeUssdJob[d] = NoJob
  /\ Leasable(d, j)
  /\ SetJob(j, "leased")
  /\ activeUssdJob' = [activeUssdJob EXCEPT ![d] = j]
  /\ unbound' = unbound \ {j}
  /\ UNCHANGED <<transferVars, jobCommitted, fenceVars, moneyVars, recordVars, online, active>>

LostLeaseHeld_CommittedOnly(j) == jobCommitted[j] \/ jobState[j] = "provider_pending"

\* A money job that was delivered may have entered the PIN.
LostLeaseHeld(j) == jobCommitted[j] \/ jobState[j] \in {"provider_pending", "leased", "device_started"}

\* leaseNext on a handset whose job has lost its lease: a job that was delivered
\* is held unknown, any other is queued again, and the next one, if any (NoJob
\* otherwise), is leased in the same transaction.
LeaseAfterExpiry(d, j) ==
  LET k == activeUssdJob[d]
      held == LostLeaseHeld(k) IN
  /\ d \in online
  /\ k # NoJob
  /\ j # NoJob => Leasable(d, j)
  /\ IF held THEN HoldUnknown(k) /\ UNCHANGED fenceVars
     ELSE /\ AllocateFence(k, sim[k[1]])
          /\ UNCHANGED <<status, committed, jobCommitted, cases, retries, retrying>>
  /\ jobState' = [i \in Jobs |-> IF i = k THEN (IF held THEN AlignedState(k[1]) ELSE "queued")
                                ELSE IF i = j THEN "leased" ELSE jobState[i]]
  /\ activeUssdJob' = [activeUssdJob EXCEPT ![d] = j]
  /\ unbound' = unbound \ {j}
  /\ UNCHANGED <<sim, txid, attempts, moneyVars, receipt, online, active>>

Sweepable_NotPending(j) == jobState[j] \in LiveJob \ {"provider_pending"}

\* The states the minute sweep looks at.
Sweepable(j) == jobState[j] \in LiveJob

\* One job of the minute sweep (expireFinancialJobs).
ExpireFinancialJob(j) ==
  LET t == j[1] IN
  /\ Sweepable(j)
  /\ activeUssdJob' = Unlocked(j)
  /\ IF status[t] \in Closed \/ jobState[j] \in Delivered \/ jobCommitted[j]
     THEN /\ HoldUnknown(j)
          /\ SetJob(j, AlignedState(t))
          /\ UNCHANGED <<journals, reservedBalance>>
     ELSE /\ ReleaseReservations(t)
          /\ SetJob(j, "failed")
          /\ SetStatus(t, "failed")
          /\ UNCHANGED <<committed, jobCommitted, cases>>
  /\ UNCHANGED <<sim, txid, attempts, fenceVars, sentToday, receipt, fleetVars>>

\* Pairs of a job's state and a state that may be reported in it.
allowedTransitions ==
  ({"leased"} \X {"device_started", "failed", "cancelled"})
    \cup ({"device_started"} \X {"committed", "failed", "cancelled"})
    \cup ({"committed"} \X {"provider_pending", "succeeded", "failed", "unknown"})
    \cup ({"provider_pending"} \X {"succeeded", "failed", "unknown"})

\* A stop at the receiver-name screen counts as pre-commit only when the job was
\* merely started and the cloud's own comparison of the names agrees.
NameDisposition(e) ==
  IF /\ jobState[e.job] = "device_started"
     /\ ~jobCommitted[e.job]
     /\ \/ e.state = "cancelled" /\ e.name = "uncertain"
        \/ e.state = "failed" /\ e.name = "mismatch"
  THEN e.name ELSE "none"

financiallySafeReportState_TrustsScreen(e) ==
  IF e.state \in {"failed", "cancelled"} /\ (jobCommitted[e.job] \/ jobState[e.job] # "leased") THEN "unknown"
  ELSE e.state

financiallySafeReportState_CommitOnly(e) ==
  IF e.state = "succeeded" THEN "provider_pending"
  ELSE IF e.state \in {"failed", "cancelled"} /\ jobCommitted[e.job] THEN "unknown"
  ELSE e.state

financiallySafeReportState(e) ==
  IF e.state = "succeeded" THEN "provider_pending"
  ELSE IF e.state \in {"failed", "cancelled"} /\ (jobCommitted[e.job] \/ jobState[e.job] # "leased") THEN "unknown"
  ELSE e.state

EffectiveState(e) ==
  IF NameDisposition(e) = "uncertain" THEN "cancelled"
  ELSE IF NameDisposition(e) = "mismatch" THEN "failed" ELSE financiallySafeReportState(e)

\* The commit marker of the job after a report that leads to state eff.
PossibleCommit_NotUnknown(j, eff) == jobCommitted[j] \/ eff = "committed"

PossibleCommit(j, eff) == jobCommitted[j] \/ eff = "committed" \/ (eff = "unknown" /\ jobState[j] # "leased")

shouldReleaseDeviceLockAfterReport_NotCancelled(eff) == eff \in {"failed", "unknown"}

shouldReleaseDeviceLockAfterReport(eff) == eff \in {"failed", "unknown", "cancelled"}

\* The cases a report opens.
CasesOpened_NotCancelled(e, eff) ==
  (IF eff = "unknown" THEN {"unknown_payout"} ELSE {})
    \cup (IF NameDisposition(e) = "uncertain" THEN {"receiver_name_review"} ELSE {})

CasesOpened(e, eff) ==
  (IF eff = "unknown" THEN {"unknown_payout"} ELSE {})
    \cup (IF eff = "cancelled" THEN {"precommit_cancelled"} ELSE {})
    \cup (IF NameDisposition(e) = "uncertain" THEN {"receiver_name_review"} ELSE {})

StatusOf(jobst) == IF jobst = "cancelled" THEN "manual_review" ELSE jobst

\* Evidence for a job that expiry has already moved to unknown.
ReportLate(e) ==
  LET j == e.job
      possible == jobCommitted[j] \/ e.state \in {"committed", "provider_pending", "succeeded"} IN
  /\ jobState[j] = "unknown"
  /\ e.state \in {"device_started", "committed", "provider_pending", "succeeded", "failed", "unknown"}
  /\ jobCommitted' = [jobCommitted EXCEPT ![j] = possible]
  /\ committed' = [committed EXCEPT ![j[1]] = @ \/ possible]
  /\ UNCHANGED <<status, jobState, activeUssdJob, journals, reservedBalance, cases>>

\* A report of the state the job is already in.
ReportRepeated(e) ==
  /\ e.state = jobState[e.job]
  /\ e.state # "unknown"
  /\ UNCHANGED <<status, committed, jobState, jobCommitted, activeUssdJob, journals, reservedBalance, cases>>

ReportTransition(e) ==
  LET j == e.job
      t == j[1]
      eff == EffectiveState(e) IN
  /\ <<jobState[j], e.state>> \in allowedTransitions
  /\ e.state = "device_started" => Payable(sim[t]) /\ e.clockValid
  /\ SetJob(j, eff)
  /\ jobCommitted' = [jobCommitted EXCEPT ![j] = PossibleCommit(j, eff)]
  /\ SetStatus(t, StatusOf(eff))
  /\ committed' = [committed EXCEPT ![t] = @ \/ (eff \in {"committed", "unknown"} /\ PossibleCommit(j, eff))]
  /\ activeUssdJob' = IF shouldReleaseDeviceLockAfterReport(eff) THEN Unlocked(j) ELSE activeUssdJob
  /\ IF eff = "failed" THEN ReleaseReservations(t) ELSE UNCHANGED <<journals, reservedBalance>>
  /\ cases' = [cases EXCEPT ![t] = @ \cup CasesOpened(e, eff)]

\* A report that no branch accepts throws: the transaction leaves no trace and
\* the gateway does not acknowledge the event.
ReportFromSpool(d, e) ==
  /\ jobState[e.job] # "none"
  /\ DeviceOf[sim[e.job[1]]] = d
  /\ e.fence = fencingToken[e.job]
  /\ QuarantineOnBadClock(d, sim[e.job[1]], e.clockValid)
  /\ ReportLate(e) \/ ReportRepeated(e) \/ ReportTransition(e)
  /\ UNCHANGED <<sim, txid, attempts, fenceVars, sentToday, receipt>>

-----------------------------------------------------------------------------
(* SmsIngestionService: an outgoing-transfer SMS for payment x arrives from *)
(* SIM s.  Of the transfers it describes, "near" are those whose commit      *)
(* time is within the matching window and whose receiver name agrees; c      *)
(* says whether the receipt time is plausible.                               *)

Matches(s, x, near) ==
  {t \in near \cap Describes[x] :
     /\ sim[t] = s
     /\ committed[t]
     /\ status[t] \in {"committed", "provider_pending", "unknown", "failed", "success"}
     /\ status[t] = "success" => txid[t] = x}

\* ingest stores a receipt once per provider transaction.
StoreReceipt(s, x) ==
  /\ receipt[x] = NoSim
  /\ receipt' = [receipt EXCEPT ![x] = s]

\* Not exactly one match: the outflow is applied to the wallet, the SIM is
\* quarantined and a case is opened on the receipt.
UnmatchedOutgoing(s, x, near, c) ==
  /\ StoreReceipt(s, x)
  /\ \A t \in Matches(s, x, near) : Matches(s, x, near) # {t}
  /\ sentToday' = [sentToday EXCEPT ![x] = @ + 1]
  /\ online' = IF c THEN online ELSE online \ {DeviceOf[s]}
  /\ active' = active \ {s}
  /\ UNCHANGED unbound
  /\ UNCHANGED <<transferVars, jobVars, journals, reservedBalance, cases>>

\* The SMS corroborates a success staff have already settled with this id.
CorroborateOutgoing(s, x, near, c) ==
  /\ StoreReceipt(s, x)
  /\ \E t \in Matches(s, x, near) : Matches(s, x, near) = {t} /\ status[t] = "success"
  /\ QuarantineOnBadClock(DeviceOf[s], s, c)
  /\ UNCHANGED <<transferVars, jobVars, moneyVars, cases>>

SettlementJournals_NotRestored(t) == {"settlement"}

SettlementJournals(t) == IF status[t] = "failed" THEN {"restoration", "settlement"} ELSE {"settlement"}

SettledShare_Always(t) == -1

SettledShare(t) == IF status[t] = "failed" THEN 0 ELSE -1

\* The SMS settles its transfer.  After a post-commit failure resolution the
\* released reservation is restored first and its wallet share is not
\* decremented again.
SettleOutgoing(s, x, near, c, t) ==
  /\ StoreReceipt(s, x)
  /\ Matches(s, x, near) = {t}
  /\ status[t] # "success"
  /\ TxFree(t, x)
  /\ Post(SettlementJournals(t), t)
  /\ AddReserved(t, SettledShare(t))
  /\ sentToday' = [sentToday EXCEPT ![x] = @ + 1]
  /\ SetStatus(t, "success")
  /\ txid' = [txid EXCEPT ![t] = x]
  /\ SetJob(Latest(t), "succeeded")
  /\ activeUssdJob' = Unlocked(Latest(t))
  /\ cases' = [cases EXCEPT ![t] = @ \cup (IF status[t] = "failed" THEN {"late_success_after_manual_failure"} ELSE {})]
  /\ QuarantineOnBadClock(DeviceOf[s], s, c)
  /\ UNCHANGED <<committed, sim, attempts, jobCommitted, fenceVars>>

-----------------------------------------------------------------------------
(* AdminService *)

RetryCheck_Committed(j) ==
  /\ jobState[j] = "failed"
  /\ retrying[j] < MaxInFlight
  /\ retries[j] + retrying[j] < MaxRetries
  /\ retrying' = [retrying EXCEPT ![j] = @ + 1]
  /\ UNCHANGED <<transferVars, jobState, jobCommitted, activeUssdJob, fencingToken, nextFencingToken, retries,
                 moneyVars, recordVars, fleetVars>>

\* retryDeviceJob reads the job and checks it ...
RetryCheck(j) ==
  /\ jobState[j] = "failed"
  /\ ~jobCommitted[j]
  /\ retrying[j] < MaxInFlight
  /\ retries[j] + retrying[j] < MaxRetries
  /\ retrying' = [retrying EXCEPT ![j] = @ + 1]
  /\ UNCHANGED <<transferVars, jobState, jobCommitted, activeUssdJob, fencingToken, nextFencingToken, retries,
                 moneyVars, recordVars, fleetVars>>

\* ... and then, in the same transaction but at the default isolation level,
\* posts the reservation journal (the ledger returns early when it exists),
\* takes the wallet share and requeues the same job under a new fencing token,
\* without looking at the job's state again.
RetryDeviceJob(j) ==
  LET t == j[1] IN
  /\ retrying[j] > 0
  /\ retrying' = [retrying EXCEPT ![j] = @ - 1]
  /\ retries' = [retries EXCEPT ![j] = @ + 1]
  /\ Post({"reservation"}, t)
  /\ AddReserved(t, 1)
  /\ SetStatus(t, "queued")
  /\ SetJob(j, "queued")
  /\ AllocateFence(j, sim[t])
  /\ UNCHANGED <<committed, sim, txid, attempts, jobCommitted, activeUssdJob, sentToday, recordVars, fleetVars>>

\* beginDeviceRecovery clears the handset lock, once no transfer on the
\* handset's SIMs is open; the handset and its SIMs are pending again.
BeginDeviceRecovery(d) ==
  /\ d \notin online
  /\ \A t \in Transfers : sim[t] # NoSim /\ DeviceOf[sim[t]] = d =>
       /\ status[t] \notin Open
       /\ \A n \in 1..MaxAttempts : jobState[<<t, n>>] \notin LiveJob
  /\ activeUssdJob' = [activeUssdJob EXCEPT ![d] = NoJob]
  /\ active' = {s \in active : DeviceOf[s] # d}
  /\ UNCHANGED <<transferVars, jobState, jobCommitted, fenceVars, moneyVars, recordVars, online, unbound>>

\* The handset of record d is activated for another record: the binding moves, with
\* no look at what d has been given, and d's lock is cleared.
Activate(d) ==
  /\ activeUssdJob' = [activeUssdJob EXCEPT ![d] = NoJob]
  /\ unbound' = unbound \cup ({activeUssdJob[d]} \ {NoJob})
  /\ online' = online \ {d}
  /\ active' = {s \in active : DeviceOf[s] # d}
  /\ UNCHANGED <<transferVars, jobState, jobCommitted, fenceVars, moneyVars, recordVars>>

\* Heartbeats, health checks, balance staleness, quarantine, operator switches and
\* the enrolment of a record with a new activation code.
FleetChange(D, S) ==
  /\ online' = D
  /\ active' = S
  /\ UNCHANGED unbound
  /\ UNCHANGED <<transferVars, jobVars, moneyVars, recordVars>>

-----------------------------------------------------------------------------
Report == \E d \in Devices, e \in Reports : ReportFromSpool(d, e)

Staff ==
  \/ \E t \in Transfers : CancelBeforeStart(t) \/ ResolveFailed(t) \/ ApproveNameAndRetry(t)
  \/ \E t \in Transfers, x \in Payments : ResolveSuccess(t, x)
  \/ \E j \in Jobs : RetryCheck(j) \/ RetryDeviceJob(j)
  \/ \E d \in Devices : BeginDeviceRecovery(d) \/ Activate(d)

Sms ==
  \E s \in Sims, x \in Payments, c \in BOOLEAN : \E near \in SUBSET Describes[x] :
    \/ UnmatchedOutgoing(s, x, near, c)
    \/ CorroborateOutgoing(s, x, near, c)
    \/ \E t \in Transfers : SettleOutgoing(s, x, near, c, t)

Next ==
  \/ \E t \in Transfers, s \in Sims : QueueTransfer(t, s)
  \/ \E d \in Devices, j \in Jobs : LeaseNext(d, j)
  \/ \E d \in Devices, j \in Jobs \cup {NoJob} : LeaseAfterExpiry(d, j)
  \/ \E j \in Jobs : ExpireFinancialJob(j)
  \/ Report
  \/ Staff
  \/ Sms
  \/ \E D \in SUBSET Devices, S \in SUBSET Sims : FleetChange(D, S)

Spec == Init /\ [][Next]_vars

\* The minute sweep runs for every live job: expiresAt passes whatever the
\* lease renewals do.
SweepFairness == \A j \in Jobs : WF_vars(ExpireFinancialJob(j))

FairSpec == Spec /\ SweepFairness
-----------------------------------------------------------------------------
(* Properties *)

Posted(kind, t) == IF <<kind, t>> \in journals THEN 1 ELSE 0

\* What the journals leave in the merchant's reserved account for the transfer.
LedgerReserved(t) ==
  Posted("reservation", t) + Posted("restoration", t) - Posted("release", t) - Posted("settlement", t)

Held(t) == IF status[t] \in Open THEN 1 ELSE 0

Retried(t) == \E n \in 1..MaxAttempts : retries[<<t, n>>] > 0

\* The SIM wallet's reserved balance holds exactly one share for every open
\* transfer and none for a finished one, whatever order reports, expiry, SMS and
\* staff decisions come in: the counter has no idempotency guard of its own.
WalletHoldExact == \A t \in Transfers : reservedBalance[t] = Held(t)

\* The ledger's reserved account holds exactly the reservation of every open
\* transfer that staff have not retried (retryDeviceJob posts no new journal).
LedgerHoldExact == \A t \in Transfers : ~Retried(t) => LedgerReserved(t) = Held(t)

\* The same for every transfer, as docs/en/architecture.md describes an
\* explicit pre-commit failure that is requeued.
LedgerHoldsRetriedTransfer == \A t \in Transfers : LedgerReserved(t) = Held(t)

InHands(d, j) == jobState[j] \in Delivered /\ sim[j[1]] # NoSim /\ DeviceOf[sim[j[1]]] = d

\* The handset lock names a job exactly while that job is in the handset's hands,
\* whichever way it ends: no lock is left behind, and no delivered job is without its
\* lock but one whose handset was bound to another record since its last lease (activate).
LockExact == \A d \in Devices, j \in Jobs : activeUssdJob[d] = j <=> InHands(d, j) /\ j \notin unbound

\* The state of a transfer's latest job and the status the transfer then has.
Story ==
  ({"queued", "leased"} \X {"queued"}) \cup ({"succeeded"} \X {"success"})
    \cup ({"cancelled"} \X {"manual_review", "cancelled"})
    \cup {<<s, s>> : s \in {"device_started", "committed", "provider_pending", "failed", "unknown"}}

\* The latest attempt's job and its transfer tell the same story, also about
\* the commit; earlier attempts were cancelled before commit, so a withdrawal
\* has at most one committed attempt.
AttemptAgreement ==
  \A t \in Transfers :
    /\ status[t] = "none" <=> attempts[t] = 0
    /\ status[t] # "none" => /\ <<jobState[Latest(t)], status[t]>> \in Story
                             /\ committed[t] = jobCommitted[Latest(t)]
    /\ \A n \in 1..MaxAttempts :
         /\ n > attempts[t] => jobState[<<t, n>>] = "none" /\ ~jobCommitted[<<t, n>>]
         /\ n < attempts[t] => jobState[<<t, n>>] = "cancelled" /\ ~jobCommitted[<<t, n>>]

\* The commit marker and the status agree: a payout whose PIN may have been
\* entered can be found by the provider's SMS, and one that is still to be tried,
\* was stopped at the name screen or was cancelled is not marked.
CommitMarked ==
  \A t \in Transfers :
    /\ status[t] \in {"committed", "provider_pending", "unknown"} => committed[t]
    /\ status[t] \in {"none", "queued", "device_started", "manual_review", "cancelled"} => ~committed[t]

\* Money that is held while no job works on it is on staff's list: an open
\* transfer without a live job has an open reconciliation case.
NoSilentHold ==
  \A t \in Transfers :
    status[t] \in Open => jobState[Latest(t)] \in LiveJob \/ cases[t] # {}

\* A provider payment is added to the wallet's daily outflow at most once.
OutflowCountedOnce == \A x \in Payments : sentToday[x] <= 1

\* A transfer whose PIN may have been entered is never queued again and gets
\* no further attempt.
CommittedNeverRetried ==
  [][\A t \in Transfers : committed[t] => status'[t] # "queued" /\ attempts'[t] = attempts[t]]_vars

\* A job in the handset's hands is never queued again: a delivered money job that
\* loses its lease becomes unknown (docs/en/operations.md, "Device offline").
DeliveredNeverRequeued ==
  [][\A j \in Jobs : jobState[j] \in Delivered => jobState'[j] # "queued"]_vars

\* Only staff, or a name mismatch seen before the PIN, release the reservation
\* of a job that the handset has started.
StartedReleasedOnlyWithProof ==
  [][\A t \in Transfers :
       <<"release", t>> \in journals' \ journals /\ status[t] \notin {"queued", "unknown", "manual_review"}
         => /\ status[t] = "device_started" /\ ~committed[t]
            /\ Report
            /\ \A d \in Devices, e \in Reports : ReportFromSpool(d, e) => e.name = "mismatch"]_vars

\* "Actual payout rate is constrained by one USSD session per handset"
\* (docs/en/architecture.md:113).  A record that lost its lock (device-jobs.service.ts:157)
\* and is enrolled again is given a second job while the first is still delivered.
OneSession == \A d \in Devices, i, j \in Jobs : InHands(d, i) /\ InHands(d, j) => i = j

\* Every payout ends or reaches staff: the sweep sees to it even when the handset
\* never reports again.
PayoutEnds ==
  \A t \in Transfers :
    status[t] \in {"queued", "device_started", "committed", "provider_pending"} ~> status[t] \in Closed
=============================================================================
