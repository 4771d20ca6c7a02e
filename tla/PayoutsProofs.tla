---------------------------- MODULE PayoutsProofs ----------------------------
(* Theorems about Payouts for every number of transfers, handsets, SIMs,     *)
(* attempts and retries: its types; and its safety properties, with the      *)
(* inductive invariant that implies them, when staff send one retry request  *)
(* for a job at a time.                                                      *)
EXTENDS Payouts, TLAPS

\* A job is a transfer with an attempt number.
LEMMA JobParts ==
  /\ \A j \in Jobs : j[1] \in Transfers /\ j[2] \in 1..MaxAttempts /\ j = <<j[1], j[2]>>
  /\ \A t \in Transfers, n \in 1..MaxAttempts : <<t, n>> \in Jobs /\ <<t, n>>[1] = t /\ <<t, n>>[2] = n
  BY DEF Jobs

\* What the fields of a handset's report are.
LEMMA ReportParts ==
  ASSUME NEW e \in Reports
  PROVE  e.job \in Jobs /\ e.state \in ReportStates /\ e.name \in NameResults /\ e.clockValid \in BOOLEAN
  BY DEF Reports

\* What the types rest on: a job that exists has a SIM, a handset lock and a
\* retry request name a job that exists, and the retries stay within their bound.
Enrolled ==
  /\ \A t \in Transfers : status[t] # "none" => sim[t] \in Sims
  /\ \A j \in Jobs : jobState[j] # "none" => sim[j[1]] \in Sims
  /\ \A j \in Jobs : retrying[j] > 0 => jobState[j] # "none"
  /\ \A j \in Jobs : retries[j] + retrying[j] <= MaxRetries
  /\ \A d \in Devices : activeUssdJob[d] # NoJob => jobState[activeUssdJob[d]] # "none"

\* The effective state of a report, as report() computes it, is a job state and
\* never "succeeded": only an SMS or staff settle a payout.
LEMMA EffectiveStates ==
  ASSUME NEW e \in Reports, TypeOK, <<jobState[e.job], e.state>> \in allowedTransitions
  PROVE  /\ EffectiveState(e) \in {"device_started", "committed", "provider_pending", "failed", "unknown", "cancelled"}
         /\ jobState[e.job] \in Delivered
  <1>1. jobState[e.job] \in JobStates
    BY ReportParts DEF TypeOK
  <1>2. jobState[e.job] \in Delivered
    BY DEF allowedTransitions, Delivered
  <1>3. e.state \in ReportStates
    BY ReportParts
  <1> QED BY <1>1, <1>2, <1>3 DEF EffectiveState, financiallySafeReportState, NameDisposition, ReportStates, Delivered

\* A report, accepted by any of report()'s three branches, keeps the types.
LEMMA ReportTypes ==
  ASSUME TypeOK, NEW d \in Devices, NEW e \in Reports, ReportFromSpool(d, e)
  PROVE  TypeOK'
  <1> USE DEF TypeOK, ReportFromSpool, ReportLate, ReportRepeated
  <1> DEFINE j == e.job
             t == j[1]
             eff == EffectiveState(e)
  <1>0. j \in Jobs /\ t \in Transfers /\ (ReportTransition(e) => eff \in {"device_started", "committed", "provider_pending", "failed", "unknown", "cancelled"})
    BY ReportParts, JobParts, EffectiveStates DEF ReportTransition
  <1>1. status' \in [Transfers -> Statuses]
    BY <1>0 DEF ReportTransition, SetStatus, StatusOf, Statuses, Open, Closed
  <1>2. committed' \in [Transfers -> BOOLEAN] /\ jobCommitted' \in [Jobs -> BOOLEAN]
    BY <1>0 DEF ReportTransition, PossibleCommit
  <1>3. jobState' \in [Jobs -> JobStates]
    BY <1>0 DEF ReportTransition, SetJob, JobStates, LiveJob, Delivered
  <1>4. activeUssdJob' \in [Devices -> Jobs \cup {NoJob}]
    BY DEF ReportTransition, Unlocked
  <1>5. journals' \subseteq JournalTypes \X Transfers /\ reservedBalance' \in [Transfers -> Int]
    BY <1>0 DEF ReportTransition, ReleaseReservations, Post, AddReserved, JournalTypes
  <1>6. cases' \in [Transfers -> SUBSET CaseTypes]
    BY DEF ReportTransition, CasesOpened, CaseTypes
  <1>7. online' \subseteq Devices /\ active' \subseteq Sims /\ unbound' \subseteq Jobs
    BY DEF QuarantineOnBadClock
  <1>8. UNCHANGED <<sim, txid, attempts, fencingToken, retries, retrying, nextFencingToken, sentToday, receipt>>
    BY DEF fenceVars
  <1> QED BY <1>1, <1>2, <1>3, <1>4, <1>5, <1>6, <1>7, <1>8

\* Every step of the system keeps the types of its state.
LEMMA TypeStep ==
  ASSUME TypeOK, Enrolled, [Next]_vars
  PROVE  TypeOK'
  <1>1. ASSUME NEW t \in Transfers, NEW s \in Sims, QueueTransfer(t, s) PROVE TypeOK'
    <2> USE <1>1 DEF TypeOK, QueueTransfer
    <2>a. nextFencingToken[s] + 1 \in Nat
      OBVIOUS
    <2>1. status' \in [Transfers -> Statuses]
      BY DEF SetStatus, Statuses, Open, Closed
    <2>2. sim' \in [Transfers -> Sims \cup {NoSim}]
      OBVIOUS
    <2>3. attempts' \in [Transfers -> 0..MaxAttempts]
      BY PayoutsAssumption DEF CreateJob
    <2>4. jobState' \in [Jobs -> JobStates]
      BY DEF SetJob, JobStates, LiveJob, Delivered, CreateJob
    <2>5. fencingToken' \in [Jobs -> Nat]
      BY <2>a DEF AllocateFence, CreateJob
    <2>6. nextFencingToken' \in [Sims -> Nat]
      BY DEF AllocateFence, CreateJob
    <2>7. journals' \subseteq JournalTypes \X Transfers
      BY DEF ReleaseReservations, Post, JournalTypes
    <2>8. reservedBalance' \in [Transfers -> Int]
      BY DEF ReleaseReservations, AddReserved
    <2>9. UNCHANGED <<committed, txid, jobCommitted, retries, retrying, activeUssdJob, online, active, unbound, cases, receipt, sentToday>>
      BY DEF fenceVars, fleetVars, jobVars, moneyVars, recordVars, transferVars
    <2> QED BY <2>1, <2>2, <2>3, <2>4, <2>5, <2>6, <2>7, <2>8, <2>9
  <1>2. ASSUME NEW t \in Transfers, CancelBeforeStart(t) PROVE TypeOK'
    <2> USE <1>2 DEF TypeOK, CancelBeforeStart
    <2>1. status' \in [Transfers -> Statuses]
      BY DEF SetStatus, Statuses, Open, Closed
    <2>2. jobState' \in [Jobs -> JobStates]
      BY DEF SetJob, JobStates, LiveJob, Delivered
    <2>3. journals' \subseteq JournalTypes \X Transfers
      BY DEF ReleaseReservations, Post, JournalTypes
    <2>4. reservedBalance' \in [Transfers -> Int]
      BY DEF ReleaseReservations, AddReserved
    <2>5. UNCHANGED <<committed, sim, txid, attempts, jobCommitted, fencingToken, retries, retrying, nextFencingToken, activeUssdJob, online, active, unbound, cases, receipt, sentToday>>
      BY DEF fenceVars, fleetVars, jobVars, moneyVars, recordVars, transferVars
    <2> QED BY <2>1, <2>2, <2>3, <2>4, <2>5
  <1>3. ASSUME NEW t \in Transfers, NEW x \in Payments, ResolveSuccess(t, x) PROVE TypeOK'
    <2> USE <1>3 DEF TypeOK, ResolveSuccess
    <2>1. status' \in [Transfers -> Statuses]
      BY DEF SetStatus, Statuses, Open, Closed
    <2>2. txid' \in [Transfers -> Payments \cup {NoTx}]
      OBVIOUS
    <2>3. jobState' \in [Jobs -> JobStates]
      BY DEF SetJob, JobStates, LiveJob, Delivered
    <2>4. journals' \subseteq JournalTypes \X Transfers
      BY DEF ReleaseReservations, Post, JournalTypes
    <2>5. reservedBalance' \in [Transfers -> Int]
      BY DEF ReleaseReservations, AddReserved
    <2>6. cases' \in [Transfers -> SUBSET CaseTypes]
      BY DEF CaseTypes, OpenCase
    <2>7. sentToday' \in [Payments -> Nat]
      OBVIOUS
    <2>8. UNCHANGED <<committed, sim, attempts, jobCommitted, fencingToken, retries, retrying, nextFencingToken, activeUssdJob, online, active, unbound, receipt>>
      BY DEF fenceVars, fleetVars, jobVars, recordVars, transferVars
    <2> QED BY <2>1, <2>2, <2>3, <2>4, <2>5, <2>6, <2>7, <2>8
  <1>4. ASSUME NEW t \in Transfers, ResolveFailed(t) PROVE TypeOK'
    <2> USE <1>4 DEF TypeOK, ResolveFailed
    <2>1. status' \in [Transfers -> Statuses]
      BY DEF SetStatus, Statuses, Open, Closed
    <2>2. jobState' \in [Jobs -> JobStates]
      BY DEF SetJob, JobStates, LiveJob, Delivered
    <2>3. journals' \subseteq JournalTypes \X Transfers
      BY DEF ReleaseReservations, Post, JournalTypes
    <2>4. reservedBalance' \in [Transfers -> Int]
      BY DEF ReleaseReservations, AddReserved
    <2>5. cases' \in [Transfers -> SUBSET CaseTypes]
      BY DEF CaseTypes, OpenCase
    <2>6. UNCHANGED <<committed, sim, txid, attempts, jobCommitted, fencingToken, retries, retrying, nextFencingToken, activeUssdJob, online, active, unbound, receipt, sentToday>>
      BY DEF fenceVars, fleetVars, jobVars, moneyVars, recordVars, transferVars
    <2> QED BY <2>1, <2>2, <2>3, <2>4, <2>5, <2>6
  <1>5. ASSUME NEW t \in Transfers, ApproveNameAndRetry(t) PROVE TypeOK'
    <2> USE <1>5 DEF TypeOK, ApproveNameAndRetry
    <2>a. sim[t] \in Sims /\ nextFencingToken[sim[t]] + 1 \in Nat
      BY DEF Enrolled
    <2>1. status' \in [Transfers -> Statuses]
      BY DEF SetStatus, Statuses, Open, Closed
    <2>2. attempts' \in [Transfers -> 0..MaxAttempts]
      BY PayoutsAssumption DEF CreateJob
    <2>3. jobState' \in [Jobs -> JobStates]
      BY DEF SetJob, JobStates, LiveJob, Delivered, CreateJob
    <2>4. fencingToken' \in [Jobs -> Nat]
      BY <2>a DEF AllocateFence, CreateJob
    <2>5. nextFencingToken' \in [Sims -> Nat]
      BY <2>a DEF AllocateFence, CreateJob
    <2>6. cases' \in [Transfers -> SUBSET CaseTypes]
      BY DEF CaseTypes, OpenCase
    <2>7. UNCHANGED <<committed, sim, txid, jobCommitted, retries, retrying, activeUssdJob, online, active, unbound, journals, reservedBalance, receipt, sentToday>>
      BY DEF fenceVars, fleetVars, jobVars, moneyVars, recordVars, transferVars
    <2> QED BY <2>1, <2>2, <2>3, <2>4, <2>5, <2>6, <2>7
  <1>6. ASSUME NEW d \in Devices, NEW j \in Jobs, LeaseNext(d, j) PROVE TypeOK'
    <2> USE <1>6 DEF TypeOK, LeaseNext
    <2>1. jobState' \in [Jobs -> JobStates]
      BY DEF SetJob, JobStates, LiveJob, Delivered
    <2>2. activeUssdJob' \in [Devices -> Jobs \cup {NoJob}]
      BY DEF Unlocked
    <2>3. UNCHANGED <<status, committed, sim, txid, attempts, jobCommitted, fencingToken, retries, retrying, nextFencingToken, online, active, journals, reservedBalance, cases, receipt, sentToday>>
      BY DEF fenceVars, fleetVars, jobVars, moneyVars, recordVars, transferVars
    <2> QED BY <2>1, <2>2, <2>3
  <1>7. ASSUME NEW d \in Devices, NEW j \in Jobs \cup {NoJob}, LeaseAfterExpiry(d, j) PROVE TypeOK'
    <2> USE <1>7 DEF TypeOK, LeaseAfterExpiry
    <2>a. activeUssdJob[d] \in Jobs /\ sim[activeUssdJob[d][1]] \in Sims
      BY DEF Enrolled
    <2>1. status' \in [Transfers -> Statuses]
      BY DEF SetStatus, Statuses, Open, Closed, HoldUnknown
    <2>2. committed' \in [Transfers -> BOOLEAN]
      BY DEF HoldUnknown
    <2>3. jobCommitted' \in [Jobs -> BOOLEAN]
      BY DEF HoldUnknown
    <2>4. cases' \in [Transfers -> SUBSET CaseTypes]
      BY DEF CaseTypes, OpenCase, HoldUnknown
    <2>5. jobState' \in [Jobs -> JobStates]
      BY DEF SetJob, JobStates, LiveJob, Delivered, AlignedState
    <2>6. fencingToken' \in [Jobs -> Nat]
      BY <2>a DEF AllocateFence, fenceVars
    <2>7. retries' \in [Jobs -> 0..MaxRetries]
      BY DEF fenceVars
    <2>8. retrying' \in [Jobs -> 0..MaxInFlight]
      BY DEF fenceVars
    <2>9. nextFencingToken' \in [Sims -> Nat]
      BY <2>a DEF AllocateFence, fenceVars
    <2>10. activeUssdJob' \in [Devices -> Jobs \cup {NoJob}]
      BY DEF Unlocked
    <2>11. UNCHANGED <<sim, txid, attempts, online, active, journals, reservedBalance, receipt, sentToday>>
      BY DEF fleetVars, moneyVars, recordVars, transferVars
    <2>12. unbound' \subseteq Jobs
      OBVIOUS
    <2> QED BY <2>1, <2>2, <2>3, <2>4, <2>5, <2>6, <2>7, <2>8, <2>9, <2>10, <2>11, <2>12
  <1>8. ASSUME NEW j \in Jobs, ExpireFinancialJob(j) PROVE TypeOK'
    <2> USE <1>8 DEF TypeOK, ExpireFinancialJob
    <2>1. status' \in [Transfers -> Statuses]
      BY DEF SetStatus, Statuses, Open, Closed, HoldUnknown
    <2>2. committed' \in [Transfers -> BOOLEAN]
      BY DEF HoldUnknown
    <2>3. jobCommitted' \in [Jobs -> BOOLEAN]
      BY DEF HoldUnknown
    <2>4. cases' \in [Transfers -> SUBSET CaseTypes]
      BY DEF CaseTypes, OpenCase, HoldUnknown
    <2>5. jobState' \in [Jobs -> JobStates]
      BY DEF SetJob, JobStates, LiveJob, Delivered, AlignedState
    <2>6. activeUssdJob' \in [Devices -> Jobs \cup {NoJob}]
      BY DEF Unlocked
    <2>7. journals' \subseteq JournalTypes \X Transfers
      BY JobParts DEF ReleaseReservations, Post, JournalTypes
    <2>8. reservedBalance' \in [Transfers -> Int]
      BY DEF ReleaseReservations, AddReserved
    <2>9. UNCHANGED <<sim, txid, attempts, fencingToken, retries, retrying, nextFencingToken, online, active, unbound, receipt, sentToday>>
      BY DEF fenceVars, fleetVars, moneyVars, recordVars, transferVars
    <2> QED BY <2>1, <2>2, <2>3, <2>4, <2>5, <2>6, <2>7, <2>8, <2>9
  <1>9. ASSUME NEW d \in Devices, NEW e \in Reports, ReportFromSpool(d, e) PROVE TypeOK'
    BY <1>9, ReportTypes
  <1>10. ASSUME NEW s \in Sims, NEW x \in Payments, NEW near, NEW c, UnmatchedOutgoing(s, x, near, c) PROVE TypeOK'
    <2> USE <1>10 DEF TypeOK, UnmatchedOutgoing
    <2>1. online' \subseteq Devices
      BY DEF QuarantineOnBadClock
    <2>2. active' \subseteq Sims /\ unbound' \subseteq Jobs
      BY DEF QuarantineOnBadClock
    <2>3. receipt' \in [Payments -> Sims \cup {NoSim}]
      BY DEF StoreReceipt
    <2>4. sentToday' \in [Payments -> Nat]
      OBVIOUS
    <2>5. UNCHANGED <<status, committed, sim, txid, attempts, jobState, jobCommitted, fencingToken, retries, retrying, nextFencingToken, activeUssdJob, journals, reservedBalance, cases>>
      BY DEF fenceVars, jobVars, moneyVars, recordVars, transferVars
    <2> QED BY <2>1, <2>2, <2>3, <2>4, <2>5
  <1>11. ASSUME NEW s \in Sims, NEW x \in Payments, NEW near, NEW c, CorroborateOutgoing(s, x, near, c) PROVE TypeOK'
    <2> USE <1>11 DEF TypeOK, CorroborateOutgoing
    <2>1. online' \subseteq Devices
      BY DEF QuarantineOnBadClock
    <2>2. active' \subseteq Sims /\ unbound' \subseteq Jobs
      BY DEF QuarantineOnBadClock
    <2>3. receipt' \in [Payments -> Sims \cup {NoSim}]
      BY DEF StoreReceipt
    <2>4. UNCHANGED <<status, committed, sim, txid, attempts, jobState, jobCommitted, fencingToken, retries, retrying, nextFencingToken, activeUssdJob, journals, reservedBalance, cases, sentToday>>
      BY DEF fenceVars, jobVars, moneyVars, recordVars, transferVars
    <2> QED BY <2>1, <2>2, <2>3, <2>4
  <1>12. ASSUME NEW s \in Sims, NEW x \in Payments, NEW near, NEW c, NEW t \in Transfers, SettleOutgoing(s, x, near, c, t) PROVE TypeOK'
    <2> USE <1>12 DEF TypeOK, SettleOutgoing
    <2>1. status' \in [Transfers -> Statuses]
      BY DEF SetStatus, Statuses, Open, Closed
    <2>2. txid' \in [Transfers -> Payments \cup {NoTx}]
      OBVIOUS
    <2>3. jobState' \in [Jobs -> JobStates]
      BY DEF SetJob, JobStates, LiveJob, Delivered
    <2>4. activeUssdJob' \in [Devices -> Jobs \cup {NoJob}]
      BY DEF Unlocked
    <2>5. online' \subseteq Devices
      BY DEF QuarantineOnBadClock
    <2>6. active' \subseteq Sims /\ unbound' \subseteq Jobs
      BY DEF QuarantineOnBadClock
    <2>7. journals' \subseteq JournalTypes \X Transfers
      BY DEF ReleaseReservations, Post, JournalTypes, SettlementJournals
    <2>8. reservedBalance' \in [Transfers -> Int]
      BY DEF ReleaseReservations, AddReserved, SettledShare
    <2>9. cases' \in [Transfers -> SUBSET CaseTypes]
      BY DEF CaseTypes, OpenCase
    <2>10. receipt' \in [Payments -> Sims \cup {NoSim}]
      BY DEF StoreReceipt
    <2>11. sentToday' \in [Payments -> Nat]
      OBVIOUS
    <2>12. UNCHANGED <<committed, sim, attempts, jobCommitted, fencingToken, retries, retrying, nextFencingToken>>
      BY DEF fenceVars, jobVars, transferVars
    <2> QED BY <2>1, <2>2, <2>3, <2>4, <2>5, <2>6, <2>7, <2>8, <2>9, <2>10, <2>11, <2>12
  <1>13. ASSUME NEW j \in Jobs, RetryCheck(j) PROVE TypeOK'
    <2> USE <1>13 DEF TypeOK, RetryCheck
    <2>1. retrying' \in [Jobs -> 0..MaxInFlight]
      BY PayoutsAssumption
    <2>2. UNCHANGED <<status, committed, sim, txid, attempts, jobState, jobCommitted, fencingToken, retries, nextFencingToken, activeUssdJob, online, active, unbound, journals, reservedBalance, cases, receipt, sentToday>>
      BY DEF fenceVars, fleetVars, jobVars, moneyVars, recordVars, transferVars
    <2> QED BY <2>1, <2>2
  <1>14. ASSUME NEW j \in Jobs, RetryDeviceJob(j) PROVE TypeOK'
    <2> USE <1>14 DEF TypeOK, RetryDeviceJob
    <2>a. sim[j[1]] \in Sims /\ retries[j] + 1 \in 0..MaxRetries /\ retrying[j] - 1 \in 0..MaxInFlight
      BY PayoutsAssumption DEF Enrolled
    <2>1. status' \in [Transfers -> Statuses]
      BY DEF SetStatus, Statuses, Open, Closed
    <2>2. jobState' \in [Jobs -> JobStates]
      BY DEF SetJob, JobStates, LiveJob, Delivered
    <2>3. fencingToken' \in [Jobs -> Nat]
      BY <2>a DEF AllocateFence
    <2>4. nextFencingToken' \in [Sims -> Nat]
      BY <2>a DEF AllocateFence
    <2>5. retries' \in [Jobs -> 0..MaxRetries]
      BY <2>a
    <2>6. retrying' \in [Jobs -> 0..MaxInFlight]
      BY <2>a
    <2>7. journals' \subseteq JournalTypes \X Transfers
      BY JobParts DEF ReleaseReservations, Post, JournalTypes
    <2>8. reservedBalance' \in [Transfers -> Int]
      BY JobParts DEF ReleaseReservations, AddReserved
    <2>9. UNCHANGED <<committed, sim, txid, attempts, jobCommitted, activeUssdJob, online, active, unbound, cases, receipt, sentToday>>
      BY DEF fleetVars, jobVars, moneyVars, recordVars, transferVars
    <2> QED BY <2>1, <2>2, <2>3, <2>4, <2>5, <2>6, <2>7, <2>8, <2>9
  <1>15. ASSUME NEW d \in Devices, BeginDeviceRecovery(d) PROVE TypeOK'
    <2> USE <1>15 DEF TypeOK, BeginDeviceRecovery
    <2>1. activeUssdJob' \in [Devices -> Jobs \cup {NoJob}]
      BY DEF Unlocked
    <2>2. active' \subseteq Sims
      BY DEF QuarantineOnBadClock
    <2>3. UNCHANGED <<status, committed, sim, txid, attempts, jobState, jobCommitted, fencingToken, retries, retrying, nextFencingToken, online, unbound, journals, reservedBalance, cases, receipt, sentToday>>
      BY DEF fenceVars, fleetVars, jobVars, moneyVars, recordVars, transferVars
    <2> QED BY <2>1, <2>2, <2>3
  <1>16. ASSUME NEW D \in SUBSET Devices, NEW S \in SUBSET Sims, FleetChange(D, S) PROVE TypeOK'
    <2> USE <1>16 DEF TypeOK, FleetChange
    <2>1. online' \subseteq Devices
      BY DEF QuarantineOnBadClock
    <2>2. active' \subseteq Sims
      BY DEF QuarantineOnBadClock
    <2>3. UNCHANGED <<status, committed, sim, txid, attempts, jobState, jobCommitted, fencingToken, retries, retrying, nextFencingToken, activeUssdJob, unbound, journals, reservedBalance, cases, receipt, sentToday>>
      BY DEF fenceVars, jobVars, moneyVars, recordVars, transferVars
    <2> QED BY <2>1, <2>2, <2>3
  <1>17. ASSUME NEW d \in Devices, Activate(d) PROVE TypeOK'
    <2> USE <1>17 DEF TypeOK, Activate
    <2>1. activeUssdJob' \in [Devices -> Jobs \cup {NoJob}] /\ unbound' \subseteq Jobs
      OBVIOUS
    <2>2. online' \subseteq Devices /\ active' \subseteq Sims
      OBVIOUS
    <2>3. UNCHANGED <<status, committed, sim, txid, attempts, jobState, jobCommitted, fencingToken, retries, retrying, nextFencingToken, journals, reservedBalance, cases, receipt, sentToday>>
      BY DEF fenceVars, moneyVars, recordVars, transferVars
    <2> QED BY <2>1, <2>2, <2>3
  <1>18. ASSUME UNCHANGED vars PROVE TypeOK'
    BY <1>18 DEF TypeOK, vars, transferVars, jobVars, fenceVars, moneyVars, recordVars, fleetVars
  <1> QED BY <1>1, <1>2, <1>3, <1>4, <1>5, <1>6, <1>7, <1>8, <1>9, <1>10, <1>11, <1>12, <1>13, <1>14, <1>15, <1>16, <1>17, <1>18 DEF Next, Report, Staff, Sms

\* A step that creates no job, leaves the SIMs and the retry counters alone, and
\* locks no handset for a job that does not exist, keeps Enrolled.
LEMMA EnrolledKept ==
  ASSUME TypeOK, Enrolled, TypeOK',
         UNCHANGED <<sim, retries, retrying>>,
         \A t \in Transfers : status'[t] # status[t] => sim[t] \in Sims,
         \A j \in Jobs : jobState'[j] # jobState[j] => jobState'[j] # "none" /\ sim[j[1]] \in Sims,
         \A d \in Devices : activeUssdJob'[d] \in {activeUssdJob[d], NoJob}
                              \/ (activeUssdJob'[d] \in Jobs /\ jobState[activeUssdJob'[d]] # "none")
  PROVE  Enrolled'
  <1>1. \A t \in Transfers : status'[t] # "none" => sim'[t] \in Sims
    BY DEF Enrolled
  <1>2. \A j \in Jobs : jobState'[j] # "none" => sim'[j[1]] \in Sims
    BY DEF Enrolled
  <1>3. \A j \in Jobs : retrying'[j] > 0 => jobState'[j] # "none"
    BY DEF Enrolled
  <1>4. \A j \in Jobs : retries'[j] + retrying'[j] <= MaxRetries
    BY DEF Enrolled
  <1>5. \A d \in Devices : activeUssdJob'[d] # NoJob => jobState'[activeUssdJob'[d]] # "none"
    BY DEF Enrolled, TypeOK
  <1> QED BY <1>1, <1>2, <1>3, <1>4, <1>5 DEF Enrolled

\* Every step keeps Enrolled.
LEMMA EnrolledStep ==
  ASSUME TypeOK, Enrolled, TypeOK', [Next]_vars
  PROVE  Enrolled'
  <1> USE DEF SetStatus, SetJob
  <1>1. ASSUME NEW t \in Transfers, NEW s \in Sims, QueueTransfer(t, s) PROVE Enrolled'
    <2>1. /\ status' = [status EXCEPT ![t] = "queued"] /\ sim' = [sim EXCEPT ![t] = s]
          /\ jobState' = [jobState EXCEPT ![<<t, 1>>] = "queued"]
          /\ UNCHANGED <<retries, retrying, activeUssdJob>>
      BY <1>1 DEF QueueTransfer, CreateJob
    <2>2. sim \in [Transfers -> Sims \cup {NoSim}] /\ jobState \in [Jobs -> JobStates]
          /\ activeUssdJob \in [Devices -> Jobs \cup {NoJob}]
      BY DEF TypeOK
    <2>3. \A j \in Jobs : jobState'[j] # "none" => sim'[j[1]] \in Sims
      BY <2>1, <2>2, JobParts DEF Enrolled
    <2>4. \A u \in Transfers : status'[u] # "none" => sim'[u] \in Sims
      BY <2>1, <2>2 DEF Enrolled, TypeOK
    <2>5. \A j \in Jobs : jobState[j] # "none" => jobState'[j] # "none"
      BY <2>1, <2>2
    <2> QED BY <2>1, <2>2, <2>3, <2>4, <2>5 DEF Enrolled
  <1>2. ASSUME NEW t \in Transfers, CancelBeforeStart(t) PROVE Enrolled'
    <2>1. status[t] # "none" /\ sim[t] \in Sims
      BY <1>2 DEF CancelBeforeStart, Enrolled
    <2>2. \A u \in Transfers : status'[u] # status[u] => u = t
      BY <1>2 DEF CancelBeforeStart, TypeOK
    <2>3. \A j \in Jobs : jobState'[j] # jobState[j] => jobState'[j] # "none" /\ j[1] = t
      BY <1>2, JobParts DEF CancelBeforeStart, TypeOK, Latest
    <2>4. UNCHANGED <<sim, retries, retrying>>
      BY <1>2 DEF CancelBeforeStart, fenceVars
    <2>5. \A d \in Devices : activeUssdJob'[d] \in {activeUssdJob[d], NoJob}
      BY <1>2 DEF CancelBeforeStart, TypeOK, Unlocked
    <2> QED BY <2>1, <2>2, <2>3, <2>4, <2>5, EnrolledKept
  <1>3. ASSUME NEW t \in Transfers, NEW x \in Payments, ResolveSuccess(t, x) PROVE Enrolled'
    <2>1. status[t] # "none" /\ sim[t] \in Sims
      BY <1>3 DEF ResolveSuccess, Enrolled
    <2>2. \A u \in Transfers : status'[u] # status[u] => u = t
      BY <1>3 DEF ResolveSuccess, TypeOK
    <2>3. \A j \in Jobs : jobState'[j] # jobState[j] => jobState'[j] # "none" /\ j[1] = t
      BY <1>3, JobParts DEF ResolveSuccess, TypeOK, Latest
    <2>4. UNCHANGED <<sim, retries, retrying>>
      BY <1>3 DEF ResolveSuccess, fenceVars
    <2>5. \A d \in Devices : activeUssdJob'[d] \in {activeUssdJob[d], NoJob}
      BY <1>3 DEF ResolveSuccess, TypeOK, Unlocked
    <2> QED BY <2>1, <2>2, <2>3, <2>4, <2>5, EnrolledKept
  <1>4. ASSUME NEW t \in Transfers, ResolveFailed(t) PROVE Enrolled'
    <2>1. status[t] # "none" /\ sim[t] \in Sims
      BY <1>4 DEF ResolveFailed, Enrolled
    <2>2. \A u \in Transfers : status'[u] # status[u] => u = t
      BY <1>4 DEF ResolveFailed, TypeOK
    <2>3. \A j \in Jobs : jobState'[j] # jobState[j] => jobState'[j] # "none" /\ j[1] = t
      BY <1>4, JobParts DEF ResolveFailed, TypeOK, Latest
    <2>4. UNCHANGED <<sim, retries, retrying>>
      BY <1>4 DEF ResolveFailed, fenceVars
    <2>5. \A d \in Devices : activeUssdJob'[d] \in {activeUssdJob[d], NoJob}
      BY <1>4 DEF ResolveFailed, TypeOK, Unlocked
    <2> QED BY <2>1, <2>2, <2>3, <2>4, <2>5, EnrolledKept
  <1>5. ASSUME NEW t \in Transfers, ApproveNameAndRetry(t) PROVE Enrolled'
    <2>1. status[t] # "none" /\ sim[t] \in Sims
      BY <1>5 DEF ApproveNameAndRetry, CreateJob, Enrolled
    <2>2. \A u \in Transfers : status'[u] # status[u] => u = t
      BY <1>5 DEF ApproveNameAndRetry, CreateJob, TypeOK
    <2>3. \A j \in Jobs : jobState'[j] # jobState[j] => jobState'[j] # "none" /\ j[1] = t
      BY <1>5, JobParts DEF ApproveNameAndRetry, CreateJob, TypeOK, Latest
    <2>4. UNCHANGED <<sim, retries, retrying>>
      BY <1>5 DEF ApproveNameAndRetry, CreateJob, fenceVars
    <2>5. \A d \in Devices : activeUssdJob'[d] \in {activeUssdJob[d], NoJob}
      BY <1>5 DEF ApproveNameAndRetry, CreateJob, TypeOK, Unlocked
    <2> QED BY <2>1, <2>2, <2>3, <2>4, <2>5, EnrolledKept
  <1>6. ASSUME NEW d \in Devices, NEW j \in Jobs, LeaseNext(d, j) PROVE Enrolled'
    <2>1. jobState[j] # "none" /\ sim[j[1]] \in Sims
      BY <1>6 DEF LeaseNext, Leasable, Enrolled
    <2>2. UNCHANGED <<status, sim, retries, retrying>>
      BY <1>6 DEF LeaseNext, transferVars, fenceVars
    <2>3. \A i \in Jobs : jobState'[i] # jobState[i] => jobState'[i] # "none" /\ i = j
      BY <1>6 DEF LeaseNext, TypeOK
    <2>4. \A b \in Devices : activeUssdJob'[b] \in {activeUssdJob[b], j}
      BY <1>6 DEF LeaseNext, TypeOK
    <2> QED BY <2>1, <2>2, <2>3, <2>4, EnrolledKept
  <1>7. ASSUME NEW d \in Devices, NEW j \in Jobs \cup {NoJob}, LeaseAfterExpiry(d, j) PROVE Enrolled'
    <2> DEFINE k == activeUssdJob[d]
    <2>1. k \in Jobs /\ k[1] \in Transfers /\ jobState[k] # "none" /\ sim[k[1]] \in Sims
      BY <1>7, JobParts DEF LeaseAfterExpiry, Enrolled, TypeOK
    <2>2. j # NoJob => j \in Jobs /\ jobState[j] # "none" /\ sim[j[1]] \in Sims
      BY <1>7 DEF LeaseAfterExpiry, Leasable, Enrolled
    <2>3. UNCHANGED <<sim, retries, retrying>>
      BY <1>7 DEF LeaseAfterExpiry, fenceVars
    <2>4. \A t \in Transfers : status'[t] # status[t] => t = k[1]
      BY <1>7, <2>1 DEF LeaseAfterExpiry, HoldUnknown, TypeOK
    <2>5. \A i \in Jobs : jobState'[i] # jobState[i] => jobState'[i] # "none" /\ i \in {k, j}
      BY <1>7 DEF LeaseAfterExpiry, AlignedState
    <2>6. \A b \in Devices : activeUssdJob'[b] \in {activeUssdJob[b], j}
      BY <1>7 DEF LeaseAfterExpiry, TypeOK
    <2>7. \A i \in Jobs : jobState'[i] # jobState[i] => jobState'[i] # "none" /\ sim[i[1]] \in Sims
      BY <2>1, <2>2, <2>5, PayoutsAssumption
    <2>8. \A b \in Devices : activeUssdJob'[b] \in {activeUssdJob[b], NoJob}
                              \/ (activeUssdJob'[b] \in Jobs /\ jobState[activeUssdJob'[b]] # "none")
      BY <2>2, <2>6
    <2> QED BY <2>1, <2>3, <2>4, <2>7, <2>8, EnrolledKept
  <1>8. ASSUME NEW j \in Jobs, ExpireFinancialJob(j) PROVE Enrolled'
    <2>1. sim[j[1]] \in Sims
      BY <1>8 DEF ExpireFinancialJob, Sweepable, LiveJob, Delivered, Enrolled
    <2>2. \A t \in Transfers : status'[t] # status[t] => t = j[1]
      BY <1>8, JobParts DEF ExpireFinancialJob, HoldUnknown, TypeOK
    <2>3. \A i \in Jobs : jobState'[i] # jobState[i] => jobState'[i] # "none" /\ i = j
      BY <1>8 DEF ExpireFinancialJob, AlignedState, TypeOK
    <2>4. UNCHANGED <<sim, retries, retrying>>
      BY <1>8 DEF ExpireFinancialJob, fenceVars
    <2>5. \A d \in Devices : activeUssdJob'[d] \in {activeUssdJob[d], NoJob}
      BY <1>8 DEF ExpireFinancialJob, Unlocked
    <2> QED BY <2>1, <2>2, <2>3, <2>4, <2>5, EnrolledKept
  <1>9. ASSUME NEW d \in Devices, NEW e \in Reports, ReportFromSpool(d, e) PROVE Enrolled'
    <2>1. e.job \in Jobs /\ e.job[1] \in Transfers /\ sim[e.job[1]] \in Sims
      BY <1>9, ReportParts, JobParts DEF ReportFromSpool, Enrolled
    <2>2. \A t \in Transfers : status'[t] # status[t] => t = e.job[1]
      BY <1>9 DEF ReportFromSpool, ReportLate, ReportRepeated, ReportTransition, TypeOK
    <2>3. \A i \in Jobs : jobState'[i] # jobState[i] => i = e.job /\ ReportTransition(e) /\ jobState'[i] = EffectiveState(e)
      BY <1>9 DEF ReportFromSpool, ReportLate, ReportRepeated, ReportTransition, TypeOK
    <2>4. ReportTransition(e) => EffectiveState(e) # "none"
      BY EffectiveStates DEF ReportTransition
    <2>5. UNCHANGED <<sim, retries, retrying>>
      BY <1>9 DEF ReportFromSpool, fenceVars
    <2>6. \A b \in Devices : activeUssdJob'[b] \in {activeUssdJob[b], NoJob}
      BY <1>9 DEF ReportFromSpool, ReportLate, ReportRepeated, ReportTransition, Unlocked
    <2> QED BY <2>1, <2>2, <2>3, <2>4, <2>5, <2>6, EnrolledKept
  <1>10. ASSUME NEW s \in Sims, NEW x \in Payments, NEW near, NEW c, UnmatchedOutgoing(s, x, near, c) PROVE Enrolled'
    BY <1>10 DEF UnmatchedOutgoing, transferVars, jobVars, fenceVars, Enrolled
  <1>11. ASSUME NEW s \in Sims, NEW x \in Payments, NEW near, NEW c, CorroborateOutgoing(s, x, near, c) PROVE Enrolled'
    BY <1>11 DEF CorroborateOutgoing, transferVars, jobVars, fenceVars, Enrolled
  <1>12. ASSUME NEW s \in Sims, NEW x \in Payments, NEW near, NEW c, NEW t \in Transfers, SettleOutgoing(s, x, near, c, t) PROVE Enrolled'
    <2>1. sim[t] \in Sims
      BY <1>12 DEF SettleOutgoing, Matches
    <2>2. \A u \in Transfers : status'[u] # status[u] => u = t
      BY <1>12 DEF SettleOutgoing, TypeOK
    <2>3. \A j \in Jobs : jobState'[j] # jobState[j] => jobState'[j] # "none" /\ j[1] = t
      BY <1>12, JobParts DEF SettleOutgoing, TypeOK, Latest
    <2>4. UNCHANGED <<sim, retries, retrying>>
      BY <1>12 DEF SettleOutgoing, fenceVars
    <2>5. \A d \in Devices : activeUssdJob'[d] \in {activeUssdJob[d], NoJob}
      BY <1>12 DEF SettleOutgoing, Unlocked
    <2> QED BY <2>1, <2>2, <2>3, <2>4, <2>5, EnrolledKept
  <1>13. ASSUME NEW j \in Jobs, RetryCheck(j) PROVE Enrolled'
    <2>1. \A i \in Jobs : retrying'[i] = IF i = j THEN retrying[i] + 1 ELSE retrying[i]
      BY <1>13 DEF RetryCheck, TypeOK
    <2>2. UNCHANGED <<status, sim, jobState, retries, activeUssdJob>>
      BY <1>13 DEF RetryCheck, transferVars
    <2>3. jobState[j] # "none" /\ retries[j] + (retrying[j] + 1) <= MaxRetries
      BY <1>13, PayoutsAssumption DEF RetryCheck, TypeOK
    <2> QED BY <2>1, <2>2, <2>3 DEF Enrolled
  <1>14. ASSUME NEW j \in Jobs, RetryDeviceJob(j) PROVE Enrolled'
    <2>1. \A i \in Jobs : retrying'[i] = (IF i = j THEN retrying[i] - 1 ELSE retrying[i])
                          /\ retries'[i] = (IF i = j THEN retries[i] + 1 ELSE retries[i])
      BY <1>14 DEF RetryDeviceJob, TypeOK
    <2>2. \A i \in Jobs : jobState'[i] = IF i = j THEN "queued" ELSE jobState[i]
      BY <1>14 DEF RetryDeviceJob, TypeOK
    <2>3. UNCHANGED <<sim, activeUssdJob>>
      BY <1>14 DEF RetryDeviceJob
    <2>4. jobState[j] # "none" /\ sim[j[1]] \in Sims
      BY <1>14 DEF RetryDeviceJob, Enrolled
    <2>5. \A t \in Transfers : status'[t] # status[t] => t = j[1]
      BY <1>14 DEF RetryDeviceJob, TypeOK
    <2>6. \A i \in Jobs : retries'[i] + retrying'[i] <= MaxRetries
      <3> TAKE i \in Jobs
      <3>1. retries[i] \in Int /\ retrying[i] \in Int /\ retries[i] + retrying[i] <= MaxRetries
        BY PayoutsAssumption DEF Enrolled, TypeOK
      <3> QED BY <2>1, <3>1
    <2>7. \A i \in Jobs : retrying'[i] > 0 => jobState'[i] # "none"
      BY <2>1, <2>2 DEF Enrolled
    <2>8. \A d \in Devices : activeUssdJob'[d] # NoJob => jobState'[activeUssdJob'[d]] # "none"
      BY <2>2, <2>3 DEF Enrolled, TypeOK
    <2>9. \A t \in Transfers : status'[t] # "none" => sim'[t] \in Sims
      BY <2>3, <2>4, <2>5 DEF Enrolled
    <2>10. \A i \in Jobs : jobState'[i] # "none" => sim'[i[1]] \in Sims
      BY <2>2, <2>3, <2>4 DEF Enrolled
    <2> QED BY <2>6, <2>7, <2>8, <2>9, <2>10 DEF Enrolled
  <1>15. ASSUME NEW d \in Devices, BeginDeviceRecovery(d) PROVE Enrolled'
    <2>1. \A b \in Devices : activeUssdJob'[b] \in {activeUssdJob[b], NoJob}
      BY <1>15 DEF BeginDeviceRecovery, TypeOK
    <2> QED BY <1>15, <2>1, EnrolledKept DEF BeginDeviceRecovery, transferVars, fenceVars
  <1>16. ASSUME NEW D \in SUBSET Devices, NEW S \in SUBSET Sims, FleetChange(D, S) PROVE Enrolled'
    BY <1>16 DEF FleetChange, transferVars, jobVars, fenceVars, Enrolled
  <1>17. ASSUME NEW d \in Devices, Activate(d) PROVE Enrolled'
    <2>1. \A b \in Devices : activeUssdJob'[b] \in {activeUssdJob[b], NoJob}
      BY <1>17 DEF Activate, TypeOK
    <2> QED BY <1>17, <2>1, EnrolledKept DEF Activate, transferVars, fenceVars
  <1>18. ASSUME UNCHANGED vars PROVE Enrolled'
    BY <1>18 DEF vars, transferVars, jobVars, fenceVars, Enrolled
  <1> QED BY <1>1, <1>2, <1>3, <1>4, <1>5, <1>6, <1>7, <1>8, <1>9, <1>10, <1>11, <1>12, <1>13, <1>14, <1>15, <1>16, <1>17, <1>18 DEF Next, Report, Staff, Sms

\* Payouts' state keeps its types, whatever the constants: in particular every
\* job that is created, leased or retried draws its fencing token from a SIM the
\* transfer is assigned to.
THEOREM TypeCorrect == Spec => []TypeOK
  <1>1. Init => TypeOK /\ Enrolled
    BY PayoutsAssumption DEF Init, TypeOK, Enrolled, Statuses, JobStates
  <1>2. TypeOK /\ Enrolled /\ [Next]_vars => TypeOK' /\ Enrolled'
    BY TypeStep, EnrolledStep
  <1> QED BY <1>1, <1>2, PTL DEF Spec

-----------------------------------------------------------------------------
(* The safety properties.                                                    *)

\* Which journals a transfer that staff have not retried has, by its status.
Books(t) ==
  /\ <<"reservation", t>> \in journals <=> status[t] # "none"
  /\ <<"settlement", t>> \in journals <=> status[t] = "success"
  /\ status[t] \in Open \cup {"none"} => <<"release", t>> \notin journals
  /\ status[t] \in {"failed", "cancelled"} => <<"release", t>> \in journals
  /\ status[t] # "success" => <<"restoration", t>> \notin journals
  /\ status[t] = "success" => (<<"release", t>> \in journals <=> <<"restoration", t>> \in journals)

\* What the attempts of a transfer look like, next to AttemptAgreement and
\* CommitMarked for this transfer: a pending retry request still sees a failed,
\* uncommitted job.
Tried(t) ==
  /\ status[t] = "none" <=> attempts[t] = 0
  /\ status[t] # "none" => /\ <<jobState[Latest(t)], status[t]>> \in Story
                           /\ committed[t] = jobCommitted[Latest(t)]
  /\ \A n \in 1..MaxAttempts :
       /\ n > attempts[t] => jobState[<<t, n>>] = "none" /\ ~jobCommitted[<<t, n>>]
       /\ n < attempts[t] => jobState[<<t, n>>] = "cancelled" /\ ~jobCommitted[<<t, n>>]
       /\ retrying[<<t, n>>] > 0 => jobState[<<t, n>>] = "failed" /\ ~jobCommitted[<<t, n>>]

Marked(st, b) ==
  /\ st \in {"committed", "provider_pending", "unknown"} => b
  /\ st \in {"none", "queued", "device_started", "manual_review", "cancelled"} => ~b

HeldIn(st) == IF st \in Open THEN 1 ELSE 0

\* The inductive invariant, transfer by transfer.
Sound(t) ==
  /\ Tried(t)
  /\ Marked(status[t], committed[t])
  /\ reservedBalance[t] = HeldIn(status[t])
  /\ ~Retried(t) => Books(t)

AllSound == \A t \in Transfers : Sound(t)

\* The conjuncts of the invariant that runs check.
LEMMA SoundImplies ==
  ASSUME TypeOK, AllSound
  PROVE  AttemptAgreement /\ CommitMarked /\ WalletHoldExact /\ LedgerHoldExact
  <1>1. AttemptAgreement
    BY DEF AllSound, Sound, Tried, AttemptAgreement
  <1>2. CommitMarked
    BY DEF AllSound, Sound, Marked, CommitMarked
  <1>3. WalletHoldExact
    BY DEF AllSound, Sound, WalletHoldExact, HeldIn, Held
  <1>4. ASSUME NEW t \in Transfers, ~Retried(t) PROVE LedgerReserved(t) = Held(t)
    <2>1. Books(t) /\ status[t] \in Statuses
      BY <1>4 DEF AllSound, Sound, TypeOK
    <2>2. CASE status[t] \in Open
      BY <2>1, <2>2 DEF Books, LedgerReserved, Posted, Held, Open
    <2>3. CASE status[t] \in {"failed", "cancelled"}
      BY <2>1, <2>3 DEF Books, LedgerReserved, Posted, Held, Open
    <2>4. CASE status[t] = "success"
      BY <2>1, <2>4 DEF Books, LedgerReserved, Posted, Held, Open
    <2>5. CASE status[t] = "none"
      BY <2>1, <2>5 DEF Books, LedgerReserved, Posted, Held, Open
    <2> QED BY <2>1, <2>2, <2>3, <2>4, <2>5 DEF Statuses, Closed, Open
  <1>5. LedgerHoldExact
    BY <1>4 DEF LedgerHoldExact
  <1> QED BY <1>1, <1>2, <1>3, <1>5

\* A job that was delivered, or has ended otherwise than cancelled, is its
\* transfer's latest, and its state and the transfer's tell the same story.
LEMMA LiveIsLatest ==
  ASSUME TypeOK, AllSound, NEW j \in Jobs, jobState[j] \notin {"none", "cancelled"}
  PROVE  /\ j[1] \in Transfers
         /\ j = Latest(j[1])
         /\ status[j[1]] # "none"
         /\ <<jobState[j], status[j[1]]>> \in Story
         /\ committed[j[1]] = jobCommitted[j]
  <1>1. j[1] \in Transfers /\ j[2] \in 1..MaxAttempts /\ j = <<j[1], j[2]>>
    BY JobParts
  <1>2. Tried(j[1])
    BY <1>1 DEF AllSound, Sound
  <1>3. attempts[j[1]] \in Nat /\ j[2] \in Nat
    BY <1>1, PayoutsAssumption DEF TypeOK
  <1>4. j[2] = attempts[j[1]]
    BY <1>1, <1>2, <1>3 DEF Tried
  <1> QED BY <1>1, <1>2, <1>3, <1>4 DEF Tried, Latest

\* A transfer none of whose columns change stays sound.
LEMMA SoundKept ==
  ASSUME NEW t \in Transfers, Sound(t),
         status'[t] = status[t], committed'[t] = committed[t], attempts'[t] = attempts[t],
         reservedBalance'[t] = reservedBalance[t],
         \A n \in 1..MaxAttempts : /\ jobState'[<<t, n>>] = jobState[<<t, n>>]
                                   /\ jobCommitted'[<<t, n>>] = jobCommitted[<<t, n>>]
                                   /\ retrying'[<<t, n>>] = retrying[<<t, n>>]
                                   /\ retries'[<<t, n>>] = retries[<<t, n>>],
         \A k \in JournalTypes : <<k, t>> \in journals' <=> <<k, t>> \in journals,
         TypeOK
  PROVE  Sound(t)'
  <1>1. attempts[t] # 0 => attempts[t] \in 1..MaxAttempts
    BY PayoutsAssumption DEF TypeOK
  <1>2. Tried(t)'
    BY <1>1 DEF Sound, Tried, Latest
  <1>3. Retried(t)' <=> Retried(t)
    BY DEF Retried
  <1>4. Books(t) => Books(t)'
    BY DEF Books, JournalTypes
  <1> QED BY <1>2, <1>3, <1>4 DEF Sound

\* A step that moves a transfer and its latest job together to a state and a
\* status that tell one story keeps the transfer sound.
LEMMA SoundChanged ==
  ASSUME TypeOK, NEW t \in Transfers, Sound(t), status[t] # "none",
         NEW v, NEW u \in Statuses, NEW b \in BOOLEAN,
         <<v, u>> \in Story, Marked(u, b),
         status'[t] = u, committed'[t] = b, attempts'[t] = attempts[t],
         reservedBalance'[t] = HeldIn(u),
         \A n \in 1..MaxAttempts :
           /\ jobState'[<<t, n>>] = IF n = attempts[t] THEN v ELSE jobState[<<t, n>>]
           /\ jobCommitted'[<<t, n>>] = IF n = attempts[t] THEN b ELSE jobCommitted[<<t, n>>]
           /\ retrying'[<<t, n>>] > 0 => n # attempts[t] /\ retrying[<<t, n>>] > 0,
         Retried(t)' \/ Books(t)'
  PROVE  Sound(t)'
  <1>1. attempts[t] \in 1..MaxAttempts
    BY PayoutsAssumption DEF TypeOK, Sound, Tried
  <1>2. u # "none"
    BY DEF Story
  <1>3. Tried(t)'
    BY <1>1, <1>2 DEF Sound, Tried, Latest
  <1> QED BY <1>3 DEF Sound

\* The journals of a transfer that is not retried, after a step that posts the
\* kinds of journals its new status calls for.
LEMMA BooksPosted ==
  ASSUME TypeOK, NEW t \in Transfers, Sound(t), ~Retried(t), NEW kinds, Post(kinds, t),
         \/ status[t] # "none" /\ status'[t] \in Open /\ status[t] \in Open /\ kinds = {}
         \/ status[t] \in Open /\ status'[t] \in {"failed", "cancelled"} /\ kinds = {"release"}
         \/ status[t] \in Open /\ status'[t] = "success" /\ kinds = {"settlement"}
         \/ status[t] = "failed" /\ status'[t] = "success" /\ kinds = {"restoration", "settlement"}
         \/ status[t] = "none" /\ status'[t] \in Open /\ kinds = {"reservation"}
  PROVE  Books(t)'
  <1>1. \A k \in JournalTypes : <<k, t>> \in journals' <=> <<k, t>> \in journals \/ k \in kinds
    BY DEF Post
  <1>2. Books(t)
    BY DEF Sound
  <1> QED BY <1>1, <1>2 DEF Books, JournalTypes, Open

\* Posting for one transfer leaves the journals of the others alone.
LEMMA PostElsewhere ==
  ASSUME NEW t, NEW u, u # t, NEW kinds, Post(kinds, t)
  PROVE  \A k \in JournalTypes : <<k, u>> \in journals' <=> <<k, u>> \in journals
  BY DEF Post

\* Posting nothing.
LEMMA NoPost ==
  ASSUME journals' = journals, NEW t
  PROVE  Post({}, t)
  BY DEF Post

\* The statuses a step may move a transfer between, with the journals it posts.
Bookkeeping(from, to, kinds) ==
  \/ from \in Open /\ to \in Open /\ kinds = {}
  \/ from \in Open /\ to \in {"failed", "cancelled"} /\ kinds = {"release"}
  \/ from \in Open /\ to = "success" /\ kinds = {"settlement"}
  \/ from = "failed" /\ to = "success" /\ kinds = {"restoration", "settlement"}

\* A step that moves one transfer with its latest job and leaves every other
\* transfer alone keeps the invariant.
LEMMA OneTransferMoves ==
  ASSUME TypeOK, AllSound, NEW t \in Transfers, status[t] # "none",
         NEW v, NEW u \in Statuses, NEW b \in BOOLEAN, NEW kinds,
         <<v, u>> \in Story, Marked(u, b), Bookkeeping(status[t], u, kinds), Post(kinds, t),
         \A i \in Transfers : /\ status'[i] = IF i = t THEN u ELSE status[i]
                              /\ committed'[i] = IF i = t THEN b ELSE committed[i]
                              /\ reservedBalance'[i] = IF i = t THEN HeldIn(u) ELSE reservedBalance[i],
         \A j \in Jobs : /\ jobState'[j] = IF j = Latest(t) THEN v ELSE jobState[j]
                         /\ jobCommitted'[j] = IF j = Latest(t) THEN b ELSE jobCommitted[j],
         ~(retrying[Latest(t)] > 0),
         UNCHANGED <<attempts, retries, retrying>>
  PROVE  AllSound'
  <1> SUFFICES ASSUME NEW i \in Transfers PROVE Sound(i)'
    BY DEF AllSound
  <1>0. Sound(i)
    BY DEF AllSound
  <1>1. CASE i # t
    <2>1. \A n \in 1..MaxAttempts : <<i, n>> \in Jobs /\ <<i, n>> # Latest(t)
      BY <1>1, JobParts DEF Latest
    <2>2. \A k \in JournalTypes : <<k, i>> \in journals' <=> <<k, i>> \in journals
      BY <1>1, PostElsewhere
    <2> QED BY <1>0, <1>1, <2>1, <2>2, SoundKept
  <1>2. CASE i = t
    <2>1. \A n \in 1..MaxAttempts : <<t, n>> \in Jobs /\ (<<t, n>> = Latest(t) <=> n = attempts[t])
      BY JobParts DEF Latest
    <2>2. Retried(t)' <=> Retried(t)
      BY DEF Retried
    <2>3. ~Retried(t) => Books(t)'
      BY <1>0, <1>2, BooksPosted DEF Bookkeeping
    <2>4. \A n \in 1..MaxAttempts : retrying'[<<t, n>>] > 0 => n # attempts[t] /\ retrying[<<t, n>>] > 0
      BY <2>1
    <2> QED BY <1>0, <1>2, <2>1, <2>2, <2>3, <2>4, SoundChanged
  <1> QED BY <1>1, <1>2

\* A pending retry request is about a failed job whose PIN was not entered.
LEMMA NotRetrying ==
  ASSUME TypeOK, AllSound, NEW t \in Transfers, status[t] # "none",
         jobState[Latest(t)] # "failed" \/ jobCommitted[Latest(t)]
  PROVE  Latest(t) \in Jobs /\ ~(retrying[Latest(t)] > 0)
  <1>1. attempts[t] \in 1..MaxAttempts /\ Tried(t)
    BY PayoutsAssumption DEF TypeOK, AllSound, Sound, Tried
  <1> QED BY <1>1, JobParts DEF Tried, Latest

\* What the invariant says of a transfer's latest job.
LEMMA LatestStory ==
  ASSUME TypeOK, AllSound, NEW t \in Transfers, status[t] # "none"
  PROVE  /\ Latest(t) \in Jobs
         /\ <<jobState[Latest(t)], status[t]>> \in Story
         /\ committed[t] = jobCommitted[Latest(t)]
         /\ committed[t] \in BOOLEAN
         /\ Marked(status[t], committed[t])
         /\ reservedBalance[t] = HeldIn(status[t])
  <1>1. attempts[t] \in 1..MaxAttempts /\ Sound(t) /\ Tried(t) /\ committed[t] \in BOOLEAN
    BY PayoutsAssumption DEF TypeOK, AllSound, Sound, Tried
  <1> QED BY <1>1, JobParts DEF Sound, Tried, Latest

\* The shape most actions share: the transfer and its latest job move, the commit
\* markers are set to b and the wallet share changes by n.
Moves(t, v, u, b, n) ==
  /\ \A i \in Transfers : status'[i] = IF i = t THEN u ELSE status[i]
  /\ \A i \in Transfers : committed'[i] = IF i = t THEN b ELSE committed[i]
  /\ \A j \in Jobs : jobState'[j] = IF j = Latest(t) THEN v ELSE jobState[j]
  /\ \A j \in Jobs : jobCommitted'[j] = IF j = Latest(t) THEN b ELSE jobCommitted[j]
  /\ \A i \in Transfers : reservedBalance'[i] = IF i = t THEN reservedBalance[i] + n ELSE reservedBalance[i]
  /\ UNCHANGED <<attempts, retries, retrying>>

\* Such a step is sound when the new state and status tell one story, the marker
\* fits the status, and the journals and the share follow the status.
Legal(t, v, u, b, n, kinds) ==
  /\ status[t] # "none" /\ u \in Statuses /\ b \in BOOLEAN
  /\ <<v, u>> \in Story
  /\ Marked(u, b)
  /\ Bookkeeping(status[t], u, kinds)
  /\ n = HeldIn(u) - HeldIn(status[t])
  /\ jobState[Latest(t)] # "failed" \/ jobCommitted[Latest(t)]

LEMMA MovesSound ==
  ASSUME TypeOK, AllSound, NEW t \in Transfers, NEW v, NEW u, NEW b, NEW n, NEW kinds,
         Moves(t, v, u, b, n), Legal(t, v, u, b, n, kinds), Post(kinds, t)
  PROVE  AllSound'
  <1>0. status[t] # "none" /\ n = HeldIn(u) - HeldIn(status[t])
    BY DEF Legal
  <1>1. reservedBalance[t] = HeldIn(status[t])
    BY <1>0, LatestStory
  <1>a. HeldIn(status[t]) \in Int /\ HeldIn(u) \in Int
    BY DEF HeldIn
  <1>2. reservedBalance[t] + n = HeldIn(u)
    BY <1>0, <1>1, <1>a
  <1>3. ~(retrying[Latest(t)] > 0)
    BY NotRetrying DEF Legal
  <1> QED BY <1>2, <1>3, OneTransferMoves DEF Moves, Legal

LEMMA CancelSound ==
  ASSUME TypeOK, AllSound, NEW t \in Transfers, CancelBeforeStart(t)
  PROVE  AllSound'
  <1>1. status[t] = "queued" /\ jobState[Latest(t)] = "queued" /\ Post({"release"}, t)
    BY DEF CancelBeforeStart, ReleaseReservations
  <1>2. committed[t] = jobCommitted[Latest(t)] /\ committed[t] \in BOOLEAN /\ Marked(status[t], committed[t])
    BY <1>1, LatestStory
  <1>3. Moves(t, "cancelled", "cancelled", committed[t], -1)
    BY <1>2 DEF Moves, CancelBeforeStart, SetStatus, SetJob, ReleaseReservations, AddReserved, fenceVars, TypeOK
  <1>4. Legal(t, "cancelled", "cancelled", committed[t], -1, {"release"})
    BY <1>1, <1>2 DEF Legal, Statuses, Closed, Story, Marked, Bookkeeping, HeldIn, Open
  <1> QED BY <1>1, <1>3, <1>4, MovesSound

LEMMA ResolveSuccessSound ==
  ASSUME TypeOK, AllSound, NEW t \in Transfers, NEW x \in Payments, ResolveSuccess(t, x)
  PROVE  AllSound'
  <1>1. status[t] \in {"unknown", "manual_review"} /\ Post({"settlement"}, t)
    BY DEF ResolveSuccess
  <1>2. /\ committed[t] = jobCommitted[Latest(t)] /\ committed[t] \in BOOLEAN
        /\ <<jobState[Latest(t)], status[t]>> \in Story
    BY <1>1, LatestStory
  <1>3. jobState[Latest(t)] # "failed"
    BY <1>1, <1>2 DEF Story
  <1>4. Moves(t, "succeeded", "success", committed[t], -1)
    BY <1>2 DEF Moves, ResolveSuccess, SetStatus, SetJob, AddReserved, fenceVars, TypeOK
  <1>5. Legal(t, "succeeded", "success", committed[t], -1, {"settlement"})
    BY <1>1, <1>2, <1>3 DEF Legal, Statuses, Closed, Story, Marked, Bookkeeping, HeldIn, Open
  <1> QED BY <1>1, <1>4, <1>5, MovesSound

LEMMA ResolveFailedSound ==
  ASSUME TypeOK, AllSound, NEW t \in Transfers, ResolveFailed(t)
  PROVE  AllSound'
  <1>1. status[t] \in {"unknown", "manual_review"} /\ Post({"release"}, t)
    BY DEF ResolveFailed, ReleaseReservations
  <1>2. /\ committed[t] = jobCommitted[Latest(t)] /\ committed[t] \in BOOLEAN
        /\ <<jobState[Latest(t)], status[t]>> \in Story
    BY <1>1, LatestStory
  <1>3. jobState[Latest(t)] # "failed"
    BY <1>1, <1>2 DEF Story
  <1>4. Moves(t, "failed", "failed", committed[t], -1)
    BY <1>2 DEF Moves, ResolveFailed, ReleaseReservations, SetStatus, SetJob, AddReserved, fenceVars, TypeOK
  <1>5. Legal(t, "failed", "failed", committed[t], -1, {"release"})
    BY <1>1, <1>2, <1>3 DEF Legal, Statuses, Closed, Story, Marked, Bookkeeping, HeldIn, Open
  <1> QED BY <1>1, <1>4, <1>5, MovesSound

LEMMA LeaseNextSound ==
  ASSUME TypeOK, AllSound, NEW d \in Devices, NEW j \in Jobs, LeaseNext(d, j)
  PROVE  AllSound'
  <1> DEFINE t == j[1]
  <1>1. jobState[j] = "queued" /\ Post({}, t)
    BY NoPost DEF LeaseNext, Leasable, moneyVars
  <1>2. t \in Transfers /\ j = Latest(t) /\ status[t] # "none" /\ <<jobState[j], status[t]>> \in Story
    BY <1>1, LiveIsLatest
  <1>3. committed[t] = jobCommitted[Latest(t)] /\ committed[t] \in BOOLEAN /\ Marked(status[t], committed[t])
    BY <1>2, LatestStory
  <1>4. status[t] = "queued"
    BY <1>1, <1>2 DEF Story
  <1>5. Moves(t, "leased", "queued", committed[t], 0)
    BY <1>2, <1>3, <1>4 DEF Moves, LeaseNext, SetJob, transferVars, fenceVars, moneyVars, TypeOK
  <1>6. Legal(t, "leased", "queued", committed[t], 0, {})
    BY <1>1, <1>2, <1>3, <1>4 DEF Legal, Statuses, Closed, Story, Marked, Bookkeeping, HeldIn, Open
  <1> QED BY <1>1, <1>2, <1>5, <1>6, MovesSound

LEMMA ExpireSound ==
  ASSUME TypeOK, AllSound, NEW j \in Jobs, ExpireFinancialJob(j)
  PROVE  AllSound'
  <1> DEFINE t == j[1]
  <1>1. jobState[j] \in LiveJob
    BY DEF ExpireFinancialJob, Sweepable
  <1>2. t \in Transfers /\ j = Latest(t) /\ status[t] # "none" /\ <<jobState[j], status[t]>> \in Story
    BY <1>1, LiveIsLatest DEF LiveJob, Delivered
  <1>3. committed[t] = jobCommitted[Latest(t)] /\ committed[t] \in BOOLEAN /\ Marked(status[t], committed[t])
    BY <1>2, LatestStory
  <1>4. status[t] \in {"queued", "device_started", "committed", "provider_pending"}
    BY <1>1, <1>2 DEF Story, LiveJob, Delivered
  <1>5. status[t] \notin Closed /\ status[t] \in Open
    BY <1>4 DEF Closed, Open
  <1>6. CASE jobState[j] \in Delivered \/ jobCommitted[j]
    <2>1. AlignedState(t) = "unknown"
      BY <1>4 DEF AlignedState
    <2>2. Post({}, t)
      BY <1>6, NoPost DEF ExpireFinancialJob
    <2>a. /\ status' = [status EXCEPT ![t] = "unknown"]
          /\ committed' = [committed EXCEPT ![t] = TRUE]
          /\ jobCommitted' = [jobCommitted EXCEPT ![j] = TRUE]
          /\ jobState' = [jobState EXCEPT ![j] = "unknown"]
          /\ UNCHANGED <<reservedBalance, attempts, retries, retrying>>
      BY <1>5, <1>6, <2>1 DEF ExpireFinancialJob, HoldUnknown, SetStatus, SetJob, fenceVars
    <2>b. \A i \in Transfers : committed'[i] = IF i = t THEN TRUE ELSE committed[i]
      BY <2>a, Zenon DEF TypeOK
    <2>c. \A i \in Jobs : jobCommitted'[i] = IF i = Latest(t) THEN TRUE ELSE jobCommitted[i]
      BY <1>2, <2>a, Zenon DEF TypeOK
    <2>d. \A i \in Transfers : reservedBalance'[i] = IF i = t THEN reservedBalance[i] + 0 ELSE reservedBalance[i]
      BY <2>a DEF TypeOK
    <2>e. \A i \in Transfers : status'[i] = IF i = t THEN "unknown" ELSE status[i]
      BY <2>a DEF TypeOK
    <2>f. \A i \in Jobs : jobState'[i] = IF i = Latest(t) THEN "unknown" ELSE jobState[i]
      BY <1>2, <2>a DEF TypeOK
    <2>3. Moves(t, "unknown", "unknown", TRUE, 0)
      BY <2>a, <2>b, <2>c, <2>d, <2>e, <2>f DEF Moves
    <2>4. Legal(t, "unknown", "unknown", TRUE, 0, {})
      BY <1>1, <1>2, <1>4, <1>5 DEF Legal, Statuses, LiveJob, Delivered, Story, Marked, Bookkeeping, HeldIn, Open
    <2> QED BY <1>2, <2>2, <2>3, <2>4, MovesSound
  <1>7. CASE ~(jobState[j] \in Delivered \/ jobCommitted[j])
    <2>1. Post({"release"}, t)
      BY <1>5, <1>7 DEF ExpireFinancialJob, ReleaseReservations
    <2>2. Moves(t, "failed", "failed", committed[t], -1)
      BY <1>2, <1>3, <1>5, <1>7 DEF Moves, ExpireFinancialJob, ReleaseReservations, AddReserved, SetStatus, SetJob, fenceVars, TypeOK
    <2>3. Legal(t, "failed", "failed", committed[t], -1, {"release"})
      BY <1>1, <1>2, <1>3, <1>5 DEF Legal, Statuses, Closed, LiveJob, Delivered, Story, Marked, Bookkeeping, HeldIn, Open
    <2> QED BY <1>2, <2>1, <2>2, <2>3, MovesSound
  <1> QED BY <1>6, <1>7

\* A step that leaves the rows of every transfer and job alone.
LEMMA NothingMoves ==
  ASSUME TypeOK, AllSound,
         UNCHANGED <<status, committed, attempts, jobState, jobCommitted, retries, retrying, journals, reservedBalance>>
  PROVE  AllSound'
  BY SoundKept DEF AllSound

\* A late report about a job that expiry has closed finds it marked already.
LEMMA ReportLateSound ==
  ASSUME TypeOK, AllSound, NEW e \in Reports, ReportLate(e), UNCHANGED <<attempts, retries, retrying>>
  PROVE  AllSound'
  <1> DEFINE j == e.job
             t == j[1]
  <1>1. j \in Jobs /\ jobState[j] = "unknown"
    BY ReportParts DEF ReportLate
  <1>2. t \in Transfers /\ j = Latest(t) /\ status[t] # "none" /\ <<jobState[j], status[t]>> \in Story
    BY <1>1, LiveIsLatest
  <1>3. status[t] = "unknown"
    BY <1>1, <1>2 DEF Story
  <1>4. committed[t] /\ jobCommitted[j]
    BY <1>2, <1>3, LatestStory DEF Marked
  <1>5. jobCommitted' = jobCommitted /\ committed' = committed
    BY <1>1, <1>2, <1>4 DEF ReportLate, TypeOK
  <1> QED BY <1>5, NothingMoves DEF ReportLate

\* What a report that moves a job leads to: the marker the transfer gets is the
\* job's, and it fits the new status.
LEMMA ReportMarker ==
  ASSUME TypeOK, AllSound, NEW e \in Reports, ReportTransition(e)
  PROVE  LET j == e.job
             t == j[1]
             eff == EffectiveState(e)
             b == PossibleCommit(j, eff)
         IN  /\ b \in BOOLEAN
             /\ (committed[t] \/ (eff \in {"committed", "unknown"} /\ b)) = b
             /\ Marked(StatusOf(eff), b)
             /\ <<eff, StatusOf(eff)>> \in Story
             /\ StatusOf(eff) \in Statuses
             /\ status[t] \in Open
             /\ jobState[j] \in Delivered
             /\ t \in Transfers
             /\ j = Latest(t)
  <1> DEFINE j == e.job
             t == j[1]
             eff == EffectiveState(e)
             b == PossibleCommit(j, eff)
  <1>1. j \in Jobs /\ <<jobState[j], e.state>> \in allowedTransitions
    BY ReportParts DEF ReportTransition
  <1>2. eff \in {"device_started", "committed", "provider_pending", "failed", "unknown", "cancelled"} /\ jobState[j] \in Delivered
    BY <1>1, EffectiveStates
  <1>3. t \in Transfers /\ j = Latest(t) /\ status[t] # "none" /\ <<jobState[j], status[t]>> \in Story
    BY <1>1, <1>2, LiveIsLatest DEF Delivered
  <1>4. committed[t] = jobCommitted[j] /\ committed[t] \in BOOLEAN /\ Marked(status[t], committed[t])
    BY <1>3, LatestStory
  <1>5. status[t] \in Open /\ StatusOf(eff) \in Statuses /\ <<eff, StatusOf(eff)>> \in Story
    BY <1>2, <1>3 DEF Open, Statuses, Closed, Delivered, StatusOf, Story
  <1>6. jobState[j] \in {"leased", "device_started"} => ~jobCommitted[j]
    BY <1>3, <1>4 DEF Story, Marked
  <1>7. jobState[j] \in {"committed", "provider_pending"} => jobCommitted[j]
    BY <1>3, <1>4 DEF Story, Marked
  <1>8. b \in BOOLEAN /\ (committed[t] \/ (eff \in {"committed", "unknown"} /\ b)) = b
    BY <1>4 DEF PossibleCommit
  <1>9. /\ eff = "provider_pending" => jobState[j] \in {"committed", "provider_pending"}
        /\ eff = "unknown" => jobState[j] # "leased"
        /\ eff \in {"device_started", "cancelled"} => jobState[j] \in {"leased", "device_started"}
    BY <1>1, <1>2, <1>6, <1>7 DEF EffectiveState, financiallySafeReportState, NameDisposition, allowedTransitions, Delivered
  <1>10. Marked(StatusOf(eff), b)
    BY <1>2, <1>6, <1>7, <1>9 DEF Marked, StatusOf, PossibleCommit
  <1> QED BY <1>2, <1>3, <1>5, <1>8, <1>10

LEMMA ReportTransitionSound ==
  ASSUME TypeOK, AllSound, NEW e \in Reports, ReportTransition(e), UNCHANGED <<attempts, retries, retrying>>
  PROVE  AllSound'
  <1> DEFINE j == e.job
             t == j[1]
             eff == EffectiveState(e)
             b == PossibleCommit(j, eff)
             n == IF eff = "failed" THEN -1 ELSE 0
             kinds == IF eff = "failed" THEN {"release"} ELSE {}
  <1>1. /\ b \in BOOLEAN /\ Marked(StatusOf(eff), b) /\ <<eff, StatusOf(eff)>> \in Story /\ StatusOf(eff) \in Statuses
        /\ status[t] \in Open /\ jobState[j] \in Delivered /\ t \in Transfers /\ j = Latest(t)
        /\ (committed[t] \/ (eff \in {"committed", "unknown"} /\ b)) = b
    BY ReportMarker
  <1>2. /\ status' = [status EXCEPT ![t] = StatusOf(eff)]
        /\ jobState' = [jobState EXCEPT ![j] = eff]
        /\ jobCommitted' = [jobCommitted EXCEPT ![j] = b]
        /\ committed' = [committed EXCEPT ![t] = b]
    BY <1>1 DEF ReportTransition, SetStatus, SetJob, TypeOK
  <1>3. \A i \in Transfers : reservedBalance'[i] = IF i = t THEN reservedBalance[i] + n ELSE reservedBalance[i]
    BY DEF ReportTransition, ReleaseReservations, AddReserved, TypeOK
  <1>4. Post(kinds, t)
    BY NoPost DEF ReportTransition, ReleaseReservations
  <1>5. Moves(t, eff, StatusOf(eff), b, n)
    BY <1>1, <1>2, <1>3 DEF Moves, TypeOK
  <1>6. eff \in {"device_started", "committed", "provider_pending", "failed", "unknown", "cancelled"}
    BY EffectiveStates DEF ReportTransition
  <1>7. Legal(t, eff, StatusOf(eff), b, n, kinds)
    BY <1>1, <1>6 DEF Legal, Bookkeeping, HeldIn, Open, StatusOf, Delivered
  <1> QED BY <1>1, <1>4, <1>5, <1>7, MovesSound

LEMMA ReportSound ==
  ASSUME TypeOK, AllSound, NEW d \in Devices, NEW e \in Reports, ReportFromSpool(d, e)
  PROVE  AllSound'
  <1>1. UNCHANGED <<attempts, retries, retrying>>
    BY DEF ReportFromSpool, fenceVars
  <1>2. CASE ReportLate(e)
    BY <1>1, <1>2, ReportLateSound
  <1>3. CASE ReportRepeated(e)
    BY <1>1, <1>3, NothingMoves DEF ReportRepeated
  <1>4. CASE ReportTransition(e)
    BY <1>1, <1>4, ReportTransitionSound
  <1> QED BY <1>2, <1>3, <1>4 DEF ReportFromSpool

LEMMA SettleSound ==
  ASSUME TypeOK, AllSound, NEW s \in Sims, NEW x \in Payments, NEW near, NEW c \in BOOLEAN,
         NEW t \in Transfers, SettleOutgoing(s, x, near, c, t)
  PROVE  AllSound'
  <1>1. committed[t] /\ status[t] \in {"committed", "provider_pending", "unknown", "failed"}
    BY DEF SettleOutgoing, Matches
  <1>2. committed[t] = jobCommitted[Latest(t)] /\ committed[t] \in BOOLEAN
    BY <1>1, LatestStory
  <1>3. Moves(t, "succeeded", "success", committed[t], SettledShare(t))
    BY <1>2 DEF Moves, SettleOutgoing, SetStatus, SetJob, AddReserved, fenceVars, TypeOK
  <1>4. SettledShare(t) = HeldIn("success") - HeldIn(status[t])
    BY <1>1 DEF SettledShare, HeldIn, Open
  <1>5. Bookkeeping(status[t], "success", SettlementJournals(t))
    BY <1>1 DEF Bookkeeping, SettlementJournals, Open
  <1>6. Legal(t, "succeeded", "success", committed[t], SettledShare(t), SettlementJournals(t))
    BY <1>1, <1>2, <1>4, <1>5 DEF Legal, Statuses, Closed, Story, Marked
  <1> QED BY <1>3, <1>6, MovesSound DEF SettleOutgoing

\* A step that adds an attempt to a transfer whose earlier ones, if any, were
\* cancelled before commit.
LEMMA AttemptAdded ==
  ASSUME TypeOK, AllSound, NEW t \in Transfers, NEW kinds, Post(kinds, t),
         \/ status[t] = "none" /\ kinds = {"reservation"}
         \/ status[t] = "manual_review" /\ kinds = {},
         attempts[t] < MaxAttempts,
         \A i \in Transfers : /\ status'[i] = IF i = t THEN "queued" ELSE status[i]
                              /\ attempts'[i] = IF i = t THEN attempts[i] + 1 ELSE attempts[i]
                              /\ reservedBalance'[i] = IF i = t THEN 1 ELSE reservedBalance[i],
         \A j \in Jobs : jobState'[j] = IF j = <<t, attempts[t] + 1>> THEN "queued" ELSE jobState[j],
         UNCHANGED <<committed, jobCommitted, retries, retrying>>
  PROVE  AllSound'
  <1> SUFFICES ASSUME NEW i \in Transfers PROVE Sound(i)'
    BY DEF AllSound
  <1>0. Sound(i) /\ Tried(i) /\ attempts[i] \in 0..MaxAttempts /\ MaxAttempts \in Nat
    BY PayoutsAssumption DEF AllSound, Sound, TypeOK
  <1>1. CASE i # t
    <2>1. \A n \in 1..MaxAttempts : <<i, n>> \in Jobs /\ <<i, n>> # <<t, attempts[t] + 1>>
      BY <1>1, JobParts
    <2>2. \A k \in JournalTypes : <<k, i>> \in journals' <=> <<k, i>> \in journals
      BY <1>1, PostElsewhere
    <2> QED BY <1>0, <1>1, <2>1, <2>2, SoundKept
  <1>2. CASE i = t
    <2>1. \A n \in 1..MaxAttempts : <<t, n>> \in Jobs /\ (<<t, n>> = <<t, attempts[t] + 1>> <=> n = attempts[t] + 1)
      BY JobParts
    <2>2. \A n \in 1..MaxAttempts : jobState'[<<t, n>>] = IF n = attempts[t] + 1 THEN "queued" ELSE jobState[<<t, n>>]
      BY <2>1
    <2>3. attempts[t] # 0 => attempts[t] \in 1..MaxAttempts /\ jobState[<<t, attempts[t]>>] = "cancelled" /\ ~jobCommitted[<<t, attempts[t]>>]
      BY <1>0, <1>2 DEF Sound, Tried, Story, Latest, Marked
    <2>4. \A n \in 1..MaxAttempts : n <= attempts[t] => jobState[<<t, n>>] = "cancelled" /\ ~jobCommitted[<<t, n>>]
      BY <1>0, <1>2, <2>3 DEF Tried
    <2>5. \A n \in 1..MaxAttempts : /\ n > attempts[t] + 1 => jobState'[<<t, n>>] = "none" /\ ~jobCommitted'[<<t, n>>]
                                    /\ n < attempts[t] + 1 => jobState'[<<t, n>>] = "cancelled" /\ ~jobCommitted'[<<t, n>>]
      BY <1>0, <1>2, <2>2, <2>4 DEF Tried
    <2>6. \A n \in 1..MaxAttempts : ~(retrying'[<<t, n>>] > 0)
      BY <1>0, <1>2, <2>4 DEF Tried
    <2>7. attempts'[t] = attempts[t] + 1 /\ attempts[t] + 1 \in 1..MaxAttempts /\ status'[t] = "queued"
      BY <1>0, <1>2
    <2>8. ~committed[t] /\ committed[t] \in BOOLEAN /\ jobCommitted[<<t, attempts[t] + 1>>] \in BOOLEAN
      BY <1>0, <1>2, <2>1, <2>7 DEF Sound, Marked, TypeOK
    <2>9. ~jobCommitted[<<t, attempts[t] + 1>>] /\ jobState'[<<t, attempts[t] + 1>>] = "queued"
      BY <1>0, <1>2, <2>2, <2>7 DEF Tried
    <2>10. Tried(t)'
      BY <2>5, <2>6, <2>7, <2>8, <2>9, <1>0, <1>2 DEF Tried, Latest, Story
    <2>11. Retried(t)' <=> Retried(t)
      BY DEF Retried
    <2>12. ~Retried(t) => Books(t)'
      BY <1>0, <1>2, BooksPosted DEF Open
    <2> QED BY <1>2, <2>7, <2>8, <2>10, <2>11, <2>12 DEF Sound, Marked, HeldIn, Open
  <1> QED BY <1>1, <1>2

LEMMA QueueSound ==
  ASSUME TypeOK, AllSound, NEW t \in Transfers, NEW s \in Sims, QueueTransfer(t, s)
  PROVE  AllSound'
  <1>1. status[t] = "none" /\ Post({"reservation"}, t)
    BY DEF QueueTransfer
  <1>a. Tried(t) /\ reservedBalance[t] = HeldIn(status[t])
    BY DEF AllSound, Sound
  <1>b. attempts[t] = 0 /\ reservedBalance[t] = 0
    BY <1>1, <1>a DEF Tried, HeldIn, Open
  <1>2. attempts[t] = 0 /\ reservedBalance[t] = 0 /\ attempts[t] < MaxAttempts /\ attempts[t] + 1 = 1
    BY <1>b, PayoutsAssumption
  <1>3. \A i \in Transfers : /\ status'[i] = IF i = t THEN "queued" ELSE status[i]
                             /\ attempts'[i] = IF i = t THEN 1 ELSE attempts[i]
    BY DEF QueueTransfer, SetStatus, CreateJob, TypeOK
  <1>4. \A i \in Transfers : reservedBalance'[i] = IF i = t THEN 1 ELSE reservedBalance[i]
    BY <1>2 DEF QueueTransfer, AddReserved, TypeOK
  <1>5. \A j \in Jobs : jobState'[j] = IF j = <<t, attempts[t] + 1>> THEN "queued" ELSE jobState[j]
    BY <1>2 DEF QueueTransfer, CreateJob, SetJob, TypeOK
  <1>6. UNCHANGED <<committed, jobCommitted, retries, retrying>>
    BY DEF QueueTransfer
  <1> QED BY <1>1, <1>2, <1>3, <1>4, <1>5, <1>6, AttemptAdded

LEMMA ApproveSound ==
  ASSUME TypeOK, AllSound, NEW t \in Transfers, ApproveNameAndRetry(t)
  PROVE  AllSound'
  <1>1. status[t] = "manual_review" /\ attempts[t] < MaxAttempts
    BY DEF ApproveNameAndRetry
  <1>2. Post({}, t) /\ reservedBalance[t] = 1
    BY <1>1, NoPost DEF ApproveNameAndRetry, moneyVars, AllSound, Sound, HeldIn, Open
  <1>3. \A i \in Transfers : /\ status'[i] = IF i = t THEN "queued" ELSE status[i]
                             /\ attempts'[i] = IF i = t THEN attempts[i] + 1 ELSE attempts[i]
                             /\ reservedBalance'[i] = IF i = t THEN 1 ELSE reservedBalance[i]
    BY <1>2 DEF ApproveNameAndRetry, SetStatus, CreateJob, moneyVars, TypeOK
  <1>4. \A j \in Jobs : jobState'[j] = IF j = <<t, attempts[t] + 1>> THEN "queued" ELSE jobState[j]
    BY DEF ApproveNameAndRetry, CreateJob, SetJob, TypeOK
  <1>5. UNCHANGED <<committed, jobCommitted, retries, retrying>>
    BY DEF ApproveNameAndRetry
  <1> QED BY <1>1, <1>2, <1>3, <1>4, <1>5, AttemptAdded

LEMMA RetryCheckSound ==
  ASSUME TypeOK, AllSound, NEW j \in Jobs, RetryCheck(j)
  PROVE  AllSound'
  <1> SUFFICES ASSUME NEW i \in Transfers PROVE Sound(i)'
    BY DEF AllSound
  <1>1. Sound(i)
    BY DEF AllSound
  <1>2. UNCHANGED <<status, committed, attempts, jobState, jobCommitted, retries, journals, reservedBalance>>
    BY DEF RetryCheck, transferVars, moneyVars
  <1>3. \A k \in Jobs : retrying'[k] > 0 => retrying[k] > 0 \/ k = j
    BY DEF RetryCheck, TypeOK
  <1>4. \A n \in 1..MaxAttempts : retrying'[<<i, n>>] > 0 => jobState[<<i, n>>] = "failed" /\ ~jobCommitted[<<i, n>>]
    BY <1>1, <1>3, JobParts DEF RetryCheck, Sound, Tried
  <1>5. Tried(i)'
    BY <1>1, <1>2, <1>4 DEF Sound, Tried, Latest
  <1> QED BY <1>1, <1>2, <1>5 DEF Sound, Books, Retried

LEMMA RetrySound ==
  ASSUME TypeOK, AllSound, MaxInFlight = 1, NEW j \in Jobs, RetryDeviceJob(j)
  PROVE  AllSound'
  <1> DEFINE t == j[1]
  <1>1. retrying[j] > 0 /\ Post({"reservation"}, t)
    BY DEF RetryDeviceJob
  <1>2. j[1] \in Transfers /\ j[2] \in 1..MaxAttempts /\ j = <<j[1], j[2]>>
    BY JobParts
  <1>a. Tried(t)
    BY <1>2 DEF AllSound, Sound
  <1>3. jobState[j] = "failed" /\ ~jobCommitted[j]
    BY <1>1, <1>2, <1>a DEF Tried
  <1>4. j = Latest(t) /\ status[t] # "none" /\ committed[t] = jobCommitted[j] /\ <<jobState[j], status[t]>> \in Story
    BY <1>3, LiveIsLatest
  <1>5. status[t] = "failed" /\ reservedBalance[t] = 0
    BY <1>3, <1>4, <1>2 DEF Story, AllSound, Sound, HeldIn, Open
  <1>6. \A i \in Transfers : /\ status'[i] = IF i = t THEN "queued" ELSE status[i]
                             /\ reservedBalance'[i] = IF i = t THEN 1 ELSE reservedBalance[i]
    BY <1>5 DEF RetryDeviceJob, SetStatus, AddReserved, TypeOK
  <1>7. \A i \in Jobs : jobState'[i] = IF i = j THEN "queued" ELSE jobState[i]
    BY DEF RetryDeviceJob, SetJob, TypeOK
  <1>8. UNCHANGED <<committed, attempts, jobCommitted>>
    BY DEF RetryDeviceJob
  <1>9. \A i \in Jobs : /\ retrying'[i] = (IF i = j THEN 0 ELSE retrying[i])
                        /\ retries'[i] = (IF i = j THEN retries[i] + 1 ELSE retries[i])
    BY <1>1 DEF RetryDeviceJob, TypeOK
  <1> SUFFICES ASSUME NEW i \in Transfers PROVE Sound(i)'
    BY DEF AllSound
  <1>10. Sound(i)
    BY DEF AllSound
  <1>11. CASE i # t
    <2>1. \A n \in 1..MaxAttempts : <<i, n>> \in Jobs /\ <<i, n>> # j
      BY <1>11, JobParts
    <2>2. \A k \in JournalTypes : <<k, i>> \in journals' <=> <<k, i>> \in journals
      BY <1>1, <1>11, PostElsewhere
    <2> QED BY <1>6, <1>7, <1>8, <1>9, <1>10, <1>11, <2>1, <2>2, SoundKept
  <1>12. CASE i = t
    <2>1. \A n \in 1..MaxAttempts : <<t, n>> \in Jobs /\ (<<t, n>> = j <=> n = attempts[t])
      BY <1>2, <1>4, JobParts DEF Latest
    <2>2. retries'[j] > 0
      BY <1>9 DEF TypeOK
    <2>3. Retried(t)'
      BY <1>2, <2>2 DEF Retried
    <2>4. Marked("queued", FALSE) /\ <<"queued", "queued">> \in Story /\ HeldIn("queued") = 1 /\ "queued" \in Statuses
      BY DEF Marked, Story, HeldIn, Open, Statuses
    <2>5. committed[t] = FALSE /\ jobCommitted[j] = FALSE
      BY <1>2, <1>3, <1>4 DEF TypeOK
    <2>a. \A n \in 1..MaxAttempts : retrying'[<<t, n>>] > 0 => n # attempts[t] /\ retrying[<<t, n>>] > 0
      BY <1>9, <2>1
    <2>b. \A n \in 1..MaxAttempts : jobState'[<<t, n>>] = IF n = attempts[t] THEN "queued" ELSE jobState[<<t, n>>]
      BY <1>7, <2>1
    <2>c. \A n \in 1..MaxAttempts : jobCommitted'[<<t, n>>] = IF n = attempts[t] THEN FALSE ELSE jobCommitted[<<t, n>>]
      BY <1>8, <2>1, <2>5
    <2>6. \A n \in 1..MaxAttempts :
            /\ jobState'[<<t, n>>] = IF n = attempts[t] THEN "queued" ELSE jobState[<<t, n>>]
            /\ jobCommitted'[<<t, n>>] = IF n = attempts[t] THEN FALSE ELSE jobCommitted[<<t, n>>]
            /\ retrying'[<<t, n>>] > 0 => n # attempts[t] /\ retrying[<<t, n>>] > 0
      BY <2>a, <2>b, <2>c
    <2> QED BY <1>2, <1>4, <1>6, <1>8, <1>10, <1>12, <2>3, <2>4, <2>5, <2>6, SoundChanged
  <1> QED BY <1>11, <1>12

\* What the handset lock tells about the job it names.
LEMMA LockedJob ==
  ASSUME TypeOK, AllSound, LockExact, NEW d \in Devices, activeUssdJob[d] # NoJob
  PROVE  LET k == activeUssdJob[d]
             t == k[1]
         IN  /\ k \in Jobs /\ jobState[k] \in Delivered
             /\ t \in Transfers /\ k = Latest(t)
             /\ status[t] \in {"queued", "device_started", "committed", "provider_pending"}
             /\ LostLeaseHeld(k) /\ AlignedState(t) = "unknown"
  <1> DEFINE k == activeUssdJob[d]
             t == k[1]
  <1>1. k \in Jobs /\ jobState[k] \in Delivered
    BY DEF TypeOK, LockExact, InHands
  <1>2. t \in Transfers /\ k = Latest(t) /\ status[t] # "none" /\ <<jobState[k], status[t]>> \in Story
    BY <1>1, LiveIsLatest DEF Delivered
  <1>3. status[t] \in {"queued", "device_started", "committed", "provider_pending"}
    BY <1>1, <1>2 DEF Story, Delivered
  <1>4. committed[t] = jobCommitted[k] /\ Marked(status[t], committed[t])
    BY <1>2, LatestStory
  <1>5. jobState[k] = "committed" => jobCommitted[k]
    BY <1>2, <1>4 DEF Story, Marked
  <1>6. LostLeaseHeld(k)
    BY <1>1, <1>5 DEF LostLeaseHeld, Delivered
  <1>7. AlignedState(t) = "unknown"
    BY <1>3 DEF AlignedState
  <1> QED BY <1>1, <1>2, <1>3, <1>6, <1>7

\* The lease that follows a lost one: the old job k and its transfer are held
\* unknown, the new job j, if any, is leased.
Handover(k, j) ==
  /\ k \in Jobs /\ jobState[k] \in Delivered /\ k[1] \in Transfers
  /\ \A i \in Transfers : status'[i] = IF i = k[1] THEN "unknown" ELSE status[i]
  /\ \A i \in Transfers : committed'[i] = IF i = k[1] THEN TRUE ELSE committed[i]
  /\ \A i \in Jobs : jobState'[i] = IF i = k THEN "unknown" ELSE IF i = j THEN "leased" ELSE jobState[i]
  /\ \A i \in Jobs : jobCommitted'[i] = IF i = k THEN TRUE ELSE jobCommitted[i]
  /\ UNCHANGED <<retries, retrying>>

LEMMA LeaseAfterExpirySteps ==
  ASSUME TypeOK, AllSound, LockExact, NEW d \in Devices, NEW j \in Jobs \cup {NoJob}, LeaseAfterExpiry(d, j)
  PROVE  Handover(activeUssdJob[d], j)
  <1> DEFINE k == activeUssdJob[d]
  <1>1. activeUssdJob[d] # NoJob
    BY DEF LeaseAfterExpiry
  <1>2. /\ k \in Jobs /\ jobState[k] \in Delivered /\ k[1] \in Transfers /\ LostLeaseHeld(k) /\ AlignedState(k[1]) = "unknown"
        /\ status[k[1]] \in {"queued", "device_started", "committed", "provider_pending"}
    BY <1>1, LockedJob
  <1>3. status[k[1]] \notin Closed
    BY <1>2 DEF Closed
  <1>4. HoldUnknown(k) /\ UNCHANGED fenceVars
    BY <1>2 DEF LeaseAfterExpiry
  <1>5. /\ status' = [status EXCEPT ![k[1]] = "unknown"]
        /\ committed' = [committed EXCEPT ![k[1]] = TRUE]
        /\ jobCommitted' = [jobCommitted EXCEPT ![k] = TRUE]
    BY <1>3, <1>4 DEF HoldUnknown, SetStatus
  <1>6. \A i \in Jobs : jobState'[i] = IF i = k THEN "unknown" ELSE IF i = j THEN "leased" ELSE jobState[i]
    BY <1>2 DEF LeaseAfterExpiry
  <1>7. \A i \in Transfers : status'[i] = IF i = k[1] THEN "unknown" ELSE status[i]
    BY <1>2, <1>5 DEF TypeOK
  <1>8. \A i \in Transfers : committed'[i] = IF i = k[1] THEN TRUE ELSE committed[i]
    BY <1>2, <1>5, Zenon DEF TypeOK
  <1>9. \A i \in Jobs : jobCommitted'[i] = IF i = k THEN TRUE ELSE jobCommitted[i]
    BY <1>2, <1>5, Zenon DEF TypeOK
  <1>10. UNCHANGED <<retries, retrying>>
    BY <1>4 DEF fenceVars
  <1> QED BY <1>2, <1>6, <1>7, <1>8, <1>9, <1>10 DEF Handover

LEMMA LeaseAfterExpirySound ==
  ASSUME TypeOK, AllSound, LockExact, NEW d \in Devices, NEW j \in Jobs \cup {NoJob}, LeaseAfterExpiry(d, j)
  PROVE  AllSound'
  <1> DEFINE k == activeUssdJob[d]
  <1>0. Handover(k, j)
    BY LeaseAfterExpirySteps
  <1>1. /\ k \in Jobs /\ jobState[k] \in Delivered /\ k[1] \in Transfers
        /\ \A i \in Transfers : status'[i] = IF i = k[1] THEN "unknown" ELSE status[i]
        /\ \A i \in Transfers : committed'[i] = IF i = k[1] THEN TRUE ELSE committed[i]
        /\ \A i \in Jobs : jobState'[i] = IF i = k THEN "unknown" ELSE IF i = j THEN "leased" ELSE jobState[i]
        /\ \A i \in Jobs : jobCommitted'[i] = IF i = k THEN TRUE ELSE jobCommitted[i]
        /\ UNCHANGED <<retries, retrying>>
    BY <1>0, Zenon DEF Handover
  <1>2. UNCHANGED <<attempts, reservedBalance, journals>>
    BY DEF LeaseAfterExpiry, moneyVars
  <1>3. k = Latest(k[1]) /\ status[k[1]] \in {"queued", "device_started", "committed", "provider_pending"}
    BY LockedJob DEF LeaseAfterExpiry
  <1>4. j # NoJob => /\ j \in Jobs /\ jobState[j] = "queued"
    BY DEF LeaseAfterExpiry, Leasable
  <1>5. j # NoJob => /\ j[1] \in Transfers /\ j = Latest(j[1]) /\ status[j[1]] # "none" /\ <<jobState[j], status[j[1]]>> \in Story
    BY <1>4, LiveIsLatest
  <1>6. j # NoJob => j[1] # k[1] /\ status[j[1]] = "queued"
    BY <1>1, <1>3, <1>4, <1>5 DEF Story, Delivered
  <1>7. \A i \in Jobs : i # NoJob
    BY PayoutsAssumption
  <1> SUFFICES ASSUME NEW i \in Transfers PROVE Sound(i)'
    BY DEF AllSound
  <1>8. Sound(i)
    BY DEF AllSound
  <1>9. \A n \in 1..MaxAttempts : <<i, n>> \in Jobs /\ <<i, n>>[1] = i /\ (<<i, n>> = Latest(i) <=> n = attempts[i])
    BY JobParts DEF Latest
  <1>10. Retried(i)' <=> Retried(i)
    BY <1>1 DEF Retried
  <1>11. Post({}, i)
    BY <1>2, NoPost
  <1>12. CASE i = k[1]
    <2>1. status[i] # "none" /\ status[i] \in Open /\ jobState[Latest(i)] # "failed" /\ status'[i] = "unknown"
      BY <1>1, <1>3, <1>12 DEF Open, Delivered
    <2>2. ~Retried(i) => Books(i)'
      BY <1>8, <1>11, <2>1, BooksPosted DEF Open
    <2>3. ~(retrying[Latest(i)] > 0)
      BY <2>1, NotRetrying
    <2>4. \A n \in 1..MaxAttempts : jobState'[<<i, n>>] = IF n = attempts[i] THEN "unknown" ELSE jobState[<<i, n>>]
      <3> TAKE n \in 1..MaxAttempts
      <3>1. j # NoJob => <<i, n>> # j
        BY <1>6, <1>9, <1>12
      <3>2. <<i, n>> # j
        BY <3>1, <1>7, <1>9
      <3>3. <<i, n>> = k <=> n = attempts[i]
        BY <1>3, <1>9, <1>12
      <3> QED BY <1>1, <1>9, <3>2, <3>3
    <2>5. \A n \in 1..MaxAttempts : jobCommitted'[<<i, n>>] = IF n = attempts[i] THEN TRUE ELSE jobCommitted[<<i, n>>]
      <3> TAKE n \in 1..MaxAttempts
      <3>1. <<i, n>> = k <=> n = attempts[i]
        BY <1>3, <1>9, <1>12
      <3>2. jobCommitted'[<<i, n>>] = IF <<i, n>> = k THEN TRUE ELSE jobCommitted[<<i, n>>]
        BY <1>1, <1>9, Zenon
      <3> QED BY <3>1, <3>2
    <2>6. \A n \in 1..MaxAttempts : retrying'[<<i, n>>] > 0 => n # attempts[i] /\ retrying[<<i, n>>] > 0
      BY <1>1, <1>9, <2>3
    <2>7. Marked("unknown", TRUE) /\ <<"unknown", "unknown">> \in Story /\ HeldIn("unknown") = 1 /\ "unknown" \in Statuses
      BY DEF Marked, Story, HeldIn, Open, Statuses
    <2>8. reservedBalance'[i] = 1 /\ committed'[i] = TRUE /\ attempts'[i] = attempts[i]
      BY <1>1, <1>2, <1>8, <1>12, <2>1 DEF Sound, HeldIn
    <2> QED BY <1>8, <1>10, <2>1, <2>2, <2>4, <2>5, <2>6, <2>7, <2>8, SoundChanged
  <1>13. CASE j # NoJob /\ i = j[1]
    <2>1. status[i] = "queued" /\ status'[i] = "queued" /\ i # k[1] /\ Latest(i) = j /\ jobState[Latest(i)] # "failed"
      BY <1>1, <1>4, <1>5, <1>6, <1>13
    <2>2. ~Retried(i) => Books(i)'
      BY <1>8, <1>11, <2>1, BooksPosted DEF Open
    <2>3. ~(retrying[Latest(i)] > 0) /\ committed[i] = jobCommitted[Latest(i)] /\ committed[i] \in BOOLEAN /\ Marked(status[i], committed[i])
      BY <2>1, NotRetrying, LatestStory
    <2>a. \A n \in 1..MaxAttempts : <<i, n>> # k
      BY <1>9, <2>1
    <2>4. \A n \in 1..MaxAttempts : jobState'[<<i, n>>] = IF n = attempts[i] THEN "leased" ELSE jobState[<<i, n>>]
      BY <1>1, <1>9, <2>a, <2>1
    <2>5. \A n \in 1..MaxAttempts : jobCommitted'[<<i, n>>] = IF n = attempts[i] THEN committed[i] ELSE jobCommitted[<<i, n>>]
      BY <1>1, <1>9, <2>1, <2>3, <2>a
    <2>6. \A n \in 1..MaxAttempts : retrying'[<<i, n>>] > 0 => n # attempts[i] /\ retrying[<<i, n>>] > 0
      BY <1>1, <1>9, <2>3
    <2>7. <<"leased", "queued">> \in Story /\ HeldIn("queued") = 1 /\ "queued" \in Statuses
      BY DEF Story, HeldIn, Open, Statuses
    <2>8. reservedBalance'[i] = 1 /\ committed'[i] = committed[i] /\ attempts'[i] = attempts[i]
      BY <1>1, <1>2, <1>8, <2>1 DEF Sound, HeldIn, Open
    <2> QED BY <1>8, <1>10, <2>1, <2>2, <2>3, <2>4, <2>5, <2>6, <2>7, <2>8, SoundChanged
  <1>14. CASE i # k[1] /\ (j = NoJob \/ i # j[1])
    <2>1. \A n \in 1..MaxAttempts : <<i, n>> # k /\ <<i, n>> # j
      BY <1>7, <1>9, <1>14
    <2> QED BY <1>1, <1>2, <1>8, <1>9, <1>14, <2>1, SoundKept
  <1> QED BY <1>12, <1>13, <1>14

-----------------------------------------------------------------------------
(* The handset lock *)

\* A step that neither takes a job into a handset's hands nor out of them.
LEMMA LockKept ==
  ASSUME LockExact, UNCHANGED <<activeUssdJob, unbound>>,
         \A j \in Jobs : jobState'[j] \in Delivered <=> jobState[j] \in Delivered,
         \A j \in Jobs : jobState[j] \in Delivered => sim'[j[1]] = sim[j[1]]
  PROVE  LockExact'
  BY DEF LockExact, InHands

\* A step that ends a job and clears the lock it holds.
LEMMA LockCleared ==
  ASSUME TypeOK, LockExact, NEW k \in Jobs, activeUssdJob' = Unlocked(k), UNCHANGED <<sim, unbound>>,
         \A j \in Jobs : j # k => jobState'[j] = jobState[j],
         jobState'[k] \notin Delivered
  PROVE  LockExact'
  <1> SUFFICES ASSUME NEW d \in Devices, NEW j \in Jobs
               PROVE  activeUssdJob'[d] = j <=> /\ jobState'[j] \in Delivered /\ sim'[j[1]] # NoSim /\ DeviceOf[sim'[j[1]]] = d
                                                 /\ j \notin unbound'
    BY DEF LockExact, InHands
  <1>1. activeUssdJob'[d] = IF activeUssdJob[d] = k THEN NoJob ELSE activeUssdJob[d]
    BY DEF Unlocked
  <1>2. j # NoJob
    BY PayoutsAssumption
  <1>3. activeUssdJob[d] = j <=> jobState[j] \in Delivered /\ sim[j[1]] # NoSim /\ DeviceOf[sim[j[1]]] = d /\ j \notin unbound
    BY DEF LockExact, InHands
  <1>4. CASE j = k
    BY <1>1, <1>2, <1>4
  <1>5. CASE j # k
    BY <1>1, <1>2, <1>3, <1>5
  <1> QED BY <1>4, <1>5

\* A step that puts a job into the hands of its handset, which gives up the job
\* k it had, if any.
LEMMA LockTaken ==
  ASSUME TypeOK, LockExact, NEW d \in Devices, NEW j \in Jobs \cup {NoJob},
         activeUssdJob' = [activeUssdJob EXCEPT ![d] = j], UNCHANGED sim, unbound' = unbound \ {j},
         \A i \in Jobs : i # j /\ i # activeUssdJob[d] => jobState'[i] = jobState[i],
         activeUssdJob[d] # NoJob => jobState'[activeUssdJob[d]] \notin Delivered,
         j # NoJob => /\ sim[j[1]] # NoSim /\ DeviceOf[sim[j[1]]] = d
                      /\ jobState[j] \notin Delivered /\ jobState'[j] \in Delivered
  PROVE  LockExact'
  <1> SUFFICES ASSUME NEW b \in Devices, NEW i \in Jobs
               PROVE  activeUssdJob'[b] = i <=> /\ jobState'[i] \in Delivered /\ sim'[i[1]] # NoSim /\ DeviceOf[sim'[i[1]]] = b
                                                 /\ i \notin unbound'
    BY DEF LockExact, InHands
  <1>1. activeUssdJob'[b] = IF b = d THEN j ELSE activeUssdJob[b]
    BY DEF TypeOK
  <1>2. i # NoJob
    BY PayoutsAssumption
  <1>3. activeUssdJob[b] = i <=> jobState[i] \in Delivered /\ sim[i[1]] # NoSim /\ DeviceOf[sim[i[1]]] = b /\ i \notin unbound
    BY DEF LockExact, InHands
  <1>4. activeUssdJob[d] = i <=> jobState[i] \in Delivered /\ sim[i[1]] # NoSim /\ DeviceOf[sim[i[1]]] = d /\ i \notin unbound
    BY DEF LockExact, InHands
  <1>5. CASE i = j
    BY <1>1, <1>2, <1>3, <1>5
  <1>6. CASE i # j /\ i = activeUssdJob[d]
    BY <1>1, <1>2, <1>3, <1>4, <1>6
  <1>7. CASE i # j /\ i # activeUssdJob[d]
    BY <1>1, <1>2, <1>3, <1>4, <1>7
  <1> QED BY <1>5, <1>6, <1>7

\* Every step keeps the lock exact.
LEMMA LockStep ==
  ASSUME TypeOK, Enrolled, AllSound, LockExact, MaxInFlight = 1, [Next]_vars
  PROVE  LockExact'
  <1>1. ASSUME NEW t \in Transfers, NEW s \in Sims, QueueTransfer(t, s) PROVE LockExact'
    <2>1. \A n \in 1..MaxAttempts : jobState[<<t, n>>] = "none"
      <3>1. Tried(t) /\ status[t] = "none"
        BY <1>1 DEF AllSound, Sound, QueueTransfer
      <3>2. attempts[t] = 0
        BY <3>1 DEF Tried
      <3> QED BY <3>1, <3>2, PayoutsAssumption DEF Tried
    <2>2. \A j \in Jobs : jobState[j] \in Delivered => j[1] # t
      BY <2>1, JobParts DEF Delivered
    <2>3. \A j \in Jobs : jobState[j] \in Delivered => sim'[j[1]] = sim[j[1]]
      BY <1>1, <2>2, JobParts DEF QueueTransfer, TypeOK
    <2>4. <<t, 1>> \in Jobs /\ <<t, 1>>[1] = t
      BY JobParts, PayoutsAssumption
    <2>5. \A j \in Jobs : jobState'[j] = IF j = <<t, 1>> THEN "queued" ELSE jobState[j]
      BY <1>1 DEF QueueTransfer, CreateJob, SetJob, TypeOK
    <2>6. \A j \in Jobs : jobState'[j] \in Delivered <=> jobState[j] \in Delivered
      BY <2>2, <2>4, <2>5 DEF Delivered
    <2> QED BY <1>1, <2>3, <2>6, LockKept DEF QueueTransfer, fleetVars
  <1>2. ASSUME NEW t \in Transfers, CancelBeforeStart(t) PROVE LockExact'
    <2>1. \A j \in Jobs : jobState'[j] = IF j = Latest(t) THEN "cancelled" ELSE jobState[j]
      BY <1>2 DEF CancelBeforeStart, SetJob, TypeOK
    <2>2. \A j \in Jobs : jobState'[j] \in Delivered <=> jobState[j] \in Delivered
      BY <1>2, <2>1 DEF CancelBeforeStart, Delivered
    <2> QED BY <1>2, <2>2, LockKept DEF CancelBeforeStart, fleetVars
  <1>3. ASSUME NEW t \in Transfers, status[t] \in {"unknown", "manual_review"}, NEW v \in {"succeeded", "failed"},
               SetJob(Latest(t), v), UNCHANGED <<activeUssdJob, sim, unbound>>
        PROVE  LockExact'
    <2>1. <<jobState[Latest(t)], status[t]>> \in Story
      BY <1>3, LatestStory
    <2>2. jobState[Latest(t)] \notin Delivered
      BY <1>3, <2>1 DEF Story, Delivered
    <2>3. \A j \in Jobs : jobState'[j] \in Delivered <=> jobState[j] \in Delivered
      BY <1>3, <2>2 DEF SetJob, TypeOK, Delivered
    <2> QED BY <1>3, <2>3, LockKept
  <1>4. ASSUME NEW t \in Transfers, NEW x \in Payments, ResolveSuccess(t, x) PROVE LockExact'
    BY <1>3, <1>4 DEF ResolveSuccess, fleetVars
  <1>5. ASSUME NEW t \in Transfers, ResolveFailed(t) PROVE LockExact'
    BY <1>3, <1>5 DEF ResolveFailed, fleetVars
  <1>6. ASSUME NEW t \in Transfers, ApproveNameAndRetry(t) PROVE LockExact'
    <2>1. Tried(t) /\ attempts[t] < MaxAttempts /\ attempts[t] \in 0..MaxAttempts /\ MaxAttempts \in Nat
      BY <1>6, PayoutsAssumption DEF AllSound, Sound, ApproveNameAndRetry, TypeOK
    <2>2. attempts[t] + 1 \in 1..MaxAttempts /\ attempts[t] + 1 > attempts[t]
      BY <2>1
    <2>3. <<t, attempts[t] + 1>> \in Jobs /\ jobState[<<t, attempts[t] + 1>>] = "none"
      BY <2>1, <2>2, JobParts DEF Tried
    <2>4. \A j \in Jobs : jobState'[j] = IF j = <<t, attempts[t] + 1>> THEN "queued" ELSE jobState[j]
      BY <1>6 DEF ApproveNameAndRetry, CreateJob, SetJob, TypeOK
    <2>5. \A j \in Jobs : jobState'[j] \in Delivered <=> jobState[j] \in Delivered
      BY <2>3, <2>4 DEF Delivered
    <2> QED BY <1>6, <2>5, LockKept DEF ApproveNameAndRetry, fleetVars
  <1>7. ASSUME NEW d \in Devices, NEW j \in Jobs, LeaseNext(d, j) PROVE LockExact'
    <2>1. jobState[j] = "queued" /\ DeviceOf[sim[j[1]]] = d /\ activeUssdJob[d] = NoJob
      BY <1>7 DEF LeaseNext, Leasable
    <2>2. sim[j[1]] \in Sims /\ sim[j[1]] # NoSim /\ j # NoJob
      BY <2>1, PayoutsAssumption DEF Enrolled
    <2>3. \A i \in Jobs : jobState'[i] = IF i = j THEN "leased" ELSE jobState[i]
      BY <1>7 DEF LeaseNext, SetJob, TypeOK
    <2>4. activeUssdJob' = [activeUssdJob EXCEPT ![d] = j] /\ UNCHANGED sim /\ unbound' = unbound \ {j}
      BY <1>7 DEF LeaseNext, transferVars
    <2>5. jobState[j] \notin Delivered /\ jobState'[j] \in Delivered
      BY <2>1, <2>3 DEF Delivered
    <2>6. \A i \in Jobs : i # j /\ i # activeUssdJob[d] => jobState'[i] = jobState[i]
      BY <2>3
    <2>7. j \in Jobs \cup {NoJob}
      OBVIOUS
    <2> QED BY <2>1, <2>2, <2>4, <2>5, <2>6, <2>7, LockTaken
  <1>8. ASSUME NEW d \in Devices, NEW j \in Jobs \cup {NoJob}, LeaseAfterExpiry(d, j) PROVE LockExact'
    <2> DEFINE k == activeUssdJob[d]
    <2>0. Handover(k, j)
      BY <1>8, LeaseAfterExpirySteps
    <2>1. /\ k \in Jobs /\ jobState[k] \in Delivered
          /\ \A i \in Jobs : jobState'[i] = IF i = k THEN "unknown" ELSE IF i = j THEN "leased" ELSE jobState[i]
      BY <2>0, Zenon DEF Handover
    <2>2. activeUssdJob' = [activeUssdJob EXCEPT ![d] = j] /\ UNCHANGED sim /\ unbound' = unbound \ {j} /\ (j # NoJob => Leasable(d, j))
      BY <1>8 DEF LeaseAfterExpiry
    <2>3. j # NoJob => j \in Jobs /\ jobState[j] = "queued" /\ DeviceOf[sim[j[1]]] = d
      BY <2>2 DEF Leasable
    <2>4. j # NoJob => sim[j[1]] # NoSim /\ jobState[j] \notin Delivered /\ j # k
      BY <2>1, <2>3, PayoutsAssumption DEF Enrolled, Delivered
    <2>5. j # NoJob => jobState'[j] \in Delivered
      BY <2>1, <2>3, <2>4 DEF Delivered
    <2>6. jobState'[k] \notin Delivered
      BY <2>1 DEF Delivered
    <2>7. \A i \in Jobs : i # j /\ i # k => jobState'[i] = jobState[i]
      BY <2>1
    <2> QED BY <2>2, <2>3, <2>4, <2>5, <2>6, <2>7, LockTaken
  <1>9. ASSUME NEW j \in Jobs, ExpireFinancialJob(j) PROVE LockExact'
    <2>1. AlignedState(j[1]) \notin Delivered
      BY DEF AlignedState, Delivered
    <2>2. jobState'[j] \notin Delivered /\ \A i \in Jobs : i # j => jobState'[i] = jobState[i]
      BY <1>9, <2>1 DEF ExpireFinancialJob, SetJob, TypeOK, Delivered
    <2> QED BY <1>9, <2>2, LockCleared DEF ExpireFinancialJob, fleetVars
  <1>10. ASSUME NEW d \in Devices, NEW e \in Reports, ReportFromSpool(d, e) PROVE LockExact'
    <2>1. UNCHANGED <<sim, unbound>> /\ e.job \in Jobs
      BY <1>10, ReportParts DEF ReportFromSpool, QuarantineOnBadClock
    <2>2. CASE ReportLate(e) \/ ReportRepeated(e)
      BY <2>1, <2>2, LockKept DEF ReportLate, ReportRepeated
    <2>3. CASE ReportTransition(e)
      <3> DEFINE eff == EffectiveState(e)
      <3>1. /\ eff \in {"device_started", "committed", "provider_pending", "failed", "unknown", "cancelled"}
            /\ jobState[e.job] \in Delivered
        BY <2>3, EffectiveStates DEF ReportTransition
      <3>2. \A i \in Jobs : jobState'[i] = IF i = e.job THEN eff ELSE jobState[i]
        BY <2>3 DEF ReportTransition, SetJob, TypeOK
      <3>3. CASE shouldReleaseDeviceLockAfterReport(eff)
        <4>1. eff \notin Delivered /\ activeUssdJob' = Unlocked(e.job)
          BY <2>3, <3>3 DEF ReportTransition, shouldReleaseDeviceLockAfterReport, Delivered
        <4> QED BY <2>1, <3>2, <4>1, LockCleared
      <3>4. CASE ~shouldReleaseDeviceLockAfterReport(eff)
        <4>1. eff \in Delivered /\ UNCHANGED activeUssdJob
          BY <2>3, <3>1, <3>4 DEF ReportTransition, shouldReleaseDeviceLockAfterReport, Delivered
        <4> QED BY <2>1, <3>1, <3>2, <4>1, LockKept
      <3> QED BY <3>3, <3>4
    <2> QED BY <1>10, <2>2, <2>3 DEF ReportFromSpool
  <1>11. ASSUME NEW s \in Sims, NEW x \in Payments, NEW near, NEW c \in BOOLEAN,
                UnmatchedOutgoing(s, x, near, c) \/ CorroborateOutgoing(s, x, near, c)
         PROVE  LockExact'
    BY <1>11, LockKept DEF UnmatchedOutgoing, CorroborateOutgoing, QuarantineOnBadClock, transferVars, jobVars
  <1>12. ASSUME NEW s \in Sims, NEW x \in Payments, NEW near, NEW c \in BOOLEAN, NEW t \in Transfers,
                SettleOutgoing(s, x, near, c, t)
         PROVE  LockExact'
    <2>1. status[t] # "none"
      BY <1>12 DEF SettleOutgoing, Matches
    <2>2. Latest(t) \in Jobs
      BY <2>1, LatestStory
    <2>3. jobState'[Latest(t)] = "succeeded" /\ \A i \in Jobs : i # Latest(t) => jobState'[i] = jobState[i]
      BY <1>12, <2>2 DEF SettleOutgoing, SetJob, TypeOK
    <2>4. activeUssdJob' = Unlocked(Latest(t)) /\ UNCHANGED <<sim, unbound>>
      BY <1>12 DEF SettleOutgoing, QuarantineOnBadClock
    <2>5. jobState'[Latest(t)] \notin Delivered
      BY <2>3 DEF Delivered
    <2> QED BY <2>2, <2>3, <2>4, <2>5, LockCleared
  <1>13. ASSUME NEW j \in Jobs, RetryCheck(j) PROVE LockExact'
    BY <1>13, LockKept DEF RetryCheck, transferVars, fleetVars
  <1>14. ASSUME NEW j \in Jobs, RetryDeviceJob(j) PROVE LockExact'
    <2>1. retrying[j] > 0 /\ j[1] \in Transfers /\ j[2] \in 1..MaxAttempts /\ j = <<j[1], j[2]>>
      BY <1>14, JobParts DEF RetryDeviceJob
    <2>2. Tried(j[1])
      BY <2>1 DEF AllSound, Sound
    <2>3. jobState[j] = "failed"
      BY <2>1, <2>2 DEF Tried
    <2>4. \A i \in Jobs : jobState'[i] = IF i = j THEN "queued" ELSE jobState[i]
      BY <1>14 DEF RetryDeviceJob, SetJob, TypeOK
    <2>5. \A i \in Jobs : jobState'[i] \in Delivered <=> jobState[i] \in Delivered
      BY <2>3, <2>4 DEF Delivered
    <2> QED BY <1>14, <2>5, LockKept DEF RetryDeviceJob, fleetVars
  <1>15. ASSUME NEW d \in Devices, BeginDeviceRecovery(d) PROVE LockExact'
    <2>1. activeUssdJob[d] = NoJob
      <3> SUFFICES ASSUME activeUssdJob[d] # NoJob PROVE FALSE
        OBVIOUS
      <3> DEFINE k == activeUssdJob[d]
      <3>1. k \in Jobs
        BY DEF TypeOK
      <3>2. jobState[k] \in Delivered /\ sim[k[1]] # NoSim /\ DeviceOf[sim[k[1]]] = d
        BY <3>1 DEF LockExact, InHands
      <3>3. k[1] \in Transfers /\ k[2] \in 1..MaxAttempts /\ k = <<k[1], k[2]>>
        BY <3>1, JobParts
      <3>4. jobState[<<k[1], k[2]>>] \notin LiveJob
        BY <1>15, <3>2, <3>3 DEF BeginDeviceRecovery
      <3> QED BY <3>2, <3>3, <3>4 DEF LiveJob
    <2>2. UNCHANGED <<activeUssdJob, jobState, sim, unbound>>
      BY <1>15, <2>1 DEF BeginDeviceRecovery, transferVars, TypeOK
    <2> QED BY <2>2, LockKept
  <1>16. ASSUME NEW D \in SUBSET Devices, NEW S \in SUBSET Sims, FleetChange(D, S) PROVE LockExact'
    BY <1>16, LockKept DEF FleetChange, transferVars, jobVars
  <1>17. ASSUME NEW d \in Devices, Activate(d) PROVE LockExact'
    <2> SUFFICES ASSUME NEW b \in Devices, NEW j \in Jobs
                 PROVE  activeUssdJob'[b] = j <=> InHands(b, j)' /\ j \notin unbound'
      BY DEF LockExact
    <2>1. activeUssdJob'[b] = IF b = d THEN NoJob ELSE activeUssdJob[b]
      BY <1>17 DEF Activate, TypeOK
    <2>2. j \in unbound' <=> j \in unbound \/ activeUssdJob[d] = j
      BY <1>17, PayoutsAssumption DEF Activate
    <2>3. activeUssdJob[b] = j <=> InHands(b, j) /\ j \notin unbound
      BY DEF LockExact
    <2>4. activeUssdJob[d] = j <=> InHands(d, j) /\ j \notin unbound
      BY DEF LockExact
    <2>5. InHands(b, j)' <=> InHands(b, j)
      BY <1>17 DEF Activate, transferVars, InHands
    <2>6. InHands(b, j) /\ InHands(d, j) => b = d
      BY DEF InHands
    <2>7. j # NoJob
      BY PayoutsAssumption
    <2> QED BY <2>1, <2>2, <2>3, <2>4, <2>5, <2>6, <2>7
  <1>18. ASSUME UNCHANGED vars PROVE LockExact'
    BY <1>18, LockKept DEF vars, transferVars, jobVars, fleetVars
  <1> QED BY <1>1, <1>2, <1>4, <1>5, <1>6, <1>7, <1>8, <1>9, <1>10, <1>11, <1>12, <1>13, <1>14, <1>15, <1>16, <1>17, <1>18 DEF Next, Report, Staff, Sms

-----------------------------------------------------------------------------
(* The theorems *)

\* Every step keeps every transfer sound.
LEMMA SoundStep ==
  ASSUME TypeOK, AllSound, LockExact, MaxInFlight = 1, [Next]_vars
  PROVE  AllSound'
  <1>1. ASSUME NEW s \in Sims, NEW x \in Payments, NEW near, NEW c \in BOOLEAN,
               UnmatchedOutgoing(s, x, near, c) \/ CorroborateOutgoing(s, x, near, c)
        PROVE  AllSound'
    BY <1>1, NothingMoves DEF UnmatchedOutgoing, CorroborateOutgoing, transferVars, jobVars, fenceVars, moneyVars
  <1>2. ASSUME NEW d \in Devices, BeginDeviceRecovery(d) PROVE AllSound'
    BY <1>2, NothingMoves DEF BeginDeviceRecovery, transferVars, fenceVars, moneyVars
  <1>3. ASSUME NEW D \in SUBSET Devices, NEW S \in SUBSET Sims, FleetChange(D, S) PROVE AllSound'
    BY <1>3, NothingMoves DEF FleetChange, transferVars, jobVars, fenceVars, moneyVars
  <1>4. ASSUME NEW d \in Devices, Activate(d) PROVE AllSound'
    BY <1>4, NothingMoves DEF Activate, transferVars, fenceVars, moneyVars
  <1>5. ASSUME UNCHANGED vars PROVE AllSound'
    BY <1>5, NothingMoves DEF vars, transferVars, jobVars, fenceVars, moneyVars
  <1> QED BY <1>1, <1>2, <1>3, <1>4, <1>5, CancelSound, ResolveSuccessSound, ResolveFailedSound, LeaseNextSound, ExpireSound,
             ReportSound, SettleSound, QueueSound, ApproveSound, RetryCheckSound, RetrySound, LeaseAfterExpirySound
          DEF Next, Report, Staff, Sms

Inductive == TypeOK /\ Enrolled /\ AllSound /\ LockExact

LEMMA InductiveInit ==
  ASSUME Init
  PROVE  Inductive
  <1>1. TypeOK /\ Enrolled
    BY PayoutsAssumption DEF Init, TypeOK, Enrolled, Statuses, JobStates
  <1>2. LockExact
    BY PayoutsAssumption DEF Init, LockExact, InHands, Delivered
  <1>3. ASSUME NEW t \in Transfers PROVE Sound(t)
    <2>1. Tried(t)
      BY JobParts, PayoutsAssumption DEF Init, Tried
    <2>2. Books(t)
      BY DEF Init, Books, Open
    <2> QED BY <2>1, <2>2 DEF Init, Sound, Marked, HeldIn, Open
  <1> QED BY <1>1, <1>2, <1>3 DEF Inductive, AllSound

LEMMA InductiveStep ==
  ASSUME Inductive, MaxInFlight = 1, [Next]_vars
  PROVE  Inductive'
  BY TypeStep, EnrolledStep, SoundStep, LockStep DEF Inductive

\* When staff send one retry request for a job at a time: the SIM wallets and the
\* ledger hold exactly the reservations of the open transfers, the handset locks
\* name exactly the jobs in the handsets' hands but those whose record activate has
\* stripped of its lock since, a transfer and its attempts tell one story with at
\* most one committed attempt, and the commit marker follows the status.
THEOREM Safety ==
  ASSUME MaxInFlight = 1
  PROVE  Spec => [](WalletHoldExact /\ LedgerHoldExact /\ LockExact /\ AttemptAgreement /\ CommitMarked)
  <1>1. Init => Inductive
    BY InductiveInit
  <1>2. Inductive /\ [Next]_vars => Inductive'
    BY InductiveStep
  <1>3. Inductive => WalletHoldExact /\ LedgerHoldExact /\ LockExact /\ AttemptAgreement /\ CommitMarked
    BY SoundImplies DEF Inductive
  <1> QED BY <1>1, <1>2, <1>3, PTL DEF Spec

\* The single facts of Safety, each under the name of the invariant the runs check.
\* The ledger holds the reservation of every open transfer staff have not retried.
COROLLARY LedgerSafe ==
  ASSUME MaxInFlight = 1
  PROVE  Spec => []LedgerHoldExact
  BY Safety, PTL

\* The handset lock names a job exactly while that job is in the handset's hands,
\* unless activate has bound the handset to another record since it leased the job.
COROLLARY LockSafe ==
  ASSUME MaxInFlight = 1
  PROVE  Spec => []LockExact
  BY Safety, PTL

\* A transfer and its attempts tell one story; at most one attempt is committed.
COROLLARY AttemptsAgree ==
  ASSUME MaxInFlight = 1
  PROVE  Spec => []AttemptAgreement
  BY Safety, PTL

\* A payout whose PIN may have been entered can be found by the provider's SMS.
COROLLARY CommitsMarked ==
  ASSUME MaxInFlight = 1
  PROVE  Spec => []CommitMarked
  BY Safety, PTL

\* What a step does with a commit marker, with the number of attempts of a
\* committed transfer and with a delivered job.
Irrevocable ==
  /\ \A t \in Transfers : committed[t] => committed'[t]
  /\ \A t \in Transfers : committed[t] => attempts'[t] = attempts[t]
  /\ \A j \in Jobs : jobState[j] \in Delivered => jobState'[j] # "queued"

\* The usual case: no attempt is added, and a job only goes to a state that is
\* not "queued".
LEMMA IrrevocableUsually ==
  ASSUME UNCHANGED attempts,
         \A t \in Transfers : committed[t] => committed'[t],
         \A j \in Jobs : jobState'[j] # "queued" \/ jobState'[j] = jobState[j]
  PROVE  Irrevocable
  BY DEF Irrevocable, Delivered

LEMMA IrrevocableStep ==
  ASSUME Inductive, MaxInFlight = 1, [Next]_vars
  PROVE  Irrevocable
  <1> USE DEF Inductive
  <1>1. ASSUME NEW t \in Transfers, NEW s \in Sims, QueueTransfer(t, s) PROVE Irrevocable
    <2>1. Tried(t) /\ status[t] = "none" /\ ~committed[t]
      BY <1>1 DEF AllSound, Sound, Marked, QueueTransfer
    <2>2. <<t, 1>> \in Jobs /\ attempts[t] = 0
      BY <2>1, JobParts, PayoutsAssumption DEF Tried
    <2>3. jobState[<<t, 1>>] = "none"
      BY <2>1, <2>2, PayoutsAssumption DEF Tried
    <2>4. \A j \in Jobs : jobState'[j] = IF j = <<t, 1>> THEN "queued" ELSE jobState[j]
      BY <1>1 DEF QueueTransfer, CreateJob, SetJob, TypeOK
    <2>5. \A i \in Transfers : attempts'[i] = IF i = t THEN 1 ELSE attempts[i]
      BY <1>1 DEF QueueTransfer, CreateJob, TypeOK
    <2>6. UNCHANGED committed
      BY <1>1 DEF QueueTransfer
    <2> QED BY <2>1, <2>3, <2>4, <2>5, <2>6 DEF Irrevocable, Delivered
  <1>2. ASSUME NEW t \in Transfers, CancelBeforeStart(t) PROVE Irrevocable
    BY <1>2, IrrevocableUsually DEF CancelBeforeStart, SetJob, TypeOK
  <1>3. ASSUME NEW t \in Transfers, NEW x \in Payments, ResolveSuccess(t, x) PROVE Irrevocable
    BY <1>3, IrrevocableUsually DEF ResolveSuccess, SetJob, TypeOK
  <1>4. ASSUME NEW t \in Transfers, ResolveFailed(t) PROVE Irrevocable
    BY <1>4, IrrevocableUsually DEF ResolveFailed, SetJob, TypeOK
  <1>5. ASSUME NEW t \in Transfers, ApproveNameAndRetry(t) PROVE Irrevocable
    <2>1. Tried(t) /\ attempts[t] < MaxAttempts /\ attempts[t] \in 0..MaxAttempts /\ MaxAttempts \in Nat /\ ~committed[t]
      BY <1>5, PayoutsAssumption DEF AllSound, Sound, ApproveNameAndRetry, TypeOK
    <2>2. attempts[t] + 1 \in 1..MaxAttempts /\ attempts[t] + 1 > attempts[t]
      BY <2>1
    <2>3. jobState[<<t, attempts[t] + 1>>] = "none"
      BY <2>1, <2>2 DEF Tried
    <2>4. \A j \in Jobs : jobState'[j] = IF j = <<t, attempts[t] + 1>> THEN "queued" ELSE jobState[j]
      BY <1>5 DEF ApproveNameAndRetry, CreateJob, SetJob, TypeOK
    <2>5. \A i \in Transfers : attempts'[i] = IF i = t THEN attempts[i] + 1 ELSE attempts[i]
      BY <1>5 DEF ApproveNameAndRetry, CreateJob, TypeOK
    <2>6. UNCHANGED committed
      BY <1>5 DEF ApproveNameAndRetry
    <2> QED BY <2>1, <2>3, <2>4, <2>5, <2>6 DEF Irrevocable, Delivered
  <1>6. ASSUME NEW d \in Devices, NEW j \in Jobs, LeaseNext(d, j) PROVE Irrevocable
    BY <1>6, IrrevocableUsually DEF LeaseNext, SetJob, TypeOK, transferVars
  <1>7. ASSUME NEW d \in Devices, NEW j \in Jobs \cup {NoJob}, LeaseAfterExpiry(d, j) PROVE Irrevocable
    <2>1. Handover(activeUssdJob[d], j) /\ UNCHANGED attempts
      BY <1>7, LeaseAfterExpirySteps DEF LeaseAfterExpiry
    <2>2. \A t \in Transfers : committed[t] => committed'[t]
      BY <2>1, Zenon DEF Handover
    <2>3. \A i \in Jobs : jobState'[i] = IF i = activeUssdJob[d] THEN "unknown" ELSE IF i = j THEN "leased" ELSE jobState[i]
      BY <2>1, Zenon DEF Handover
    <2> QED BY <2>1, <2>2, <2>3, IrrevocableUsually
  <1>8. ASSUME NEW j \in Jobs, ExpireFinancialJob(j) PROVE Irrevocable
    <2>1. AlignedState(j[1]) # "queued"
      BY DEF AlignedState
    <2>2. \A i \in Jobs : jobState'[i] # "queued" \/ jobState'[i] = jobState[i]
      BY <1>8, <2>1 DEF ExpireFinancialJob, SetJob, TypeOK
    <2>3. UNCHANGED attempts
      BY <1>8 DEF ExpireFinancialJob
    <2>4. \A t \in Transfers : committed[t] => committed'[t]
      BY <1>8 DEF ExpireFinancialJob, HoldUnknown, TypeOK
    <2> QED BY <2>2, <2>3, <2>4, IrrevocableUsually
  <1>9. ASSUME NEW d \in Devices, NEW e \in Reports, ReportFromSpool(d, e) PROVE Irrevocable
    <2>1. UNCHANGED attempts
      BY <1>9 DEF ReportFromSpool
    <2>2. CASE ReportLate(e)
      BY <2>1, <2>2, IrrevocableUsually DEF ReportLate, TypeOK
    <2>3. CASE ReportRepeated(e)
      BY <2>1, <2>3, IrrevocableUsually DEF ReportRepeated
    <2>4. CASE ReportTransition(e)
      <3>1. EffectiveState(e) # "queued"
        BY <2>4, EffectiveStates DEF ReportTransition
      <3>2. \A i \in Jobs : jobState'[i] # "queued" \/ jobState'[i] = jobState[i]
        BY <2>4, <3>1 DEF ReportTransition, SetJob, TypeOK
      <3>3. \A t \in Transfers : committed[t] => committed'[t]
        BY <2>4 DEF ReportTransition, TypeOK
      <3> QED BY <2>1, <3>2, <3>3, IrrevocableUsually
    <2> QED BY <1>9, <2>2, <2>3, <2>4 DEF ReportFromSpool
  <1>10. ASSUME NEW s \in Sims, NEW x \in Payments, NEW near, NEW c \in BOOLEAN,
                UnmatchedOutgoing(s, x, near, c) \/ CorroborateOutgoing(s, x, near, c)
         PROVE  Irrevocable
    BY <1>10, IrrevocableUsually DEF UnmatchedOutgoing, CorroborateOutgoing, transferVars, jobVars
  <1>11. ASSUME NEW s \in Sims, NEW x \in Payments, NEW near, NEW c \in BOOLEAN, NEW t \in Transfers,
                SettleOutgoing(s, x, near, c, t)
         PROVE  Irrevocable
    BY <1>11, IrrevocableUsually DEF SettleOutgoing, SetJob, TypeOK
  <1>12. ASSUME NEW j \in Jobs, RetryCheck(j) PROVE Irrevocable
    BY <1>12, IrrevocableUsually DEF RetryCheck, transferVars
  <1>13. ASSUME NEW j \in Jobs, RetryDeviceJob(j) PROVE Irrevocable
    <2>1. retrying[j] > 0 /\ j[1] \in Transfers /\ j[2] \in 1..MaxAttempts /\ j = <<j[1], j[2]>>
      BY <1>13, JobParts DEF RetryDeviceJob
    <2>2. Tried(j[1])
      BY <2>1 DEF AllSound, Sound
    <2>3. jobState[j] = "failed"
      BY <2>1, <2>2 DEF Tried
    <2>4. \A i \in Jobs : jobState'[i] = IF i = j THEN "queued" ELSE jobState[i]
      BY <1>13 DEF RetryDeviceJob, SetJob, TypeOK
    <2>5. UNCHANGED <<committed, attempts>>
      BY <1>13 DEF RetryDeviceJob
    <2> QED BY <2>3, <2>4, <2>5 DEF Irrevocable, Delivered
  <1>14. ASSUME NEW d \in Devices, BeginDeviceRecovery(d) PROVE Irrevocable
    BY <1>14, IrrevocableUsually DEF BeginDeviceRecovery, transferVars
  <1>15. ASSUME NEW D \in SUBSET Devices, NEW S \in SUBSET Sims, FleetChange(D, S) PROVE Irrevocable
    BY <1>15, IrrevocableUsually DEF FleetChange, transferVars, jobVars
  <1>16. ASSUME NEW d \in Devices, Activate(d) PROVE Irrevocable
    BY <1>16, IrrevocableUsually DEF Activate, transferVars
  <1>17. ASSUME UNCHANGED vars PROVE Irrevocable
    BY <1>17, IrrevocableUsually DEF vars, transferVars, jobVars
  <1> QED BY <1>1, <1>2, <1>3, <1>4, <1>5, <1>6, <1>7, <1>8, <1>9, <1>10, <1>11, <1>12, <1>13, <1>14, <1>15, <1>16, <1>17 DEF Next, Report, Staff, Sms

\* When staff send one retry request for a job at a time, a transfer whose PIN may
\* have been entered is never queued again and gets no further attempt.
THEOREM NeverPaidTwice ==
  ASSUME MaxInFlight = 1
  PROVE  Spec => CommittedNeverRetried
  <1>1. Init => Inductive
    BY InductiveInit
  <1>2. Inductive /\ [Next]_vars => Inductive'
    BY InductiveStep
  <1>3. Inductive /\ [Next]_vars => \A t \in Transfers : committed[t] => status'[t] # "queued" /\ attempts'[t] = attempts[t]
    <2> SUFFICES ASSUME Inductive, [Next]_vars, NEW t \in Transfers, committed[t]
                 PROVE  status'[t] # "queued" /\ attempts'[t] = attempts[t]
      OBVIOUS
    <2>1. committed'[t] /\ attempts'[t] = attempts[t]
      BY IrrevocableStep DEF Irrevocable
    <2>2. Marked(status[t], committed[t])'
      BY InductiveStep DEF Inductive, AllSound, Sound
    <2> QED BY <2>1, <2>2 DEF Marked
  <1>4. Inductive /\ [Next]_vars
          => [\A t \in Transfers : committed[t] => status'[t] # "queued" /\ attempts'[t] = attempts[t]]_vars
    BY <1>3
  <1> QED BY <1>1, <1>2, <1>4, PTL DEF Spec, CommittedNeverRetried

\* When staff send one retry request for a job at a time, a job that a handset has
\* been given is never queued again.
THEOREM DeliveredOnce ==
  ASSUME MaxInFlight = 1
  PROVE  Spec => DeliveredNeverRequeued
  <1>1. Init => Inductive
    BY InductiveInit
  <1>2. Inductive /\ [Next]_vars => Inductive'
    BY InductiveStep
  <1>3. Inductive /\ [Next]_vars => [\A j \in Jobs : jobState[j] \in Delivered => jobState'[j] # "queued"]_vars
    BY IrrevocableStep DEF Irrevocable
  <1> QED BY <1>1, <1>2, <1>3, PTL DEF Spec, DeliveredNeverRequeued

-----------------------------------------------------------------------------
(* What staff must see, and who may give a started job's money back.         *)

\* A transfer that waits for staff is on their list.  Every other open transfer
\* has a live job, as AttemptAgreement says.
Listed == \A t \in Transfers : status[t] \in {"unknown", "manual_review"} => cases[t] # {}

\* A step that moves one transfer out of staff's hands, or puts it on their list.
LEMMA ListedMoves ==
  ASSUME Listed, NEW t \in Transfers,
         \A i \in Transfers \ {t} : status'[i] = status[i] /\ cases'[i] = cases[i],
         status'[t] \in {"unknown", "manual_review"} => cases'[t] # {}
  PROVE  Listed'
  BY DEF Listed

LEMMA ListedKept ==
  ASSUME Listed, UNCHANGED <<status, cases>>
  PROVE  Listed'
  BY DEF Listed

LEMMA HoldUnknownListed ==
  ASSUME TypeOK, Listed, NEW j \in Jobs, HoldUnknown(j)
  PROVE  Listed'
  <1>1. j[1] \in Transfers
    BY JobParts
  <1>2. CASE status[j[1]] \in Closed
    BY <1>2, ListedKept DEF HoldUnknown
  <1>3. CASE status[j[1]] \notin Closed
    <2>1. \A i \in Transfers : cases'[i] = IF i = j[1] THEN cases[i] \cup {"unknown_payout"} ELSE cases[i]
      BY <1>3 DEF HoldUnknown, OpenCase, TypeOK
    <2>2. \A i \in Transfers \ {j[1]} : status'[i] = status[i]
      BY <1>3 DEF HoldUnknown, SetStatus, TypeOK
    <2> QED BY <1>1, <2>1, <2>2, ListedMoves
  <1> QED BY <1>2, <1>3

LEMMA ListedStep ==
  ASSUME TypeOK, Listed, [Next]_vars
  PROVE  Listed'
  <1> USE DEF TypeOK
  <1>1. ASSUME NEW t \in Transfers, NEW s \in Sims, QueueTransfer(t, s) PROVE Listed'
    BY <1>1, ListedMoves DEF QueueTransfer, SetStatus, recordVars
  <1>2. ASSUME NEW t \in Transfers, CancelBeforeStart(t) PROVE Listed'
    BY <1>2, ListedMoves DEF CancelBeforeStart, SetStatus, recordVars
  <1>3. ASSUME NEW t \in Transfers, NEW x \in Payments, ResolveSuccess(t, x) PROVE Listed'
    BY <1>3, ListedMoves DEF ResolveSuccess, SetStatus
  <1>4. ASSUME NEW t \in Transfers, ResolveFailed(t) PROVE Listed'
    BY <1>4, ListedMoves DEF ResolveFailed, SetStatus
  <1>5. ASSUME NEW t \in Transfers, ApproveNameAndRetry(t) PROVE Listed'
    BY <1>5, ListedMoves DEF ApproveNameAndRetry, SetStatus
  <1>6. ASSUME NEW d \in Devices, NEW j \in Jobs, LeaseNext(d, j) PROVE Listed'
    BY <1>6, ListedKept DEF LeaseNext, transferVars, recordVars
  <1>7. ASSUME NEW d \in Devices, NEW j \in Jobs \cup {NoJob}, LeaseAfterExpiry(d, j) PROVE Listed'
    <2>1. activeUssdJob[d] \in Jobs
      BY <1>7 DEF LeaseAfterExpiry
    <2>2. HoldUnknown(activeUssdJob[d]) \/ UNCHANGED <<status, cases>>
      BY <1>7 DEF LeaseAfterExpiry
    <2> QED BY <2>1, <2>2, HoldUnknownListed, ListedKept
  <1>8. ASSUME NEW j \in Jobs, ExpireFinancialJob(j) PROVE Listed'
    <2>1. j[1] \in Transfers
      BY JobParts
    <2>2. HoldUnknown(j) \/ (SetStatus(j[1], "failed") /\ UNCHANGED cases)
      BY <1>8 DEF ExpireFinancialJob
    <2>3. CASE HoldUnknown(j)
      BY <2>3, HoldUnknownListed
    <2>4. CASE SetStatus(j[1], "failed") /\ UNCHANGED cases
      BY <2>1, <2>4, ListedMoves DEF SetStatus
    <2> QED BY <2>2, <2>3, <2>4
  <1>9. ASSUME NEW d \in Devices, NEW e \in Reports, ReportFromSpool(d, e) PROVE Listed'
    <2>1. CASE ReportLate(e) \/ ReportRepeated(e)
      BY <2>1, ListedKept DEF ReportLate, ReportRepeated
    <2>2. CASE ReportTransition(e)
      <3> DEFINE t == e.job[1]
                 eff == EffectiveState(e)
      <3>1. t \in Transfers /\ eff \in {"device_started", "committed", "provider_pending", "failed", "unknown", "cancelled"}
        BY <2>2, ReportParts, JobParts, EffectiveStates DEF ReportTransition
      <3>2. \A i \in Transfers : /\ status'[i] = IF i = t THEN StatusOf(eff) ELSE status[i]
                                 /\ cases'[i] = IF i = t THEN cases[t] \cup CasesOpened(e, eff) ELSE cases[i]
        BY <2>2 DEF ReportTransition, SetStatus
      <3>3. StatusOf(eff) \in {"unknown", "manual_review"} => CasesOpened(e, eff) # {}
        BY <3>1 DEF StatusOf, CasesOpened
      <3> HIDE DEF t, eff
      <3> QED BY <3>1, <3>2, <3>3, ListedMoves
    <2> QED BY <1>9, <2>1, <2>2 DEF ReportFromSpool
  <1>10. ASSUME NEW s \in Sims, NEW x \in Payments, NEW near, NEW c \in BOOLEAN,
                UnmatchedOutgoing(s, x, near, c) \/ CorroborateOutgoing(s, x, near, c)
         PROVE  Listed'
    BY <1>10, ListedKept DEF UnmatchedOutgoing, CorroborateOutgoing, transferVars
  <1>11. ASSUME NEW s \in Sims, NEW x \in Payments, NEW near, NEW c \in BOOLEAN, NEW t \in Transfers,
                SettleOutgoing(s, x, near, c, t)
         PROVE  Listed'
    BY <1>11, ListedMoves DEF SettleOutgoing, SetStatus
  <1>12. ASSUME NEW j \in Jobs, RetryCheck(j) PROVE Listed'
    BY <1>12, ListedKept DEF RetryCheck, transferVars, recordVars
  <1>13. ASSUME NEW j \in Jobs, RetryDeviceJob(j) PROVE Listed'
    BY <1>13, JobParts, ListedMoves DEF RetryDeviceJob, SetStatus, recordVars
  <1>14. ASSUME NEW d \in Devices, BeginDeviceRecovery(d) PROVE Listed'
    BY <1>14, ListedKept DEF BeginDeviceRecovery, transferVars, recordVars
  <1>15. ASSUME NEW D \in SUBSET Devices, NEW S \in SUBSET Sims, FleetChange(D, S) PROVE Listed'
    BY <1>15, ListedKept DEF FleetChange, transferVars, recordVars
  <1>16. ASSUME NEW d \in Devices, Activate(d) PROVE Listed'
    BY <1>16, ListedKept DEF Activate, transferVars, recordVars
  <1>17. ASSUME UNCHANGED vars PROVE Listed'
    BY <1>17, ListedKept DEF vars, transferVars, recordVars
  <1> QED BY <1>1, <1>2, <1>3, <1>4, <1>5, <1>6, <1>7, <1>8, <1>9, <1>10, <1>11, <1>12, <1>13, <1>14, <1>15, <1>16, <1>17 DEF Next, Report, Staff, Sms

\* When staff send one retry request for a job at a time, money that is held while
\* no job works on it is on staff's list of reconciliation cases.
THEOREM HoldsAreListed ==
  ASSUME MaxInFlight = 1
  PROVE  Spec => []NoSilentHold
  <1>1. Init => Inductive /\ Listed
    BY InductiveInit DEF Init, Listed
  <1>2. Inductive /\ Listed /\ [Next]_vars => Inductive' /\ Listed'
    BY InductiveStep, ListedStep DEF Inductive
  <1>3. Inductive /\ Listed => NoSilentHold
    <2> SUFFICES ASSUME Inductive, Listed, NEW t \in Transfers, status[t] \in Open
                 PROVE  jobState[Latest(t)] \in LiveJob \/ cases[t] # {}
      BY DEF NoSilentHold
    <2>1. status[t] # "none"
      BY DEF Open
    <2>2. <<jobState[Latest(t)], status[t]>> \in Story
      BY <2>1, LatestStory DEF Inductive
    <2> QED BY <2>2 DEF Listed, Story, Open, LiveJob, Delivered
  <1> QED BY <1>1, <1>2, <1>3, PTL DEF Spec

\* Only a report that the job failed, and only before the PIN, releases a
\* reservation: the job was merely leased, or stopped at a name that is not the
\* receiver's.
LEMMA ReportReleases ==
  ASSUME Inductive, NEW d \in Devices, NEW e \in Reports, ReportFromSpool(d, e),
         NEW t \in Transfers, <<"release", t>> \in journals' \ journals
  PROVE  \/ status[t] = "queued"
         \/ status[t] = "device_started" /\ ~committed[t] /\ e.name = "mismatch"
  <1>1. ReportTransition(e) /\ EffectiveState(e) = "failed" /\ t = e.job[1]
    <2>1. journals' # journals
      OBVIOUS
    <2>2. ReportTransition(e)
      BY <2>1 DEF ReportFromSpool, ReportLate, ReportRepeated
    <2>3. EffectiveState(e) = "failed" /\ Post({"release"}, e.job[1])
      BY <2>1, <2>2 DEF ReportTransition, ReleaseReservations
    <2> QED BY <2>2, <2>3 DEF Post
  <1>2. e.job \in Jobs /\ jobState[e.job] \in Delivered
    BY <1>1, ReportParts, EffectiveStates DEF Inductive, ReportTransition
  <1>3. <<jobState[e.job], status[t]>> \in Story /\ committed[t] = jobCommitted[e.job]
    BY <1>1, <1>2, LiveIsLatest DEF Inductive, Delivered
  <1>4. CASE NameDisposition(e) = "mismatch"
    <2>1. jobState[e.job] = "device_started" /\ ~jobCommitted[e.job] /\ e.name = "mismatch"
      BY <1>4 DEF NameDisposition
    <2> QED BY <1>3, <2>1 DEF Story
  <1>5. CASE NameDisposition(e) # "mismatch"
    <2>1. financiallySafeReportState(e) = "failed"
      BY <1>1, <1>5 DEF EffectiveState
    <2>2. jobState[e.job] = "leased"
      BY <2>1 DEF financiallySafeReportState
    <2> QED BY <1>3, <2>2 DEF Story
  <1> QED BY <1>4, <1>5

\* Posting anything but a release leaves the releases as they are.
LEMMA NoRelease ==
  ASSUME NEW t, NEW u, NEW kinds, Post(kinds, u), "release" \notin kinds \/ t # u
  PROVE  <<"release", t>> \notin journals' \ journals
  BY DEF Post

LEMMA ReleasedOnlyWithProof ==
  ASSUME Inductive, MaxInFlight = 1, [Next]_vars, NEW t \in Transfers,
         <<"release", t>> \in journals' \ journals, status[t] \notin {"queued", "unknown", "manual_review"}
  PROVE  Report
  <1> USE DEF Inductive
  <1>0. journals' # journals
    OBVIOUS
  <1>1. ASSUME NEW u \in Transfers, NEW s \in Sims, QueueTransfer(u, s) PROVE FALSE
    BY <1>1, NoRelease DEF QueueTransfer
  <1>2. ASSUME NEW u \in Transfers, CancelBeforeStart(u) \/ ResolveFailed(u) PROVE FALSE
    <2>1. t = u
      BY <1>2, NoRelease DEF CancelBeforeStart, ResolveFailed, ReleaseReservations
    <2> QED BY <1>2, <2>1 DEF CancelBeforeStart, ResolveFailed
  <1>3. ASSUME NEW u \in Transfers, NEW x \in Payments, ResolveSuccess(u, x) PROVE FALSE
    BY <1>3, NoRelease DEF ResolveSuccess
  <1>4. ASSUME NEW j \in Jobs, ExpireFinancialJob(j) PROVE FALSE
    <2>1. j[1] \in Transfers /\ ReleaseReservations(j[1]) /\ jobState[j] \in LiveJob \ Delivered
      BY <1>0, <1>4, JobParts DEF ExpireFinancialJob, Sweepable
    <2>2. t = j[1] /\ jobState[j] = "queued"
      BY <2>1, NoRelease DEF ReleaseReservations, LiveJob
    <2>3. status[t] = "queued"
      BY <2>2, LiveIsLatest DEF Story
    <2> QED BY <2>3
  <1>5. ASSUME NEW j \in Jobs, RetryDeviceJob(j) PROVE FALSE
    BY <1>5, NoRelease DEF RetryDeviceJob
  <1>6. ASSUME NEW s \in Sims, NEW x \in Payments, NEW near, NEW c \in BOOLEAN, NEW u \in Transfers,
               SettleOutgoing(s, x, near, c, u)
        PROVE  FALSE
    BY <1>6, NoRelease DEF SettleOutgoing, SettlementJournals
  <1>7. ASSUME \/ \E u \in Transfers : ApproveNameAndRetry(u)
               \/ \E d \in Devices, j \in Jobs : LeaseNext(d, j)
               \/ \E d \in Devices, j \in Jobs \cup {NoJob} : LeaseAfterExpiry(d, j)
               \/ \E j \in Jobs : RetryCheck(j)
               \/ \E d \in Devices : BeginDeviceRecovery(d) \/ Activate(d)
               \/ \E s \in Sims, x \in Payments, c \in BOOLEAN : \E near \in SUBSET Describes[x] :
                    UnmatchedOutgoing(s, x, near, c) \/ CorroborateOutgoing(s, x, near, c)
               \/ \E D \in SUBSET Devices, S \in SUBSET Sims : FleetChange(D, S)
               \/ UNCHANGED vars
        PROVE  FALSE
    <2>1. journals' = journals
      BY <1>7 DEF ApproveNameAndRetry, LeaseNext, LeaseAfterExpiry, RetryCheck, BeginDeviceRecovery, Activate,
         UnmatchedOutgoing, CorroborateOutgoing, FleetChange, vars, moneyVars
    <2> QED BY <1>0, <2>1
  <1> QED BY <1>1, <1>2, <1>3, <1>4, <1>5, <1>6, <1>7 DEF Next, Staff, Sms

\* When staff send one retry request for a job at a time, only staff, or a name
\* mismatch the handset saw before the PIN, give back the reservation of a job that
\* the handset has started.
THEOREM ReleasedWithProof ==
  ASSUME MaxInFlight = 1
  PROVE  Spec => StartedReleasedOnlyWithProof
  <1> DEFINE Proven ==
        \A t \in Transfers :
          <<"release", t>> \in journals' \ journals /\ status[t] \notin {"queued", "unknown", "manual_review"}
            => /\ status[t] = "device_started" /\ ~committed[t]
               /\ Report
               /\ \A d \in Devices, e \in Reports : ReportFromSpool(d, e) => e.name = "mismatch"
  <1>1. Init => Inductive
    BY InductiveInit
  <1>2. Inductive /\ [Next]_vars => Inductive'
    BY InductiveStep
  <1>3. Inductive /\ [Next]_vars => Proven
    <2> SUFFICES ASSUME Inductive, [Next]_vars, NEW t \in Transfers, <<"release", t>> \in journals' \ journals,
                        status[t] \notin {"queued", "unknown", "manual_review"}
                 PROVE  /\ status[t] = "device_started" /\ ~committed[t]
                        /\ Report
                        /\ \A d \in Devices, e \in Reports : ReportFromSpool(d, e) => e.name = "mismatch"
      OBVIOUS
    <2>1. Report
      BY ReleasedOnlyWithProof
    <2>2. ASSUME NEW d \in Devices, NEW e \in Reports, ReportFromSpool(d, e)
          PROVE  status[t] = "device_started" /\ ~committed[t] /\ e.name = "mismatch"
      BY <2>2, ReportReleases
    <2> QED BY <2>1, <2>2 DEF Report
  <1>4. Inductive /\ [Next]_vars => [Proven]_vars
    BY <1>3
  <1> QED BY <1>1, <1>2, <1>4, PTL DEF Spec, StartedReleasedOnlyWithProof
=============================================================================
