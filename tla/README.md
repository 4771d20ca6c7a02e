# Telebirr gateway: verification project

TLA+ models of the payment gateway in this repository (`apps/api`, the NestJS
back end, and `apps/device-agent`, the Android agent that drives the
provider's USSD menu), TLC configurations that check them on small instances,
and TLAPS proofs, for every instance, of each safety property the passing runs
check; what is left to the runs alone is liveness.

The gateway pays money out by sending a job to a handset, which types a PIN into
a USSD session. Nothing confirms the PIN to the cloud reliably: the handset may
die, its reports may be late, the provider's SMS may arrive before, after or
instead of them. The one thing that must never happen is a second PIN for one
withdrawal; the next is that the books (merchant ledger, SIM wallet
reservations, handset lock) lose track of a payout. Around that core the models
follow the money and the evidence: the spool that carries the SMS, the deposits
it settles, the amounts in the ledger and on a SIM, the life of a handset, and
what merchants and staff are told.

## 1. Inventory

| Component (source) | Module | State | Hard behaviour | What makes it correct |
|---|---|---|---|---|
| Withdrawals (`withdrawals.service.ts`) | Payouts, Ledger, Wallets, Settlements | `Transfer`, `TransferAttempt` | staff decisions race reports, expiry and SMS | one committed attempt; a hold for exactly the open transfers |
| Fleet scheduler (`device-jobs.service.ts`) | Payouts, DeviceLink, BalanceRefresh, Fleet | `DeviceJob`, `Device.activeUssdJobId`, fencing tokens, inbox | lease expiry while the PIN may be typed; late, repeated, reordered reports | a delivered money job is never queued again; lock released when the job ends, and before that only with the handset's binding |
| SMS ingestion (`sms-ingestion.service.ts`) | Payouts, Deposits, Wallets, BalanceRefresh | `SmsReceipt`, wallet balances and counters | SMS late, duplicated, ambiguous, older than a newer balance | each payment applied once, to at most one transfer or deposit |
| Ledger (`ledger.service.ts`) | Ledger, Payouts | journals keyed by source, account balances | idempotent posting next to counters that are not | every merchant's own books balance; reserved account = open reservations |
| Staff job administration (`admin.service.ts`) | Payouts, Fleet, DeviceLink | – | default isolation level; reuse of a finished job | no retry after commit; recovery only of an idle handset |
| Fleet health and SIM selection (`fleet/*`) | Wallets, Fleet, BalanceRefresh | device and SIM status, limits | stale health or balance at the time of use; several payouts on one SIM | limits hold for the sum of assigned payouts |
| Handset agent (`JobExecutionRepository.kt`, `HandsetUssdSessionRegistry.kt`, `DeterministicJobExecutor.kt`, `TelebirrAccessibilityService.kt`) | Handset | jobs, commit guards, highest fence, USSD session | process death at any point, screens after the lease has gone, overlapping screen handlers | at most one PIN per financial operation; commit recorded before the PIN |
| Handset spool and device gateway (`SpoolRepository.kt`, `DeviceGatewayClient.kt`, `device-websocket.gateway.ts`) | DeviceLink | FIFO spool, inbox, connections | lost acknowledgement, duplicate, rejected head of line | every event applied at most once, in order, and eventually |
| Balance queries (`fleet-maintenance.service.ts` and the above) | BalanceRefresh | query jobs, SIM freshness | two queries of one SIM, an SMS older than the running query | no ambiguous answer, no false quarantine, the balance gets fresh |
| Device life (`admin.service.ts`, gateway heartbeat) | Fleet | device, SIM, codes, qualification runs | read-committed transactions that write what they decided earlier | one identity per handset; into service by staff only |
| Deposits, suspense (`deposits/`) | Deposits | `DepositIntent`, suspense journals, cases | expiry against a matching receipt, two staff credits at once | a receipt credited once, or held in suspense and released once |
| Support cases (`support/`) | SupportCases | case, messages | stale readings of a case | no forbidden workflow change |
| Idempotency keys (`idempotency.service.ts`) | OnceOnly, Idempotency | `IdempotencyRecord`, advisory locks | two requests with a key, a snapshot older than the lock | one effect per key and reference |
| Webhooks (`webhooks.service.ts`) | Webhooks | outbox, deliveries, claims, secrets | claim expiring during the HTTP call, rotation on a snapshot, crash, a channel that is gone | no lost event, fenced results, fresh signatures where the snapshot sees the claim |
| Sweeps (`sweeps/`) | Sweeps, Wallets | rule versions, executions | cron and staff evaluate a stale candidate list | interval kept, sent as approved, target left |
| Settlements (`settlements/`) | Settlements | requests linked to transfers | the linked transfer moves on its own; approval on an old snapshot | linked status follows the transfer; decided once |
| Alerts (`alerts/`) | Alerts | incidents, Telegram deliveries | a lease expiring during the call | delivered means sent; no repeat without a cause |
| Configuration (`configuration/`) | Configuration | proposals, values in force | a group created from replaced defaults | only approved, safe values in force |
| Advisory, parsers, auth, portals, checkout | – | – | – | outside the payment protocol, see section 13 |

Components interact through the PostgreSQL tables (every API operation is one
transaction, most of them `Serializable`), through the WebSocket between
handset and gateway (lease offers down, spool batches up, acknowledged one
prefix at a time) and through the provider, who is known only by USSD screens
and SMS. `PROJECT.json` lists the hazards line by line.

## 2. Plan

Done: the components below, each checked, and for each the inductive invariants
and proofs of its safety properties: **Payouts**, **Handset**, **DeviceLink**,
**BalanceRefresh**, **Deposits**, **SupportCases**, **Ledger**, **Wallets**,
**Fleet**, **Idempotency** (refining **OnceOnly**), **Webhooks**, **Sweeps**,
**Settlements**, **Alerts** and **Configuration**.

Not done:

1. A composition of Payouts with Handset's session. DeviceLink already puts the
   agent's job record, the spool, the gateway and the backend's job together,
   with the session reduced to the events it spools; what it lacks is the
   PIN itself, so "one payment per withdrawal" is the sum of
   `DeliveredNeverRequeued` (backend) and `OnePinPerOperation` (agent).
2. An abstract payout (paid, returned or in staff's hands) refined by Payouts.

### How isolation is modelled

- A serializable transaction is one action. That is exact among serializable
  transactions. Where such a transaction takes an advisory lock with its first
  statement, its snapshot may be older than what the lock's last holder
  committed: Idempotency and the approval in Settlements split there.
- A transaction at PostgreSQL's default isolation that writes what it decided
  from an earlier read is two actions, the read and the write (`retryDeviceJob`,
  `resolveDeposit`, most of Fleet, support cases). One that reads under the row
  lock it writes with is one action.
- A serializable transaction that writes rows which read-committed statements
  write as well (`rotateSecret` and `setEnabled` against the claims of the webhook
  dispatcher) is a snapshot and a commit: a row it matches that is written in
  between rolls it back, and a row that comes to match after the snapshot is not
  seen by it.
- A check made before a transaction begins, or a list read before a loop of
  transactions, is an action of its own (sweep candidates, the deposit expiry
  job, `createDevice`, group creation).

## 3. Payouts: how the model corresponds to the code

An action is one database transaction. All of them but one are serializable in
the code; `retryDeviceJob` (`admin.service.ts`) runs at PostgreSQL's default
isolation, so its check (`RetryCheck`) and its writes (`RetryDeviceJob`) are
two actions. An operation that throws leaves no state behind and is a disabled
action.

| Variable | Code |
|---|---|
| `status`, `committed`, `sim`, `txid`, `attempts` | `Transfer.status`, `committedAt`, `simWalletId`, `providerTransactionId`, number of `TransferAttempt` rows |
| `jobState`, `jobCommitted`, `fencingToken`, `retries` | `DeviceJob.state`, `committedAt`, `fencingToken`, `attempt` |
| `retrying` | retry requests between their check and their writes |
| `nextFencingToken`, `activeUssdJob` | `SimWallet.nextFencingToken`, `Device.activeUssdJobId` |
| `online`, `active` | handsets and SIMs that may be given work |
| `unbound` | history: jobs whose lock `activate` cleared, not leased again since |
| `journals` | `LedgerJournal` rows by `(sourceType, sourceId)` |
| `reservedBalance` | the transfer's share of `SimWallet.reservedBalanceMinor` |
| `cases` | open or proposed `ReconciliationCase` rows of the transfer |
| `receipt`, `sentToday` | `SmsReceipt` by provider transaction; additions to `sentTodayMinor` |

| Action | Code |
|---|---|
| `QueueTransfer`, `CancelBeforeStart`, `ResolveSuccess`, `ResolveFailed`, `ApproveNameAndRetry` | `withdrawals.service.ts` |
| `LeaseNext`, `LeaseAfterExpiry`, `ExpireFinancialJob`, `ReportFromSpool` (late, repeated, transition), `Activate` | `device-jobs.service.ts` |
| `UnmatchedOutgoing`, `CorroborateOutgoing`, `SettleOutgoing` | `sms-ingestion.service.ts`, matchOutgoing |
| `RetryCheck`, `RetryDeviceJob`, `BeginDeviceRecovery` | `admin.service.ts` |
| `FleetChange` | heartbeats, health sweep, staleness, quarantine, operator switches |

Abstractions:

- *Time.* A lease (45 s) or a job (15 min) may be found expired at any moment,
  the commit-time window of the SMS matcher is the set `near`, chosen freely.
- *Amounts.* A reservation is one unit: present or absent in the ledger, counted
  in the wallet. What a payment's SMS agrees with is the constant `Describes`.
- *Messages.* There is no inbox variable: any report with the job's fence may
  arrive at any time, any number of times. That includes the duplicates the
  inbox filters.
- *Order.* The minute sweep handles a batch; the model handles one job per
  step. Leasing in priority order is a free choice.
- *Places.* A SIM does not move between handsets, so `job.deviceId` is
  `DeviceOf`. An unhealthy handset is one not in `online`.
- *Binding.* A device is a device record. `Activate` is the activation of the
  record's handset for another record: it clears the record's lock without looking
  at its jobs, and the record is given no work. That the record is enrolled again
  (`regenerateActivationCode`, `admin.service.ts`) is a `FleetChange`. Reports
  spooled before may still come. The other record's side is Fleet's.
- *Left out.* Balance-query jobs, the upgrade of legacy profiles, the test
  environment, mirrored sweep and settlement statuses, the deposit guard of
  device recovery and liquidity headroom (other modules have them).
  Receiver-name mismatch cases are created resolved and are not kept.

## 4. Handset: how the model corresponds to the code

The agent of one handset, for jobs that move money. Its parts run
concurrently: the executor handles jobs from the gateway one after the other,
every screen that appears starts a coroutine of its own, the heartbeat loop
expires leases and recovers after a restart, the SMS receiver may complete the
session, and Android may kill the process at any point. A critical section of
the registry's `eventMutex`, and a database transaction outside it, is one
action; everything between two of them is an interleaving.

| Variable | Code |
|---|---|
| `jobStatus`, `jobFence` | `JobExecutionEntity.status`, `fencingToken` |
| `commitGuard` | `FinancialCommitGuardEntity`: the job that committed an operation (`committedAtMs` is written with it) |
| `highestToken`, `activeSims` | `SimFenceEntity`; SIM identities in state `ACTIVE` |
| `spool` | the log of `JOB_STATUS` events enqueued |
| `session` | `activeSession` with its engine: step, pending plan, committed, ended; its owner holds the handset mutex |
| `executor`, `handler` | where `submit` and each `handleScreen` coroutine are; a handler's plan is `live` while its command id is the engine's pending one |
| `recovery`, `toReport` | `recoveryDone` of the heartbeat service and the recovered jobs still to be spooled |
| `pins` | how often the PIN reached the provider, a history of the outside world |

| Action | Code |
|---|---|
| `Accept`, `RejectAccepted`, `Begin`, `Start`, `CancelAccepted`, `ReportStarted`, `Dial`, `FailBeforeStart` | `DeterministicJobExecutor.submit`, step by step |
| `OnScreen`, `Dispatch`, `EndSession` | `TelebirrAccessibilityService.handleScreen` with `UssdStateMachine` |
| `BeforeFinancialPin`, `PinRefused`, `AbortRefused`, `SubmitLocalPin`, `PinDispatched` | the PIN step of `handleScreen` |
| `SessionLost`, `OutgoingSms` | `expireIfNeeded`, `interrupted`, `completeFromOutgoingSms` |
| `Recover`, `ReportRecovered`, `RestartService`, `Crash` | `recoverOrphanedJobs`, the heartbeat loop, the service's and the process's life |
| `SimChange` | enrolment, swapped or moved SIMs |

Abstractions:

- *Time.* A lease may be found expired at any moment, also by `start` and
  `markPinSubmitted` (`CancelAccepted`, `PinRefused`). Lease renewal changes
  nothing else.
- *Profiles.* The steps of a flow are "menu" (any number of menu, text and
  verification screens), "pin" and "result". What a screen says is free: any
  plan the engine can produce at the step may be produced.
- *Envelopes.* Signed jobs with the fences in `Envelopes` may arrive at any
  time and in any order. A duplicate or rejected one changes nothing; the
  `JOB_ACCEPTANCE` event that answers it is left out.
- *Screens* appear once the session has dialled, and a handler plans for the
  session its screen belongs to.
- *Failures to spool* that the code catches lose the event. One that nobody
  catches (in `acknowledge`), like a stale command id there, ends the
  coroutine with an uncaught exception and with it the process.
- *Death inside a critical section.* Commit guard stored and nothing else is a
  branch of `BeforeFinancialPin`; a terminal status stored and not spooled is
  `Crash(TRUE)`; status stored, event lost and session ended is a failed spool
  write. Other deaths between two writes equal one of these followed or
  preceded by `Crash`.
- *The PIN.* A driver failure does not prove that the provider has not got the
  PIN, so `SubmitLocalPin` chooses both independently, except that success
  means it was typed.
- *SMS.* A similar payment made shortly before can match as well, so an SMS may
  complete any committed session.

`overlapped` (MCHandset) remembers whether two screens have ever been handled at
the same time. `WatchedSpec` is Handset with that history; the run checks it within the bound
of its instances (`MCSpec`), the proof takes it without.

## 5. DeviceLink and BalanceRefresh

`DeviceLink` has both ends of the connection: the agent's spool (`spool`,
`acked`, `corrupt`, `deferred`) and job record (`record`), batches, answers and
jobs under way (`up`, `done`, `down`), and the backend's `job`, handset lock
(`active`) and `inbox`. `applied` is the history of effects.

| Action | Code |
|---|---|
| `reportStarted`, `beforeFinancialPin`, `acknowledgePin`, `finish…`, `persistSmsEvidenceWithOutbox`, `completeFromSms` | the registry and the SMS receiver, reduced to what they spool |
| `flushSpool`, `defer`, `Due`, `isolate`, `handleMessage`, `connect`, `onFailure` | `DeviceGatewayClient.kt`, `SpoolRepository.kt`, `SpoolBatchEncoder.kt`, `AgentDao.kt` |
| `spoolEventProcessed`, `spoolEventDeferred`, `spoolBatchAnswered`, `Heartbeat` | `device-websocket.gateway.ts` |
| `processSpoolEvent` with `Reportable`, `financiallySafeReportState`, `Late` | `DeviceJobsService.reportFromSpool` and `report` |
| `expireFinancialJobs`, `retryDeviceJob` | the sweep, staff |

A drop keeps a prefix of what is under way in each direction; the server goes on
with a batch it has received while the handset is already on the next
connection. Left out: `JOB_ACCEPTANCE` events (acknowledged unread), the report
`cancelled` (the same transition as `failed`), SIMs that move to another device,
lease renewal (the deadline is open). The last connection of the bound stays up.

`BalanceRefresh` is the loop that keeps a SIM's balance fresh: the cron and staff
queue queries, the handset runs them, the answer comes by SMS through the same
spool, and an SMS more than a minute older than the running query quarantines the
device as one with a wrong clock. One SIM, and its handset online; `SlowLink`
lets an event wait in the spool for longer than a lease. Its `RefreshInit`,
`RefreshNext`, `RefreshSpec` and `Refresh…` names keep it apart from the modules
it is proved next to.

## 6. Deposits and SupportCases

`Deposits` keeps apart what the clock has done (`stage`), what the database says
(`status`) and when the provider says a payment was made (`window`, the intents
whose time window contains it). The expiry job is `ListDue` and one conditional
update per intent (`transitionDeposits`); ingesting an SMS is one transaction
(`MatchIncoming`, `SuspendIncoming`); a staff credit is `ResolveCheck` and
`resolveDeposit`. `posted`, `suspense` and `released` are the journals. `Agrees`
says which intents a payment fits by phone, name and amount; `Likeness` what SIM
assignment keeps apart. `InitializeTest` is the test environment's scenario.

`SupportCases`: every request reads a case and later claims it with a conditional
update, so a request is in `inFlight` between the two.

## 7. Ledger and Wallets: the amounts

`Ledger` has every account of every merchant. A ledger operation is a function
from a book to a book; `post` skips a source that has a journal and refuses an
unbalanced one. The actions are the transactions that call it: `CreditDeposit`,
`SuspendReceipt`, `ResolveDeposit`, `QueueTransfer`, `TestTransfer`,
`FailTransfer`, `SettleTransfer`, `LateSuccess`, `RetryDeviceJob`. A retried
transfer posts no second reservation (its journal exists), so it is `Unbacked`:
`ReservedIsHeld` and `AvailableExact` state exactly what the accounts are then,
and nothing else is allowed to be unbacked.

`Wallets` has one SIM: what the account really holds at each instant
(`realAt`), the database's `mainBalance` with its date, `reserved`,
`sentToday`. `Pay` is the provider's doing; everything else is a transaction of
the code. Payouts are admitted (`Viable`, `withinWithdrawalCapacity`) and sweeps
computed (`SweepAmount`) from the database's view, and `Covered` compares that
with the real account.

`MCMoney` extends Ledger and has two wallets: `Wallet(FALSE)`, the routine, where
SMS show a balance, staff give one and nothing is retried, and `Wallet(TRUE)`,
with retries, wrong staff decisions and SMS without a balance.

A message is dated by the provider's time or, when it has none that is plausible
(a balance never has one), by its receipt (`effectiveProviderOccurredAt`), which
may be any instant from the message's own to now. What `applyBalance` asks is that
one balance query was running at the receipt, not that it is the one answered. So
the answer of a query that expired is applied for a later one, dated by its late
receipt. In the routine a receipt is not later than a payment the message does not
contain; the exceptional wallet (`StaleDates`) has no such limit.

## 8. Fleet

One device record's life: `createDevice`, codes, `activate`, qualification runs,
the operator's switch, quarantine, recovery, retirement, heartbeats by WebSocket
and by HTTP, the health job. A worker that runs a read-committed transaction
holds in `txn` what it read; whatever commits before its second step is
overwritten, as in PostgreSQL. `Assign`, `Conclude` and `retryDeviceJob` are the
financial work of a SIM, reduced to whether there is any.

## 9. Idempotency, OnceOnly and Webhooks

`Idempotency` is `execute` step by step: sorted advisory locks, the frozen
snapshot, the lookup, the operation, filing under both identities, commit or
rollback. It implements `OnceOnly`, whose only state is what each request was
answered (`ImplementsOnceOnly`, a refinement with the recorded identities as the
parameter).

`Webhooks`: each process runs rounds (`phase`): read the backlog, expand an
event into deliveries, publish, mark, claim, sign, post, finish. Merchants
register, switch, rotate and replay at any time; processes crash, leases expire,
channels are lost (`MaxFaults` bounds these). A rotation or a disabling begins with
a snapshot (`BeginChange`: `rows` are the deliveries it matches) and ends with its
commit (`RotateSecret`, `SetEnabled`) or its rollback (`RollBack`, or `Written`: a
row it matches was written); `racing` is history, the deliveries that were claimed
in between. `connected` are the processes with a channel to the broker: it is opened
once, when the process starts, so that after `ChannelLost` only a new start
(`Crash`, or `Restart`, to which nothing is obliged) publishes again, and every
round that finds an event ends before it delivers. `listening` is history: the
endpoints an event is owed to.

## 10. Sweeps, Settlements, Alerts, Configuration

`Sweeps`: the rule with its versions, its review, and its evaluation by the cron
and by staff as a list read once and one transaction per candidate. `Settlements`
follows every transaction of four services that moves a transfer and must move
the settlement or sweep linked to it, and which of them tell the merchant.
`Alerts`: incidents by dedupe key and Telegram deliveries, listed (where alone their
age counts) and then claimed one by one under leases by several workers. `Configuration`: proposals, review under the scope's lock, and a
device group that copies defaults read earlier.

## 11. Runs, properties, disagreements

### Runs

| Run | Instance | States |
|---|---|---|
| `payouts` | two payouts that look alike to the matcher on one SIM, a staff retry each; or one payout with two attempts on two handsets; handsets may be bound to another record | 103 000 |
| `handset` | two attempts of one payout and a second payout on one SIM, two screen handlers; a job may be delivered again with a newer token, older deliveries may come last | 478 000 |
| `device_link` | a payout with a retry, or with an unreadable event, over two connections; or a payout and a balance query over one | 660 000 |
| `balance_refresh` | one SIM, two queries, three fences, a slow link | 415 000 |
| `deposits` | three look-alike intents and a test intent against one payment; or two intents, two payments, two staff credits at once | 427 000 |
| `money` | ledger: two merchants and the system, two withdrawals, an internal move, two receipts; wallet: two payouts and a sweep over two days; wallet with retries, wrong staff decisions, SMS without a balance or dated too late | 3 480 000 |
| `fleet` | a device with two SIMs, two codes, one qualification; or two records and one handset | 1 660 000 |
| `merchant_api` | four calls sharing keys and a reference; or two processes, two events, one endpoint, a rotation and disablings on their snapshots, a fault | 363 000 |
| `treasury` | a rule with two versions, two destinations, two evaluations at once; or two settlements, two reviewers, a sweep, a retry | 1 180 000 |
| `back_office` | two incidents and two workers; or one case, a merchant and two staff; or two changes over three scopes | 466 000 |
| `payouts_retry_race` | one transfer, two retry requests in flight | *violation* of `DeliveredNeverRequeued` |
| `device_link_poison` | one payout, one connection | *violation* of `EvidenceArrives` |

*Runs with several instances.* A run that says "or" is bounded by a disjunction
(`MCNext` or `Bounded` in the MC module): every behaviour that stays within one
of the named instances. Where the instances are of different components (`money`,
`merchant_api`, `treasury`, `back_office`), a behaviour follows one component,
chosen in the initial state, and leaves the others' variables alone; the
components read nothing of each other, so each is checked exactly as if alone.
`money` has two messages to one SIM under way at a time (the proofs have any number),
`merchant_api` has the other merchant's event and the lost channel only before the
first rotation or replay, and in `back_office` staff acknowledge the first incident
only. No bound takes a step away whose fairness a liveness property uses: every step
that the fairness formula names stays within the instance it started in.

Why the bounds are enough to be interesting. Two transfers on one SIM are what it
takes for the lock, the fences, the unique provider transaction and the
ambiguous SMS to matter; a second payment lets an SMS describe only one of them.
A second attempt exists only after a name review, a retry only after a failure;
one of each makes the counters and journals differ. In the agent a session is
exclusive, so two jobs are what it takes for one to follow the other, and two
screen handlers are the least that overlap. Two connections are what it takes for
a batch of the old one to be processed next to the new one's. Two queries, two
staff credits, two evaluations, two reviewers, two workers: one step of each
falls between two of the other. Amounts are the least that tell equal, more and
less apart (a fee below, at and above the reserved one; a payout that fits the
balance but not with the other). The proofs remove the bounds for the safety properties.

*Fairness.* None of handsets, staff, merchants or the provider, except where a
deadline of the code ends their turn.

| Module | Assumed | Because |
|---|---|---|
| Payouts | `ExpireFinancialJob` of each job | a minute cron over every live job past `expiresAt`, which renewals do not extend |
| Handset | `SessionLost` | the heartbeat loop calls `expireIfNeeded`, and no renewal extends a lease beyond the job's expiry |
| DeviceLink | reconnecting, flushing, deferred events becoming due, handling what was received; job expiry | heartbeat loop and socket handlers; minute cron |
| BalanceRefresh | both crons, leases, the spool, the ends of a session; not that the provider answers | the crons and the session's deadline |
| Deposits | deadlines pass, the 30-second job runs | time |
| Idempotency | a request's transaction goes on | a running request; failures are not forced |
| Webhooks | a process goes on with its round; leases and age; not that a lost channel comes back: `OutboxDrains` and `DeliveriesEnd` say what follows when one process keeps its channel in the end | five-second interval, time |
| Alerts | a worker lists and goes on, leases expire, retries fall due; a candidate listed again and again is claimed some time (strong: workers do not die between listing and claim for ever) | minute cron, call timeout |

`[]<>` of "all items are done" is used where a leads-to per item would say the
same: the items are finitely many and one that is done stays done, or is counted
again when it is reopened.

Deadlock is not checked where a system may really stop (all requests answered,
all retries used up): `CHECK_DEADLOCK FALSE`. Liveness properties say what must
happen instead.

### Properties

Each property's comment in its module says which code it is about; each has a
mutant in `PROJECT.json`, a plausible bug of the mapped code that its run finds.

- Payouts. `WalletHoldExact`, `LedgerHoldExact`: both books hold exactly one
  reservation for every open transfer. `LockExact`: the handset lock names a job
  exactly while it is delivered, unless the handset was bound to another record
  since the lease. `AttemptAgreement`, `CommitMarked`,
  `NoSilentHold`. `CommittedNeverRetried`, `DeliveredNeverRequeued`,
  `StartedReleasedOnlyWithProof`: what a step may never do. `PayoutEnds`:
  liveness under the sweep alone; as `LockExact` leaves no lock behind, no handset
  stays locked either.
- Handset. `OnePinPerOperation`, `PinAnnounced`, `PinsInFenceOrder`,
  `AloneAmbiguityIsUnknown` (after PIN_SUBMITTED a failure only on the provider's
  word, as long as screens do not overlap), `SessionEnds`.
- DeviceLink. `AppliedOnceInOrder`, `SmsFindsCommit` (an SMS is not applied before
  the event that says its PIN was entered), `ArrivesOrRefused`.
- BalanceRefresh. `AnswerFindsItsQuery`, `RefreshedOrBlocked`.
- Deposits. `PaymentsAccounted`, `AlikeNeverAmbiguous`, `IntentsEnd`.
- Ledger. `AccountsExact`, `ProofNeverRefused`.
- Wallets. `PromisesKept` holds with SMS that show a balance, staff who give one,
  no retries and no message dated after a payment it does not contain;
  `ReservedExact` also without these.
- Fleet. `OneIdentityPerHandset`, `EntersServiceByStaff`.
- Idempotency and Webhooks. `ImplementsOnceOnly`, `NothingLost`, `ClaimsFenced`,
  `NothingWaitsForEver`.
- Sweeps, Settlements. `SweepsSafe`, `SettlementsAgree`.
- Alerts, SupportCases, Configuration. `AlertsDelivered`, `CaseRulesKept`,
  `ConfigurationSafe`.

A property that is several facts about one mechanism is the conjunction of its
parts, which keep their names and comments; TLC says which part fails where it
can. The parts:

| Property | Parts, besides the types |
|---|---|
| `AppliedOnceInOrder` | `InOrderOnce`, `AckedIsApplied` |
| `AnswerFindsItsQuery` | `NeverAmbiguous`, `NoFalseQuarantine` |
| `PaymentsAccounted` | `EveryPaymentPosted`, `SuccessBacked`, `SuspenseListed` |
| `AccountsExact` | `BooksBalance` per merchant, `CustodyIsEvidence`, `ReservedIsHeld`, `AvailableExact`, `DebtExplained` |
| `PromisesKept` | `Covered`, `DailyKept`, `NeverOverstated`, `TargetLeft` |
| `NothingLost` | `AnswersAgree`, `OutboxComplete` |
| `ClaimsFenced` | `DeliveredFresh`, `FinishedOnlyReplayed` |
| `NothingWaitsForEver` | `RequestsAnswered`, `OutboxDrains`, `DeliveriesEnd` |
| `SweepsSafe` | `IntervalKept`, `OneInFlight`, `SentAsApproved` |
| `SettlementsAgree` | `LinkedAgrees`, `DecidedOnce` |
| `AlertsDelivered` | `DeliveredWasSent`, `NoNeedlessRepeat`, `DeliveredStays`, `DeliveredOrOld` |
| `CaseRulesKept` | `WorkflowKept`, `ClosedSilent` |
| `ConfigurationSafe` | `LimitsSafe`, `OnlyApprovedInForce`, `VersionCountsApprovals` |

### Disagreements found

Two are runs of the project:

- Two concurrent `retryDeviceJob` requests can requeue a job that a handset has
  leased in between (`payouts_retry_race`). The passing runs and the proofs
  take one request at a time (`MaxInFlight = 1`).
- An event the backend refuses for good stays at the head of the spool and blocks
  everything behind it, SMS evidence included. It takes nothing unusual: a
  payout's SMS is spooled before the last status of its session, settles the
  job, and the status is then an illegal transition (`device_link_poison`).
  `ArrivesOrRefused` states that nothing else holds evidence back. A balance
  query that expires before its start arrives does the same.

The others are reproduced by the configurations below
(`tlc -config <file>.cfg <module>`), which end with the counterexample of the
property they check (where one has several, `-continue` shows them all):

| Configuration, module | Property | What happens |
|---|---|---|
| `PayoutsRetryLedger`, MCPayouts | `LedgerHoldsRetriedTransfer` | `retryDeviceJob` reserves again under the same journal key; `post` returns early and the retried payout runs with no ledger reservation |
| `PayoutsOutflow`, MCPayouts | `OutflowCountedOnce` | a payout resolved before its SMS arrives is counted again in the daily outflow when the SMS does not match it uniquely |
| `PayoutsOutflow`, MCPayouts | `OneSession` | `activate` clears the lock of a record whose job is still delivered (`device-jobs.service.ts:157`); the record is enrolled again and is given a second job, against "one USSD session per handset" (`docs/en/architecture.md:113`) |
| `HandsetAmbiguity`, MCHandset | `AmbiguityIsUnknown` | two screen events get the same PIN plan; the refused one ends the session as failed before commit while the other types the PIN |
| `HandsetBlocked`, MCHandset | `BlockedUntilRestart` | the handler that could not announce its PIN releases the session it blocked |
| `DeviceLinkRefused`, DeviceLink | `RetryRuns` | a job retried under its old id is refused by the handset that has a record of it |
| `BalanceRefreshScreen`, BalanceRefresh | `AnswerArrives` | a query ended by a success screen reports a state the transition table refuses; its SMS waits behind it for ever |
| `DepositsRace`, MCDeposits | `MatchIsFinal` | an intent matched between a staff credit's check and its write is given another payment |
| `FleetBeat`, MCFleet | `HeartbeatNeverPromotes` | a heartbeat writes back the standing it read before a quarantine |
| `FleetService`, MCFleet | `ServiceNeedsApproval` | the online switch puts SIMs into service that no qualification approved |
| `FleetService`, MCFleet | `RetirementNeedsRecovery` | a retired device is activated with a regenerated code |
| `IdempotencyTwins`, MCMerchantApi | `RepeatReturnsOriginal` | a repeat that waited for the lock does not see the committed record and is answered with a conflict |
| `WebhooksReplay`, Webhooks | `DeadIsReplayable` | a delivery can be replayed once only: later requests are answered from the first one's record |
| `WebhooksReplay`, Webhooks | `AlwaysFresh` | a delivery claimed after the snapshot of a rotation is not recalled by it (`webhooks.service.ts:162-165`) and is recorded as delivered with the old secret |
| `WebhooksReplay`, Webhooks | `AlwaysDrains` | a process that lost its channel publishes and delivers nothing more (`message-bus.service.ts:17-56`), against "outbox-backed" and "at-least-once" (`docs/en/architecture.md:46`) |
| `SettlementsTold`, Settlements | `LifecycleTold` | a device report that fails a settlement's transfer sends no `settlement.updated` |
| `SweepsClaims`, Sweeps | `ApprovedWhatWasSeen` | an approval lands on a version nobody looked at |
| `SweepsClaims`, Sweeps | `NoSweepIntoFleet` | a number is enrolled while a sweep to it is in flight |

Three more show in `MCMoney` when a substitution of `Wallet(FALSE)` is changed:
with `StaleDates` set to `TRUE` the answer of an expired query that arrives while a
later one runs (`sms-ingestion.service.ts:258-273`) brings back money that was paid
in between, and `NeverOverstated` fails; with `StaffGivesBalance` or `SmsShowsBalance` set to `BOOLEAN` a predicted
balance dated "now" hides older confirmations and `Covered` fails; with
`MaxRetries` 1 a retry takes liquidity and daily limit that were given away, and
`DailyKept` fails.

One came out of a proof attempt. `PaymentsAccounted` does not hold for three
staff credits at once, which `deposits` shows when `MaxChecked` is 3. Credits
x1→d2, x2→d2 and x1→d3 all pass their checks; the second overwrites the match
the first one wrote, so the third no longer sees that x1 is taken and makes d3
successful, although x1's money was released to d2 (`resolveDeposit`,
`admin.service.ts`; the cause is that of `MatchIsFinal`). The money itself is
never released twice: `EveryPaymentPosted` holds for any number of credits. The
run, and the proof of `SuccessBacked`, take at most two.

## 12. Proofs

Every safety property and action property of a passing run is a theorem, for
every value of the constants that the assumptions at the end of this section
admit. One module of proofs belongs to each group of components.

### Payouts

`PayoutsProofs` proves `TypeCorrect`, `Spec => []TypeOK`, action by action, from
`PayoutsAssumption` alone (the constants have their types; the `No…` values
are not members of the sets), and, assuming also `MaxInFlight = 1`:

- `Safety`: `Spec => [](WalletHoldExact /\ LedgerHoldExact /\ LockExact /\
  AttemptAgreement /\ CommitMarked)`, and the corollaries `LedgerSafe`,
  `LockSafe`, `AttemptsAgree`, `CommitsMarked` that name its parts;
- `NeverPaidTwice`: `Spec => CommittedNeverRetried`;
- `DeliveredOnce`: `Spec => DeliveredNeverRequeued`;
- `HoldsAreListed`: `Spec => []NoSilentHold`;
- `ReleasedWithProof`: `Spec => StartedReleasedOnlyWithProof`.

The inductive invariant is `TypeOK /\ Enrolled /\ AllSound /\ LockExact`.
`Enrolled` says that a transfer with an attempt has a SIM, without which a job's
handset would be undefined. `AllSound` says for each transfer that its attempts
and its status tell one story (`Tried`, which also says that a pending retry
request still sees a failed, uncommitted job: the fact the race above breaks),
that the commit marker fits the status, that the wallet holds its share, and
which journals exist in each status (`Books`, needed because `LedgerReserved` is
a sum that alone does not tell a release from a settlement). `LockExact` is
needed with it: only because the lock's job is delivered does a lost lease lead
to `unknown` and not back to the queue. (`activate` takes the lock from a delivered
job; such a job is leased by nobody any more, and the exception in `LockExact`, the
history `unbound`, is what keeps the rest of it inductive.) One lemma, `SoundChanged`, covers every
action that moves a transfer and its latest job together; each action's proof
shows that it has that shape and leaves other transfers alone. For
`NoSilentHold` one fact is added, `Listed`: a transfer that waits for staff has a
case; that every other open transfer has a live job is part of `AllSound`.
`StartedReleasedOnlyWithProof` is an action property and follows from the same
invariant step by step: the one kind of report that releases is a failure before
the PIN, of a job that was merely leased or stopped at a name that is not the
receiver's (`ReportReleases`).

### Handset

`HandsetProofs` proves, from `HandsetAssumption` alone:

- `HandsetTypeCorrect`: `Spec => []TypeOK`;
- `OnePin`: `Spec => []OnePinPerOperation`, for any number of screen handlers.

The invariant is `PinInv`. `OnePinPerOperation` alone is not inductive: what
types the PIN is a handler that was cleared for it some steps ago, so `ClearedOK`
says that such a handler's job holds its operation's commit guard with no PIN
entered yet, and `ClearedApart` that no two cleared handlers have one operation
(the second could only be cleared by a guard that is still free). `LiveOK` is
needed for the clearing itself: the guard is written for the *active* session's
job, the PIN is typed for the *handler's*, and only while the handler's plan is
pending are they the same. `Reported` gives the events of recovery their type.
All other steps are `Quiet` (no handler is newly cleared, guards and PINs
stay), and one lemma, `QuietPin`, covers them.

`PinAlwaysAnnounced` and `PinsAlwaysInFenceOrder` prove `PinAnnounced` and
`PinsInFenceOrder`. They need `SpoolFacts` beside `PinInv`: accepted jobs of one
SIM have distinct tokens, none above the SIM's highest; a spooled `PIN_SUBMITTED`
carries its own job's token, and that job holds its operation's commit guard; and
a handler cleared for the PIN has its job's event in the spool. Order then
follows because a job is announced only while its token is the SIM's highest and
only once, since the guard it needs is written once. Steps that neither accept
nor announce are covered by one lemma.

`AloneAmbiguityAlwaysUnknown` proves `AloneAmbiguityIsUnknown` of `WatchedSpec`,
the agent without the run's bound. `AloneInv` follows a session through whoever
may end it: what the executor and the session know of each other
(`ExecutorSound`, `SessionSound`), that a live plan is the session's pending one
(`PlansLive`), that an announced job is past its commit (`AnnouncedLate`) and is
not recovered as a failure (`RecoveredUnknown`), and, while no handlers have
overlapped, that a handler which may still fail the session on the agent's own
word works on a job that is not announced (`AloneSound`). `HandsetAmbiguity` shows
that the property is false once two handlers overlap.

### The link

`DeviceLinkProofs` proves, from `DeviceLinkAssumption` (finitely many jobs, at
least one token, one event to a batch), for any number of connections, batches
under way, retries and unreadable events:

- `EffectsOnceInOrder`: `Spec => []AppliedOnceInOrder`;
- `SmsAfterCommit`: `Spec => []SmsFindsCommit`.

`InOrderOnce` is not inductive: what is applied next is decided by a batch that
left the handset long ago. `Whole` says that for every event of every batch under
way each older one is unreadable, applied or earlier in the same batch. A batch
is whole when it is sent, because `pendingSpool` lets no event pass one that is
not due and an acknowledged one is applied (`AnswersTrue`, over acknowledgements
under way and what each batch has done so far); it stays whole while its first
event is processed (`RestIsWhole`) and when a lost connection cuts the batches
behind it off. With `AppliedWhole` a new effect is then younger than all others.
For the SMS, `CommitsFirst` says that a money job has spooled its commit before
its SMS, and `Marked` that an applied commit leaves the marker, which nothing
takes back. `StagesOnce`, at most one event of each of five stages to a job,
gives the length of the spool in `TypeOK` by counting.

`OperationsProofs` proves `AnswerAlwaysFindsItsQuery`: `RefreshSpec =>
[]AnswerFindsItsQuery`, from `BalanceRefreshAssumption`. An answer is ambiguous
only if two queries of the SIM are leased or started, and it quarantines the
device only if it is older than the one that is. `RefreshInv` says that only the
job with the handset's lock runs (`OnlyActiveRuns`), that the handset has records
only of jobs that were created (`RecordsCreated`) and that, when an SMS in the
spool was received, every started job and every job reported before it existed
(`SpoolSound`): the spool is in order, so the query an answer meets is not younger
than the answer.

### Deposits

`DepositsProofs`, from `DepositsAssumption`:

- `PaymentsPostedOnce`: every payment is posted exactly once and each suspended
  one has its case, for any number of concurrent credits;
- `PaymentsAlwaysAccounted`: `[]PaymentsAccounted`, assuming `MaxChecked <= 2`;
- `AlikeAlwaysApart`: `[]AlikeNeverAmbiguous`.

The first needs `AccountedInv`: an intent that may still be matched has no
payment (`Unpaid`), a receipt is posted to exactly one intent or is in suspense
(`PostedOnce`), its case follows suspense and release (`CasesFollow`), and what a
staff request has checked was suspended (`ChecksSuspended`). That a successful
intent is backed (`SuccessBacked`) needs that the credit which lost the race for a
receipt finds the winner's match in place (`LosersBlocked`): with two credits at
most (`FewChecks`) none is left to overwrite it; with a third the fact is false,
see the end of section 11. `AlikeInv` says that the job has expired only intents
whose window is over (`ExpiredOver`) and that of two look-alikes on one SIM at most
one is active and no provider time lies in the windows of both (`AlikeApart`).

### Amounts

`MoneyProofs`, about Ledger and the two wallets of `MCMoney`:

- `AccountsAlwaysExact`: `MoneySpec => []AccountsExact`;
- `ProofsAlwaysAccepted`: `MoneySpec => []ProofNeverRefused`;
- `ReservationsAlwaysExact`: `MoneySpec => []ReservedExact`, in both wallets;
- `PromisesAlwaysKept`: `MoneySpec => PromisesKept`, assuming `FeesReserved`.

The accounts and counters are sums over sets (`SumFunctionOnSet` of the community
modules, a fold). The library's induction theorems cannot be used on them, so the
few facts the proofs need (a sum is a number, an element can be taken out, one
value changes the sum by its difference, a smaller function has a smaller sum)
are proved by a counterexample of least cardinality (`LeastNat`, `SumRemove`,
`SumMove`, `SumsBelow`).

`LedgerInv` says which journals exist in each phase of a transfer and a receipt
(`Followed`), that each account of each merchant equals the sum its phases imply
(`Accounts`), and that custody over all merchants is what was received less what
was paid (`Evidence`); every operation moves the accounts and one term of those
sums by the same amount. `ReservationsInv` is the same for the one counter of a
wallet.

`PromisesKept` relates the database's view to a truth nobody in the system
knows: when each payment was made and what the account held then. `PromisesInv`
therefore says that instants `at` of the payments *exist* such that each SMS tells
the truth about its own, that since any instant the account has lost no more than
was paid after it (`Trail`), and that a successful payment is not younger than the
shown balance (`PaymentKnown`), for which the date a message is given must not hide
a payment (`DatesTrue`, from the routine's `StaleDates = FALSE`); beside them stand the facts that matter: the
balance is at most what the account held at its date (`BalanceTrue`), what is
spent and still due today is within the limit, and the account covers what is
due. `ReservedCovers` compares what is due with the
reservation, which is where `FeesReserved` comes in: a charge above
`reserveProviderFeeMinor` is not reserved, and becomes a case (`recordFeeOverrun`)
after the money has left. The charges of the run satisfy it.

### Fleet

`FleetProofs` proves `OneIdentityAlways` and `ServiceOnlyByStaff` from
`FleetAssumption`. The invariant is `TypeOK /\ CodesBelong /\ Identity`:
`CodesBelong`, that an open code is a device's, because an activation gives the
credential to whatever the redeemed code names. `GreatestExists` shows, by
well-founded induction over sets of naturals, that the latest run the approval
looks up exists. `ServiceOnlyByStaff` is an action property: whatever a
transaction read, the update of a SIM's status is conditional, and only a staff
transaction's goes from pending into service.

### Requests and webhooks

`MerchantApiProofs`, from the assumptions of Idempotency and Webhooks:

- `RequestsOnceOnly`: `ApiSpec => ImplementsOnceOnly`, the refinement, for any
  number of requests, keys and references. A record a waiting transaction has
  seen is never written again (`RequestSound`), and a record's result is an
  effect under its payload whose request answered with it (`RecordSound`); each
  step is then a step of OnceOnly or a stutter (`recordIdentities`' anchor, the
  reference if there is one, is where the effect is looked up).
- `NothingEverLost`: `[]NothingLost`. An event's deliveries are written with its
  publication; the invariant follows each worker's round from what it read to
  what it writes, and the endpoints that have listened all along.
- `ClaimsAlwaysFenced`: `ClaimsFenced`, with `DeliverySound`: while a claim that was
  not made behind the snapshot of a change holds its delivery, the endpoint is
  enabled and the request is signed with the secret it still has, because the
  changes that see it take it away. That is inductive because every change under way
  matches such a delivery (it was claimed before the snapshot, and a write since
  would have rolled the change back) and matches only unfinished ones (`RowsHeld`).
- `DispatcherSound`: the dispatcher by itself, without the run's bound.

### Sweeps, settlements, alerts, cases, configuration

`OperationsProofs`, from the assumptions of Settlements and Sweeps:
`SettlementsAlwaysAgree` (a settlement's status stands for its transfer's, and
one that staff may still decide has no transfer), `SweepsAlwaysSafe`
(`SentAsApproved` needs that a pending version has never been executed and a
version is never reused), and `RuleAlwaysSafe`, the same without the run's bound;
`ConfigurationAlwaysSafe` (a value comes into force by an
approval or by a copy of the defaults, so the invariant speaks of proposals and
of what a group's creation has read), `CaseRulesAlwaysKept` (a request in flight
was legal in the status its author read, and it takes effect only in that
status), `AlertsAlwaysSound`, the safety part of `AlertsDelivered`: a budget of
messages, calls under way and attempts left that only a lost answer or an expired
lease raises. The lists of candidates are typed by a lemma of their own; the budget
does not need them, since a claim asks again whether the delivery is to be had.

A run that follows one component at a time (section 11) is proved about as it is
checked: the invariant of each component is shown for its own steps, and the
others' steps leave its variables alone.

### Assumptions

Those of the modules (`…Assumption`, evaluated by the runs) give the constants
their types. What the proofs assume beyond:

- `MaxInFlight = 1` (Payouts, except `TypeCorrect`): one staff retry at a time.
  With two the property is false, run `payouts_retry_race`.
- `MaxChecked <= 2` (`PaymentsAlwaysAccounted`): two staff credits at a time. With
  three it is false, section 11.
- `FeesReserved` (`PromisesAlwaysKept`): no charge above the reserved one. The
  routine wallet it speaks of has SMS that show a balance, staff who give one, no
  retries or wrong decisions, and no message dated after a payment it does not
  contain (section 7). Section 11 says what goes wrong where these do not hold.
- In Idempotency, requests, refusals and "nobody" do not overlap; the workers of
  Alerts are finitely many.

### Only model-checked

The liveness properties: `PayoutEnds`, `SessionEnds`, `ArrivesOrRefused`,
`RefreshedOrBlocked`, `IntentsEnd`, `NothingWaitsForEver` and the live part of
`AlertsDelivered`. They rest on fairness and ENABLED, which are out of the
prover's reach.

## 13. Not modelled

- *Parsers, name comparison, receiver-name advisory*: regular expressions, text
  and redaction; the models take their verdicts as inputs and let them be
  anything. The advisory moves a case from open to proposed, which Payouts does
  not tell apart.
- *Authentication, portals, checkout, administration of records* (locations,
  merchants, portal users, group policies): sessions, credentials, forms, lists.
- *Captured screens, the window in which a processing dialog may be dismissed
  after an SMS, profile installs*: no influence on the protocol.
- *The URL policy of webhooks, bodies and signatures; the alert texts.*
- *The liquidity report*, which only raises alerts.
- One hazard of the agent has no property: `TelebirrAccessibilityService.kt:81`
  reads the session whose SIM's PIN is typed before several suspension points.
  Handset lets a handler plan only for the session its screen belongs to; for
  the two to differ one write to the local spool would have to outlast a session
  and the screens of the next, which a model without a clock cannot tell from an
  ordinary delay.
- Parts of the modelled components that are read-only (views, lists, reports) or
  only move a deadline the models leave open (lease renewal, execute-now).
