------------------------------ MODULE Wallets ------------------------------
(***************************************************************************)
(* The money of one SIM wallet: what the provider's account really holds,  *)
(* what the database believes it holds, and how much of it is promised to  *)
(* payouts and sweeps.                                                     *)
(*                                                                         *)
(* The provider moves the real balance and sends an SMS with the time and  *)
(* (usually) the new balance of every movement; messages arrive late, out  *)
(* of order or never.  The database takes its balance from them and from   *)
(* staff.  Payouts are admitted and sweeps computed from that balance, the *)
(* reservations and the day's outflow.  Every action but the provider's    *)
(* is one serializable transaction.                                        *)
(***************************************************************************)
EXTENDS Integers, FiniteSets, FiniteSetsExt, Functions

CONSTANTS
  Payouts,       \* withdrawals and settlements
  SweepOps,      \* sweep executions
  Amount,        \* amount of every payout
  ReserveFee,    \* MerchantConfig.reserveProviderFeeMinor
  ActualFees,    \* provider fees that may really be charged
  Deposit,       \* amount of an incoming payment
  StartBalance,  \* balance of the account at the beginning
  Safety,        \* DeviceGroup.safetyBalanceMinor
  DailyLimit,    \* DeviceGroup.dailyLimitMinor
  HighWater, Target, MaxPerRun,  \* of the sweep rule
  SmsShowsBalance,  \* whether a transaction SMS carries the balance (a set of Booleans)
  StaffGivesBalance, \* whether staff give the balance with a success (a set of Booleans)
  StaffErr,      \* staff may fail a payout that was paid
  StaleDates,    \* a message dated by its receipt may be received after a later payment
  MaxRetries,    \* bound on staff retries of a failed transfer
  MaxTime,       \* bound on instants
  MaxDay         \* bound on days

WalletsAssumption ==
  /\ Payouts \cap SweepOps = {} /\ IsFiniteSet(Payouts) /\ IsFiniteSet(SweepOps)
  /\ {ReserveFee, Deposit, StartBalance, Safety, DailyLimit, HighWater, Target, MaxPerRun, MaxRetries, MaxTime, MaxDay} \subseteq Nat
  /\ Amount \in [Payouts -> Nat]
  /\ ActualFees \subseteq Nat
  /\ Target < HighWater
  /\ SmsShowsBalance \subseteq BOOLEAN /\ StaffGivesBalance \subseteq BOOLEAN /\ {StaffErr, StaleDates} \subseteq BOOLEAN

Outgoing == Payouts \cup SweepOps
States == {"none", "queued", "unknown", "success", "failed"}
Held == {"queued", "unknown"}

VARIABLES
  realAt,         \* the account's real balance at each instant, up to now
  clock,          \* instants so far: provider events and staff resolutions
  today,          \* the current day
  mainBalance,    \* SimWallet.mainBalanceMinor
  lastBalanceAt,  \* SimWallet.lastBalanceAt
  reserved,       \* SimWallet.reservedBalanceMinor
  sentToday,      \* SimWallet.sentTodayMinor
  financialDay,   \* SimWallet.financialDay
  active,         \* SimWallet.status is active (not quarantined)
  state,          \* Transfer.status
  amount,         \* Transfer.amountMinor
  fee,            \* the provider fee of a paid transfer
  paidOn,         \* the day the provider paid the transfer, or -1
  applied,        \* transfers whose SMS was counted without being matched
  retries,
  sms             \* messages under way

provider == <<realAt, clock>>
wallet   == <<mainBalance, lastBalanceAt, reserved, sentToday, financialDay, active>>
transfer == <<state, amount, fee, paidOn, applied, retries>>
vars == <<provider, today, wallet, transfer, sms>>

real == realAt[clock]
Paid(t) == paidOn[t] # -1
Physical(t) == amount[t] + ReserveFee
Outflow(t) == amount[t] + fee[t]
Physicals == [t \in Outgoing |-> Physical(t)]
Outflows == [t \in Outgoing |-> Outflow(t)]

Messages == [kind : {"out", "in", "balance"}, of : Outgoing \cup {"none"}, at : 0..MaxTime, shows : BOOLEAN]

TypeOK ==
  /\ realAt \in [0..MaxTime -> Nat]
  /\ clock \in 0..MaxTime
  /\ today \in 0..MaxDay
  /\ mainBalance \in Int
  /\ lastBalanceAt \in 0..MaxTime
  /\ reserved \in Nat
  /\ sentToday \in Nat
  /\ financialDay \in 0..MaxDay
  /\ active \in BOOLEAN
  /\ state \in [Outgoing -> States]
  /\ amount \in [Outgoing -> Nat]
  /\ fee \in [Outgoing -> Nat]
  /\ paidOn \in [Outgoing -> -1..MaxDay]
  /\ applied \subseteq Outgoing
  /\ retries \in [Outgoing -> 0..MaxRetries]
  /\ sms \subseteq Messages

Init ==
  /\ realAt = [i \in 0..MaxTime |-> IF i = 0 THEN StartBalance ELSE 0]
  /\ clock = 0
  /\ today = 0
  /\ mainBalance = StartBalance
  /\ lastBalanceAt = 0
  /\ reserved = 0
  /\ sentToday = 0
  /\ financialDay = 0
  /\ active = TRUE
  /\ state = [t \in Outgoing |-> "none"]
  /\ amount = [t \in Outgoing |-> IF t \in Payouts THEN Amount[t] ELSE 0]
  /\ fee = [t \in Outgoing |-> 0]
  /\ paidOn = [t \in Outgoing |-> -1]
  /\ applied = {}
  /\ retries = [t \in Outgoing |-> 0]
  /\ sms = {}

SetState(t, st) == state' = [state EXCEPT ![t] = st]

-----------------------------------------------------------------------------
(* The provider *)

\* The next instant, at which the account moves by delta.
Tick(delta) ==
  /\ clock < MaxTime
  /\ clock' = clock + 1
  /\ realAt' = [realAt EXCEPT ![clock + 1] = real + delta]

\* A movement of delta, announced by a message.
Moves(delta, kind, of) ==
  \E shows \in IF kind = "balance" THEN {TRUE} ELSE SmsShowsBalance :
    /\ Tick(delta)
    /\ sms' = sms \cup {[kind |-> kind, of |-> of, at |-> clock + 1, shows |-> shows]}

\* The handset entered the PIN and the account covers the payment.
Pay(t) ==
  \E f \in ActualFees :
    /\ state[t] = "queued" /\ ~Paid(t)
    /\ real >= amount[t] + f
    /\ Moves(0 - amount[t] - f, "out", t)
    /\ fee' = [fee EXCEPT ![t] = f]
    /\ paidOn' = [paidOn EXCEPT ![t] = today]
    /\ UNCHANGED <<today, wallet, state, amount, applied, retries>>

Receive ==
  /\ Moves(Deposit, "in", "none")
  /\ UNCHANGED <<today, wallet, transfer>>

\* The answer to a balance query.
AnswerQuery ==
  /\ Moves(0, "balance", "none")
  /\ UNCHANGED <<today, wallet, transfer>>

NewDay ==
  /\ today < MaxDay
  /\ today' = today + 1
  /\ UNCHANGED <<provider, wallet, transfer, sms>>

-----------------------------------------------------------------------------
(* Admission: selectForWithdrawal and executeCandidate *)

\* The counter belongs to the day it was last written.
SentNow == IF financialDay = today THEN sentToday ELSE 0

withinWithdrawalCapacity(sent, held, required, limit) == sent + held + required <= limit

Viable(required) ==
  /\ active
  /\ mainBalance - reserved - Safety >= required
  /\ withinWithdrawalCapacity(SentNow, reserved, required, DailyLimit)

Reserve(t, physical) ==
  /\ SetState(t, "queued")
  /\ reserved' = reserved + physical

QueueTransfer(t) ==
  /\ state[t] = "none"
  /\ Viable(Physical(t))
  /\ Reserve(t, Physical(t))
  /\ UNCHANGED <<provider, today, mainBalance, lastBalanceAt, sentToday, financialDay, active,
                 amount, fee, paidOn, applied, retries, sms>>

calculateSweepAmount(balance, held, safety, highWater, target, maxPerRun) ==
  LET usable == balance - held - safety
      excess == usable - target IN
  IF usable <= highWater \/ excess <= 0 \/ maxPerRun <= 0 THEN 0 ELSE Min({excess, maxPerRun})

\* The group's limit less what was sent today, what is pending and the fee.
RemainingDaily ==
  DailyLimit - SentNow - SumFunctionOnSet(Physicals, {t \in Outgoing : state[t] \in Held}) - ReserveFee

SweepAmount ==
  IF RemainingDaily <= 0 THEN 0
  ELSE calculateSweepAmount(mainBalance, reserved + ReserveFee, Safety, HighWater, Target, Min({RemainingDaily, MaxPerRun}))

ExecuteSweep(t) ==
  /\ state[t] = "none"
  /\ active
  /\ SweepAmount > 0
  /\ amount' = [amount EXCEPT ![t] = SweepAmount]
  /\ Reserve(t, SweepAmount + ReserveFee)
  /\ UNCHANGED <<provider, today, mainBalance, lastBalanceAt, sentToday, financialDay, active,
                 fee, paidOn, applied, retries, sms>>

-----------------------------------------------------------------------------
(* The end of a transfer without the provider's word *)

Release(t) ==
  /\ SetState(t, "failed")
  /\ reserved' = reserved - Physical(t)
  /\ UNCHANGED <<provider, today, mainBalance, lastBalanceAt, sentToday, financialDay, active,
                 amount, fee, paidOn, applied, retries, sms>>

\* A failure or a cancellation before the PIN.
FailBeforeCommit(t) == state[t] = "queued" /\ ~Paid(t) /\ Release(t)

Expire(t) ==
  /\ state[t] = "queued"
  /\ SetState(t, "unknown")
  /\ UNCHANGED <<provider, today, wallet, amount, fee, paidOn, applied, retries, sms>>

\* Staff attach evidence of the failure; the code cannot verify it.
ResolveFailed(t) == state[t] = "unknown" /\ (Paid(t) => StaffErr) /\ Release(t)

\* retryDeviceJob reserves again and asks neither the balance nor the limit.
RetryDeviceJob(t) ==
  /\ state[t] = "failed" /\ ~Paid(t)
  /\ retries[t] < MaxRetries
  /\ retries' = [retries EXCEPT ![t] = @ + 1]
  /\ Reserve(t, Physical(t))
  /\ UNCHANGED <<provider, today, mainBalance, lastBalanceAt, sentToday, financialDay, active,
                 amount, fee, paidOn, applied, sms>>

-----------------------------------------------------------------------------
(* Evidence of movements *)

CountSent(outflow) ==
  /\ financialDay' = today
  /\ sentToday' = SentNow + outflow

\* resolveUnknown with outcome success.  When the SMS was counted unmatched the
\* outflow is in the wallet already; otherwise the wallet takes the balance
\* staff give, or its own balance less the outflow, as of now.
ResolveSuccess(t) ==
  \E given \in StaffGivesBalance :
    /\ state[t] = "unknown" /\ Paid(t)
    /\ Tick(0)
    /\ SetState(t, "success")
    /\ reserved' = reserved - Physical(t)
    /\ IF t \in applied
       THEN /\ mainBalance' = IF given THEN real ELSE mainBalance
            /\ lastBalanceAt' = IF given THEN clock' ELSE lastBalanceAt
            /\ UNCHANGED <<sentToday, financialDay>>
       ELSE /\ mainBalance' = IF given THEN real ELSE mainBalance - Outflow(t)
            /\ lastBalanceAt' = clock'
            /\ CountSent(Outflow(t))
    /\ UNCHANGED <<today, active, amount, fee, paidOn, applied, retries, sms>>

NothingPaid(i, j) == \A l \in i..(j - 1) : realAt[l + 1] >= realAt[l]

\* The date a message gets: the time of the movement, as the provider gives it, or
\* the time the handset received it, when the provider gives none (a balance) or an
\* implausible one.
effectiveProviderOccurredAt(m) == {date \in m.at..clock : StaleDates \/ NothingPaid(m.at, date)}

transactionBalanceMutation_Always(m, delta) ==
  \E date \in effectiveProviderOccurredAt(m) :
    /\ mainBalance' = IF m.shows THEN realAt[m.at] ELSE mainBalance + delta
    /\ lastBalanceAt' = IF date < lastBalanceAt THEN lastBalanceAt ELSE date

\* A message older than the wallet's balance does not touch it.
transactionBalanceMutation(m, delta) ==
  \E date \in effectiveProviderOccurredAt(m) :
    IF date < lastBalanceAt THEN UNCHANGED <<mainBalance, lastBalanceAt>>
    ELSE /\ mainBalance' = IF m.shows THEN realAt[m.at] ELSE mainBalance + delta
         /\ lastBalanceAt' = date

MatchOutgoing_ReleasesAgain(m) ==
  LET t == m.of IN
  /\ m.kind = "out"
  /\ IF state[t] = "success" THEN UNCHANGED <<wallet, state>>
     ELSE /\ SetState(t, "success")
          /\ reserved' = reserved - Physical(t)
          /\ CountSent(Outflow(t))
          /\ transactionBalanceMutation(m, 0 - Outflow(t))
          /\ UNCHANGED active
  /\ UNCHANGED <<applied>>

\* An outgoing message that is matched to its transfer.
MatchOutgoing(m) ==
  LET t == m.of IN
  /\ m.kind = "out"
  /\ IF state[t] = "success" THEN UNCHANGED <<wallet, state>>
     ELSE /\ SetState(t, "success")
          /\ reserved' = IF state[t] \in Held THEN reserved - Physical(t) ELSE reserved
          /\ CountSent(Outflow(t))
          /\ transactionBalanceMutation(m, 0 - Outflow(t))
          /\ UNCHANGED active
  /\ UNCHANGED <<applied>>

\* An outgoing message without a unique match: the outflow is counted, the
\* transfer keeps its reservation and the SIM is quarantined.
UnmatchedOutgoing(m) ==
  LET t == m.of IN
  /\ m.kind = "out"
  /\ CountSent(Outflow(t))
  /\ transactionBalanceMutation(m, 0 - Outflow(t))
  /\ active' = FALSE
  /\ applied' = applied \cup {t}
  /\ UNCHANGED <<reserved, state>>

IncomingTransfer(m) ==
  /\ m.kind = "in"
  /\ CountSent(0)
  /\ transactionBalanceMutation(m, Deposit)
  /\ UNCHANGED <<reserved, active, state, applied>>

\* A balance is applied when exactly one balance query of the SIM was running as the
\* handset received it, be it the one it answers or a later one; whether that is so
\* is left open.  Otherwise, or when the wallet's balance is newer, it becomes a case.
ApplyBalance(m) ==
  /\ m.kind = "balance"
  /\ \/ \E observedAt \in effectiveProviderOccurredAt(m) :
          /\ lastBalanceAt <= observedAt
          /\ mainBalance' = realAt[m.at]
          /\ lastBalanceAt' = observedAt
     \/ UNCHANGED <<mainBalance, lastBalanceAt>>
  /\ UNCHANGED <<reserved, sentToday, financialDay, active, state, applied>>

Ingest(m) ==
  /\ sms' = sms \ {m}
  /\ MatchOutgoing(m) \/ UnmatchedOutgoing(m) \/ IncomingTransfer(m) \/ ApplyBalance(m)
  /\ UNCHANGED <<provider, today, amount, fee, paidOn, retries>>

Next ==
  \/ \E t \in Outgoing : Pay(t) \/ FailBeforeCommit(t) \/ Expire(t) \/ ResolveFailed(t) \/ ResolveSuccess(t) \/ RetryDeviceJob(t)
  \/ Receive
  \/ AnswerQuery
  \/ NewDay
  \/ \E t \in Payouts : QueueTransfer(t)
  \/ \E t \in SweepOps : ExecuteSweep(t)
  \/ \E m \in sms : Ingest(m)

Spec == Init /\ [][Next]_vars

-----------------------------------------------------------------------------
(* Properties *)

\* Whatever SMS is applied late, lost or overtaken, the account really holds the
\* money for every payout and sweep the SIM has been given and has not paid yet.
Covered == real >= SumFunctionOnSet(Physicals, {t \in Outgoing : state[t] \in Held /\ ~Paid(t)})

\* The provider never pays more from the SIM in a day than the group's limit,
\* although confirmations arrive on later days and count there.
DailyKept == SumFunctionOnSet(Outflows, {t \in Outgoing : paidOn[t] = today}) <= DailyLimit

\* The wallet never shows more than the account held at lastBalanceAt: a message
\* that is applied late does not bring back money that was paid out since.
NeverOverstated == mainBalance <= realAt[lastBalanceAt]

\* The selection and the sweeps promise no money the SIM does not have.
PromisesKept == TypeOK /\ Covered /\ DailyKept /\ NeverOverstated

\* Reservations add up: each held transfer, and no other, is reserved in full,
\* through retries, resolutions, late and unmatched SMS.
ReservedExact == reserved = SumFunctionOnSet(Physicals, {t \in Outgoing : state[t] \in Held})

\* A sweep leaves the rule's target, the safety balance and every reservation,
\* its own fee included, in the wallet it was computed from.
TargetLeft == \A t \in SweepOps : state[t] = "none" /\ state'[t] # "none" => mainBalance - reserved' - Safety >= Target
=============================================================================
