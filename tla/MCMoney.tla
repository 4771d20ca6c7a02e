------------------------------ MODULE MCMoney ------------------------------
(* The ledger of the merchants and the balances of one SIM wallet.  The two  *)
(* are kept by the same transactions but no step of the one reads the other: *)
(* a behaviour follows one of them, chosen at the beginning, and every       *)
(* behaviour of each is covered.  The wallet is run twice: as the providers' *)
(* messages and staff should be, and with messages that show no balance or   *)
(* are dated after a payment they do not contain, wrong staff decisions and  *)
(* retries.                                                                  *)
EXTENDS Ledger

CONSTANTS
  Payouts, Sweeps, PayoutAmount, SimFee, SimFees, Deposit, StartBalance, Safety,
  DailyLimit, HighWater, Target, MaxPerRun, MaxDay,  \* of the wallet
  RoutineTime, ExceptionalTime, MaxRetries,          \* the bounds of its two runs
  m1, m2, t1, t2, x1, r1, r2

\* Two merchants and the system's; two withdrawals, an internal move, two receipts.
MCOwner == [t \in Transfers |-> IF t = t2 THEN m2 ELSE m1]
MCMode == [t \in Transfers |-> IF t = x1 THEN "internal_move" ELSE "merchant_debit"]
MCAmount == [x \in Transfers \cup Receipts |-> CASE x \in Receipts -> 5 [] x = t2 -> 2 [] OTHER -> 1]
MCPayoutAmount == [t \in Payouts |-> IF t = t1 THEN 2 ELSE 3]

VARIABLES subject,
          realAt, clock, today, mainBalance, lastBalanceAt, reserved, sentToday,
          financialDay, active, state, amount, fee, paidOn, applied, retries, sms

walletVars == <<realAt, clock, today, mainBalance, lastBalanceAt, reserved, sentToday,
                financialDay, active, state, amount, fee, paidOn, applied, retries, sms>>
moneyVars == <<subject, vars, walletVars>>

\* Payouts and sweeps; or payouts that are retried, with what can go wrong.
Wallet(exceptional) == INSTANCE Wallets WITH
  SweepOps <- IF exceptional THEN {} ELSE Sweeps,
  Amount <- PayoutAmount, ReserveFee <- SimFee, ActualFees <- SimFees,
  SmsShowsBalance <- IF exceptional THEN BOOLEAN ELSE {TRUE},
  StaffGivesBalance <- IF exceptional THEN BOOLEAN ELSE {TRUE},
  StaffErr <- exceptional, StaleDates <- exceptional,
  MaxRetries <- IF exceptional THEN MaxRetries ELSE 0,
  MaxTime <- IF exceptional THEN ExceptionalTime ELSE RoutineTime

ASSUME MoneyAssumption == LedgerAssumption /\ \A e \in BOOLEAN : Wallet(e)!WalletsAssumption

OfLedger == subject = "ledger"
OfRoutine == subject = "wallet"
OfExceptional == subject = "wallet, exceptions"

MoneyInit ==
  /\ Init
  /\ \/ (OfLedger \/ OfRoutine) /\ Wallet(FALSE)!Init
     \/ OfExceptional /\ Wallet(TRUE)!Init

MoneyNext ==
  \/ OfLedger /\ Next /\ UNCHANGED <<subject, walletVars>>
  \/ OfRoutine /\ Wallet(FALSE)!Next /\ UNCHANGED <<subject, vars>>
  \/ OfExceptional /\ Wallet(TRUE)!Next /\ UNCHANGED <<subject, vars>>

MoneySpec == MoneyInit /\ [][MoneyNext]_moneyVars

\* The bound of the run: two messages under way at a time.
Bounded == Cardinality(sms) <= 2
MCSpec == MoneyInit /\ [][MoneyNext /\ Bounded']_moneyVars

-----------------------------------------------------------------------------
\* Each merchant's books balance; custody is the receipts less what the provider
\* took; the reserved and available accounts are what open and paid transfers and
\* credits say; debt is explained by a case. So it is although transfers are
\* failed, restored, retried or resolved by staff (ledger.service.ts).
AccountsExact == OfLedger => LedgerExact

\* Whatever fee the provider charged, the ledger accepts the proof of payment of
\* an open or disproved transfer (settleWithdrawal, settleInternalMoveFee).
ProofNeverRefused == OfLedger => ProofAccepted

\* Whatever SMS is late, lost or overtaken, the account holds the money for every
\* payout and sweep the SIM has been given, within the day's limit, and the wallet
\* never shows more than the account held; and a sweep leaves the target, the
\* safety balance and every reservation (sim-selection.service.ts,
\* sms-ingestion.service.ts, sweeps.service.ts).  So it is as long as no message is
\* dated by its receipt after a payment it does not contain: an answer that a later
\* query takes for its own may be (StaleDates, in the exceptional wallet).
PromisesKept ==
  /\ [](OfRoutine => Wallet(FALSE)!PromisesKept)
  /\ [][OfRoutine => Wallet(FALSE)!TargetLeft]_moneyVars

\* Each held transfer, and no other, is reserved in full, through retries,
\* resolutions, wrong decisions, late and unmatched SMS.
ReservedExact ==
  /\ OfRoutine => Wallet(FALSE)!ReservedExact
  /\ OfExceptional => Wallet(TRUE)!TypeOK /\ Wallet(TRUE)!ReservedExact
=============================================================================
