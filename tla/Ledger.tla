------------------------------- MODULE Ledger -------------------------------
(***************************************************************************)
(* The double-entry ledger in amounts: the accounts of every merchant, the *)
(* journals, and the transactions of the payment core that post them.      *)
(*                                                                         *)
(* A ledger operation maps a book (balances and journals) to the book      *)
(* after it, so that a transaction which posts twice composes two of them. *)
(* post refuses an unbalanced journal, which rolls the transaction back.   *)
(***************************************************************************)
EXTENDS Integers, FiniteSets, Functions

CONSTANTS
  Merchants,     \* merchants; System, which owns unattributed receipts, is one
  System,
  Transfers, Receipts,
  Owner,         \* Transfer.merchantId
  Mode,          \* Transfer.financialMode
  Amount,        \* amount of a transfer or receipt
  ReserveFee,    \* reserveProviderFeeMinor
  GatewayFee,    \* gatewayFeeMinor of a merchant_debit
  ActualFees,    \* provider fees that may be charged
  TestFee        \* the provider fee of the test environment

NoOne == "no merchant"

LedgerAssumption ==
  /\ System \in Merchants /\ NoOne \notin Merchants
  /\ IsFiniteSet(Merchants) /\ IsFiniteSet(Transfers) /\ IsFiniteSet(Receipts)
  /\ Transfers \cap Receipts = {}
  /\ Owner \in [Transfers -> Merchants]
  /\ Mode \in [Transfers -> {"merchant_debit", "internal_move"}]
  /\ Amount \in [Transfers \cup Receipts -> Nat]
  /\ {ReserveFee, GatewayFee, TestFee} \subseteq Nat
  /\ ActualFees \subseteq Nat

LEDGER_CODES == {"available", "reserved", "custody", "treasury", "platformFees", "suspense"}
Assets == {"custody", "treasury"}
SourceTypes == {"deposit", "receipt_suspense", "suspense_resolution", "reservation", "settlement", "release", "late_rereservation"}
VARIABLES
  book,       \* balance of every account, journals posted, ok: nothing was refused
  phase,      \* what the core has done with a transfer
  charged,    \* the provider fee a settled transfer was charged
  late,       \* transfers that staff failed and the provider's SMS proved paid
  receipt,    \* where a receipt's money was posted
  creditedTo, \* the merchant a receipt was credited to
  cases       \* reconciliation cases about the ledger

vars == <<book, phase, charged, late, receipt, creditedTo, cases>>

Phases == {"none", "held", "failed", "disproved", "settled"}

TypeOK ==
  /\ book \in [balance : [Merchants -> [LEDGER_CODES -> Int]], journals : SUBSET (SourceTypes \X (Transfers \cup Receipts)), ok : {TRUE}]
  /\ \A m \in Merchants, c \in {"suspense", "treasury", "platformFees"} : book.balance[m][c] >= 0
  /\ phase \in [Transfers -> Phases]
  /\ charged \in [Transfers -> Nat]
  /\ late \subseteq Transfers
  /\ receipt \in [Receipts -> {"none", "credited", "suspense"}]
  /\ creditedTo \in [Receipts -> Merchants \cup {NoOne}]
  /\ cases \subseteq {"provider_fee_overrun", "late_success_after_manual_failure"} \X Transfers

Init ==
  /\ book = [balance |-> [m \in Merchants |-> [c \in LEDGER_CODES |-> 0]], journals |-> {}, ok |-> TRUE]
  /\ phase = [t \in Transfers |-> "none"]
  /\ charged = [t \in Transfers |-> 0]
  /\ late = {}
  /\ receipt = [r \in Receipts |-> "none"]
  /\ creditedTo = [r \in Receipts |-> NoOne]
  /\ cases = {}

-----------------------------------------------------------------------------
(* Postings *)

\* The lines of one side of a journal: a single line, and two together.
On(m, code, amount) == [a \in {<<m, code>>} |-> amount]
Both(f, g) == [a \in DOMAIN f \cup DOMAIN g |-> IF a \in DOMAIN f THEN f[a] ELSE g[a]]

Posted(lines, m, code) == IF <<m, code>> \in DOMAIN lines THEN lines[<<m, code>>] ELSE 0

Balanced(debits, credits) ==
  /\ \A a \in DOMAIN debits : debits[a] >= 0
  /\ \A a \in DOMAIN credits : credits[a] >= 0
  /\ SumFunction(debits) = SumFunction(credits)

Sign(code) == IF code \in Assets THEN 1 ELSE -1

\* A journal that exists already for this source is not posted again.
post(b, sourceType, sourceId, debits, credits) ==
  IF ~Balanced(debits, credits) THEN [b EXCEPT !.ok = FALSE]
  ELSE IF <<sourceType, sourceId>> \in b.journals THEN b
  ELSE [balance |-> [m \in Merchants |-> [c \in LEDGER_CODES |->
                       b.balance[m][c] + Sign(c) * (Posted(debits, m, c) - Posted(credits, m, c))]],
        journals |-> b.journals \cup {<<sourceType, sourceId>>},
        ok |-> b.ok]

Commit(b) == b.ok /\ book' = b

-----------------------------------------------------------------------------
(* LedgerService *)

creditDeposit(b, m, r) == post(b, "deposit", r, On(m, "custody", Amount[r]), On(m, "available", Amount[r]))

moveReceiptToSuspense(b, m, r) == post(b, "receipt_suspense", r, On(m, "custody", Amount[r]), On(m, "suspense", Amount[r]))

releaseSuspenseToMerchant(b, source, target, r) ==
  post(b, "suspense_resolution", r,
       Both(On(source, "suspense", Amount[r]), On(target, "custody", Amount[r])),
       Both(On(target, "available", Amount[r]), On(source, "custody", Amount[r])))

\* What a transfer reserves: an internal move only its provider fee.
Gateway(t) == IF Mode[t] = "merchant_debit" THEN GatewayFee ELSE 0

Total(t) == IF Mode[t] = "merchant_debit" THEN Amount[t] + ReserveFee + GatewayFee ELSE ReserveFee

Sufficient(b, t) == b.balance[Owner[t]]["available"] >= Total(t)

Hold(b, sourceType, t, total) == post(b, sourceType, t, On(Owner[t], "available", total), On(Owner[t], "reserved", total))

Return(b, t, total) == post(b, "release", t, On(Owner[t], "reserved", total), On(Owner[t], "available", total))

\* reserveWithdrawal and reserveInternalMoveFee; Sufficient is their guard.
reserve(b, t) == Hold(b, "reservation", t, Total(t))

releaseWithdrawalReservation(b, t) == Return(b, t, Amount[t] + ReserveFee + GatewayFee)

releaseInternalMoveFee(b, t) == Return(b, t, ReserveFee)

release(b, t) == IF Mode[t] = "merchant_debit" THEN releaseWithdrawalReservation(b, t) ELSE releaseInternalMoveFee(b, t)

\* Neither restoration has a guard: the provider's word counts.
restoreReleasedWithdrawalForLateSuccess_Skipped(b, t) == b

restoreReleasedWithdrawalForLateSuccess(b, t) == Hold(b, "late_rereservation", t, Amount[t] + ReserveFee + GatewayFee)

restoreReleasedInternalMoveFeeForLateSuccess(b, t) == Hold(b, "late_rereservation", t, ReserveFee)

restoreForLateSuccess(b, t) ==
  IF Mode[t] = "merchant_debit" THEN restoreReleasedWithdrawalForLateSuccess(b, t) ELSE restoreReleasedInternalMoveFeeForLateSuccess(b, t)

providerFeeAdjustment_NoOverrun(reservedTotal, actualTotal) ==
  [refund |-> IF actualTotal <= reservedTotal THEN reservedTotal - actualTotal ELSE 0, overrun |-> 0]

providerFeeAdjustment(reservedTotal, actualTotal) ==
  IF actualTotal <= reservedTotal THEN [refund |-> reservedTotal - actualTotal, overrun |-> 0]
  ELSE [refund |-> 0, overrun |-> actualTotal - reservedTotal]

settleWithdrawal(b, t, fee) ==
  LET m == Owner[t]
      adjust == providerFeeAdjustment(Total(t), Amount[t] + fee + GatewayFee) IN
  post(b, "settlement", t,
       Both(On(m, "reserved", Total(t)), On(m, "available", adjust.overrun)),
       Both(On(m, "custody", Amount[t] + fee), Both(On(m, "platformFees", GatewayFee), On(m, "available", adjust.refund))))

settleInternalMoveFee(b, t, fee) ==
  LET m == Owner[t]
      adjust == providerFeeAdjustment(ReserveFee, fee) IN
  post(b, "settlement", t,
       Both(On(m, "reserved", ReserveFee), Both(On(m, "treasury", Amount[t]), On(m, "available", adjust.overrun))),
       Both(On(m, "custody", Amount[t] + fee), On(m, "available", adjust.refund)))

settle(b, t, fee) == IF Mode[t] = "merchant_debit" THEN settleWithdrawal(b, t, fee) ELSE settleInternalMoveFee(b, t, fee)

recordFeeOverrun(t, fee) == IF fee > ReserveFee THEN {<<"provider_fee_overrun", t>>} ELSE {}

-----------------------------------------------------------------------------
(* The transactions that use it *)

\* An incoming SMS that matches one deposit intent of m; a test deposit and the
\* initial test balance of a merchant post the same journal.
CreditDeposit(r, m) ==
  /\ receipt[r] = "none" /\ m # System
  /\ Commit(creditDeposit(book, m, r))
  /\ receipt' = [receipt EXCEPT ![r] = "credited"]
  /\ creditedTo' = [creditedTo EXCEPT ![r] = m]
  /\ UNCHANGED <<phase, charged, late, cases>>

\* One without a unique match is held for its only possible owner or System.
SuspendReceipt(r, m) ==
  /\ receipt[r] = "none"
  /\ Commit(moveReceiptToSuspense(book, m, r))
  /\ receipt' = [receipt EXCEPT ![r] = "suspense"]
  /\ creditedTo' = [creditedTo EXCEPT ![r] = m]
  /\ UNCHANGED <<phase, charged, late, cases>>

\* Staff credit a suspended receipt to a deposit intent, perhaps another merchant's.
ResolveDeposit(r, m) ==
  /\ receipt[r] = "suspense" /\ m # System
  /\ Commit(releaseSuspenseToMerchant(book, creditedTo[r], m, r))
  /\ receipt' = [receipt EXCEPT ![r] = "credited"]
  /\ creditedTo' = [creditedTo EXCEPT ![r] = m]
  /\ UNCHANGED <<phase, charged, late, cases>>

QueueTransfer(t) ==
  /\ phase[t] = "none"
  /\ Sufficient(book, t)
  /\ Commit(reserve(book, t))
  /\ phase' = [phase EXCEPT ![t] = "held"]
  /\ UNCHANGED <<charged, late, receipt, creditedTo, cases>>

\* In the test environment the transfer also ends in the same transaction.
TestTransfer(t) ==
  /\ phase[t] = "none"
  /\ Sufficient(book, t)
  /\ \/ /\ Commit(settle(reserve(book, t), t, TestFee))
        /\ phase' = [phase EXCEPT ![t] = "settled"]
        /\ charged' = [charged EXCEPT ![t] = TestFee]
        /\ cases' = cases \cup recordFeeOverrun(t, TestFee)
     \/ /\ Commit(release(reserve(book, t), t))
        /\ phase' = [phase EXCEPT ![t] = "failed"]
        /\ UNCHANGED <<charged, cases>>
  /\ UNCHANGED <<late, receipt, creditedTo>>

\* A failure before the PIN, by a report, the expiry job or a cancellation, and
\* a failure that staff attest after it.
FailTransfer(t, to) ==
  /\ phase[t] = "held"
  /\ Commit(release(book, t))
  /\ phase' = [phase EXCEPT ![t] = to]
  /\ UNCHANGED <<charged, late, receipt, creditedTo, cases>>

\* The provider's SMS, or staff, prove the payment of a held transfer.
SettleTransfer(t, fee) ==
  /\ phase[t] = "held"
  /\ Commit(settle(book, t, fee))
  /\ phase' = [phase EXCEPT ![t] = "settled"]
  /\ charged' = [charged EXCEPT ![t] = fee]
  /\ cases' = cases \cup recordFeeOverrun(t, fee)
  /\ UNCHANGED <<late, receipt, creditedTo>>

\* The provider's SMS contradicts the failure that staff attested.
LateSuccess(t, fee) ==
  /\ phase[t] = "disproved"
  /\ Commit(settle(restoreForLateSuccess(book, t), t, fee))
  /\ phase' = [phase EXCEPT ![t] = "settled"]
  /\ charged' = [charged EXCEPT ![t] = fee]
  /\ late' = late \cup {t}
  /\ cases' = cases \cup {<<"late_success_after_manual_failure", t>>} \cup recordFeeOverrun(t, fee)
  /\ UNCHANGED <<receipt, creditedTo>>

RetryDeviceJob(t) ==
  /\ phase[t] = "failed"
  /\ Sufficient(book, t)
  /\ Commit(reserve(book, t))
  /\ phase' = [phase EXCEPT ![t] = "held"]
  /\ UNCHANGED <<charged, late, receipt, creditedTo, cases>>

Next ==
  \/ \E r \in Receipts, m \in Merchants : CreditDeposit(r, m) \/ SuspendReceipt(r, m) \/ ResolveDeposit(r, m)
  \/ \E t \in Transfers : QueueTransfer(t) \/ TestTransfer(t) \/ RetryDeviceJob(t)
  \/ \E t \in Transfers, to \in {"failed", "disproved"} : FailTransfer(t, to)
  \/ \E t \in Transfers, fee \in ActualFees : SettleTransfer(t, fee) \/ LateSuccess(t, fee)

Spec == Init /\ [][Next]_vars

-----------------------------------------------------------------------------
(* Properties *)

OfMerchant(m) == {t \in Transfers : Owner[t] = m}
Settled == {t \in Transfers : phase[t] = "settled"}
Held == {t \in Transfers : phase[t] = "held"}
Credited(m) == {r \in Receipts : receipt[r] = "credited" /\ creditedTo[r] = m}
Totals == [t \in Transfers |-> Total(t)]
PaidOut == [t \in Transfers |-> IF Mode[t] = "merchant_debit" THEN Amount[t] + charged[t] ELSE charged[t]]
Charge == [t \in Transfers |-> PaidOut[t] + Gateway(t)]
Debt == [t \in Transfers |-> (IF <<"provider_fee_overrun", t>> \in cases THEN charged[t] - ReserveFee ELSE 0)
                            + (IF <<"late_success_after_manual_failure", t>> \in cases THEN Total(t) ELSE 0)]

\* Each merchant's own books balance, not only the sum of all: no journal,
\* not even one that moves suspense between merchants, leaves the money on one
\* merchant's ledger and the claim to it on another's.
BooksBalance ==
  \A m \in Merchants :
    LET b == book.balance[m] IN
    b["custody"] + b["treasury"] = b["available"] + b["reserved"] + b["suspense"] + b["platformFees"]

\* Fleet and treasury custody together are exactly the receipts less what the
\* provider took out for settled transfers, each counted once although it was
\* failed, restored, retried or resolved by staff.
CustodyIsEvidence ==
  LET received == {r \in Receipts : receipt[r] # "none"}
      total(code) == SumFunction([m \in Merchants |-> book.balance[m][code]]) IN
  total("custody") + total("treasury") = SumFunctionOnSet(Amount, received) - SumFunctionOnSet(PaidOut, Settled)

\* A failed transfer that was retried: its reservation journal exists already, so
\* the money that was released is not reserved again.
Unbacked(m) ==
  {t \in OfMerchant(m) \ late : <<"release", t>> \in book.journals /\ phase[t] \in {"held", "settled"}}

\* The reserved account holds the full reservation of every open transfer and
\* nothing of the others, in every order of failures, late successes, fee refunds
\* and overruns; a retried transfer is the only one that runs, and is settled,
\* without its reservation (reserveWithdrawal's journal is dropped the second time).
ReservedIsHeld ==
  \A m \in Merchants : book.balance[m]["reserved"] =
    SumFunctionOnSet(Totals, Held \cap OfMerchant(m)) - SumFunctionOnSet(Totals, Unbacked(m))

\* A merchant's available balance is what was credited to it, less open
\* reservations, less the charges of its paid transfers: fee refunds, overruns
\* and late successes all come out at the actual cost.  What a retried transfer
\* should have reserved stays available.
AvailableExact ==
  \A m \in Merchants : book.balance[m]["available"] =
    SumFunctionOnSet(Amount, Credited(m)) - SumFunctionOnSet(Totals, Held \cap OfMerchant(m)) - SumFunctionOnSet(Charge, Settled \cap OfMerchant(m))
    + SumFunctionOnSet(Totals, Unbacked(m))

\* A merchant's debt never exceeds the fee overruns and late successes for
\* which a case was opened.
DebtExplained ==
  \A m \in Merchants : book.balance[m]["available"] + SumFunctionOnSet(Debt, OfMerchant(m)) >= 0

\* The accounts are what the transfers and receipts say, merchant by merchant and
\* in total, after any order of the journals of ledger.service.ts.
LedgerExact ==
  TypeOK /\ BooksBalance /\ CustodyIsEvidence /\ ReservedIsHeld /\ AvailableExact /\ DebtExplained

\* Whatever fee the provider charged, the ledger accepts the proof of payment of
\* an open or disproved transfer: no rounding, refund or overrun makes the
\* journal unbalanced and the SMS fail.
ProofAccepted ==
  \A t \in Transfers, fee \in ActualFees :
    /\ phase[t] = "held" => settle(book, t, fee).ok
    /\ phase[t] = "disproved" => settle(restoreForLateSuccess(book, t), t, fee).ok
=============================================================================
