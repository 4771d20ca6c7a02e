------------------------------- MODULE Deposits -------------------------------
(***************************************************************************)
(* Customer deposits and merchant top-ups: an intent is assigned a         *)
(* receiving SIM, the customer pays it, and the provider's SMS, delivered  *)
(* by the handset whenever it comes online, is matched to exactly one      *)
(* intent or goes to suspense, from which staff credit it by hand.         *)
(*                                                                         *)
(* The clock is kept apart from the statuses: an intent's deadlines pass   *)
(* on their own, the 30-second job moves the statuses later, in two steps  *)
(* (a list read outside the transaction, then one conditional update per   *)
(* intent), and a payment's provider time fixes the intents whose window   *)
(* it falls into long before its SMS is ingested.  Intents are opened and  *)
(* SMS are ingested in serializable transactions, one action each; staff   *)
(* credit a receipt at PostgreSQL's default isolation, in two actions.     *)
(***************************************************************************)
EXTENDS Integers, FiniteSets

CONSTANTS
  Deposits,   \* deposit intents
  TestMode,   \* the intents of the test environment
  CustomerOf, \* merchant and customer an intent belongs to
  Likeness,   \* amount and phone suffix, which SIM assignment keeps apart
  Sims,       \* receiving wallets; TestSim is the simulator's
  TestSim,
  Payments,   \* provider transactions into the wallets
  Agrees,     \* intents whose phone, name and amount (within tolerance) a payment fits
  MaxChecked, \* bound on concurrent staff credits
  NoSim, NoPayment, Simulated, NoDeposit

ASSUME DepositsAssumption ==
  /\ TestMode \subseteq Deposits
  /\ Agrees \in [Payments -> SUBSET (Deposits \ TestMode)]
  /\ TestSim \notin Sims /\ NoSim \notin Sims \cup {TestSim}
  /\ NoPayment # Simulated /\ {NoPayment, Simulated} \cap Payments = {}
  /\ NoDeposit \notin Deposits
  /\ MaxChecked \in Nat

VARIABLES
  status,     \* DepositIntent.status ("none": not created)
  stage,      \* the clock against expiresAt and lateGraceEndsAt
  sim,        \* DepositIntent.simWalletId
  matched,    \* matchedReceiptId and providerTransactionId
  posted,     \* the payment whose value the journal (deposit, intent) carries
  paid,       \* the wallet a payment arrived in
  window,     \* the intents whose window contains the payment's provider time
  receipts,   \* SmsReceipt rows
  suspense,   \* receipts with a receipt_suspense journal
  released,   \* the intent the suspense_resolution journal of a receipt credits
  case,       \* the receipt's ReconciliationCase
  listed,     \* intents the expiry job has read and not yet updated
  checked     \* staff credits that have passed their checks

intentVars == <<status, stage, sim, matched>>
moneyVars  == <<posted, suspense, released>>
smsVars    == <<paid, window, receipts, case>>
vars == <<intentVars, moneyVars, smsVars, listed, checked>>

-----------------------------------------------------------------------------
(* "detected", "matching" and "failed" exist in the schema, but no code sets *)
(* them.                                                                     *)
Active   == {"awaiting_payment", "late_grace"}
Statuses == Active \cup {"none", "expired", "manual_review", "success"}

TypeOK ==
  /\ status \in [Deposits -> Statuses]
  /\ stage \in [Deposits -> {"open", "grace", "over"}]
  /\ sim \in [Deposits -> Sims \cup {TestSim, NoSim}]
  /\ matched \in [Deposits -> Payments \cup {NoPayment, Simulated}]
  /\ posted \in [Deposits -> Payments \cup {NoPayment, Simulated}]
  /\ paid \in [Payments -> Sims \cup {NoSim}]
  /\ window \in [Payments -> SUBSET Deposits]
  /\ receipts \subseteq Payments /\ suspense \subseteq receipts
  /\ released \in [Payments -> Deposits \cup {NoDeposit}]
  /\ case \in [Payments -> {"none", "open", "resolved"}]
  /\ listed \subseteq Deposits \X {"late_grace", "expired"}
  /\ checked \subseteq Payments \X Deposits

Init ==
  /\ status = [d \in Deposits |-> "none"]
  /\ stage = [d \in Deposits |-> "open"]
  /\ sim = [d \in Deposits |-> NoSim]
  /\ matched = [d \in Deposits |-> NoPayment]
  /\ posted = [d \in Deposits |-> NoPayment]
  /\ paid = [x \in Payments |-> NoSim]
  /\ window = [x \in Payments |-> {}]
  /\ receipts = {} /\ suspense = {}
  /\ released = [x \in Payments |-> NoDeposit]
  /\ case = [x \in Payments |-> "none"]
  /\ listed = {} /\ checked = {}

-----------------------------------------------------------------------------
(* Opening an intent.                                                       *)

HasActiveIntent(d) == \E e \in Deposits : CustomerOf[e] = CustomerOf[d] /\ status[e] \in Active

Collides_Awaiting(d, s) ==
  \E e \in Deposits : sim[e] = s /\ status[e] = "awaiting_payment" /\ Likeness[e] = Likeness[d]
\* The wallet already waits for the same amount from the same phone suffix.
Collides(d, s) == \E e \in Deposits : sim[e] = s /\ status[e] \in Active /\ Likeness[e] = Likeness[d]

Initialize(d, s) ==
  /\ status[d] = "none" /\ ~HasActiveIntent(d)
  /\ s \in Sims /\ d \notin TestMode /\ ~Collides(d, s)
  /\ status' = [status EXCEPT ![d] = "awaiting_payment"]
  /\ sim' = [sim EXCEPT ![d] = s]
  /\ UNCHANGED <<stage, matched, moneyVars, smsVars, listed, checked>>

\* LedgerService.post ignores a second journal of the same source.
creditDeposit(d, x) == posted' = [posted EXCEPT ![d] = IF @ = NoPayment THEN x ELSE @]

Credits == {"success", "wrong_amount", "duplicate"}
\* Where applyTestScenario leaves the intent.
ScenarioStatus(c) == IF c = "late" THEN "late_grace" ELSE IF c \in Credits THEN "success" ELSE "manual_review"

\* A test intent runs its scenario in the same transaction; the credit is posted
\* for a made-up provider transaction.
InitializeTest(d, c) ==
  /\ status[d] = "none" /\ ~HasActiveIntent(d) /\ d \in TestMode
  /\ sim' = [sim EXCEPT ![d] = TestSim]
  /\ status' = [status EXCEPT ![d] = ScenarioStatus(c)]
  /\ stage' = [stage EXCEPT ![d] = IF c = "late" THEN "grace" ELSE "open"]
  /\ IF c \in Credits
     THEN creditDeposit(d, Simulated) /\ matched' = [matched EXCEPT ![d] = Simulated]
     ELSE UNCHANGED <<posted, matched>>
  /\ UNCHANGED <<suspense, released, smsVars, listed, checked>>

-----------------------------------------------------------------------------
(* The clock and the expiry job.                                            *)

DeadlinePasses(d) ==
  /\ status[d] # "none" /\ stage[d] # "over"
  /\ stage' = [stage EXCEPT ![d] = IF @ = "open" THEN "grace" ELSE "over"]
  /\ UNCHANGED <<status, sim, matched, moneyVars, smsVars, listed, checked>>

Movable(d, to) == IF to = "late_grace" THEN status[d] = "awaiting_payment" ELSE status[d] \in Active

Due_LateGraceOnly(d, to) ==
  IF to = "late_grace" THEN status[d] = "awaiting_payment" /\ stage[d] = "grace"
  ELSE status[d] = "late_grace" /\ stage[d] = "over"
\* The conditions of the two queries of updateHealth.
Due(d, to) == Movable(d, to) /\ stage[d] = (IF to = "late_grace" THEN "grace" ELSE "over")

ListDue(d, to) ==
  /\ Due(d, to)
  /\ listed' = listed \cup {<<d, to>>}
  /\ UNCHANGED <<intentVars, moneyVars, smsVars, checked>>

\* The update matches only an intent that is still in the expected status.
StillMovable(d, to) == Movable(d, to)

transitionDeposits(d, to) ==
  /\ <<d, to>> \in listed
  /\ listed' = listed \ {<<d, to>>}
  /\ status' = IF StillMovable(d, to) THEN [status EXCEPT ![d] = to] ELSE status
  /\ UNCHANGED <<stage, sim, matched, moneyVars, smsVars, checked>>

-----------------------------------------------------------------------------
(* Payments and their SMS.                                                  *)

InWindow(d) == status[d] # "none" /\ stage[d] # "over"

\* Somebody pays into the wallet; the provider stamps the time.
Pay(x, s) ==
  /\ paid[x] = NoSim
  /\ paid' = [paid EXCEPT ![x] = s]
  /\ window' = [window EXCEPT ![x] = {d \in Deposits : InWindow(d)}]
  /\ UNCHANGED <<receipts, case, intentVars, moneyVars, listed, checked>>

\* An expired intent can still be matched when the provider time lies in its window.
Matchable == Active \cup {"expired"}

\* The intents a payment matches strongly when its time falls into the windows of w.
StrongMatches(x, w) ==
  {d \in Agrees[x] \cap w : sim[d] = paid[x] /\ status[d] \in Matchable}

\* effectiveProviderOccurredAt: an implausible provider time is replaced by the
\* time of receipt.
OccurredIn(x) == {window[x], {d \in Deposits : InWindow(d)}}

\* A payment with exactly one strong match credits it.
MatchIncoming(x) ==
  /\ paid[x] # NoSim /\ x \notin receipts
  /\ receipts' = receipts \cup {x}
  /\ \E w \in OccurredIn(x), d \in Deposits :
       /\ StrongMatches(x, w) = {d}
       /\ creditDeposit(d, x)
       /\ status' = [status EXCEPT ![d] = "success"]
       /\ matched' = [matched EXCEPT ![d] = x]
  /\ UNCHANGED <<stage, sim, suspense, released, paid, window, case, listed, checked>>

\* Otherwise it goes to suspense with a case, and the intents it could not be
\* told apart from go to review.
SuspendIncoming(x) ==
  /\ paid[x] # NoSim /\ x \notin receipts
  /\ receipts' = receipts \cup {x}
  /\ \E w \in OccurredIn(x) :
       /\ Cardinality(StrongMatches(x, w)) # 1
       /\ status' = [d \in Deposits |-> IF d \in StrongMatches(x, w) THEN "manual_review" ELSE status[d]]
  /\ suspense' = suspense \cup {x}
  /\ case' = [case EXCEPT ![x] = "open"]
  /\ UNCHANGED <<stage, sim, matched, posted, released, paid, window, listed, checked>>

-----------------------------------------------------------------------------
(* Staff credit a receipt from suspense to an intent.                       *)

ResolveCheck(x, d) ==
  /\ case[x] = "open" /\ status[d] # "none" /\ d \notin TestMode
  /\ matched[d] = NoPayment
  /\ Cardinality(checked) < MaxChecked
  /\ checked' = checked \cup {<<x, d>>}
  /\ UNCHANGED <<intentVars, moneyVars, smsVars, listed>>

ReceiptTaken_Unchecked(x, d) == FALSE
\* matchedReceiptId and providerTransactionId are unique among the intents.
ReceiptTaken(x, d) == \E e \in Deposits \ {d} : matched[e] = x

resolveDeposit(x, d) ==
  /\ <<x, d>> \in checked
  /\ checked' = checked \ {<<x, d>>}
  /\ \/ ReceiptTaken(x, d) /\ UNCHANGED <<status, matched, released, case>>
     \/ /\ ~ReceiptTaken(x, d)
        /\ released' = [released EXCEPT ![x] = IF @ = NoDeposit THEN d ELSE @]
        /\ status' = [status EXCEPT ![d] = "success"]
        /\ matched' = [matched EXCEPT ![d] = x]
        /\ case' = [case EXCEPT ![x] = "resolved"]
  /\ UNCHANGED <<stage, sim, posted, suspense, paid, window, receipts, listed>>

-----------------------------------------------------------------------------
Scenarios == Credits \cup {"late", "ambiguous"}

Cron(d, to) == ListDue(d, to) \/ transitionDeposits(d, to)

Next ==
  \/ \E d \in Deposits, s \in Sims : Initialize(d, s)
  \/ \E d \in Deposits, c \in Scenarios : InitializeTest(d, c)
  \/ \E d \in Deposits : DeadlinePasses(d)
  \/ \E d \in Deposits, to \in {"late_grace", "expired"} : Cron(d, to)
  \/ \E x \in Payments, s \in Sims : Pay(x, s)
  \/ \E x \in Payments : MatchIncoming(x) \/ SuspendIncoming(x)
  \/ \E x \in Payments, d \in Deposits : ResolveCheck(x, d) \/ resolveDeposit(x, d)

\* Time passes and the 30-second job keeps running.
TimeFairness ==
  /\ \A d \in Deposits : WF_vars(DeadlinePasses(d))
  /\ \A d \in Deposits, to \in {"late_grace", "expired"} : WF_vars(transitionDeposits(d, to)) /\ WF_vars(ListDue(d, to))

Spec == Init /\ [][Next]_vars /\ TimeFairness

-----------------------------------------------------------------------------
\* The value of every payment the platform knows of is in the ledger exactly
\* once: as the credit of one intent or in suspense.  (A second credit to an
\* intent would be dropped silently, because its journal exists.)
EveryPaymentPosted ==
  \A x \in receipts :
    Cardinality({d \in Deposits : posted[d] = x}) + Cardinality({x} \cap suspense) = 1

\* A successful intent is backed by money of its own: its payment is matched to
\* no other intent, and was credited to it directly or released to it from
\* suspense once.
SuccessBacked ==
  \A d \in Deposits :
    status[d] = "success" =>
      /\ matched[d] # NoPayment
      /\ posted[d] = matched[d] \/ (matched[d] \in suspense /\ released[matched[d]] = d)
      /\ matched[d] \in Payments => \A e \in Deposits \ {d} : matched[e] # matched[d]

\* Money in suspense and not yet released is on staff's list.
SuspenseListed ==
  \A x \in Payments :
    /\ (x \in suspense /\ released[x] = NoDeposit) <=> case[x] = "open"
    /\ released[x] # NoDeposit => x \in suspense /\ case[x] = "resolved"

\* A deposit is accounted for: ingest, simulate, matchSuspense and the expiry job
\* together neither lose a payment nor use it twice.
PaymentsAccounted == TypeOK /\ EveryPaymentPosted /\ SuccessBacked /\ SuspenseListed

\* Two look-alike intents are never both open for one payment, however late its
\* SMS, however late the expiry job and whatever happened in between: SIM
\* assignment keeps them on different wallets while their windows overlap.
AlikeNeverAmbiguous ==
  \A x \in Payments : paid[x] # NoSim /\ x \notin receipts =>
    \A w \in OccurredIn(x) : \A d, e \in StrongMatches(x, w) : d # e => Likeness[d] # Likeness[e]

\* Every intent gets an outcome or reaches staff, also when the job misses the
\* grace period altogether: again and again, none is left open.
IntentsEnd == []<>(\A d \in Deposits : status[d] \notin Active)

\* 'Receipt or deposit cannot be resolved' (admin.service.ts:925): an intent that
\* has its payment is not given another one.
MatchIsFinal == [][\A d \in Deposits : matched[d] # NoPayment => matched'[d] = matched[d]]_vars
=============================================================================
