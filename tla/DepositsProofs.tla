--------------------------- MODULE DepositsProofs ---------------------------
(***************************************************************************)
(* What TLAPS proves of incoming payments, for any number of intents,      *)
(* payments and SIMs: each is in the books once, and with at most two      *)
(* staff credits checked and not written each success is backed by its own *)
(* payment; and intents a payment could not tell apart are never open      *)
(* together.                                                               *)
(***************************************************************************)
EXTENDS Deposits, FiniteSetTheorems, TLAPS

\* An intent that a payment may still match has none yet; a match is an outcome.
Unpaid ==
  \A d \in Deposits :
    /\ status[d] \in Matchable \cup {"none"} => posted[d] = NoPayment
    /\ matched[d] # NoPayment => status[d] = "success"

\* Receipts are posted to one intent each, unless they are in suspense.
PostedOnce ==
  /\ \A d \in Deposits : posted[d] \in Payments => posted[d] \in receipts \ suspense
  /\ \A d, e \in Deposits : posted[d] \in Payments /\ posted[d] = posted[e] => d = e
  /\ \A x \in receipts \ suspense : \E d \in Deposits : posted[d] = x
  /\ \A d \in Deposits : matched[d] \in Payments => matched[d] \in receipts

\* The case of a receipt follows its suspense journal and its release.
CasesFollow ==
  \A x \in Payments :
    /\ x \in suspense <=> case[x] # "none"
    /\ released[x] # NoDeposit <=> case[x] = "resolved"

\* Staff credit what is in suspense.
ChecksSuspended == \A x \in Payments, d \in Deposits : <<x, d>> \in checked => x \in suspense

AccountedInv == TypeOK /\ Unpaid /\ PostedOnce /\ CasesFollow /\ ChecksSuspended

\* A credit that lost the race for its receipt finds the winner's match in place:
\* no other credit can take it away.
LosersBlocked ==
  \A x \in Payments, d, e \in Deposits :
    released[x] = e /\ d # e /\ <<x, d>> \in checked =>
      matched[e] = x /\ \A y \in Payments : <<y, e>> \notin checked

\* At most two credits are under way.
FewChecks ==
  /\ IsFiniteSet(checked)
  /\ MaxChecked <= 2 => \E a, b : checked \subseteq {a, b}

BackedInv == AccountedInv /\ FewChecks /\ SuccessBacked /\ LosersBlocked

\* The job expires an intent only when its window is over, and lists only what exists.
ExpiredOver ==
  /\ \A d \in Deposits : status[d] = "expired" => stage[d] = "over"
  /\ \A d \in Deposits : <<d, "expired">> \in listed => status[d] # "none" /\ stage[d] = "over"
  /\ \A x \in Payments : \A d \in window[x] : status[d] # "none"

\* Look-alikes of one wallet: at most one is active, and no provider time lies in
\* the windows of both.
AlikeApart ==
  \A d, e \in Deposits :
    d # e /\ sim[d] \in Sims /\ sim[d] = sim[e] /\ Likeness[d] = Likeness[e]
      /\ status[d] \in Matchable /\ status[e] \in Matchable =>
      /\ status[d] = "expired" \/ status[e] = "expired"
      /\ \A x \in Payments : ~(d \in window[x] /\ e \in window[x])

AlikeInv == TypeOK /\ ExpiredOver /\ AlikeApart

-----------------------------------------------------------------------------
\* The actions of Next by name, for the case distinctions below.
LEMMA DepositSteps ==
  ASSUME [Next]_vars
  PROVE  \/ \E d \in Deposits, s \in Sims : Initialize(d, s)
         \/ \E d \in Deposits, c \in Scenarios : InitializeTest(d, c)
         \/ \E d \in Deposits : DeadlinePasses(d)
         \/ \E d \in Deposits, to \in {"late_grace", "expired"} : ListDue(d, to)
         \/ \E d \in Deposits, to \in {"late_grace", "expired"} : transitionDeposits(d, to)
         \/ \E x \in Payments, s \in Sims : Pay(x, s)
         \/ \E x \in Payments : MatchIncoming(x)
         \/ \E x \in Payments : SuspendIncoming(x)
         \/ \E x \in Payments, d \in Deposits : ResolveCheck(x, d)
         \/ \E x \in Payments, d \in Deposits : resolveDeposit(x, d)
         \/ UNCHANGED vars
  BY DEF Next, Cron

LEMMA DepositsTyped ==
  ASSUME TypeOK, [Next]_vars
  PROVE  TypeOK'
  <1> USE DEF TypeOK, Statuses, Active
  <1> USE DepositsAssumption
  <1>1. ASSUME NEW d \in Deposits, NEW s \in Sims, Initialize(d, s) PROVE TypeOK'
    BY <1>1 DEF Initialize, moneyVars, smsVars
  <1>2. ASSUME NEW d \in Deposits, NEW c \in Scenarios, InitializeTest(d, c) PROVE TypeOK'
    <2>1. ScenarioStatus(c) \in Statuses
      BY DEF ScenarioStatus
    <2>2. status' \in [Deposits -> Statuses]
      BY <1>2, <2>1 DEF InitializeTest
    <2>3. matched' \in [Deposits -> Payments \cup {NoPayment, Simulated}] /\ posted' \in [Deposits -> Payments \cup {NoPayment, Simulated}]
      BY <1>2 DEF InitializeTest, creditDeposit
    <2> QED BY <1>2, <2>2, <2>3 DEF InitializeTest, smsVars
  <1>3. ASSUME NEW d \in Deposits, DeadlinePasses(d) PROVE TypeOK'
    BY <1>3 DEF DeadlinePasses, moneyVars, smsVars
  <1>4. ASSUME NEW d \in Deposits, NEW to \in {"late_grace", "expired"}, ListDue(d, to) PROVE TypeOK'
    BY <1>4 DEF ListDue, intentVars, moneyVars, smsVars
  <1>5. ASSUME NEW d \in Deposits, NEW to \in {"late_grace", "expired"}, transitionDeposits(d, to) PROVE TypeOK'
    BY <1>5 DEF transitionDeposits, moneyVars, smsVars
  <1>6. ASSUME NEW x \in Payments, NEW s \in Sims, Pay(x, s) PROVE TypeOK'
    BY <1>6 DEF Pay, intentVars, moneyVars
  <1>7. ASSUME NEW x \in Payments, MatchIncoming(x) PROVE TypeOK'
    <2>1. PICK w \in OccurredIn(x), d \in Deposits :
            creditDeposit(d, x) /\ status' = [status EXCEPT ![d] = "success"] /\ matched' = [matched EXCEPT ![d] = x]
      BY <1>7 DEF MatchIncoming
    <2>2. posted' \in [Deposits -> Payments \cup {NoPayment, Simulated}]
      BY <2>1 DEF creditDeposit
    <2> QED BY <1>7, <2>1, <2>2 DEF MatchIncoming
  <1>8. ASSUME NEW x \in Payments, SuspendIncoming(x) PROVE TypeOK'
    BY <1>8 DEF SuspendIncoming
  <1>9. ASSUME NEW x \in Payments, NEW d \in Deposits, ResolveCheck(x, d) PROVE TypeOK'
    BY <1>9 DEF ResolveCheck, intentVars, moneyVars, smsVars
  <1>10. ASSUME NEW x \in Payments, NEW d \in Deposits, resolveDeposit(x, d) PROVE TypeOK'
    BY <1>10 DEF resolveDeposit
  <1>11. CASE UNCHANGED vars
    BY <1>11 DEF vars, intentVars, moneyVars, smsVars
  <1> HIDE DEF TypeOK, Statuses, Active
  <1> QED BY <1>1, <1>2, <1>3, <1>4, <1>5, <1>6, <1>7, <1>8, <1>9, <1>10, <1>11, DepositSteps

\* What a payment that arrives does to the intents: it takes the one strong match,
\* which has nothing yet.
LEMMA MatchTakes ==
  ASSUME TypeOK, Unpaid, NEW x \in Payments, MatchIncoming(x)
  PROVE  \E d \in Deposits :
           /\ status[d] \in Matchable /\ posted[d] = NoPayment /\ matched[d] = NoPayment
           /\ posted' = [posted EXCEPT ![d] = x]
           /\ status' = [status EXCEPT ![d] = "success"]
           /\ matched' = [matched EXCEPT ![d] = x]
  <1>1. PICK w \in OccurredIn(x), d \in Deposits :
          /\ StrongMatches(x, w) = {d}
          /\ creditDeposit(d, x)
          /\ status' = [status EXCEPT ![d] = "success"]
          /\ matched' = [matched EXCEPT ![d] = x]
    BY DEF MatchIncoming
  <1>2. d \in StrongMatches(x, w)
    BY <1>1
  <1>3. status[d] \in Matchable
    BY <1>2 DEF StrongMatches
  <1>4. posted[d] = NoPayment
    BY <1>3 DEF Unpaid
  <1>5. matched[d] = NoPayment
    BY <1>3 DEF Unpaid, Matchable, Active
  <1>6. posted' = [posted EXCEPT ![d] = x]
    BY <1>1, <1>4 DEF creditDeposit, TypeOK
  <1> QED BY <1>1, <1>3, <1>4, <1>5, <1>6

\* What the scenario of a test intent does.
LEMMA ScenarioCredits ==
  ASSUME TypeOK, Unpaid, NEW d \in Deposits, NEW c \in Scenarios, InitializeTest(d, c)
  PROVE  /\ posted[d] = NoPayment /\ matched[d] = NoPayment /\ d \in TestMode
         /\ status' = [status EXCEPT ![d] = ScenarioStatus(c)]
         /\ \/ /\ ScenarioStatus(c) = "success"
               /\ posted' = [posted EXCEPT ![d] = Simulated] /\ matched' = [matched EXCEPT ![d] = Simulated]
            \/ /\ ScenarioStatus(c) # "success"
               /\ UNCHANGED <<posted, matched>>
  <1>1. posted[d] = NoPayment /\ matched[d] = NoPayment
    BY DEF InitializeTest, Unpaid
  <1>2. CASE c \in Credits
    <2>1. ScenarioStatus(c) = "success"
      BY <1>2 DEF ScenarioStatus, Credits
    <2>2. posted' = [posted EXCEPT ![d] = Simulated]
      BY <1>1, <1>2 DEF InitializeTest, creditDeposit, TypeOK
    <2> QED BY <1>1, <1>2, <2>1, <2>2 DEF InitializeTest
  <1>3. CASE c \notin Credits
    <2>1. ScenarioStatus(c) # "success"
      BY <1>3 DEF ScenarioStatus
    <2> QED BY <1>1, <1>3, <2>1 DEF InitializeTest
  <1> QED BY <1>2, <1>3

LEMMA UnpaidKept ==
  ASSUME AccountedInv, [Next]_vars
  PROVE  Unpaid'
  <1> USE DEF AccountedInv
  <1> USE DepositsAssumption
  <1>t. TypeOK'
    BY DepositsTyped
  <1>q. ASSUME UNCHANGED <<status, matched, posted>> PROVE Unpaid'
    BY <1>q DEF Unpaid
  <1>1. ASSUME NEW d \in Deposits, NEW s \in Sims, Initialize(d, s) PROVE Unpaid'
    <2>1. matched' = matched /\ posted' = posted /\ status[d] = "none" /\ status' = [status EXCEPT ![d] = "awaiting_payment"]
      BY <1>1 DEF Initialize, moneyVars
    <2> QED BY <2>1 DEF Unpaid, TypeOK
  <1>2. ASSUME NEW d \in Deposits, NEW c \in Scenarios, InitializeTest(d, c) PROVE Unpaid'
    BY <1>2, ScenarioCredits DEF Unpaid, TypeOK, Matchable, Active
  <1>3. ASSUME NEW d \in Deposits, DeadlinePasses(d) PROVE Unpaid'
    BY <1>3, <1>q DEF DeadlinePasses, moneyVars
  <1>4. ASSUME NEW d \in Deposits, NEW to \in {"late_grace", "expired"}, ListDue(d, to) PROVE Unpaid'
    BY <1>4, <1>q DEF ListDue, intentVars, moneyVars
  <1>5. ASSUME NEW d \in Deposits, NEW to \in {"late_grace", "expired"}, transitionDeposits(d, to) PROVE Unpaid'
    <2>1. matched' = matched /\ posted' = posted
      BY <1>5 DEF transitionDeposits, moneyVars
    <2>2. CASE StillMovable(d, to)
      <3>1. status' = [status EXCEPT ![d] = to] /\ status[d] \in Active
        BY <1>5, <2>2 DEF transitionDeposits, StillMovable, Movable, Active
      <3> QED BY <2>1, <3>1 DEF Unpaid, TypeOK, Matchable, Active
    <2>3. CASE ~StillMovable(d, to)
      BY <1>5, <2>1, <2>3, <1>q DEF transitionDeposits
    <2> QED BY <2>2, <2>3
  <1>6. ASSUME NEW x \in Payments, NEW s \in Sims, Pay(x, s) PROVE Unpaid'
    BY <1>6, <1>q DEF Pay, intentVars, moneyVars
  <1>7. ASSUME NEW x \in Payments, MatchIncoming(x) PROVE Unpaid'
    BY <1>7, MatchTakes DEF Unpaid, TypeOK, Matchable, Active
  <1>8. ASSUME NEW x \in Payments, SuspendIncoming(x) PROVE Unpaid'
    <2>1. PICK w \in OccurredIn(x) : status' = [d \in Deposits |-> IF d \in StrongMatches(x, w) THEN "manual_review" ELSE status[d]]
      BY <1>8 DEF SuspendIncoming
    <2>2. \A d \in StrongMatches(x, w) : status[d] \in Matchable
      BY DEF StrongMatches
    <2>3. matched' = matched /\ posted' = posted
      BY <1>8 DEF SuspendIncoming
    <2> QED BY <2>1, <2>2, <2>3 DEF Unpaid, Matchable, Active
  <1>9. ASSUME NEW x \in Payments, NEW d \in Deposits, ResolveCheck(x, d) PROVE Unpaid'
    BY <1>9, <1>q DEF ResolveCheck, intentVars, moneyVars
  <1>10. ASSUME NEW x \in Payments, NEW d \in Deposits, resolveDeposit(x, d) PROVE Unpaid'
    BY <1>10 DEF resolveDeposit, Unpaid, TypeOK, Matchable, Active
  <1>11. CASE UNCHANGED vars
    BY <1>11, <1>q DEF vars, intentVars, moneyVars
  <1> HIDE DEF AccountedInv
  <1> QED BY <1>1, <1>2, <1>3, <1>4, <1>5, <1>6, <1>7, <1>8, <1>9, <1>10, <1>11, DepositSteps

LEMMA PostedOnceKept ==
  ASSUME AccountedInv, [Next]_vars
  PROVE  PostedOnce'
  <1> USE DEF AccountedInv
  <1> USE DepositsAssumption
  <1>q. ASSUME UNCHANGED <<matched, posted, receipts, suspense>> PROVE PostedOnce'
    BY <1>q DEF PostedOnce
  <1>1. ASSUME NEW d \in Deposits, NEW s \in Sims, Initialize(d, s) PROVE PostedOnce'
    BY <1>1, <1>q DEF Initialize, moneyVars, smsVars
  <1>2. ASSUME NEW d \in Deposits, NEW c \in Scenarios, InitializeTest(d, c) PROVE PostedOnce'
    <2>1. suspense' = suspense /\ receipts' = receipts
      BY <1>2 DEF InitializeTest, smsVars
    <2>2. \A e \in Deposits : posted'[e] \in Payments => posted'[e] = posted[e] /\ e # d
      BY <1>2, ScenarioCredits DEF TypeOK
    <2>3. \A e \in Deposits : matched'[e] \in Payments => matched'[e] = matched[e]
      BY <1>2, ScenarioCredits DEF TypeOK
    <2>4. \A e \in Deposits : posted[e] \in Payments => posted'[e] = posted[e]
      BY <1>2, ScenarioCredits DEF TypeOK
    <2>5. \A x \in receipts \ suspense : \E e \in Deposits : posted'[e] = x
      BY <2>4 DEF PostedOnce, TypeOK
    <2>6. \A e, f \in Deposits : posted'[e] \in Payments /\ posted'[e] = posted'[f] => e = f
      BY <2>2 DEF PostedOnce
    <2> QED BY <2>1, <2>2, <2>3, <2>5, <2>6 DEF PostedOnce
  <1>3. ASSUME NEW d \in Deposits, DeadlinePasses(d) PROVE PostedOnce'
    BY <1>3, <1>q DEF DeadlinePasses, moneyVars, smsVars
  <1>4. ASSUME NEW d \in Deposits, NEW to \in {"late_grace", "expired"}, ListDue(d, to) PROVE PostedOnce'
    BY <1>4, <1>q DEF ListDue, intentVars, moneyVars, smsVars
  <1>5. ASSUME NEW d \in Deposits, NEW to \in {"late_grace", "expired"}, transitionDeposits(d, to) PROVE PostedOnce'
    BY <1>5, <1>q DEF transitionDeposits, moneyVars, smsVars
  <1>6. ASSUME NEW x \in Payments, NEW s \in Sims, Pay(x, s) PROVE PostedOnce'
    BY <1>6, <1>q DEF Pay, intentVars, moneyVars
  <1>7. ASSUME NEW x \in Payments, MatchIncoming(x) PROVE PostedOnce'
    <2>1. PICK d \in Deposits :
            /\ posted[d] = NoPayment /\ matched[d] = NoPayment
            /\ posted' = [posted EXCEPT ![d] = x]
            /\ matched' = [matched EXCEPT ![d] = x]
      BY <1>7, MatchTakes
    <2>2. x \notin receipts /\ receipts' = receipts \cup {x} /\ suspense' = suspense /\ x \notin suspense
      BY <1>7 DEF MatchIncoming, TypeOK
    <2>3. \A e \in Deposits : posted[e] # x
      BY <2>2 DEF PostedOnce
    <2>4. \A e \in Deposits : posted'[e] = IF e = d THEN x ELSE posted[e]
      BY <2>1 DEF TypeOK
    <2>5. \A e \in Deposits : matched'[e] = IF e = d THEN x ELSE matched[e]
      BY <2>1 DEF TypeOK
    <2>6. \A y \in receipts' \ suspense' : \E e \in Deposits : posted'[e] = y
      <3> SUFFICES ASSUME NEW y \in receipts' \ suspense' PROVE \E e \in Deposits : posted'[e] = y
        OBVIOUS
      <3>1. CASE y = x
        BY <3>1, <2>4
      <3>2. CASE y # x
        <4>1. PICK e \in Deposits : posted[e] = y
          BY <3>2, <2>2 DEF PostedOnce
        <4>2. y \in Payments
          BY <3>2, <2>2 DEF TypeOK
        <4>3. e # d
          BY <4>1, <4>2, <2>1
        <4> QED BY <4>1, <4>3, <2>4
      <3> QED BY <3>1, <3>2
    <2>7. \A e, f \in Deposits : posted'[e] \in Payments /\ posted'[e] = posted'[f] => e = f
      BY <2>3, <2>4 DEF PostedOnce
    <2>8. \A e \in Deposits : posted'[e] \in Payments => posted'[e] \in receipts' \ suspense'
      BY <2>2, <2>4 DEF PostedOnce
    <2>9. \A e \in Deposits : matched'[e] \in Payments => matched'[e] \in receipts'
      BY <2>2, <2>5 DEF PostedOnce
    <2> QED BY <2>6, <2>7, <2>8, <2>9 DEF PostedOnce
  <1>8. ASSUME NEW x \in Payments, SuspendIncoming(x) PROVE PostedOnce'
    <2>1. x \notin receipts /\ receipts' = receipts \cup {x} /\ suspense' = suspense \cup {x} /\ posted' = posted /\ matched' = matched
      BY <1>8 DEF SuspendIncoming
    <2>2. \A e \in Deposits : posted[e] # x
      BY <2>1 DEF PostedOnce
    <2> QED BY <2>1, <2>2 DEF PostedOnce
  <1>9. ASSUME NEW x \in Payments, NEW d \in Deposits, ResolveCheck(x, d) PROVE PostedOnce'
    BY <1>9, <1>q DEF ResolveCheck, intentVars, moneyVars, smsVars
  <1>10. ASSUME NEW x \in Payments, NEW d \in Deposits, resolveDeposit(x, d) PROVE PostedOnce'
    <2>1. x \in receipts
      BY <1>10 DEF resolveDeposit, ChecksSuspended, TypeOK
    <2>2. posted' = posted /\ receipts' = receipts /\ suspense' = suspense
      BY <1>10 DEF resolveDeposit
    <2>3. matched' = matched \/ matched' = [matched EXCEPT ![d] = x]
      BY <1>10 DEF resolveDeposit
    <2>4. \A e \in Deposits : matched'[e] \in Payments => matched'[e] \in receipts
      BY <2>1, <2>3 DEF PostedOnce, TypeOK
    <2> QED BY <2>2, <2>4 DEF PostedOnce
  <1>11. CASE UNCHANGED vars
    BY <1>11, <1>q DEF vars, intentVars, moneyVars, smsVars
  <1> HIDE DEF AccountedInv
  <1> QED BY <1>1, <1>2, <1>3, <1>4, <1>5, <1>6, <1>7, <1>8, <1>9, <1>10, <1>11, DepositSteps

LEMMA CasesKept ==
  ASSUME AccountedInv, [Next]_vars
  PROVE  CasesFollow' /\ ChecksSuspended'
  <1> USE DEF AccountedInv
  <1> USE DepositsAssumption
  <1>q. ASSUME UNCHANGED <<suspense, released, case, checked>> PROVE CasesFollow' /\ ChecksSuspended'
    BY <1>q DEF CasesFollow, ChecksSuspended
  <1>1. ASSUME NEW d \in Deposits, NEW s \in Sims, Initialize(d, s) PROVE CasesFollow' /\ ChecksSuspended'
    BY <1>1, <1>q DEF Initialize, moneyVars, smsVars
  <1>2. ASSUME NEW d \in Deposits, NEW c \in Scenarios, InitializeTest(d, c) PROVE CasesFollow' /\ ChecksSuspended'
    BY <1>2, <1>q DEF InitializeTest, smsVars
  <1>3. ASSUME NEW d \in Deposits, DeadlinePasses(d) PROVE CasesFollow' /\ ChecksSuspended'
    BY <1>3, <1>q DEF DeadlinePasses, moneyVars, smsVars
  <1>4. ASSUME NEW d \in Deposits, NEW to \in {"late_grace", "expired"}, ListDue(d, to) PROVE CasesFollow' /\ ChecksSuspended'
    BY <1>4, <1>q DEF ListDue, moneyVars, smsVars
  <1>5. ASSUME NEW d \in Deposits, NEW to \in {"late_grace", "expired"}, transitionDeposits(d, to) PROVE CasesFollow' /\ ChecksSuspended'
    BY <1>5, <1>q DEF transitionDeposits, moneyVars, smsVars
  <1>6. ASSUME NEW x \in Payments, NEW s \in Sims, Pay(x, s) PROVE CasesFollow' /\ ChecksSuspended'
    BY <1>6, <1>q DEF Pay, moneyVars
  <1>7. ASSUME NEW x \in Payments, MatchIncoming(x) PROVE CasesFollow' /\ ChecksSuspended'
    BY <1>7, <1>q DEF MatchIncoming
  <1>8. ASSUME NEW x \in Payments, SuspendIncoming(x) PROVE CasesFollow' /\ ChecksSuspended'
    <2>1. /\ x \notin suspense /\ suspense' = suspense \cup {x}
          /\ case' = [case EXCEPT ![x] = "open"] /\ UNCHANGED <<released, checked>>
      BY <1>8 DEF SuspendIncoming, TypeOK
    <2>2. released[x] = NoDeposit
      BY <2>1 DEF CasesFollow
    <2> QED BY <2>1, <2>2 DEF CasesFollow, ChecksSuspended, TypeOK
  <1>9. ASSUME NEW x \in Payments, NEW d \in Deposits, ResolveCheck(x, d) PROVE CasesFollow' /\ ChecksSuspended'
    <2>1. x \in suspense
      BY <1>9 DEF ResolveCheck, CasesFollow
    <2>2. checked' = checked \cup {<<x, d>>} /\ UNCHANGED <<suspense, released, case>>
      BY <1>9 DEF ResolveCheck, moneyVars, smsVars
    <2> QED BY <2>1, <2>2 DEF CasesFollow, ChecksSuspended
  <1>10. ASSUME NEW x \in Payments, NEW d \in Deposits, resolveDeposit(x, d) PROVE CasesFollow' /\ ChecksSuspended'
    <2>1. x \in suspense /\ checked' \subseteq checked /\ suspense' = suspense
      BY <1>10 DEF resolveDeposit, ChecksSuspended
    <2>2. ChecksSuspended'
      BY <2>1 DEF ChecksSuspended
    <2>3. CASE UNCHANGED <<released, case>>
      BY <2>1, <2>2, <2>3 DEF CasesFollow
    <2>4. CASE /\ released' = [released EXCEPT ![x] = IF @ = NoDeposit THEN d ELSE @]
               /\ case' = [case EXCEPT ![x] = "resolved"]
      <3>1. \A y \in Payments : y # x => released'[y] = released[y] /\ case'[y] = case[y]
        BY <2>4 DEF TypeOK
      <3>2. released'[x] # NoDeposit /\ case'[x] = "resolved"
        BY <2>4 DEF TypeOK
      <3> QED BY <2>1, <2>2, <3>1, <3>2 DEF CasesFollow
    <2> QED BY <1>10, <2>3, <2>4 DEF resolveDeposit
  <1>11. CASE UNCHANGED vars
    BY <1>11, <1>q DEF vars, moneyVars, smsVars
  <1> HIDE DEF AccountedInv
  <1> QED BY <1>1, <1>2, <1>3, <1>4, <1>5, <1>6, <1>7, <1>8, <1>9, <1>10, <1>11, DepositSteps

LEMMA AccountedInit == Init => AccountedInv
  <1> SUFFICES ASSUME Init PROVE AccountedInv
    OBVIOUS
  <1> USE DepositsAssumption
  <1>1. TypeOK
    BY DEF Init, TypeOK, Statuses, Active
  <1>2. Unpaid
    BY DEF Init, Unpaid, Matchable, Active
  <1>3. PostedOnce
    BY DEF Init, PostedOnce
  <1>4. CasesFollow /\ ChecksSuspended
    BY DEF Init, CasesFollow, ChecksSuspended
  <1> QED BY <1>1, <1>2, <1>3, <1>4 DEF AccountedInv

LEMMA AccountedStep ==
  ASSUME AccountedInv, [Next]_vars
  PROVE  AccountedInv'
  <1>1. TypeOK'
    BY DepositsTyped DEF AccountedInv
  <1> QED BY <1>1, UnpaidKept, PostedOnceKept, CasesKept DEF AccountedInv

\* Counting: the intents a receipt is posted to, and its place in suspense.
LEMMA PostedIsCounted ==
  ASSUME AccountedInv
  PROVE  EveryPaymentPosted
  <1> SUFFICES ASSUME NEW x \in receipts
               PROVE  Cardinality({d \in Deposits : posted[d] = x}) + Cardinality({x} \cap suspense) = 1
    BY DEF EveryPaymentPosted
  <1> USE DEF AccountedInv
  <1>0. x \in Payments
    BY DEF TypeOK
  <1>1. CASE x \in suspense
    <2>1. {d \in Deposits : posted[d] = x} = {} /\ {x} \cap suspense = {x}
      BY <1>0, <1>1 DEF PostedOnce
    <2>2. Cardinality({d \in Deposits : posted[d] = x}) = 0
      BY <2>1, FS_EmptySet
    <2>3. Cardinality({x} \cap suspense) = 1
      BY <2>1, FS_Singleton
    <2> QED BY <2>2, <2>3
  <1>2. CASE x \notin suspense
    <2>1. PICK d \in Deposits : posted[d] = x
      BY <1>2 DEF PostedOnce
    <2>2. {e \in Deposits : posted[e] = x} = {d} /\ {x} \cap suspense = {}
      BY <1>0, <1>2, <2>1 DEF PostedOnce
    <2>3. Cardinality({e \in Deposits : posted[e] = x}) = 1
      BY <2>2, FS_Singleton
    <2>4. Cardinality({x} \cap suspense) = 0
      BY <2>2, FS_EmptySet
    <2> QED BY <2>3, <2>4
  <1> QED BY <1>1, <1>2

LEMMA CasesAreListed ==
  ASSUME AccountedInv
  PROVE  SuspenseListed
  BY DEF AccountedInv, CasesFollow, SuspenseListed, TypeOK

LEMMA FewChecksKept ==
  ASSUME TypeOK, FewChecks, [Next]_vars
  PROVE  FewChecks'
  <1>q. ASSUME checked' \subseteq checked PROVE FewChecks'
    BY <1>q, FS_Subset DEF FewChecks
  <1>9. ASSUME NEW x \in Payments, NEW d \in Deposits, ResolveCheck(x, d) PROVE FewChecks'
    <2>1. checked' = checked \cup {<<x, d>>} /\ Cardinality(checked) < MaxChecked
      BY <1>9 DEF ResolveCheck
    <2>2. IsFiniteSet(checked')
      BY <2>1, FS_AddElement DEF FewChecks
    <2>3. ASSUME MaxChecked <= 2 PROVE \E a, b : checked' \subseteq {a, b}
      <3>1. Cardinality(checked) \in Nat /\ Cardinality(checked) < 2
        BY <2>1, <2>3, FS_CardinalityType, DepositsAssumption DEF FewChecks
      <3>2. checked = {} \/ \E a : checked = {a}
        <4>1. Cardinality(checked) = 0 \/ Cardinality(checked) = 1
          BY <3>1
        <4> QED BY <4>1, FS_EmptySet, FS_Singleton DEF FewChecks
      <3>3. <<x, d>> \in Payments \X Deposits
        OBVIOUS
      <3>4. CASE checked = {}
        BY <2>1, <3>3, <3>4
      <3>5. CASE \E a : checked = {a}
        <4>1. PICK a : checked = {a}
          BY <3>5
        <4>2. a \in Payments \X Deposits
          BY <4>1 DEF TypeOK
        <4> QED BY <2>1, <3>3, <4>1, <4>2
      <3> QED BY <3>2, <3>4, <3>5
    <2> QED BY <2>2, <2>3 DEF FewChecks
  <1>10. ASSUME NEW x \in Payments, NEW d \in Deposits, resolveDeposit(x, d) PROVE FewChecks'
    BY <1>10, <1>q DEF resolveDeposit
  <1>11. CASE UNCHANGED checked
    BY <1>11, <1>q
  <1> QED BY <1>9, <1>10, <1>11, DepositSteps
       DEF Initialize, InitializeTest, DeadlinePasses, ListDue, transitionDeposits, Pay, MatchIncoming, SuspendIncoming, vars

-----------------------------------------------------------------------------
\* A successful intent whose own and whose receipt's records stay is still backed,
\* if no other intent takes its payment.
LEMMA BackedStays ==
  ASSUME BackedInv, [Next]_vars, UNCHANGED <<matched, posted, released>>, suspense \subseteq suspense',
         \A d \in Deposits : status'[d] = "success" => status[d] = "success"
  PROVE  SuccessBacked'
  BY DEF BackedInv, SuccessBacked

LEMMA SuccessBackedKept ==
  ASSUME BackedInv, [Next]_vars, MaxChecked <= 2
  PROVE  SuccessBacked'
  <1> USE DEF BackedInv, AccountedInv
  <1> USE DepositsAssumption
  <1>1. ASSUME NEW d \in Deposits, NEW s \in Sims, Initialize(d, s) PROVE SuccessBacked'
    <2>1. UNCHANGED <<matched, posted, released, suspense>> /\ status' = [status EXCEPT ![d] = "awaiting_payment"]
      BY <1>1 DEF Initialize, moneyVars
    <2>2. \A e \in Deposits : status'[e] = "success" => status[e] = "success"
      BY <2>1 DEF TypeOK
    <2> QED BY <2>1, <2>2, BackedStays
  <1>2. ASSUME NEW d \in Deposits, NEW c \in Scenarios, InitializeTest(d, c) PROVE SuccessBacked'
    <2>1. released' = released /\ suspense' = suspense
      BY <1>2 DEF InitializeTest
    <2>2. CASE /\ ScenarioStatus(c) = "success"
               /\ posted' = [posted EXCEPT ![d] = Simulated] /\ matched' = [matched EXCEPT ![d] = Simulated]
      <3>0. status' = [status EXCEPT ![d] = ScenarioStatus(c)]
        BY <1>2, ScenarioCredits
      <3>1. \A e \in Deposits \ {d} : /\ status'[e] = status[e] /\ matched'[e] = matched[e] /\ posted'[e] = posted[e]
        BY <2>2, <3>0 DEF TypeOK
      <3>2. matched'[d] = Simulated /\ posted'[d] = Simulated
        BY <2>2 DEF TypeOK
      <3> QED BY <2>1, <3>1, <3>2 DEF SuccessBacked
    <2>3. CASE ScenarioStatus(c) # "success" /\ UNCHANGED <<posted, matched>>
      <3>1. \A e \in Deposits : status'[e] = "success" => status[e] = "success"
        BY <1>2, <2>3, ScenarioCredits DEF TypeOK
      <3> QED BY <2>1, <2>3, <3>1, BackedStays
    <2> QED BY <1>2, <2>2, <2>3, ScenarioCredits
  <1>3. ASSUME NEW d \in Deposits, DeadlinePasses(d) PROVE SuccessBacked'
    BY <1>3, BackedStays DEF DeadlinePasses, moneyVars
  <1>4. ASSUME NEW d \in Deposits, NEW to \in {"late_grace", "expired"}, ListDue(d, to) PROVE SuccessBacked'
    BY <1>4, BackedStays DEF ListDue, moneyVars, intentVars
  <1>5. ASSUME NEW d \in Deposits, NEW to \in {"late_grace", "expired"}, transitionDeposits(d, to) PROVE SuccessBacked'
    <2>1. UNCHANGED <<matched, posted, released, suspense>>
      BY <1>5 DEF transitionDeposits, moneyVars
    <2>2. status' = status \/ status' = [status EXCEPT ![d] = to]
      BY <1>5 DEF transitionDeposits
    <2>3. \A e \in Deposits : status'[e] = "success" => status[e] = "success"
      BY <2>2 DEF TypeOK
    <2> QED BY <2>1, <2>3, BackedStays
  <1>6. ASSUME NEW x \in Payments, NEW s \in Sims, Pay(x, s) PROVE SuccessBacked'
    BY <1>6, BackedStays DEF Pay, moneyVars, intentVars
  <1>7. ASSUME NEW x \in Payments, MatchIncoming(x) PROVE SuccessBacked'
    <2>1. PICK d \in Deposits :
            /\ posted[d] = NoPayment /\ matched[d] = NoPayment
            /\ posted' = [posted EXCEPT ![d] = x]
            /\ status' = [status EXCEPT ![d] = "success"]
            /\ matched' = [matched EXCEPT ![d] = x]
      BY <1>7, MatchTakes
    <2>2. x \notin receipts /\ suspense' = suspense /\ released' = released
      BY <1>7 DEF MatchIncoming
    <2>3. \A e \in Deposits : matched[e] # x
      BY <2>2 DEF PostedOnce
    <2>4. \A e \in Deposits \ {d} : status'[e] = status[e] /\ matched'[e] = matched[e] /\ posted'[e] = posted[e]
      BY <2>1 DEF TypeOK
    <2>5. matched'[d] = x /\ posted'[d] = x
      BY <2>1 DEF TypeOK
    <2> QED BY <2>2, <2>3, <2>4, <2>5 DEF SuccessBacked
  <1>8. ASSUME NEW x \in Payments, SuspendIncoming(x) PROVE SuccessBacked'
    <2>1. PICK w \in OccurredIn(x) : status' = [d \in Deposits |-> IF d \in StrongMatches(x, w) THEN "manual_review" ELSE status[d]]
      BY <1>8 DEF SuspendIncoming
    <2>2. \A e \in Deposits : status'[e] = "success" => status[e] = "success"
      BY <2>1
    <2> QED BY <1>8, <2>2, BackedStays DEF SuspendIncoming
  <1>9. ASSUME NEW x \in Payments, NEW d \in Deposits, ResolveCheck(x, d) PROVE SuccessBacked'
    BY <1>9, BackedStays DEF ResolveCheck, moneyVars, intentVars
  <1>10. ASSUME NEW x \in Payments, NEW d \in Deposits, resolveDeposit(x, d) PROVE SuccessBacked'
    <2>0. suspense' = suspense /\ posted' = posted /\ <<x, d>> \in checked
      BY <1>10 DEF resolveDeposit
    <2>1. CASE UNCHANGED <<status, matched, released, case>>
      BY <2>0, <2>1 DEF SuccessBacked
    <2>2. CASE /\ ~ReceiptTaken(x, d)
               /\ released' = [released EXCEPT ![x] = IF @ = NoDeposit THEN d ELSE @]
               /\ status' = [status EXCEPT ![d] = "success"]
               /\ matched' = [matched EXCEPT ![d] = x]
      <3>1. x \in suspense
        BY <2>0 DEF ChecksSuspended
      <3>2. \A e \in Deposits \ {d} : matched[e] # x /\ matched'[e] = matched[e] /\ status'[e] = status[e]
        BY <2>2 DEF ReceiptTaken, TypeOK
      <3>3. released[x] \in {NoDeposit, d}
        \* Another winner would still be matched, and the receipt taken.
        BY <2>0, <3>2 DEF LosersBlocked, TypeOK
      <3>4. released'[x] = d /\ \A y \in Payments \ {x} : released'[y] = released[y]
        BY <2>2, <3>3 DEF TypeOK
      <3>5. matched'[d] = x
        BY <2>2 DEF TypeOK
      <3>6. x # NoPayment
        OBVIOUS
      <3>7. ASSUME NEW e \in Deposits, status'[e] = "success"
            PROVE  /\ matched'[e] # NoPayment
                   /\ posted'[e] = matched'[e] \/ (matched'[e] \in suspense' /\ released'[matched'[e]] = e)
                   /\ matched'[e] \in Payments => \A f \in Deposits \ {e} : matched'[f] # matched'[e]
        <4>1. CASE e = d
          BY <2>0, <3>1, <3>2, <3>4, <3>5, <3>6, <4>1
        <4>2. CASE e # d
          <5>1. matched'[e] = matched[e] /\ status[e] = "success" /\ matched[e] # x
            BY <3>2, <3>7, <4>2
          <5>2. matched[e] \in suspense => matched[e] \in Payments
            BY DEF TypeOK
          <5> QED BY <2>0, <3>2, <3>4, <3>5, <5>1, <5>2 DEF SuccessBacked
        <4> QED BY <4>1, <4>2
      <3> QED BY <3>7 DEF SuccessBacked
    <2> QED BY <1>10, <2>1, <2>2 DEF resolveDeposit
  <1>11. CASE UNCHANGED vars
    BY <1>11, BackedStays DEF vars, intentVars, moneyVars
  <1> HIDE DEF BackedInv, AccountedInv
  <1> QED BY <1>1, <1>2, <1>3, <1>4, <1>5, <1>6, <1>7, <1>8, <1>9, <1>10, <1>11, DepositSteps

LEMMA LosersBlockedKept ==
  ASSUME BackedInv, [Next]_vars, MaxChecked <= 2
  PROVE  LosersBlocked'
  <1> USE DEF BackedInv, AccountedInv
  <1> USE DepositsAssumption
  \* A step that leaves the credits alone may only match an intent that had no match.
  <1>q. ASSUME UNCHANGED <<released, checked>>, \A e \in Deposits : matched[e] \in Payments => matched'[e] = matched[e]
        PROVE  LosersBlocked'
    BY <1>q DEF LosersBlocked
  <1>2. ASSUME NEW d \in Deposits, NEW c \in Scenarios, InitializeTest(d, c) PROVE LosersBlocked'
    <2>1. \A e \in Deposits : matched[e] \in Payments => matched'[e] = matched[e]
      BY <1>2, ScenarioCredits DEF TypeOK
    <2> QED BY <1>2, <2>1, <1>q DEF InitializeTest
  <1>7. ASSUME NEW x \in Payments, MatchIncoming(x) PROVE LosersBlocked'
    <2>1. \A e \in Deposits : matched[e] \in Payments => matched'[e] = matched[e]
      BY <1>7, MatchTakes DEF TypeOK
    <2> QED BY <1>7, <2>1, <1>q DEF MatchIncoming
  <1>9. ASSUME NEW x \in Payments, NEW d \in Deposits, ResolveCheck(x, d) PROVE LosersBlocked'
    <2>1. checked' = checked \cup {<<x, d>>} /\ UNCHANGED <<matched, released>> /\ matched[d] = NoPayment /\ case[x] = "open"
      BY <1>9 DEF ResolveCheck, moneyVars, intentVars
    <2>2. released[x] = NoDeposit
      BY <2>1 DEF CasesFollow
    <2>3. ASSUME NEW y \in Payments, NEW f \in Deposits, NEW e \in Deposits, released'[y] = e, f # e, <<y, f>> \in checked'
          PROVE  matched'[e] = y /\ \A z \in Payments : <<z, e>> \notin checked'
      <3>1. y # x
        BY <2>1, <2>2, <2>3
      <3>2. <<y, f>> \in checked /\ released[y] = e
        BY <2>1, <2>3, <3>1
      <3>3. matched[e] = y /\ \A z \in Payments : <<z, e>> \notin checked
        BY <2>3, <3>2 DEF LosersBlocked
      <3>4. e # d
        BY <2>1, <3>3
      <3> QED BY <2>1, <3>3, <3>4
    <2> QED BY <2>3 DEF LosersBlocked
  <1>10. ASSUME NEW x \in Payments, NEW d \in Deposits, resolveDeposit(x, d) PROVE LosersBlocked'
    <2>0. <<x, d>> \in checked /\ checked' = checked \ {<<x, d>>}
      BY <1>10 DEF resolveDeposit
    <2>1. CASE UNCHANGED <<status, matched, released, case>>
      BY <2>0, <2>1 DEF LosersBlocked
    <2>2. CASE /\ ~ReceiptTaken(x, d)
               /\ released' = [released EXCEPT ![x] = IF @ = NoDeposit THEN d ELSE @]
               /\ matched' = [matched EXCEPT ![d] = x]
      <3>1. PICK a, b : checked \subseteq {a, b}
        BY DEF FewChecks
      <3>2. released[x] \in {NoDeposit, d}
        BY <2>0, <2>2 DEF LosersBlocked, TypeOK, ReceiptTaken
      <3>3. released'[x] = d /\ \A y \in Payments \ {x} : released'[y] = released[y]
        BY <2>2, <3>2 DEF TypeOK
      <3>4. matched'[d] = x /\ \A e \in Deposits \ {d} : matched'[e] = matched[e]
        BY <2>2 DEF TypeOK
      <3>5. ASSUME NEW y \in Payments, NEW f \in Deposits, NEW e \in Deposits, released'[y] = e, f # e, <<y, f>> \in checked'
            PROVE  matched'[e] = y /\ \A z \in Payments : <<z, e>> \notin checked'
        <4>1. <<y, f>> \in checked /\ <<y, f>> # <<x, d>>
          BY <2>0, <3>5
        \* The winner of x and the loser are the two credits there are.
        <4>2. CASE y = x
          <5>1. e = d
            BY <3>3, <3>5, <4>2
          <5>2. checked \subseteq {<<x, d>>, <<y, f>>}
            BY <2>0, <3>1, <4>1
          <5>3. \A z \in Payments : <<z, e>> \notin checked'
            BY <2>0, <3>5, <5>1, <5>2
          <5> QED BY <3>4, <4>2, <5>1, <5>3
        \* The loser of another receipt blocks every credit to its winner.
        <4>3. CASE y # x
          <5>1. released[y] = e
            BY <3>3, <3>5, <4>3
          <5>2. matched[e] = y /\ \A z \in Payments : <<z, e>> \notin checked
            BY <3>5, <4>1, <5>1 DEF LosersBlocked
          <5>3. e # d
            BY <2>0, <5>2
          <5> QED BY <2>0, <3>4, <5>2, <5>3
        <4> QED BY <4>2, <4>3
      <3> QED BY <3>5 DEF LosersBlocked
    <2> QED BY <1>10, <2>1, <2>2 DEF resolveDeposit
  <1>11. CASE UNCHANGED <<matched, released, checked>>
    BY <1>11, <1>q
  <1> HIDE DEF BackedInv, AccountedInv
  <1> QED BY <1>2, <1>7, <1>9, <1>10, <1>11, DepositSteps
       DEF Initialize, DeadlinePasses, ListDue, transitionDeposits, Pay, SuspendIncoming, vars, intentVars, moneyVars

-----------------------------------------------------------------------------
LEMMA ExpiredOverKept ==
  ASSUME TypeOK, ExpiredOver, [Next]_vars
  PROVE  ExpiredOver'
  <1>t. TypeOK'
    BY DepositsTyped
  \* No intent leaves "none" and no window closes, and nothing new is expired, listed or paid.
  <1>q. ASSUME UNCHANGED <<window, listed>>,
               \A d \in Deposits : /\ status[d] # "none" => status'[d] # "none"
                                   /\ status[d] # "none" /\ stage[d] = "over" => stage'[d] = "over"
                                   /\ status'[d] = "expired" => status[d] = "expired" \/ stage'[d] = "over"
        PROVE  ExpiredOver'
    BY <1>q DEF ExpiredOver, TypeOK
  <1>1. ASSUME NEW d \in Deposits, NEW s \in Sims, Initialize(d, s) PROVE ExpiredOver'
    BY <1>1, <1>q DEF Initialize, smsVars, TypeOK
  <1>2. ASSUME NEW d \in Deposits, NEW c \in Scenarios, InitializeTest(d, c) PROVE ExpiredOver'
    <2>1. /\ status[d] = "none" /\ status' = [status EXCEPT ![d] = ScenarioStatus(c)]
          /\ UNCHANGED <<window, listed>>
      BY <1>2 DEF InitializeTest, smsVars
    <2>2. \A e \in Deposits \ {d} : stage'[e] = stage[e]
      BY <1>2 DEF InitializeTest, TypeOK
    <2>3. ScenarioStatus(c) \notin {"none", "expired"}
      BY DEF ScenarioStatus
    <2> QED BY <2>1, <2>2, <2>3, <1>q DEF TypeOK
  <1>3. ASSUME NEW d \in Deposits, DeadlinePasses(d) PROVE ExpiredOver'
    BY <1>3, <1>q DEF DeadlinePasses, smsVars, TypeOK
  <1>4. ASSUME NEW d \in Deposits, NEW to \in {"late_grace", "expired"}, ListDue(d, to) PROVE ExpiredOver'
    <2>1. to = "expired" => status[d] # "none" /\ stage[d] = "over"
      BY <1>4 DEF ListDue, Due, Movable, Active
    <2>2. listed' = listed \cup {<<d, to>>} /\ UNCHANGED <<status, stage, window>>
      BY <1>4 DEF ListDue, intentVars, smsVars
    <2> QED BY <2>1, <2>2 DEF ExpiredOver
  <1>5. ASSUME NEW d \in Deposits, NEW to \in {"late_grace", "expired"}, transitionDeposits(d, to) PROVE ExpiredOver'
    <2>1. <<d, to>> \in listed /\ listed' \subseteq listed /\ UNCHANGED <<stage, window>>
      BY <1>5 DEF transitionDeposits, smsVars
    <2>2. status' = status \/ status' = [status EXCEPT ![d] = to]
      BY <1>5 DEF transitionDeposits
    <2>3. to = "expired" => stage[d] = "over"
      BY <2>1 DEF ExpiredOver
    <2>4. \A e \in Deposits : status[e] # "none" => status'[e] # "none"
      BY <2>2 DEF TypeOK
    <2>5. \A e \in Deposits : status'[e] = "expired" => stage[e] = "over"
      BY <2>2, <2>3 DEF TypeOK, ExpiredOver
    <2> QED BY <2>1, <2>4, <2>5 DEF ExpiredOver, TypeOK
  <1>6. ASSUME NEW x \in Payments, NEW s \in Sims, Pay(x, s) PROVE ExpiredOver'
    <2>1. window' = [window EXCEPT ![x] = {d \in Deposits : InWindow(d)}] /\ UNCHANGED <<status, stage, listed>>
      BY <1>6 DEF Pay, intentVars
    <2>2. \A y \in Payments : window'[y] = window[y] \/ window'[y] = {d \in Deposits : InWindow(d)}
      BY <2>1 DEF TypeOK
    <2> QED BY <2>1, <2>2 DEF ExpiredOver, InWindow
  <1>7. ASSUME NEW x \in Payments, MatchIncoming(x) PROVE ExpiredOver'
    <2>1. PICK d \in Deposits : status' = [status EXCEPT ![d] = "success"]
      BY <1>7 DEF MatchIncoming
    <2> QED BY <1>7, <2>1, <1>q DEF MatchIncoming, TypeOK
  <1>8. ASSUME NEW x \in Payments, SuspendIncoming(x) PROVE ExpiredOver'
    <2>1. PICK w \in OccurredIn(x) : status' = [d \in Deposits |-> IF d \in StrongMatches(x, w) THEN "manual_review" ELSE status[d]]
      BY <1>8 DEF SuspendIncoming
    <2> QED BY <1>8, <2>1, <1>q DEF SuspendIncoming
  <1>9. ASSUME NEW x \in Payments, NEW d \in Deposits, ResolveCheck(x, d) PROVE ExpiredOver'
    BY <1>9, <1>q DEF ResolveCheck, smsVars, intentVars
  <1>10. ASSUME NEW x \in Payments, NEW d \in Deposits, resolveDeposit(x, d) PROVE ExpiredOver'
    <2>1. status' = status \/ status' = [status EXCEPT ![d] = "success"]
      BY <1>10 DEF resolveDeposit
    <2> QED BY <1>10, <2>1, <1>q DEF resolveDeposit, TypeOK
  <1>11. CASE UNCHANGED vars
    BY <1>11, <1>q DEF vars, intentVars, smsVars
  <1> QED BY <1>1, <1>2, <1>3, <1>4, <1>5, <1>6, <1>7, <1>8, <1>9, <1>10, <1>11, DepositSteps

LEMMA AlikeApartKept ==
  ASSUME AlikeInv, [Next]_vars
  PROVE  AlikeApart'
  <1> USE DEF AlikeInv
  <1> USE DepositsAssumption
  <1>t. TypeOK'
    BY DepositsTyped
  \* Steps that open no intent: what is matchable was, and what is expired stays so.
  <1>q. ASSUME UNCHANGED <<sim, window>>,
               \A d \in Deposits : status'[d] \in Matchable =>
                 status[d] \in Matchable /\ (status[d] = "expired" => status'[d] = "expired")
        PROVE  AlikeApart'
    BY <1>q DEF AlikeApart
  <1>1. ASSUME NEW d \in Deposits, NEW s \in Sims, Initialize(d, s) PROVE AlikeApart'
    <2>1. /\ status[d] = "none" /\ ~Collides(d, s)
          /\ status' = [status EXCEPT ![d] = "awaiting_payment"] /\ sim' = [sim EXCEPT ![d] = s]
          /\ window' = window
      BY <1>1 DEF Initialize, smsVars
    <2>2. \A e \in Deposits \ {d} : sim'[e] = sim[e] /\ status'[e] = status[e]
      BY <2>1 DEF TypeOK
    <2>3. sim'[d] = s
      BY <2>1 DEF TypeOK
    <2>4. \A x \in Payments : d \notin window[x]
      BY <2>1 DEF ExpiredOver
    <2>5. ASSUME NEW e \in Deposits \ {d}, sim[e] = s, Likeness[e] = Likeness[d], status[e] \in Matchable
          PROVE  status[e] = "expired"
      BY <2>1, <2>5 DEF Collides, Matchable
    <2>6. ASSUME NEW f \in Deposits, NEW e \in Deposits,
                 f # e, sim'[f] \in Sims, sim'[f] = sim'[e], Likeness[f] = Likeness[e],
                 status'[f] \in Matchable, status'[e] \in Matchable
          PROVE  /\ status'[f] = "expired" \/ status'[e] = "expired"
                 /\ \A x \in Payments : ~(f \in window'[x] /\ e \in window'[x])
      <3>1. CASE f = d
        BY <2>1, <2>2, <2>3, <2>4, <2>5, <2>6, <3>1
      <3>2. CASE e = d
        BY <2>1, <2>2, <2>3, <2>4, <2>5, <2>6, <3>2
      <3>3. CASE f # d /\ e # d
        BY <2>1, <2>2, <2>6, <3>3 DEF AlikeApart
      <3> QED BY <3>1, <3>2, <3>3
    <2> QED BY <2>6 DEF AlikeApart
  <1>2. ASSUME NEW d \in Deposits, NEW c \in Scenarios, InitializeTest(d, c) PROVE AlikeApart'
    <2>1. /\ status' = [status EXCEPT ![d] = ScenarioStatus(c)] /\ sim' = [sim EXCEPT ![d] = TestSim]
          /\ window' = window
      BY <1>2 DEF InitializeTest, smsVars
    <2>2. \A e \in Deposits \ {d} : sim'[e] = sim[e] /\ status'[e] = status[e]
      BY <2>1 DEF TypeOK
    <2>3. sim'[d] \notin Sims
      BY <2>1 DEF TypeOK
    <2> QED BY <2>1, <2>2, <2>3 DEF AlikeApart
  <1>3. ASSUME NEW d \in Deposits, DeadlinePasses(d) PROVE AlikeApart'
    BY <1>3, <1>q DEF DeadlinePasses, smsVars
  <1>4. ASSUME NEW d \in Deposits, NEW to \in {"late_grace", "expired"}, ListDue(d, to) PROVE AlikeApart'
    BY <1>4, <1>q DEF ListDue, intentVars, smsVars
  <1>5. ASSUME NEW d \in Deposits, NEW to \in {"late_grace", "expired"}, transitionDeposits(d, to) PROVE AlikeApart'
    <2>1. UNCHANGED <<sim, window>>
      BY <1>5 DEF transitionDeposits, smsVars
    <2>2. \/ status' = status
          \/ status' = [status EXCEPT ![d] = to] /\ status[d] \in Active
      BY <1>5 DEF transitionDeposits, StillMovable, Movable, Active
    <2> QED BY <2>1, <2>2, <1>q DEF TypeOK, Matchable, Active
  <1>6. ASSUME NEW x \in Payments, NEW s \in Sims, Pay(x, s) PROVE AlikeApart'
    <2>1. window' = [window EXCEPT ![x] = {d \in Deposits : InWindow(d)}] /\ UNCHANGED <<status, stage, sim>>
      BY <1>6 DEF Pay, intentVars
    <2>2. \A y \in Payments : window'[y] = window[y] \/ window'[y] = {d \in Deposits : InWindow(d)}
      BY <2>1 DEF TypeOK
    <2>3. \A d \in Deposits : status[d] = "expired" => ~InWindow(d)
      BY DEF ExpiredOver, InWindow
    <2> QED BY <2>1, <2>2, <2>3 DEF AlikeApart
  <1>7. ASSUME NEW x \in Payments, MatchIncoming(x) PROVE AlikeApart'
    <2>1. PICK d \in Deposits : status' = [status EXCEPT ![d] = "success"]
      BY <1>7 DEF MatchIncoming
    <2>2. \A e \in Deposits : status'[e] \in Matchable => status'[e] = status[e]
      BY <2>1 DEF TypeOK, Matchable, Active
    <2> QED BY <1>7, <2>2, <1>q DEF MatchIncoming
  <1>8. ASSUME NEW x \in Payments, SuspendIncoming(x) PROVE AlikeApart'
    <2>1. PICK w \in OccurredIn(x) : status' = [d \in Deposits |-> IF d \in StrongMatches(x, w) THEN "manual_review" ELSE status[d]]
      BY <1>8 DEF SuspendIncoming
    <2>2. \A e \in Deposits : status'[e] \in Matchable => status'[e] = status[e]
      BY <2>1 DEF Matchable, Active
    <2> QED BY <1>8, <2>2, <1>q DEF SuspendIncoming
  <1>9. ASSUME NEW x \in Payments, NEW d \in Deposits, ResolveCheck(x, d) PROVE AlikeApart'
    BY <1>9, <1>q DEF ResolveCheck, smsVars, intentVars
  <1>10. ASSUME NEW x \in Payments, NEW d \in Deposits, resolveDeposit(x, d) PROVE AlikeApart'
    <2>1. status' = status \/ status' = [status EXCEPT ![d] = "success"]
      BY <1>10 DEF resolveDeposit
    <2>2. \A e \in Deposits : status'[e] \in Matchable => status'[e] = status[e]
      BY <2>1 DEF TypeOK, Matchable, Active
    <2> QED BY <1>10, <2>2, <1>q DEF resolveDeposit
  <1>11. CASE UNCHANGED vars
    BY <1>11, <1>q DEF vars, intentVars, smsVars
  <1> HIDE DEF AlikeInv
  <1> QED BY <1>1, <1>2, <1>3, <1>4, <1>5, <1>6, <1>7, <1>8, <1>9, <1>10, <1>11, DepositSteps

\* What the inductive invariant says about the intents one payment may match.
LEMMA AlikeFollows ==
  ASSUME AlikeInv
  PROVE  AlikeNeverAmbiguous
  <1> SUFFICES ASSUME NEW x \in Payments, paid[x] # NoSim, NEW w \in OccurredIn(x),
                      NEW d \in StrongMatches(x, w), NEW e \in StrongMatches(x, w), d # e,
                      Likeness[d] = Likeness[e]
               PROVE  FALSE
    BY DEF AlikeNeverAmbiguous
  <1> USE DEF AlikeInv
  <1>1. /\ d \in Deposits /\ e \in Deposits /\ d \in w /\ e \in w
        /\ sim[d] = paid[x] /\ sim[e] = paid[x]
        /\ status[d] \in Matchable /\ status[e] \in Matchable
    BY DepositsAssumption DEF StrongMatches
  <1>2. paid[x] \in Sims
    BY DEF TypeOK
  <1>3. /\ status[d] = "expired" \/ status[e] = "expired"
        /\ ~(d \in window[x] /\ e \in window[x])
    BY <1>1, <1>2 DEF AlikeApart
  <1>4. ~(InWindow(d) /\ InWindow(e))
    BY <1>1, <1>3 DEF ExpiredOver, InWindow
  <1> QED BY <1>1, <1>3, <1>4 DEF OccurredIn

-----------------------------------------------------------------------------
\* A payment is posted once, in an intent's credit or in suspense, and what waits
\* in suspense is on staff's list: whatever ingest, simulate, matchSuspense, the
\* expiry job and any number of staff credits do (sms-ingestion.service.ts,
\* deposits.service.ts, admin.service.ts).
THEOREM PaymentsPostedOnce == Spec => [](TypeOK /\ EveryPaymentPosted /\ SuspenseListed)
  <1>1. AccountedInv /\ [Next]_vars => AccountedInv'
    BY AccountedStep
  <1>2. AccountedInv => TypeOK /\ EveryPaymentPosted /\ SuspenseListed
    BY PostedIsCounted, CasesAreListed DEF AccountedInv
  <1> QED BY AccountedInit, <1>1, <1>2, PTL DEF Spec

\* With at most two staff credits at once a successful intent also has money of its
\* own.  Three can give one release to two intents: the second credit overwrites
\* the match that told the third that the receipt was taken (resolveDeposit reads
\* the intent and writes it without a condition).
THEOREM PaymentsAlwaysAccounted ==
  ASSUME MaxChecked <= 2
  PROVE  Spec => []PaymentsAccounted
  <1>1. Init => BackedInv
    <2> SUFFICES ASSUME Init PROVE BackedInv
      OBVIOUS
    <2>1. AccountedInv
      BY AccountedInit
    <2>2. SuccessBacked /\ LosersBlocked
      BY DEF Init, SuccessBacked, LosersBlocked
    <2>3. FewChecks
      <3>1. IsFiniteSet(checked)
        BY FS_EmptySet DEF Init
      <3>2. \E a, b : checked \subseteq {a, b}
        BY DEF Init
      <3> QED BY <3>1, <3>2 DEF FewChecks
    <2> QED BY <2>1, <2>2, <2>3 DEF BackedInv
  <1>2. BackedInv /\ [Next]_vars => BackedInv'
    <2> SUFFICES ASSUME BackedInv, [Next]_vars PROVE BackedInv'
      OBVIOUS
    <2>1. AccountedInv'
      BY AccountedStep DEF BackedInv
    <2>2. FewChecks'
      BY FewChecksKept DEF BackedInv, AccountedInv
    <2> QED BY <2>1, <2>2, SuccessBackedKept, LosersBlockedKept DEF BackedInv
  <1>3. BackedInv => PaymentsAccounted
    BY PostedIsCounted, CasesAreListed DEF BackedInv, AccountedInv, PaymentsAccounted
  <1> QED BY <1>1, <1>2, <1>3, PTL DEF Spec

\* Look-alike intents are never both open for one payment, however late its SMS and
\* the expiry job are (depositSelection, matchIncoming).
THEOREM AlikeAlwaysApart == Spec => []AlikeNeverAmbiguous
  <1>1. Init => AlikeInv
    <2> SUFFICES ASSUME Init PROVE AlikeInv
      OBVIOUS
    <2>1. TypeOK
      BY AccountedInit DEF AccountedInv
    <2> QED BY <2>1, DepositsAssumption DEF Init, AlikeInv, ExpiredOver, AlikeApart
  <1>2. AlikeInv /\ [Next]_vars => AlikeInv'
    <2> SUFFICES ASSUME AlikeInv, [Next]_vars PROVE AlikeInv'
      OBVIOUS
    <2>1. TypeOK' /\ ExpiredOver'
      BY DepositsTyped, ExpiredOverKept DEF AlikeInv
    <2> QED BY <2>1, AlikeApartKept DEF AlikeInv
  <1>3. AlikeInv => AlikeNeverAmbiguous
    BY AlikeFollows
  <1> QED BY <1>1, <1>2, <1>3, PTL DEF Spec
==============================================================================
