-------------------------- MODULE OperationsProofs --------------------------
(***************************************************************************)
(* What TLAPS proves of the work of staff and of the crons, for any number *)
(* of SIMs, phones, evaluators, reviewers, settlements, rule versions,     *)
(* staff, authors, cases, scopes, changes, incidents and workers: the two  *)
(* safety invariants of MCTreasury, the rules of support cases and of      *)
(* configuration control that MCBackOffice checks, the safety of the alert *)
(* engine, and that of the queries that refresh a SIM's balance.           *)
(***************************************************************************)
EXTENDS MCTreasury, MCBackOffice, BalanceRefresh, FiniteSetTheorems, TLAPS

-----------------------------------------------------------------------------
(* Settlements.  The invariant is said of one operation at a time, since    *)
(* every transaction writes the rows of one.                                *)

\* LinkedAgrees and DecidedOnce of one operation, and what they need to be
\* inductive: nothing has been queued for an operation that has no transfer.
OperationSound(o) ==
  /\ transfer[o] # "none" => linked[o] = Settlement!Standing(o)
  /\ transfer[o] = "none" => queued[o] = 0
  /\ o \in Settlements => queued[o] <= 1

SettlementsInductive == Settlement!TypeOK /\ \A o \in Settlement!Ops : OperationSound(o)

\* A settlement that staff can still decide, or have rejected, has no transfer,
\* because each status of a transfer stands for another status of the settlement.
LEMMA UndecidedHasNoTransfer ==
  ASSUME SettlementsInductive, NEW o \in Settlement!Ops,
         linked[o] \in {"none", "requested", "rejected"}
  PROVE  transfer[o] = "none" /\ queued[o] = 0
  <1>1. transfer[o] \in Settlement!TransferStatuses
    BY DEF SettlementsInductive, Settlement!TypeOK
  <1>2. OperationSound(o)
    BY DEF SettlementsInductive
  <1> QED
    BY <1>1, <1>2 DEF OperationSound, Settlement!Standing, Settlement!TransferStatuses

\* A step that writes the rows of one operation and leaves it sound keeps the
\* invariant of all.
LEMMA OneOperationMoves ==
  ASSUME SettlementsInductive, Settlement!TypeOK', NEW x \in Settlement!Ops,
         \A o \in Settlement!Ops \ {x} :
           transfer'[o] = transfer[o] /\ linked'[o] = linked[o] /\ queued'[o] = queued[o],
         OperationSound(x)'
  PROVE  SettlementsInductive'
  <1>1. ASSUME NEW o \in Settlement!Ops
        PROVE  OperationSound(o)'
    <2>1. CASE o = x
      BY <2>1
    <2>2. CASE o # x
      BY <2>2 DEF SettlementsInductive, OperationSound, Settlement!Standing
    <2> QED BY <2>1, <2>2
  <1> QED
    BY <1>1 DEF SettlementsInductive

LEMMA SettlementsInitially ==
  TreasuryInit => SettlementsInductive
  BY TreasuryAssumption DEF TreasuryInit, Settlement!Init, SettlementsInductive, OperationSound,
     Settlement!TypeOK, Settlement!SettlementsAssumption, Settlement!TransferStatuses,
     Settlement!LinkedStatuses, Settlement!NotReading, Settlement!Ops

LEMMA SettlementsTyped ==
  ASSUME SettlementsInductive, Settlement!Next
  PROVE  Settlement!TypeOK'
  <1> USE DEF Settlement!TypeOK, Settlement!Link, Settlement!Tell, Settlement!Move
  <1> Settlement!TypeOK
    BY DEF SettlementsInductive
  <1>0. Settlements \subseteq Settlement!Ops /\ SweepOps \subseteq Settlement!Ops
    BY DEF Settlement!Ops
  <1>1. ASSUME NEW o \in Settlements, Settlement!request(o) PROVE Settlement!TypeOK'
    BY <1>0, <1>1 DEF Settlement!request, Settlement!LinkedStatuses
  <1>2. ASSUME NEW o \in Settlements, Settlement!reject(o) PROVE Settlement!TypeOK'
    BY <1>0, <1>2 DEF Settlement!reject, Settlement!LinkedStatuses
  <1>3. ASSUME NEW a \in Reviewers, NEW o \in Settlements, Settlement!approveBegins(a, o)
        PROVE  Settlement!TypeOK'
    BY <1>0, <1>3 DEF Settlement!approveBegins
  <1>4. ASSUME NEW a \in Reviewers, Settlement!approve(a) PROVE Settlement!TypeOK'
    BY <1>0, <1>4 DEF Settlement!approve, Settlement!LinkedStatuses, Settlement!TransferStatuses
  <1>5. ASSUME NEW o \in SweepOps, Settlement!executeCandidate(o) PROVE Settlement!TypeOK'
    BY <1>0, <1>5 DEF Settlement!executeCandidate, Settlement!LinkedStatuses, Settlement!TransferStatuses
  <1>6. ASSUME NEW o \in Settlement!Ops, Settlement!report(o) PROVE Settlement!TypeOK'
    <2> PICK st \in Settlement!Reported(o) :
               /\ Settlement!Move(o, st)
               /\ committed' = [committed EXCEPT ![o] = @ \/ st \in {"committed", "unknown"}]
               /\ Settlement!Link(o, Settlement!Mirrored(o, st))
               /\ UNCHANGED <<told, queued, retries, reading>>
      BY <1>6 DEF Settlement!report
    <2>1. st \in Settlement!TransferStatuses /\ st \in Settlement!LinkedStatuses
      BY DEF Settlement!Reported, Settlement!LinkedStatuses, Settlement!TransferStatuses
    <2>2. Settlement!Mirrored(o, st) \in Settlement!LinkedStatuses
      BY <2>1 DEF Settlement!Mirrored
    <2>3. committed' \in [Settlement!Ops -> BOOLEAN]
      BY Zenon
    <2> QED BY <2>1, <2>2, <2>3
  <1>7. ASSUME NEW o \in Settlement!Ops, Settlement!expire(o) PROVE Settlement!TypeOK'
    <2>1. committed' \in [Settlement!Ops -> BOOLEAN]
      BY <1>7, Zenon DEF Settlement!expire
    <2> QED
      BY <1>7, <2>1 DEF Settlement!expire, Settlement!LinkedStatuses, Settlement!TransferStatuses
  <1>8. ASSUME NEW o \in Settlement!Ops,
               Settlement!cancelBeforeStart(o) \/ Settlement!resolveUnknown(o) \/ Settlement!matchOutgoing(o)
        PROVE  Settlement!TypeOK'
    BY <1>8 DEF Settlement!cancelBeforeStart, Settlement!resolveUnknown, Settlement!matchOutgoing,
       Settlement!updateLinkedOperation, Settlement!LinkedStatuses, Settlement!TransferStatuses
  <1>9. ASSUME NEW o \in Settlement!Ops, Settlement!Requeue(o) PROVE Settlement!TypeOK'
    BY <1>9, TreasuryAssumption DEF Settlement!Requeue, Settlement!InFlight,
       Settlement!SettlementsAssumption, Settlement!LinkedStatuses, Settlement!TransferStatuses
  <1> QED
    BY <1>1, <1>2, <1>3, <1>4, <1>5, <1>6, <1>7, <1>8, <1>9
    DEF Settlement!Next, Settlement!approveNameAndRetry, Settlement!retryDeviceJob

\* Every transaction of the four services leaves the operation it writes with
\* the status that follows from its transfer, and queues a transfer only for an
\* operation that has none.
LEMMA SettlementsStep ==
  ASSUME SettlementsInductive, Settlement!Next
  PROVE  SettlementsInductive'
  <1> USE DEF OperationSound, Settlement!Standing, Settlement!Link, Settlement!Tell, Settlement!Move
  <1>1. Settlement!TypeOK /\ Settlement!TypeOK'
    BY SettlementsTyped DEF SettlementsInductive
  <1>2. Settlements \subseteq Settlement!Ops /\ SweepOps \subseteq Settlement!Ops
        /\ Settlements \cap SweepOps = {}
    BY TreasuryAssumption DEF Settlement!Ops, Settlement!SettlementsAssumption
  <1>3. \A o \in Settlement!Ops : OperationSound(o)
    BY DEF SettlementsInductive
  <1>4. ASSUME NEW o \in Settlements, Settlement!request(o) \/ Settlement!reject(o)
        PROVE  SettlementsInductive'
    <2>1. linked[o] \in {"none", "requested", "rejected"}
      BY <1>4 DEF Settlement!request, Settlement!reject, Settlement!canReviewSettlement
    <2>2. transfer[o] = "none" /\ queued[o] = 0
      BY <1>2, <2>1, UndecidedHasNoTransfer
    <2>3. /\ UNCHANGED <<transfer, queued>>
          /\ \A p \in Settlement!Ops \ {o} : linked'[p] = linked[p]
      BY <1>1, <1>4 DEF Settlement!request, Settlement!reject, Settlement!TypeOK
    <2>4. OperationSound(o)'
      BY <2>2, <2>3
    <2> QED
      BY <1>1, <1>2, <2>3, <2>4, OneOperationMoves
  <1>5. ASSUME NEW a \in Reviewers, NEW o \in Settlements, Settlement!approveBegins(a, o)
        PROVE  SettlementsInductive'
    BY <1>1, <1>3, <1>5 DEF Settlement!approveBegins, SettlementsInductive
  <1>6. ASSUME NEW a \in Reviewers, Settlement!approve(a)
        PROVE  SettlementsInductive'
    <2>1. PICK o \in Settlements : o = reading[a].op
      BY <1>1, <1>6 DEF Settlement!approve, Settlement!TypeOK
    <2>2. CASE ~ (Settlement!canReviewSettlement(reading[a].status) /\ Settlement!RowUnchanged(a))
      BY <1>1, <1>3, <1>6, <2>2 DEF Settlement!approve, SettlementsInductive
    <2>3. CASE Settlement!canReviewSettlement(reading[a].status) /\ Settlement!RowUnchanged(a)
      <3>1. linked[o] = "requested"
        BY <2>1, <2>3 DEF Settlement!canReviewSettlement, Settlement!RowUnchanged
      <3>2. queued[o] = 0
        BY <1>2, <2>1, <3>1, UndecidedHasNoTransfer
      <3>3. /\ transfer'[o] = "queued" /\ linked'[o] = "dispatched" /\ queued'[o] = 1
            /\ \A p \in Settlement!Ops \ {o} :
                 transfer'[p] = transfer[p] /\ linked'[p] = linked[p] /\ queued'[p] = queued[p]
        BY <1>1, <1>2, <1>6, <2>1, <2>3, <3>2 DEF Settlement!approve, Settlement!TypeOK
      <3>4. OperationSound(o)'
        BY <1>2, <2>1, <3>3
      <3> QED
        BY <1>1, <1>2, <2>1, <3>3, <3>4, OneOperationMoves
    <2> QED BY <2>2, <2>3
  <1>7. ASSUME NEW o \in SweepOps, Settlement!executeCandidate(o)
        PROVE  SettlementsInductive'
    <2>1. /\ transfer'[o] = "queued" /\ linked'[o] = "queued"
          /\ \A p \in Settlement!Ops \ {o} :
               transfer'[p] = transfer[p] /\ linked'[p] = linked[p] /\ queued'[p] = queued[p]
      BY <1>1, <1>2, <1>7 DEF Settlement!executeCandidate, Settlement!TypeOK
    <2>2. OperationSound(o)'
      BY <1>2, <2>1
    <2> QED
      BY <1>1, <1>2, <2>1, <2>2, OneOperationMoves
  <1>8. ASSUME NEW o \in Settlement!Ops, NEW st, transfer[o] # "none",
               st \in Settlement!TransferStatuses \ {"none"},
               transfer' = [transfer EXCEPT ![o] = st],
               NEW l, linked' = [linked EXCEPT ![o] = l], queued' = queued,
               l = IF st = "cancelled" THEN "failed"
                   ELSE IF o \in SweepOps \/ st \in {"success", "failed", "unknown", "manual_review"} THEN st
                   ELSE "dispatched"
        PROVE  SettlementsInductive'
    <2>1. /\ transfer'[o] = st /\ linked'[o] = l
          /\ \A p \in Settlement!Ops \ {o} :
               transfer'[p] = transfer[p] /\ linked'[p] = linked[p] /\ queued'[p] = queued[p]
      BY <1>1, <1>8 DEF Settlement!TypeOK
    <2>2. OperationSound(o)'
      BY <1>3, <1>8, <2>1
    <2> QED
      BY <1>1, <2>1, <2>2, OneOperationMoves
  <1>9. ASSUME NEW o \in Settlement!Ops, Settlement!report(o)
        PROVE  SettlementsInductive'
    <2> PICK st \in Settlement!Reported(o) :
               /\ transfer' = [transfer EXCEPT ![o] = st]
               /\ linked' = [linked EXCEPT ![o] = Settlement!Mirrored(o, st)]
               /\ queued' = queued
      BY <1>9 DEF Settlement!report
    <2>1. /\ transfer[o] \in {"queued", "device_started", "committed", "provider_pending"}
          /\ st \in {"device_started", "committed", "provider_pending", "failed", "manual_review", "unknown"}
      BY DEF Settlement!Reported
    <2>2. Settlement!Mirrored(o, st) =
            IF o \in SweepOps \/ st \in {"failed", "unknown", "manual_review"} THEN st ELSE "dispatched"
      BY <1>3, <2>1 DEF Settlement!Mirrored
    <2> QED
      BY <1>8, <2>1, <2>2 DEF Settlement!TransferStatuses
  <1>10. ASSUME NEW o \in Settlement!Ops, Settlement!expire(o)
         PROVE  SettlementsInductive'
    <2> PICK st \in {"failed", "unknown"} :
               /\ transfer' = [transfer EXCEPT ![o] = st]
               /\ linked' = [linked EXCEPT ![o] = st]
      BY <1>10 DEF Settlement!expire
    <2> QED
      BY <1>8, <1>10 DEF Settlement!expire, Settlement!TransferStatuses
  <1>11. ASSUME NEW o \in Settlement!Ops, Settlement!cancelBeforeStart(o)
         PROVE  SettlementsInductive'
    BY <1>8, <1>11
    DEF Settlement!cancelBeforeStart, Settlement!updateLinkedOperation, Settlement!TransferStatuses
  <1>12. ASSUME NEW o \in Settlement!Ops, Settlement!resolveUnknown(o)
         PROVE  SettlementsInductive'
    <2> PICK st \in {"success", "failed"} :
               transfer' = [transfer EXCEPT ![o] = st] /\ linked' = [linked EXCEPT ![o] = st]
      BY <1>12 DEF Settlement!resolveUnknown, Settlement!updateLinkedOperation
    <2> QED
      BY <1>8, <1>12 DEF Settlement!resolveUnknown, Settlement!TransferStatuses
  <1>13. ASSUME NEW o \in Settlement!Ops, Settlement!matchOutgoing(o)
         PROVE  SettlementsInductive'
    BY <1>8, <1>13 DEF Settlement!matchOutgoing, Settlement!TransferStatuses
  <1>14. ASSUME NEW o \in Settlement!Ops,
                Settlement!approveNameAndRetry(o) \/ Settlement!retryDeviceJob(o)
         PROVE  SettlementsInductive'
    BY <1>8, <1>14
    DEF Settlement!approveNameAndRetry, Settlement!retryDeviceJob, Settlement!Requeue,
        Settlement!InFlight, Settlement!TransferStatuses
  <1> QED
    BY <1>4, <1>5, <1>6, <1>7, <1>9, <1>10, <1>11, <1>12, <1>13, <1>14 DEF Settlement!Next

\* A settlement and its transfer are decided once and tell the same story,
\* whatever two reviewers, the handset's reports, the expiry job, staff and
\* provider SMS do (settlements.service.ts, device-jobs.service.ts,
\* withdrawals.service.ts, sms-ingestion.service.ts).
THEOREM SettlementsAlwaysAgree == TreasurySpec => []SettlementsAgree
  <1> DEFINE Inv == OfSettlements => SettlementsInductive
  <1>1. TreasuryInit => Inv
    BY SettlementsInitially
  <1>2. Inv /\ [TreasuryNext]_treasuryVars => Inv'
    <2> SUFFICES ASSUME Inv, [TreasuryNext]_treasuryVars, OfSettlements' PROVE SettlementsInductive'
      OBVIOUS
    <2>1. OfSettlements /\ SettlementsInductive
      BY DEF TreasuryNext, OfSettlements, OfSweeps, treasuryVars
    <2>2. CASE Settlement!Next
      BY <2>1, <2>2, SettlementsStep
    <2>3. CASE UNCHANGED settlementVars
      BY <2>1, <2>3 DEF SettlementsInductive, OperationSound, Settlement!Standing, Settlement!TypeOK, settlementVars
    <2> QED
      BY <2>1, <2>2, <2>3 DEF TreasuryNext, OfSettlements, OfSweeps, treasuryVars
  <1>3. Inv => SettlementsAgree
    <2> SUFFICES ASSUME Inv, OfSettlements PROVE Settlement!SettlementsAgree
      BY DEF SettlementsAgree
    <2>1. Settlement!TypeOK /\ \A o \in Settlement!Ops : OperationSound(o)
      BY DEF SettlementsInductive
    <2>2. Settlement!LinkedAgrees
      BY <2>1 DEF OperationSound, Settlement!LinkedAgrees
    <2>3. ASSUME NEW o \in Settlements
          PROVE  queued[o] <= 1 /\ (linked[o] = "rejected" => queued[o] = 0)
      BY <2>1, UndecidedHasNoTransfer DEF OperationSound, Settlement!Ops
    <2> QED
      BY <2>1, <2>2, <2>3 DEF Settlement!SettlementsAgree, Settlement!DecidedOnce
  <1> QED
    BY <1>1, <1>2, <1>3, PTL DEF TreasurySpec

-----------------------------------------------------------------------------
(* Sweeps.  SentAsApproved is not inductive: an approval could change under  *)
(* the executions booked on its version.  It does not, because a version     *)
(* that is pending has never been executed, and a version is never reused.   *)

VersionsSound ==
  /\ rule.status = "none" <=> rule.version = 0
  /\ rule.status = "approved" => approval[rule.version] = rule.dest
  /\ \A k \in Sweep!Keys : Sweep!Exists(k) =>
       /\ k.version <= rule.version
       /\ rule.status = "pending" => k.version # rule.version

SweepsInductive == Sweep!SweepsSafe /\ VersionsSound

LEMMA SweepsInitially ==
  Sweep!Init => SweepsInductive
  <1> SUFFICES ASSUME Sweep!Init PROVE SweepsInductive
    OBVIOUS
  <1> USE TreasuryAssumption DEF Sweep!Init, Sweep!SweepsAssumption
  <1>1. Sweep!TypeOK
    BY DEF Sweep!TypeOK, Sweep!RuleStatuses, Sweep!ExecStatuses
  <1>2. \A k \in Sweep!Keys : ~ Sweep!Exists(k) /\ exec[k].status = "none"
    BY DEF Sweep!Exists
  <1> QED
    BY <1>1, <1>2 DEF SweepsInductive, VersionsSound, Sweep!SweepsSafe, Sweep!IntervalKept,
       Sweep!OneInFlight, Sweep!SentAsApproved

\* A step that changes neither an execution nor what a version was approved
\* with, and moves the rule's versions only forward, keeps the invariant.
LEMMA RuleMoves ==
  ASSUME SweepsInductive, Sweep!TypeOK', UNCHANGED <<exec, retried>>,
         rule.version <= rule'.version,
         rule'.status = "none" <=> rule'.version = 0,
         rule'.status = "approved" => approval'[rule'.version] = rule'.dest,
         rule'.status = "pending" => rule.status = "pending" \/ rule'.version > rule.version,
         \A v \in Sweep!Versions : approval'[v] = approval[v] \/ (v = rule.version /\ rule.status = "pending")
  PROVE  SweepsInductive'
  <1> USE DEF Sweep!Exists
  <1>1. Sweep!TypeOK /\ Sweep!IntervalKept /\ Sweep!OneInFlight /\ Sweep!SentAsApproved /\ VersionsSound
    BY DEF SweepsInductive, Sweep!SweepsSafe
  <1>2. rule.version \in Nat /\ rule'.version \in Nat
    BY <1>1 DEF Sweep!TypeOK
  <1>3. \A k \in Sweep!Keys : k.version \in Sweep!Versions /\ k.version \in Nat
    BY DEF Sweep!Keys, Sweep!Versions
  <1>4. Sweep!IntervalKept' /\ Sweep!OneInFlight'
    BY <1>1 DEF Sweep!IntervalKept, Sweep!OneInFlight
  <1>5. ASSUME NEW k \in Sweep!Keys, Sweep!Exists(k)'
        PROVE  /\ exec'[k].dest = approval'[k.version]
               /\ k.version <= rule'.version
               /\ rule'.status = "pending" => k.version # rule'.version
    <2>1. Sweep!Exists(k)
      BY <1>5
    <2>2. /\ exec[k].dest = approval[k.version]
          /\ k.version <= rule.version
          /\ rule.status = "pending" => k.version # rule.version
      BY <1>1, <2>1 DEF Sweep!SentAsApproved, VersionsSound
    <2> QED
      BY <1>2, <1>3, <2>2
  <1> QED
    BY <1>4, <1>5 DEF SweepsInductive, Sweep!SweepsSafe, Sweep!SentAsApproved, VersionsSound

\* A step that changes no rule and no execution.
LEMMA RuleStays ==
  ASSUME SweepsInductive, Sweep!TypeOK', UNCHANGED <<rule, approval, exec, retried>>
  PROVE  SweepsInductive'
  BY DEF SweepsInductive, Sweep!SweepsSafe, Sweep!IntervalKept, Sweep!OneInFlight,
     Sweep!SentAsApproved, VersionsSound, Sweep!Exists

LEMMA RuleStepsTyped ==
  ASSUME SweepsInductive,
         \/ \E p \in Phones, type \in Owners : Sweep!create(p, type) \/ Sweep!update(p, type)
         \/ Sweep!disable \/ Sweep!listForAdmin
         \/ Sweep!approve \/ Sweep!reject
  PROVE  Sweep!TypeOK'
  <1> USE TreasuryAssumption DEF Sweep!TypeOK, Sweep!RuleStatuses, Sweep!SweepsAssumption,
          Sweep!workVars, Sweep!execVars, Sweep!fleetVars, Sweep!ruleVars
  <1>0. Sweep!TypeOK /\ VersionsSound
    BY DEF SweepsInductive, Sweep!SweepsSafe
  <1>1. ASSUME NEW p \in Phones, NEW type \in Owners, Sweep!create(p, type) \/ Sweep!update(p, type)
        PROVE  Sweep!TypeOK'
    <2>1. rule.version < MaxVersion
      BY <1>0, <1>1 DEF Sweep!create, Sweep!update, VersionsSound
    <2>2. rule.version + 1 \in 0..MaxVersion
      BY <1>0, <2>1
    <2>3. rule' = [status |-> "pending", enabled |-> TRUE, version |-> rule.version + 1, dest |-> p,
                   type |-> type]
      BY <1>1 DEF Sweep!create, Sweep!update, Sweep!Propose
    <2> QED
      BY <1>0, <1>1, <2>2, <2>3 DEF Sweep!create, Sweep!update
  <1>2. CASE Sweep!disable
    BY <1>0, <1>2 DEF Sweep!disable
  <1>3. CASE Sweep!listForAdmin
    BY <1>0, <1>3 DEF Sweep!listForAdmin
  <1>4. CASE Sweep!approve
    BY <1>0, <1>4 DEF Sweep!approve
  <1>5. CASE Sweep!reject
    BY <1>0, <1>5 DEF Sweep!reject
  <1> QED
    BY <1>1, <1>2, <1>3, <1>4, <1>5

LEMMA RuleStep ==
  ASSUME SweepsInductive,
         \/ \E p \in Phones, type \in Owners : Sweep!create(p, type) \/ Sweep!update(p, type)
         \/ Sweep!disable \/ Sweep!listForAdmin
         \/ Sweep!approve \/ Sweep!reject
  PROVE  SweepsInductive'
  <1>0. Sweep!TypeOK /\ Sweep!TypeOK' /\ VersionsSound
    BY RuleStepsTyped DEF SweepsInductive, Sweep!SweepsSafe
  <1>1. rule.version \in Nat /\ rule.version \in 0..MaxVersion
    BY <1>0, TreasuryAssumption DEF Sweep!TypeOK, Sweep!SweepsAssumption
  <1>2. approval = [v \in Sweep!Versions |-> approval[v]]
    BY <1>0 DEF Sweep!TypeOK
  <1> USE DEF Sweep!execVars, VersionsSound
  <1>3. ASSUME NEW p \in Phones, NEW type \in Owners, Sweep!create(p, type) \/ Sweep!update(p, type)
        PROVE  SweepsInductive'
    <2>1. /\ rule'.status = "pending" /\ rule'.version = rule.version + 1
          /\ UNCHANGED <<exec, retried, approval>>
      BY <1>3 DEF Sweep!create, Sweep!update, Sweep!Propose
    <2> QED
      BY <1>0, <1>1, <2>1, RuleMoves
  <1>4. CASE Sweep!disable
    <2>1. /\ rule'.status = "disabled" /\ rule.status # "none" /\ rule'.version = rule.version
          /\ UNCHANGED <<exec, retried, approval>>
      BY <1>0, <1>4 DEF Sweep!disable, Sweep!TypeOK
    <2> QED
      BY <1>0, <1>1, <2>1, RuleMoves
  <1>5. CASE Sweep!listForAdmin
    BY <1>0, <1>5, RuleStays DEF Sweep!listForAdmin
  <1>6. CASE Sweep!approve
    <2>1. /\ rule'.status = "approved" /\ rule.status = "pending"
          /\ rule'.version = rule.version /\ rule'.dest = rule.dest
          /\ UNCHANGED <<exec, retried>>
      BY <1>0, <1>6 DEF Sweep!approve, Sweep!TypeOK
    <2>2. rule.version \in Sweep!Versions
      BY <1>0, <1>1, <2>1 DEF Sweep!Versions
    <2>3. \A v \in Sweep!Versions : approval'[v] = IF v = rule.version THEN rule.dest ELSE approval[v]
      BY <1>2, <1>6 DEF Sweep!approve
    <2> QED
      BY <1>0, <1>1, <2>1, <2>2, <2>3, RuleMoves
  <1>7. CASE Sweep!reject
    <2>1. /\ rule'.status = "rejected" /\ rule.status = "pending" /\ rule'.version = rule.version
          /\ UNCHANGED <<exec, retried, approval>>
      BY <1>0, <1>7 DEF Sweep!reject, Sweep!TypeOK
    <2> QED
      BY <1>0, <1>1, <2>1, RuleMoves
  <1> QED
    BY <1>3, <1>4, <1>5, <1>6, <1>7

\* A candidate's transaction books its sweep on the version that is approved at
\* that moment, for the destination of that moment, and only if no sweep of the
\* SIM is in flight or recent.
LEMMA CandidateStep ==
  ASSUME SweepsInductive, NEW w \in Evaluators, NEW s \in Sims, Sweep!executeCandidate(w, s)
  PROVE  SweepsInductive'
  <1>0. /\ Sweep!TypeOK /\ Sweep!IntervalKept /\ Sweep!OneInFlight /\ Sweep!SentAsApproved
        /\ VersionsSound
    BY DEF SweepsInductive, Sweep!SweepsSafe
  <1>1. /\ todo' \in [Evaluators -> SUBSET Sims]
        /\ UNCHANGED <<rule, approval, seen, snapshot, retried, ready, allowed, treasury, enrolled,
                       enrolling, approving, now>>
    BY <1>0 DEF Sweep!executeCandidate, Sweep!TypeOK, Sweep!ruleVars, Sweep!fleetVars
  <1>2. CASE exec' = exec
    <2>1. Sweep!TypeOK'
      BY <1>0, <1>1, <1>2 DEF Sweep!TypeOK
    <2> QED
      BY <1>1, <1>2, <2>1, RuleStays
  <1>3. CASE exec' # exec
    <2>1. PICK key : key = Sweep!KeyOf(s)
      OBVIOUS
    <2>2. /\ Sweep!Dispatchable(s)
          /\ exec' = [exec EXCEPT ![key] = [status |-> "active", at |-> now, dest |-> rule.dest]]
      BY <1>3, <2>1 DEF Sweep!executeCandidate
    <2>3. key \in Sweep!Keys /\ key.sim = s /\ key.version = rule.version
      BY <1>0, <1>3, <2>1, <2>2 DEF Sweep!KeyOf, Sweep!TypeOK
    <2>4. \A k \in Sweep!Keys :
            exec'[k] = IF k = key THEN [status |-> "active", at |-> now, dest |-> rule.dest] ELSE exec[k]
      BY <1>0, <2>2 DEF Sweep!TypeOK
    <2>5. Sweep!TypeOK'
      BY <1>0, <1>1, <2>2, <2>3 DEF Sweep!TypeOK, Sweep!ExecStatuses
    <2>6. rule.status = "approved" /\ approval[rule.version] = rule.dest /\ rule.version \in Nat
      BY <1>0, <2>2 DEF Sweep!Dispatchable, VersionsSound, Sweep!TypeOK
    <2>7. \A k \in Sweep!Keys : k.sim = s => ~ Sweep!Recent(k)
      BY <2>2 DEF Sweep!Dispatchable
    <2>8. ASSUME NEW k \in Sweep!Keys, k # key, k.sim = s, exec[k].status # "none"
          PROVE  exec[k].status # "active" /\ now - exec[k].at > Interval
      <3>1. exec[k].at \in Nat /\ now \in Nat /\ Interval \in Nat
        BY <1>0, TreasuryAssumption DEF Sweep!TypeOK, Sweep!SweepsAssumption
      <3> QED
        BY <2>7, <2>8, <3>1 DEF Sweep!Recent
    <2>9. Sweep!IntervalKept'
      BY <1>0, <1>1, <2>3, <2>4, <2>8 DEF Sweep!IntervalKept, Sweep!Exists
    <2>10. Sweep!OneInFlight'
      BY <1>0, <1>1, <2>3, <2>4, <2>8 DEF Sweep!OneInFlight
    <2>11. Sweep!SentAsApproved'
      BY <1>0, <1>1, <2>3, <2>4, <2>6 DEF Sweep!SentAsApproved, Sweep!Exists
    <2>12. VersionsSound'
      BY <1>0, <1>1, <2>3, <2>4, <2>6 DEF VersionsSound, Sweep!Exists
    <2> QED
      BY <2>5, <2>9, <2>10, <2>11, <2>12 DEF SweepsInductive, Sweep!SweepsSafe
  <1> QED
    BY <1>2, <1>3

\* What the transfer does to an execution moves neither its time nor its
\* destination, and only a staff retry puts it in flight again.
LEMMA ExecutionStep ==
  ASSUME SweepsInductive, NEW k \in Sweep!Keys, Sweep!TransferEnds(k) \/ Sweep!retryDeviceJob(k)
  PROVE  SweepsInductive'
  <1>0. /\ Sweep!TypeOK /\ Sweep!IntervalKept /\ Sweep!OneInFlight /\ Sweep!SentAsApproved
        /\ VersionsSound
    BY DEF SweepsInductive, Sweep!SweepsSafe
  <1>1. PICK st \in {"active", "success", "failed"} :
          /\ exec' = [exec EXCEPT ![k].status = st]
          /\ exec[k].status # "none"
          /\ st = "active" => k \in retried'
          /\ retried' = retried \/ retried' = retried \cup {k}
          /\ UNCHANGED <<rule, approval, seen, todo, snapshot, ready, allowed, treasury, enrolled,
                         enrolling, approving, now>>
    BY DEF Sweep!TransferEnds, Sweep!retryDeviceJob, Sweep!SetExec, Sweep!ruleVars, Sweep!workVars,
       Sweep!fleetVars
  <1>2. \A j \in Sweep!Keys :
          /\ exec'[j].at = exec[j].at /\ exec'[j].dest = exec[j].dest
          /\ exec'[j].status = IF j = k THEN st ELSE exec[j].status
    BY <1>0, <1>1 DEF Sweep!TypeOK
  <1>3. Sweep!TypeOK'
    BY <1>0, <1>1 DEF Sweep!TypeOK, Sweep!ExecStatuses
  <1>4. \A j \in Sweep!Keys : Sweep!Exists(j)' <=> Sweep!Exists(j)
    BY <1>1, <1>2 DEF Sweep!Exists
  <1>5. Sweep!IntervalKept'
    BY <1>0, <1>2, <1>4 DEF Sweep!IntervalKept
  <1>6. Sweep!OneInFlight'
    BY <1>0, <1>1, <1>2 DEF Sweep!OneInFlight
  <1>7. Sweep!SentAsApproved' /\ VersionsSound'
    BY <1>0, <1>1, <1>2, <1>4 DEF Sweep!SentAsApproved, VersionsSound
  <1> QED
    BY <1>3, <1>5, <1>6, <1>7 DEF SweepsInductive, Sweep!SweepsSafe

\* Everything else that happens around the rule.
LEMMA SurroundingsStep ==
  ASSUME SweepsInductive,
         \/ \E w \in Evaluators : Sweep!executeRule(w)
         \/ \E p \in Phones : Sweep!Enrolment(p)
         \/ Sweep!PolicyChange
         \/ \E s \in Sims : Sweep!SimChange(s)
         \/ Sweep!Tick
         \/ UNCHANGED sweepVars
  PROVE  SweepsInductive'
  <1> USE DEF Sweep!ruleVars, Sweep!workVars, Sweep!execVars, Sweep!fleetVars
  <1>0. Sweep!TypeOK
    BY DEF SweepsInductive, Sweep!SweepsSafe
  <1>1. UNCHANGED <<rule, approval, exec, retried>>
    BY DEF Sweep!executeRule, Sweep!Enrolment, Sweep!PolicyChange, Sweep!SimChange, Sweep!Tick, sweepVars
  <1>2. ASSUME NEW w \in Evaluators, Sweep!executeRule(w) PROVE Sweep!TypeOK'
    BY <1>0, <1>2 DEF Sweep!executeRule, Sweep!TypeOK
  <1>3. ASSUME NEW p \in Phones, Sweep!Enrolment(p) PROVE Sweep!TypeOK'
    <2>1. CASE Sweep!createDevice(p) /\ UNCHANGED <<approving, treasury>>
      BY <1>0, <1>3, <2>1 DEF Sweep!Enrolment, Sweep!createDevice, Sweep!TypeOK
    <2>2. ASSUME NEW o \in Owners, Sweep!createTreasuryWallet(p, o), UNCHANGED <<enrolling, enrolled>>
          PROVE  Sweep!TypeOK'
      BY <1>0, <1>3, <2>2 DEF Sweep!Enrolment, Sweep!createTreasuryWallet, Sweep!TypeOK
    <2> QED
      BY <1>3, <2>1, <2>2 DEF Sweep!Enrolment
  <1>4. ASSUME Sweep!PolicyChange PROVE Sweep!TypeOK'
    BY <1>0, <1>4 DEF Sweep!PolicyChange, Sweep!TypeOK
  <1>5. ASSUME NEW s \in Sims, Sweep!SimChange(s) PROVE Sweep!TypeOK'
    BY <1>0, <1>5 DEF Sweep!SimChange, Sweep!TypeOK
  <1>6. ASSUME Sweep!Tick PROVE Sweep!TypeOK'
    BY <1>0, <1>6, TreasuryAssumption DEF Sweep!Tick, Sweep!TypeOK, Sweep!SweepsAssumption
  <1>7. ASSUME UNCHANGED sweepVars PROVE Sweep!TypeOK'
    BY <1>0, <1>7 DEF sweepVars, Sweep!TypeOK
  <1> QED
    BY <1>1, <1>2, <1>3, <1>4, <1>5, <1>6, <1>7, RuleStays

LEMMA SweepsStep ==
  ASSUME SweepsInductive, Sweep!Next
  PROVE  SweepsInductive'
  <1>1. ASSUME NEW w \in Evaluators, NEW s \in Sims, Sweep!executeCandidate(w, s)
        PROVE  SweepsInductive'
    BY <1>1, CandidateStep
  <1>2. ASSUME NEW k \in Sweep!Keys, Sweep!TransferEnds(k) \/ Sweep!retryDeviceJob(k)
        PROVE  SweepsInductive'
    BY <1>2, ExecutionStep
  <1> QED
    BY <1>1, <1>2, RuleStep, SurroundingsStep DEF Sweep!Next

\* What an approved rule allows is not exceeded by a worker that acts on an old
\* reading of it: sweeps of one SIM are further apart than the interval, never
\* two in flight unless staff retried one, and every one goes where its version
\* was approved to send it (sweeps.service.ts executeCandidate, approve, update).
THEOREM SweepsAlwaysSafe == TreasurySpec => []SweepsSafe
  <1> DEFINE Inv == OfSweeps => SweepsInductive
  <1>1. TreasuryInit => Inv
    BY SweepsInitially DEF TreasuryInit
  <1>2. Inv /\ [TreasuryNext]_treasuryVars => Inv'
    <2> SUFFICES ASSUME Inv, [TreasuryNext]_treasuryVars, OfSweeps' PROVE SweepsInductive'
      OBVIOUS
    <2>1. OfSweeps /\ SweepsInductive
      BY DEF TreasuryNext, OfSettlements, OfSweeps, treasuryVars
    <2> QED
      BY <2>1, SweepsStep, SurroundingsStep DEF TreasuryNext, OfSettlements, OfSweeps, treasuryVars
  <1>3. Inv => SweepsSafe
    BY DEF SweepsSafe, SweepsInductive
  <1> QED
    BY <1>1, <1>2, <1>3, PTL DEF TreasurySpec

\* The same of the rule by itself, without the run's bound on enrolments under
\* way: any number of createDevice and createTreasuryWallet calls may overlap.
THEOREM RuleAlwaysSafe == Sweep!Spec => []Sweep!SweepsSafe
  <1>1. SweepsInductive /\ [Sweep!Next]_(Sweep!vars) => SweepsInductive'
    <2>1. UNCHANGED Sweep!vars => UNCHANGED sweepVars
      BY DEF Sweep!vars, sweepVars, Sweep!ruleVars, Sweep!workVars, Sweep!execVars, Sweep!fleetVars
    <2> QED
      BY <2>1, SweepsStep, SurroundingsStep
  <1>2. SweepsInductive => Sweep!SweepsSafe
    BY DEF SweepsInductive
  <1> QED
    BY <1>1, <1>2, SweepsInitially, PTL DEF Sweep!Spec

-----------------------------------------------------------------------------
(* Support cases.                                                          *)

\* A status request in flight was legal in the status its author read.
RequestsLegal ==
  \A r \in inFlight :
    r.kind = "status" => r.to = r.seen \/ r.to \in Support!WORKFLOW_TRANSITIONS[r.seen]

CasesInductive == Support!TypeOK /\ RequestsLegal

LEMMA CasesInitially ==
  Support!Init => CasesInductive
  BY BackOfficeAssumption DEF CasesInductive, Support!Init, Support!TypeOK, Support!SupportCasesAssumption,
     RequestsLegal

\* What a request in flight is.
LEMMA RequestFields ==
  ASSUME Support!TypeOK, NEW r \in inFlight
  PROVE  /\ r.case \in Cases /\ r.by \in Authors
         /\ r.kind = "status" => r.by \in Staff /\ r.seen \in Support!Statuses /\ r.to \in Support!Statuses
  BY BackOfficeAssumption DEF Support!TypeOK, Support!SupportCasesAssumption, Support!MessageRequests,
     Support!StatusRequests

LEMMA CasesRest ==
  ASSUME CasesInductive, UNCHANGED supportVars
  PROVE  CasesInductive'
  BY DEF CasesInductive, supportVars, Support!TypeOK, RequestsLegal

\* No step breaks the invariant, and none breaks a rule of the workflow.
LEMMA CasesStep ==
  ASSUME CasesInductive, Support!Next
  PROVE  CasesInductive' /\ Support!FollowsWorkflow /\ Support!SilentIfClosed
  <1> USE DEF CasesInductive, RequestsLegal, Support!TypeOK, Support!FollowsWorkflow, Support!SilentIfClosed
  <1>a. Support!SupportCasesAssumption
    BY BackOfficeAssumption
  <1>1. ASSUME NEW c \in Cases, Support!CreateForMerchant(c)
        PROVE  CasesInductive' /\ Support!FollowsWorkflow /\ Support!SilentIfClosed
    BY <1>a, <1>1 DEF Support!CreateForMerchant, Support!SupportCasesAssumption, Support!Statuses,
       Support!WORKFLOW_TRANSITIONS
  <1>2. ASSUME NEW c \in Cases, NEW a \in Authors, Support!ReadForMessage(c, a)
        PROVE  CasesInductive' /\ Support!FollowsWorkflow /\ Support!SilentIfClosed
    BY <1>2 DEF Support!ReadForMessage, Support!Submit, Support!MessageRequests
  <1>3. ASSUME NEW c \in Cases, NEW a \in Staff, NEW to \in Support!Statuses, Support!ReadForStatus(c, a, to)
        PROVE  CasesInductive' /\ Support!FollowsWorkflow /\ Support!SilentIfClosed
    <2>1. status[c] \in Support!Statuses
      BY <1>3 DEF Support!ReadForStatus
    <2> QED
      BY <1>3, <2>1 DEF Support!ReadForStatus, Support!Submit, Support!StatusRequests
  <1>4. ASSUME NEW r \in inFlight, Support!AddMessage(r)
        PROVE  CasesInductive' /\ Support!FollowsWorkflow /\ Support!SilentIfClosed
    <2>1. r.case \in Cases /\ r.by \in Authors
      BY RequestFields
    <2> QED
      BY <1>a, <1>4, <2>1 DEF Support!AddMessage, Support!ClaimForMessage, Support!SupportCasesAssumption
  <1>5. ASSUME NEW r \in inFlight, Support!ChangeWorkflowStatus(r)
        PROVE  CasesInductive' /\ Support!FollowsWorkflow /\ Support!SilentIfClosed
    <2>1. r.case \in Cases /\ r.by \in Staff /\ r.seen \in Support!Statuses /\ r.to \in Support!Statuses
      BY <1>5, RequestFields DEF Support!ChangeWorkflowStatus
    <2>2. CASE Support!ClaimForStatus(r)
      BY <1>5, <2>1, <2>2 DEF Support!ChangeWorkflowStatus, Support!ClaimForStatus
    <2>3. CASE ~Support!ClaimForStatus(r)
      BY <1>5, <2>1, <2>3 DEF Support!ChangeWorkflowStatus
    <2> QED BY <2>2, <2>3
  <1> QED
    BY <1>1, <1>2, <1>3, <1>4, <1>5 DEF Support!Next

-----------------------------------------------------------------------------
(* Configuration control.  A value comes into force by an approval or by a  *)
(* copy of the defaults, so the invariant also speaks of the values that    *)
(* wait for it: proposals, and what the creation of a group has read.       *)

Rows == [scope : Config!Scopes, version : 1..MaxChanges,
         proposed : Config!FleetValues \cup Config!MerchantValues,
         status : {"pending", "approved", "rejected"}]

ChangesSound ==
  /\ \E n \in 0..MaxChanges : Config!Changes = 1..n
  /\ \A c \in Config!Changes :
       /\ change[c] \in Rows
       /\ change[c].proposed \in Config!ValuesOf(change[c].scope)
       /\ Config!normalizeConfiguration(change[c].scope, change[c].proposed)

\* What a group's creation has read was the defaults in force, perhaps replaced since.
ReadSound ==
  /\ read \in [Groups -> Config!FleetValues \cup {Config!Absent}]
  /\ \A g \in Groups :
       read[g] # Config!Absent =>
         /\ Config!normalizeConfiguration(Platform, read[g])
         /\ read[g] \in Config!ApprovedFor(Platform) \cup {Config!FallbackPolicy}

InForceSound ==
  /\ inForce \in [Config!Scopes -> Config!FleetValues \cup Config!MerchantValues \cup {Config!Absent}]
  /\ \A s \in Config!Scopes :
       /\ inForce[s] \in Config!ValuesOf(s) \cup {Config!Absent}
       /\ inForce[s] # Config!Absent => Config!normalizeConfiguration(s, inForce[s])
       /\ s \notin Groups => inForce[s] # Config!Absent

VersionSound == version \in Nat /\ Config!VersionCountsApprovals

ConfigInductive == ChangesSound /\ InForceSound /\ ReadSound /\ Config!OnlyApprovedInForce /\ VersionSound

LEMMA ConfigConstants ==
  /\ Config!ConfigurationAssumption
  /\ \A s \in Groups : s \in Config!Scopes /\ s \notin Merchants /\ s # Platform
  /\ \A s \in Merchants : s \in Config!Scopes /\ s \notin Groups /\ s # Platform
  /\ Platform \in Config!Scopes /\ Platform \notin Merchants /\ Platform \notin Groups
  BY BackOfficeAssumption DEF Config!ConfigurationAssumption, Config!Scopes

\* Configuration's own instance of FiniteSets counts as FiniteSets does.
LEMMA ConfigCardinality ==
  \A S : Config!Cardinality(S) = Cardinality(S)
  BY DEF Config!Cardinality, Cardinality

\* A value in force is never the mark of a group that does not exist.
LEMMA AbsentIsNoValue ==
  Config!Absent \notin Config!FleetValues \cup Config!MerchantValues
  <1>1. ASSUME NEW v \in Config!FleetValues \cup Config!MerchantValues PROVE v # Config!Absent
    <2>1. "absent" \notin DOMAIN v
      BY <1>1 DEF Config!FleetValues, Config!MerchantValues
    <2>2. "absent" \in DOMAIN Config!Absent
      BY DEF Config!Absent
    <2> QED BY <2>1, <2>2
  <1> QED BY <1>1

LEMMA ChangesFinite ==
  ASSUME ChangesSound
  PROVE  /\ IsFiniteSet(Config!Changes)
         /\ Cardinality(Config!Changes) \in 0..MaxChanges
         /\ Config!Changes = 1..Cardinality(Config!Changes)
  <1>1. PICK n \in 0..MaxChanges : Config!Changes = 1..n
    BY DEF ChangesSound
  <1>2. MaxChanges \in Nat
    BY ConfigConstants DEF Config!ConfigurationAssumption
  <1>3. IsFiniteSet(1..n) /\ Cardinality(1..n) = n
    BY <1>1, <1>2, FS_Interval
  <1> QED BY <1>1, <1>2, <1>3

LEMMA ConfigImpliesSafe ==
  ConfigInductive => Config!ConfigurationSafe
  <1> SUFFICES ASSUME ConfigInductive PROVE Config!ConfigurationSafe
    OBVIOUS
  <1>1. Config!TypeOK
    <2>1. Config!Changes = 1..Config!Cardinality(Config!Changes) /\ Config!Cardinality(Config!Changes) <= MaxChanges
      BY ChangesFinite, ConfigCardinality DEF ConfigInductive
    <2>2. ASSUME NEW c \in Config!Changes
          PROVE  /\ change[c].scope \in Config!Scopes /\ change[c].proposed \in Config!ValuesOf(change[c].scope)
                 /\ change[c].version \in 1..MaxChanges /\ change[c].status \in {"pending", "approved", "rejected"}
      BY DEF ConfigInductive, ChangesSound, Rows
    <2> QED
      BY <2>1, <2>2 DEF ConfigInductive, InForceSound, ReadSound, VersionSound, Config!TypeOK
  <1>2. Config!LimitsSafe
    <2>1. ASSUME NEW s \in {Platform} \cup Groups, inForce[s] # Config!Absent
          PROVE  inForce[s].ceiling > inForce[s].safety + inForce[s].headroom
      BY <2>1, ConfigConstants DEF ConfigInductive, InForceSound, Config!normalizeConfiguration
    <2>2. ASSUME NEW m \in Merchants PROVE inForce[m].minimum <= inForce[m].maximum
      BY ConfigConstants DEF ConfigInductive, InForceSound, Config!normalizeConfiguration
    <2> QED BY <2>1, <2>2 DEF Config!LimitsSafe
  <1> QED
    BY <1>1, <1>2 DEF ConfigInductive, VersionSound, Config!ConfigurationSafe

LEMMA ConfigInitially ==
  Config!Init => ConfigInductive
  <1> SUFFICES ASSUME Config!Init PROVE ConfigInductive
    OBVIOUS
  <1>1. /\ Config!FallbackPolicy \in Config!FleetValues /\ Config!MerchantDefaults \in Config!MerchantValues
        /\ Config!FallbackPolicy.ceiling > Config!FallbackPolicy.safety + Config!FallbackPolicy.headroom
        /\ Config!MerchantDefaults.minimum <= Config!MerchantDefaults.maximum
        /\ Config!MerchantDefaults.tolerance <= Config!MerchantDefaults.maximum
    BY ConfigConstants DEF Config!FallbackPolicy, Config!MerchantDefaults, Config!FleetValues, Config!MerchantValues,
       Config!ConfigurationAssumption
  <1>2. Config!Changes = {}
    BY DEF Config!Init, Config!Changes
  <1>3. ChangesSound
    <2>1. 0 \in 0..MaxChanges /\ Config!Changes = 1..0
      BY <1>2, ConfigConstants DEF Config!ConfigurationAssumption
    <2> QED BY <1>2, <2>1 DEF ChangesSound
  <1>4. \A s \in Config!Scopes :
          inForce[s] = IF s \in Groups THEN Config!Absent
                       ELSE IF s \in Merchants THEN Config!MerchantDefaults ELSE Config!FallbackPolicy
    BY DEF Config!Init
  <1>5. InForceSound
    BY <1>1, <1>4, AbsentIsNoValue, ConfigConstants
    DEF Config!Init, InForceSound, Config!ValuesOf, Config!normalizeConfiguration
  <1>6. ReadSound
    BY DEF Config!Init, ReadSound
  <1>7. Config!OnlyApprovedInForce
    BY <1>4, ConfigConstants DEF Config!OnlyApprovedInForce
  <1>8. VersionSound
    <2>1. {c \in Config!Changes : change[c].scope = Platform /\ change[c].status = "approved"} = {}
      BY <1>2
    <2> QED BY <2>1, FS_EmptySet, ConfigCardinality DEF Config!Init, VersionSound, Config!VersionCountsApprovals
  <1> QED
    BY <1>3, <1>5, <1>6, <1>7, <1>8 DEF ConfigInductive

\* A scope's next version is no higher than the number of changes on file, with one.
LEMMA NextVersionBounded ==
  ASSUME ChangesSound, NEW s
  PROVE  Config!NextVersion(s) \in 1..(Cardinality(Config!Changes) + 1)
  <1> DEFINE Of == {d \in Config!Changes : change[d].scope = s}
             f == [c \in Of |-> change[c].version]
  <1>1. IsFiniteSet(Config!Changes) /\ Cardinality(Config!Changes) \in Nat
    BY ChangesFinite, FS_CardinalityType
  <1>2. IsFiniteSet(Of) /\ Cardinality(Of) <= Cardinality(Config!Changes) /\ Cardinality(Of) \in Nat
    BY <1>1, FS_Subset, FS_CardinalityType
  <1>3. f \in Surjection(Of, Config!VersionsOf(s))
    BY DEF Surjection, Config!VersionsOf
  <1>4. Cardinality(Config!VersionsOf(s)) <= Cardinality(Of) /\ Cardinality(Config!VersionsOf(s)) \in Nat
    <2>1. IsFiniteSet(Config!VersionsOf(s)) /\ Cardinality(Config!VersionsOf(s)) <= Cardinality(Of)
      BY <1>2, <1>3, FS_Surjection
    <2> QED BY <2>1, FS_CardinalityType
  <1> QED
    <2>1. Config!NextVersion(s) = Cardinality(Config!VersionsOf(s)) + 1
      BY ConfigCardinality DEF Config!NextVersion
    <2> QED BY <1>1, <1>2, <1>4, <2>1

\* What was approved stays approved as long as no row is dropped or rewritten.
LEMMA ApprovalsKept ==
  ASSUME NEW s,
         \A c \in Config!Changes :
           /\ c \in Config!Changes' /\ change'[c].scope = change[c].scope
           /\ change'[c].proposed = change[c].proposed
           /\ change[c].status = "approved" => change'[c].status = "approved"
  PROVE  Config!ApprovedFor(s) \subseteq Config!ApprovedFor(s)'
  BY DEF Config!ApprovedFor

LEMMA ProposeStep ==
  ASSUME ConfigInductive, NEW s \in Config!Scopes, NEW v \in Config!ValuesOf(s), Config!propose(s, v)
  PROVE  ConfigInductive'
  <1> DEFINE n == Cardinality(Config!Changes)
  <1>a. ChangesSound
    BY DEF ConfigInductive
  <1>1. /\ n \in 0..MaxChanges /\ n < MaxChanges /\ MaxChanges \in Nat
        /\ Config!Changes = 1..n /\ IsFiniteSet(Config!Changes)
        /\ change' = [c \in Config!Changes \cup {n + 1} |->
                        IF c \in Config!Changes THEN change[c]
                        ELSE [scope |-> s, version |-> Config!NextVersion(s), proposed |-> v, status |-> "pending"]]
        /\ UNCHANGED <<inForce, version, read>>
    BY <1>a, ChangesFinite, ConfigConstants, ConfigCardinality DEF Config!propose, Config!ConfigurationAssumption
  <1>2. Config!NextVersion(s) \in 1..MaxChanges
    BY <1>a, <1>1, NextVersionBounded
  <1>3. /\ Config!Changes' = Config!Changes \cup {n + 1} /\ n + 1 \notin Config!Changes
        /\ \A c \in Config!Changes : change'[c] = change[c]
        /\ change'[n + 1] = [scope |-> s, version |-> Config!NextVersion(s), proposed |-> v, status |-> "pending"]
    BY <1>1 DEF Config!Changes
  <1>4. v \in Config!FleetValues \cup Config!MerchantValues /\ Config!normalizeConfiguration(s, v)
    BY DEF Config!propose, Config!ValuesOf
  <1>5. ChangesSound'
    <2>1. n + 1 \in 0..MaxChanges /\ Config!Changes' = 1..(n + 1)
      BY <1>1, <1>3
    <2>2. \A c \in Config!Changes' :
            /\ change'[c] \in Rows /\ change'[c].proposed \in Config!ValuesOf(change'[c].scope)
            /\ Config!normalizeConfiguration(change'[c].scope, change'[c].proposed)
      BY <1>a, <1>2, <1>3, <1>4 DEF ChangesSound, Rows
    <2> QED BY <2>1, <2>2 DEF ChangesSound, Rows, Config!ValuesOf, Config!normalizeConfiguration
  <1>6. \A p : Config!ApprovedFor(p) \subseteq Config!ApprovedFor(p)'
    BY <1>3, ApprovalsKept
  <1>7. {c \in Config!Changes : change[c].scope = Platform /\ change[c].status = "approved"}'
        = {c \in Config!Changes : change[c].scope = Platform /\ change[c].status = "approved"}
    BY <1>3
  <1>8. InForceSound'
    BY <1>1 DEF ConfigInductive, InForceSound, Config!normalizeConfiguration
  <1>9. ReadSound'
    BY <1>1, <1>6 DEF ConfigInductive, ReadSound, Config!normalizeConfiguration
  <1>10. Config!OnlyApprovedInForce'
    BY <1>1, <1>6 DEF ConfigInductive, Config!OnlyApprovedInForce
  <1>11. VersionSound'
    BY <1>1, <1>7 DEF ConfigInductive, VersionSound, Config!VersionCountsApprovals
  <1> QED
    BY <1>5, <1>8, <1>9, <1>10, <1>11 DEF ConfigInductive

\* A decision rewrites the status of one pending row.
LEMMA DecisionKeepsRows ==
  ASSUME ConfigInductive, NEW c \in Config!Changes, Config!Pending(c),
         NEW new \in {"approved", "rejected"}, change' = [change EXCEPT ![c].status = new]
  PROVE  /\ ChangesSound' /\ Config!Changes' = Config!Changes
         /\ \A x \in Config!Changes : /\ change'[x].scope = change[x].scope /\ change'[x].proposed = change[x].proposed
                                      /\ change'[x].status = IF x = c THEN new ELSE change[x].status
         /\ \A p : Config!ApprovedFor(p) \subseteq Config!ApprovedFor(p)'
  <1>a. ChangesSound
    BY DEF ConfigInductive
  <1>1. Config!Changes' = Config!Changes
    BY DEF Config!Changes
  <1>2. change[c] \in Rows /\ change'[c] = [change[c] EXCEPT !.status = new]
        /\ \A x \in Config!Changes \ {c} : change'[x] = change[x]
    BY <1>a DEF ChangesSound, Config!Changes
  <1>3. change'[c] \in Rows /\ change'[c].scope = change[c].scope /\ change'[c].proposed = change[c].proposed
        /\ change'[c].status = new
    BY <1>2 DEF Rows
  <1>4. \A x \in Config!Changes : /\ change'[x].scope = change[x].scope /\ change'[x].proposed = change[x].proposed
                                  /\ change'[x].status = IF x = c THEN new ELSE change[x].status
    BY <1>2, <1>3
  <1>5. ChangesSound'
    <2>1. \A x \in Config!Changes :
            /\ change'[x] \in Rows /\ change'[x].proposed \in Config!ValuesOf(change'[x].scope)
            /\ Config!normalizeConfiguration(change'[x].scope, change'[x].proposed)
      BY <1>a, <1>2, <1>3, <1>4 DEF ChangesSound
    <2> QED BY <1>a, <1>1, <2>1 DEF ChangesSound, Rows, Config!ValuesOf, Config!normalizeConfiguration
  <1>6. \A p : Config!ApprovedFor(p) \subseteq Config!ApprovedFor(p)'
    <2>1. \A x \in Config!Changes : change[x].status = "approved" => change'[x].status = "approved"
      BY <1>4 DEF Config!Pending
    <2> QED BY <1>1, <1>4, <2>1, ApprovalsKept
  <1> QED
    BY <1>1, <1>4, <1>5, <1>6

LEMMA ApproveStep ==
  ASSUME ConfigInductive, NEW c \in Config!Changes, Config!approve(c)
  PROVE  ConfigInductive'
  <1>0. PICK s, v : s = change[c].scope /\ v = change[c].proposed
    OBVIOUS
  <1> DEFINE Of == {x \in Config!Changes : change[x].scope = Platform /\ change[x].status = "approved"}
  <1>1. /\ Config!Pending(c) /\ change' = [change EXCEPT ![c].status = "approved"]
        /\ inForce' = [inForce EXCEPT ![s] = v]
        /\ version' = (IF s = Platform THEN version + 1 ELSE version) /\ read' = read
    BY <1>0 DEF Config!approve, Config!apply
  <1>2. /\ ChangesSound' /\ Config!Changes' = Config!Changes
        /\ \A x \in Config!Changes : /\ change'[x].scope = change[x].scope /\ change'[x].proposed = change[x].proposed
                                     /\ change'[x].status = IF x = c THEN "approved" ELSE change[x].status
        /\ \A p : Config!ApprovedFor(p) \subseteq Config!ApprovedFor(p)'
    BY <1>1, DecisionKeepsRows
  <1>3. /\ s \in Config!Scopes /\ v \in Config!ValuesOf(s) /\ Config!normalizeConfiguration(s, v)
        /\ v \in Config!FleetValues \cup Config!MerchantValues /\ v # Config!Absent
    BY <1>0, AbsentIsNoValue DEF ConfigInductive, ChangesSound, Rows
  <1>4. DOMAIN inForce = Config!Scopes /\ inForce'[s] = v /\ \A p \in Config!Scopes \ {s} : inForce'[p] = inForce[p]
    BY <1>1, <1>3 DEF ConfigInductive, InForceSound
  <1>5. InForceSound'
    <2>1. inForce' \in [Config!Scopes -> Config!FleetValues \cup Config!MerchantValues \cup {Config!Absent}]
      BY <1>1, <1>3 DEF ConfigInductive, InForceSound
    <2>2. \A p \in Config!Scopes :
            /\ inForce'[p] \in Config!ValuesOf(p) \cup {Config!Absent}
            /\ inForce'[p] # Config!Absent => Config!normalizeConfiguration(p, inForce'[p])
            /\ p \notin Groups => inForce'[p] # Config!Absent
      BY <1>3, <1>4 DEF ConfigInductive, InForceSound
    <2> QED BY <2>1, <2>2 DEF InForceSound, Config!normalizeConfiguration
  <1>6. ReadSound'
    BY <1>1, <1>2 DEF ConfigInductive, ReadSound, Config!normalizeConfiguration
  <1>7. v \in Config!ApprovedFor(s)'
    BY <1>0, <1>2 DEF Config!ApprovedFor
  <1>8. Config!OnlyApprovedInForce'
    <2>1. ASSUME NEW p \in Config!Scopes
          PROVE  \/ inForce'[p] = inForce[p]
                 \/ inForce'[p] \in Config!ApprovedFor(p)'
      BY <1>4, <1>7
    <2> QED
      BY <1>2, <2>1, ConfigConstants DEF ConfigInductive, Config!OnlyApprovedInForce
  <1>9. VersionSound'
    <2>1. IsFiniteSet(Of) /\ Cardinality(Of) \in Nat
      <3>1. IsFiniteSet(Config!Changes)
        BY ChangesFinite DEF ConfigInductive
      <3> QED BY <3>1, FS_Subset, FS_CardinalityType
    <2>2. c \notin Of
      BY <1>1 DEF Config!Pending
    <2>3. Of' = IF s = Platform THEN Of \cup {c} ELSE Of
      BY <1>0, <1>2
    <2>4. Cardinality(Of') = IF s = Platform THEN Cardinality(Of) + 1 ELSE Cardinality(Of)
      BY <2>1, <2>2, <2>3, FS_AddElement
    <2>5. version \in Nat /\ version = Cardinality(Of)
      BY ConfigCardinality DEF ConfigInductive, VersionSound, Config!VersionCountsApprovals
    <2>6. version' \in Nat /\ version' = Cardinality(Of')
      BY <1>1, <2>1, <2>4, <2>5
    <2> QED BY <2>6, ConfigCardinality DEF VersionSound, Config!VersionCountsApprovals
  <1> QED
    BY <1>2, <1>5, <1>6, <1>8, <1>9 DEF ConfigInductive

LEMMA RejectStep ==
  ASSUME ConfigInductive, NEW c \in Config!Changes, Config!reject(c)
  PROVE  ConfigInductive'
  <1>1. /\ Config!Pending(c) /\ change' = [change EXCEPT ![c].status = "rejected"]
        /\ UNCHANGED <<inForce, version, read>>
    BY DEF Config!reject
  <1>2. /\ ChangesSound' /\ Config!Changes' = Config!Changes
        /\ \A x \in Config!Changes : /\ change'[x].scope = change[x].scope /\ change'[x].proposed = change[x].proposed
                                     /\ change'[x].status = IF x = c THEN "rejected" ELSE change[x].status
        /\ \A p : Config!ApprovedFor(p) \subseteq Config!ApprovedFor(p)'
    BY <1>1, DecisionKeepsRows
  <1>3. InForceSound' /\ ReadSound' /\ Config!OnlyApprovedInForce'
    BY <1>1, <1>2 DEF ConfigInductive, InForceSound, ReadSound, Config!OnlyApprovedInForce,
       Config!normalizeConfiguration
  <1>4. {x \in Config!Changes : change[x].scope = Platform /\ change[x].status = "approved"}'
        = {x \in Config!Changes : change[x].scope = Platform /\ change[x].status = "approved"}
    BY <1>1, <1>2 DEF Config!Pending
  <1>5. VersionSound'
    BY <1>1, <1>4 DEF ConfigInductive, VersionSound, Config!VersionCountsApprovals
  <1> QED
    BY <1>2, <1>3, <1>5 DEF ConfigInductive

\* The creation of a group copies a value that is in force, or was when it was read.
LEMMA CreationStep ==
  ASSUME ConfigInductive, NEW g \in Groups, Config!loadPlatformPolicy(g) \/ Config!createGroup(g)
  PROVE  ConfigInductive'
  <1>a. UNCHANGED <<change, version>>
    BY DEF Config!loadPlatformPolicy, Config!createGroup
  <1>b. Config!Changes' = Config!Changes /\ \A p : Config!ApprovedFor(p)' = Config!ApprovedFor(p)
    BY <1>a DEF Config!Changes, Config!ApprovedFor
  <1>1. ChangesSound' /\ VersionSound'
    BY <1>a, <1>b DEF ConfigInductive, ChangesSound, VersionSound, Config!VersionCountsApprovals, Rows,
       Config!ValuesOf, Config!normalizeConfiguration
  <1>2. g \in Config!Scopes /\ g \notin Merchants /\ g # Platform /\ Platform \in Config!Scopes /\ Platform \notin Merchants
    BY ConfigConstants
  <1>3. CASE Config!loadPlatformPolicy(g)
    <2>1. read' = [read EXCEPT ![g] = inForce[Platform]] /\ inForce' = inForce
      BY <1>3 DEF Config!loadPlatformPolicy
    <2>2. /\ inForce[Platform] \in Config!FleetValues \cup {Config!Absent}
          /\ inForce[Platform] # Config!Absent => Config!normalizeConfiguration(Platform, inForce[Platform])
          /\ inForce[Platform] \in Config!ApprovedFor(Platform) \cup {Config!FallbackPolicy}
      BY <1>2 DEF ConfigInductive, InForceSound, Config!OnlyApprovedInForce, Config!ValuesOf
    <2>3. ReadSound'
      BY <1>b, <2>1, <2>2 DEF ConfigInductive, ReadSound, Config!normalizeConfiguration
    <2>4. InForceSound' /\ Config!OnlyApprovedInForce'
      BY <1>b, <2>1 DEF ConfigInductive, InForceSound, Config!OnlyApprovedInForce, Config!normalizeConfiguration
    <2> QED BY <1>1, <2>3, <2>4 DEF ConfigInductive
  <1>4. CASE Config!createGroup(g)
    <2>1. inForce' = [inForce EXCEPT ![g] = read[g]] /\ read' = read /\ read[g] # Config!Absent
      BY <1>4 DEF Config!createGroup
    <2>2. /\ read[g] \in Config!FleetValues /\ Config!normalizeConfiguration(g, read[g])
          /\ read[g] \in Config!ApprovedFor(Platform) \cup {Config!FallbackPolicy}
      BY <1>2, <2>1 DEF ConfigInductive, ReadSound, Config!normalizeConfiguration
    <2>3. inForce'[g] = read[g] /\ \A p \in Config!Scopes \ {g} : inForce'[p] = inForce[p]
      BY <1>2, <2>1 DEF ConfigInductive, InForceSound
    <2>4. InForceSound'
      <3>1. inForce' \in [Config!Scopes -> Config!FleetValues \cup Config!MerchantValues \cup {Config!Absent}]
        BY <1>2, <2>1, <2>2 DEF ConfigInductive, InForceSound
      <3>2. \A p \in Config!Scopes :
              /\ inForce'[p] \in Config!ValuesOf(p) \cup {Config!Absent}
              /\ inForce'[p] # Config!Absent => Config!normalizeConfiguration(p, inForce'[p])
              /\ p \notin Groups => inForce'[p] # Config!Absent
        BY <1>2, <2>2, <2>3 DEF ConfigInductive, InForceSound, Config!ValuesOf
      <3> QED BY <3>1, <3>2 DEF InForceSound, Config!normalizeConfiguration
    <2>5. Config!OnlyApprovedInForce'
      BY <1>b, <2>2, <2>3, ConfigConstants DEF ConfigInductive, Config!OnlyApprovedInForce
    <2>6. ReadSound'
      BY <1>b, <2>1 DEF ConfigInductive, ReadSound, Config!normalizeConfiguration
    <2> QED BY <1>1, <2>4, <2>5, <2>6 DEF ConfigInductive
  <1> QED BY <1>3, <1>4

LEMMA ConfigRest ==
  ASSUME ConfigInductive, UNCHANGED configVars
  PROVE  ConfigInductive'
  <1>1. UNCHANGED <<change, inForce, version, read>>
    BY DEF configVars
  <1>2. Config!Changes' = Config!Changes /\ \A p : Config!ApprovedFor(p)' = Config!ApprovedFor(p)
    BY <1>1 DEF Config!Changes, Config!ApprovedFor
  <1>3. ChangesSound' /\ VersionSound'
    BY <1>1, <1>2 DEF ConfigInductive, ChangesSound, VersionSound, Config!VersionCountsApprovals, Rows,
       Config!ValuesOf, Config!normalizeConfiguration
  <1>4. InForceSound' /\ ReadSound' /\ Config!OnlyApprovedInForce'
    BY <1>1, <1>2 DEF ConfigInductive, InForceSound, ReadSound, Config!OnlyApprovedInForce,
       Config!normalizeConfiguration
  <1> QED
    BY <1>3, <1>4 DEF ConfigInductive

LEMMA ConfigStep_KeepsInvariant ==
  ASSUME ConfigInductive, Config!Next
  PROVE  ConfigInductive'
  BY ProposeStep, ApproveStep, RejectStep, CreationStep DEF Config!Next


-----------------------------------------------------------------------------
(* The alert engine.  A message may be repeated once for each fault: the     *)
(* sends made, the calls that may still send and the attempt a new claim     *)
(* may still start are together at most one more than the faults.            *)

\* The type invariant but for the lists of candidates, which no other part needs.
RowTypes ==
  /\ alert \in [Alerts -> [key : Keys, status : {"none", "open", "acknowledged", "resolved"}]]
  /\ delivery \in [Alerts -> [status : {"none", "pending", "processing", "failed", "delivered"}, attempt : 0..MaxAttempts,
                              token : 0..MaxAttempts, expired : BOOLEAN, due : BOOLEAN]]
  /\ worker \in [Workers -> [phase : {"idle", "claimed", "sending", "ok", "error"}, alert : 0..MaxAlerts, token : 0..MaxAttempts]]
  /\ old \subseteq Alerts
  /\ sent \in [Alerts -> Nat] /\ faults \in [Alerts -> Nat]

ListsTyped == listed \in [Workers -> SUBSET Alerts]

\* Workers whose call about an alert has not been taken by Telegram as theirs.
Calling(a) == {w \in Workers : worker[w].alert = a /\ worker[w].phase \in {"claimed", "sending", "error"}}

AttemptLeft(a) ==
  IF delivery[a].status \in {"none", "pending", "failed"} \/ delivery[a].expired THEN 1 ELSE 0

Budget(a) == sent[a] + Cardinality(Calling(a)) + AttemptLeft(a) <= 1 + faults[a]

WorkersSound ==
  \A w \in Workers :
    worker[w].phase # "idle" => worker[w].alert \in Alerts /\ (worker[w].phase = "ok" => sent[worker[w].alert] > 0)

\* What was not raised was not delivered either.
Unraised == \A a \in Alerts : alert[a].status = "none" => delivery[a].status = "none"

AlertsInductive == RowTypes /\ DeliveredWasSent /\ WorkersSound /\ Unraised /\ \A a \in Alerts : Budget(a)

LEMMA CallingFinite ==
  \A a : IsFiniteSet(Calling(a)) /\ Cardinality(Calling(a)) \in Nat
  BY AlertsAssumption, FS_Subset, FS_CardinalityType DEF Calling

\* The calls about an alert after one worker has moved.
LEMMA CallingMoves ==
  ASSUME NEW w \in Workers, \A x \in Workers \ {w} : worker'[x] = worker[x]
  PROVE  \A a :
           /\ Calling(a)' = IF worker'[w].alert = a /\ worker'[w].phase \in {"claimed", "sending", "error"}
                            THEN Calling(a) \cup {w} ELSE Calling(a) \ {w}
           /\ Cardinality(Calling(a)') =
                Cardinality(Calling(a))
                - (IF worker[w].alert = a /\ worker[w].phase \in {"claimed", "sending", "error"} THEN 1 ELSE 0)
                + (IF worker'[w].alert = a /\ worker'[w].phase \in {"claimed", "sending", "error"} THEN 1 ELSE 0)
  <1> TAKE a
  <1> DEFINE after == worker'[w].alert = a /\ worker'[w].phase \in {"claimed", "sending", "error"}
             before == worker[w].alert = a /\ worker[w].phase \in {"claimed", "sending", "error"}
  <1>1. Calling(a)' = IF after THEN Calling(a) \cup {w} ELSE Calling(a) \ {w}
    BY DEF Calling
  <1>2. w \in Calling(a) <=> before
    BY DEF Calling
  <1>3. IsFiniteSet(Calling(a)) /\ Cardinality(Calling(a)) \in Nat
    BY CallingFinite
  <1>4. /\ Cardinality(Calling(a) \cup {w}) = IF w \in Calling(a) THEN Cardinality(Calling(a)) ELSE Cardinality(Calling(a)) + 1
        /\ Cardinality(Calling(a) \ {w}) = IF w \in Calling(a) THEN Cardinality(Calling(a)) - 1 ELSE Cardinality(Calling(a))
    BY <1>3, FS_AddElement, FS_RemoveElement
  <1>5. Cardinality(Calling(a)') = Cardinality(Calling(a)) - (IF before THEN 1 ELSE 0) + (IF after THEN 1 ELSE 0)
    <2>1. CASE after
      BY <1>1, <1>2, <1>3, <1>4, <2>1
    <2>2. CASE ~after
      BY <1>1, <1>2, <1>3, <1>4, <2>2
    <2> QED BY <2>1, <2>2
  <1> QED
    BY <1>1, <1>5

LEMMA AlertsInitially ==
  Init => AlertsInductive
  <1> SUFFICES ASSUME Init PROVE AlertsInductive
    OBVIOUS
  <1>1. RowTypes
    BY AlertsAssumption DEF Init, RowTypes, Idle
  <1>2. DeliveredWasSent /\ WorkersSound /\ Unraised
    BY DEF Init, DeliveredWasSent, WorkersSound, Unraised, Idle
  <1>3. ASSUME NEW a \in Alerts PROVE Budget(a)
    <2>1. Calling(a) = {}
      BY DEF Init, Calling, Idle
    <2>2. Cardinality(Calling(a)) = 0
      BY <2>1, FS_EmptySet
    <2> QED BY <2>2 DEF Init, Budget, AttemptLeft
  <1> QED
    BY <1>1, <1>2, <1>3 DEF AlertsInductive

\* An incident, its delivery and a worker, typed.
LEMMA AlertTypes ==
  ASSUME RowTypes
  PROVE  /\ \A a \in Alerts :
              /\ delivery[a] \in [status : {"none", "pending", "processing", "failed", "delivered"}, attempt : 0..MaxAttempts,
                                  token : 0..MaxAttempts, expired : BOOLEAN, due : BOOLEAN]
              /\ AttemptLeft(a) \in {0, 1}
              /\ sent[a] \in Nat /\ faults[a] \in Nat /\ Cardinality(Calling(a)) \in Nat
         /\ DOMAIN delivery = Alerts /\ DOMAIN sent = Alerts /\ DOMAIN faults = Alerts /\ DOMAIN worker = Workers
  BY CallingFinite DEF RowTypes, AttemptLeft

\* A step that leaves one alert's delivery, sends and faults as they were.
LEMMA BudgetUntouched ==
  ASSUME NEW a \in Alerts, Budget(a),
         delivery'[a] = delivery[a], sent'[a] = sent[a], faults'[a] = faults[a],
         Cardinality(Calling(a)') = Cardinality(Calling(a))
  PROVE  Budget(a)'
  BY DEF Budget, AttemptLeft

\* Steps of incidents and of time leave the workers alone; those that change a
\* delivery leave its attempt to a new claim, or are a fault.
LEMMA DeliveryStep ==
  ASSUME AlertsInductive, NEW a \in Alerts, NEW row,
         row \in [status : {"pending", "processing", "failed"}, attempt : 0..MaxAttempts,
                  token : 0..MaxAttempts, expired : BOOLEAN, due : BOOLEAN],
         delivery' = [delivery EXCEPT ![a] = row],
         delivery[a].status # "delivered", alert'[a].status # "none",
         \A x \in Alerts \ {a} : alert'[x] = alert[x],
         alert' \in [Alerts -> [key : Keys, status : {"none", "open", "acknowledged", "resolved"}]],
         \/ row.expired /\ faults' = [faults EXCEPT ![a] = @ + 1]
         \/ faults' = faults /\ AttemptLeft(a) = 1,
         UNCHANGED <<worker, old, sent>>
  PROVE  AlertsInductive' /\ \A b \in Alerts : delivery[b].status = "delivered" => delivery'[b].status = "delivered"
  <1>a. RowTypes /\ DeliveredWasSent /\ WorkersSound /\ Unraised /\ \A b \in Alerts : Budget(b)
    BY DEF AlertsInductive
  <1>b. \A b : Cardinality(Calling(b)') = Cardinality(Calling(b))
    BY DEF Calling
  <1>1. delivery'[a] = row /\ \A b \in Alerts \ {a} : delivery'[b] = delivery[b] /\ faults'[b] = faults[b]
    BY <1>a, AlertTypes
  <1>2. AttemptLeft(a)' \in {0, 1} /\ faults'[a] \in Nat /\ AttemptLeft(a)' + faults[a] <= AttemptLeft(a) + faults'[a]
    BY <1>a, <1>1, AlertTypes DEF AttemptLeft
  <1>3. Budget(a)'
    <2>1. sent'[a] = sent[a] /\ Cardinality(Calling(a)') = Cardinality(Calling(a))
      BY <1>b
    <2> QED BY <1>a, <1>2, <2>1, AlertTypes DEF Budget
  <1>4. \A b \in Alerts : Budget(b)'
    BY <1>a, <1>b, <1>1, <1>3, BudgetUntouched
  <1>5. RowTypes'
    <2>1. delivery' \in [Alerts -> [status : {"none", "pending", "processing", "failed", "delivered"}, attempt : 0..MaxAttempts,
                                   token : 0..MaxAttempts, expired : BOOLEAN, due : BOOLEAN]]
      BY <1>a DEF RowTypes
    <2>2. faults' \in [Alerts -> Nat]
      BY <1>a DEF RowTypes
    <2> QED BY <1>a, <2>1, <2>2 DEF RowTypes
  <1>6. DeliveredWasSent' /\ WorkersSound' /\ Unraised'
    BY <1>a, <1>1 DEF DeliveredWasSent, WorkersSound, Unraised
  <1> QED
    BY <1>1, <1>4, <1>5, <1>6 DEF AlertsInductive

LEMMA IncidentStep ==
  ASSUME AlertsInductive, NEW a \in Alerts,
         \/ notify(a) \/ acknowledge(a) \/ resolve(a)
         \/ leaseExpires(a) \/ nextAttemptAt(a) \/ Age(a)
  PROVE  AlertsInductive' /\ \A b \in Alerts : delivery[b].status = "delivered" => delivery'[b].status = "delivered"
  <1>a. RowTypes /\ DeliveredWasSent /\ WorkersSound /\ Unraised /\ \A b \in Alerts : Budget(b)
    BY DEF AlertsInductive
  <1>1. ASSUME UNCHANGED <<delivery, worker, sent, faults>>, old' \subseteq Alerts,
               alert' \in [Alerts -> [key : Keys, status : {"none", "open", "acknowledged", "resolved"}]],
               \A x \in Alerts : alert[x].status # "none" => alert'[x].status # "none"
        PROVE  AlertsInductive' /\ \A b \in Alerts : delivery[b].status = "delivered" => delivery'[b].status = "delivered"
    <2>1. RowTypes'
      BY ONLY <1>a, <1>1 DEF RowTypes
    <2>2. \A b \in Alerts : Budget(b)'
      <3>1. \A b : Cardinality(Calling(b)') = Cardinality(Calling(b))
        BY <1>1 DEF Calling
      <3> QED BY <1>a, <1>1, <3>1, BudgetUntouched
    <2>3. DeliveredWasSent' /\ WorkersSound' /\ Unraised'
      BY <1>a, <1>1 DEF DeliveredWasSent, WorkersSound, Unraised, RowTypes
    <2> QED BY <1>1, <2>1, <2>2, <2>3 DEF AlertsInductive
  <1>2. ASSUME NEW new \in {"open", "acknowledged", "resolved"}, alert' = [alert EXCEPT ![a].status = new]
        PROVE  /\ alert' \in [Alerts -> [key : Keys, status : {"none", "open", "acknowledged", "resolved"}]]
               /\ alert'[a].status = new /\ \A x \in Alerts \ {a} : alert'[x] = alert[x]
    <2>1. alert' = [alert EXCEPT ![a] = [@ EXCEPT !.status = new]]
      BY <1>2
    <2>2. alert[a] \in [key : Keys, status : {"none", "open", "acknowledged", "resolved"}]
      BY <1>a DEF RowTypes
    <2> QED BY <1>a, <2>1, <2>2 DEF RowTypes
  <1>3. ASSUME acknowledge(a) \/ resolve(a)
        PROVE  AlertsInductive' /\ \A b \in Alerts : delivery[b].status = "delivered" => delivery'[b].status = "delivered"
    <2>1. PICK new \in {"acknowledged", "resolved"} : alert' = [alert EXCEPT ![a].status = new]
      BY <1>3 DEF acknowledge, resolve, transition
    <2>2. UNCHANGED <<delivery, worker, old, sent, faults>>
      BY <1>3 DEF acknowledge, resolve, transition
    <2> QED BY <1>a, <1>1, <1>2, <2>1, <2>2 DEF RowTypes
  <1>4. ASSUME Age(a)
        PROVE  AlertsInductive' /\ \A b \in Alerts : delivery[b].status = "delivered" => delivery'[b].status = "delivered"
    BY <1>a, <1>1, <1>4 DEF Age, RowTypes
  <1>5. ASSUME notify(a)
        PROVE  AlertsInductive' /\ \A b \in Alerts : delivery[b].status = "delivered" => delivery'[b].status = "delivered"
    <2>1. alert' = [alert EXCEPT ![a].status = "open"] /\ UNCHANGED <<worker, old, sent, faults>>
          /\ delivery[a].status = "none"
      BY <1>a, <1>5 DEF notify, Unraised
    <2>2. CASE delivery' = delivery
      BY <1>a, <1>1, <1>2, <2>1, <2>2 DEF RowTypes
    <2>3. CASE delivery' = [delivery EXCEPT ![a].status = "pending", ![a].due = TRUE]
      <3> DEFINE row == [delivery[a] EXCEPT !.status = "pending", !.due = TRUE]
      <3>1. delivery' = [delivery EXCEPT ![a] = row]
        BY <1>a, <2>3, AlertTypes
      <3>2. row \in [status : {"pending", "processing", "failed"}, attempt : 0..MaxAttempts,
                     token : 0..MaxAttempts, expired : BOOLEAN, due : BOOLEAN]
        BY <1>a, AlertTypes
      <3>3. AttemptLeft(a) = 1
        BY <2>1 DEF AttemptLeft
      <3> HIDE DEF row
      <3> QED BY <1>2, <2>1, <3>1, <3>2, <3>3, DeliveryStep
    <2> QED BY <1>5, <2>2, <2>3 DEF notify
  <1>6. ASSUME leaseExpires(a)
        PROVE  AlertsInductive' /\ \A b \in Alerts : delivery[b].status = "delivered" => delivery'[b].status = "delivered"
    <2> DEFINE row == [delivery[a] EXCEPT !.expired = TRUE]
    <2>1. delivery' = [delivery EXCEPT ![a] = row] /\ faults' = [faults EXCEPT ![a] = @ + 1]
          /\ UNCHANGED <<alert, worker, old, sent>> /\ delivery[a].status = "processing"
      BY <1>6 DEF leaseExpires
    <2>2. row \in [status : {"pending", "processing", "failed"}, attempt : 0..MaxAttempts,
                   token : 0..MaxAttempts, expired : BOOLEAN, due : BOOLEAN] /\ row.expired
      BY <1>a, <2>1, AlertTypes
    <2>3. alert'[a].status # "none" /\ alert' = alert
          /\ alert' \in [Alerts -> [key : Keys, status : {"none", "open", "acknowledged", "resolved"}]]
      BY <1>a, <2>1 DEF Unraised, RowTypes
    <2> HIDE DEF row
    <2> QED BY <2>1, <2>2, <2>3, DeliveryStep
  <1>7. ASSUME nextAttemptAt(a)
        PROVE  AlertsInductive' /\ \A b \in Alerts : delivery[b].status = "delivered" => delivery'[b].status = "delivered"
    <2> DEFINE row == [delivery[a] EXCEPT !.due = TRUE]
    <2>1. delivery' = [delivery EXCEPT ![a] = row] /\ UNCHANGED <<alert, worker, old, sent, faults>>
          /\ delivery[a].status = "failed"
      BY <1>7 DEF nextAttemptAt
    <2>2. row \in [status : {"pending", "processing", "failed"}, attempt : 0..MaxAttempts,
                   token : 0..MaxAttempts, expired : BOOLEAN, due : BOOLEAN]
      BY <1>a, <2>1, AlertTypes
    <2>3. alert'[a].status # "none" /\ alert' = alert /\ AttemptLeft(a) = 1
          /\ alert' \in [Alerts -> [key : Keys, status : {"none", "open", "acknowledged", "resolved"}]]
      BY <1>a, <2>1 DEF Unraised, RowTypes, AttemptLeft
    <2> HIDE DEF row
    <2> QED BY <2>1, <2>2, <2>3, DeliveryStep
  <1> QED
    BY <1>3, <1>4, <1>5, <1>6, <1>7

\* A worker that only moves on with its call: it never starts another one.
LEMMA CallStep ==
  ASSUME AlertsInductive, NEW w \in Workers, NEW row,
         row \in [phase : {"idle", "claimed", "sending", "ok", "error"}, alert : 0..MaxAlerts, token : 0..MaxAttempts],
         worker' = [worker EXCEPT ![w] = row],
         \/ row.phase = "idle"
         \/ row.alert = worker[w].alert /\ worker[w].phase \in {"claimed", "sending", "error"},
         row.phase # "ok",
         UNCHANGED <<alert, delivery, old, sent, faults>>
  PROVE  AlertsInductive'
  <1>a. RowTypes /\ DeliveredWasSent /\ WorkersSound /\ Unraised /\ \A b \in Alerts : Budget(b)
    BY DEF AlertsInductive
  <1>1. worker'[w] = row /\ \A x \in Workers \ {w} : worker'[x] = worker[x]
    BY <1>a, AlertTypes
  <1>2. RowTypes'
    <2>1. worker' \in [Workers -> [phase : {"idle", "claimed", "sending", "ok", "error"}, alert : 0..MaxAlerts, token : 0..MaxAttempts]]
      BY <1>a DEF RowTypes
    <2> QED BY <1>a, <2>1 DEF RowTypes
  <1>3. ASSUME NEW b \in Alerts PROVE Budget(b)'
    <2>1. Cardinality(Calling(b)') <= Cardinality(Calling(b)) /\ Cardinality(Calling(b)') \in Nat
      <3>1. Cardinality(Calling(b)') =
              Cardinality(Calling(b))
              - (IF worker[w].alert = b /\ worker[w].phase \in {"claimed", "sending", "error"} THEN 1 ELSE 0)
              + (IF row.alert = b /\ row.phase \in {"claimed", "sending", "error"} THEN 1 ELSE 0)
        BY <1>1, CallingMoves
      <3>2. Cardinality(Calling(b)) \in Nat
        BY CallingFinite
      <3>3. Calling(b)' = {x \in Workers : worker'[x].alert = b /\ worker'[x].phase \in {"claimed", "sending", "error"}}
        BY DEF Calling
      <3>4. Cardinality(Calling(b)') \in Nat
        BY <3>3, AlertsAssumption, FS_Subset, FS_CardinalityType
      <3> QED BY <3>1, <3>2, <3>4
    <2>2. AttemptLeft(b)' = AttemptLeft(b) /\ sent'[b] = sent[b] /\ faults'[b] = faults[b]
      BY DEF AttemptLeft
    <2> QED BY <1>a, <2>1, <2>2, AlertTypes DEF Budget
  <1>4. WorkersSound'
    BY <1>a, <1>1 DEF WorkersSound
  <1>5. DeliveredWasSent' /\ Unraised'
    BY <1>a DEF DeliveredWasSent, Unraised
  <1> QED
    BY <1>2, <1>3, <1>4, <1>5 DEF AlertsInductive

\* Steps that only list candidates, or give one up.
LEMMA AlertsRest ==
  ASSUME AlertsInductive, UNCHANGED <<alert, delivery, worker, old, sent, faults>>
  PROVE  AlertsInductive'
  <1>1. UNCHANGED <<alert, delivery, worker, old, sent, faults>>
    OBVIOUS
  <1>2. \A b : Cardinality(Calling(b)') = Cardinality(Calling(b))
    BY <1>1 DEF Calling
  <1>3. \A b \in Alerts : Budget(b)'
    BY <1>1, <1>2, BudgetUntouched DEF AlertsInductive
  <1>4. RowTypes' /\ DeliveredWasSent' /\ WorkersSound' /\ Unraised'
    BY <1>1 DEF AlertsInductive, RowTypes, DeliveredWasSent, WorkersSound, Unraised
  <1> QED
    BY <1>3, <1>4 DEF AlertsInductive

LEMMA ClaimedStep ==
  ASSUME AlertsInductive, NEW w \in Workers, NEW a \in Alerts, claim(w, a),
         Claimable(delivery[a]), delivery[a].attempt < MaxAttempts
  PROVE  AlertsInductive' /\ \A b \in Alerts : delivery[b].status = "delivered" => delivery'[b].status = "delivered"
  <1> DEFINE n == delivery[a].attempt + 1
  <1>a. RowTypes /\ DeliveredWasSent /\ WorkersSound /\ Unraised /\ \A b \in Alerts : Budget(b)
    BY DEF AlertsInductive
  <1>1. /\ worker[w].phase = "idle" /\ Claimable(delivery[a]) /\ delivery[a].attempt < MaxAttempts
        /\ delivery' = [delivery EXCEPT ![a] = [status |-> "processing", attempt |-> n, token |-> n, expired |-> FALSE, due |-> FALSE]]
        /\ worker' = [worker EXCEPT ![w] = [phase |-> "claimed", alert |-> a, token |-> n]]
        /\ UNCHANGED <<alert, old, sent, faults>>
    BY DEF claim
  <1>2. n \in 0..MaxAttempts /\ a \in 0..MaxAlerts
    BY <1>a, <1>1, AlertTypes, AlertsAssumption DEF Alerts
  <1>3. /\ delivery'[a] = [status |-> "processing", attempt |-> n, token |-> n, expired |-> FALSE, due |-> FALSE]
        /\ \A b \in Alerts \ {a} : delivery'[b] = delivery[b]
        /\ worker'[w] = [phase |-> "claimed", alert |-> a, token |-> n]
        /\ \A x \in Workers \ {w} : worker'[x] = worker[x]
    BY <1>a, <1>1, AlertTypes
  <1>4. delivery[a].status \notin {"none", "delivered"} /\ AttemptLeft(a) = 1 /\ AttemptLeft(a)' = 0
    BY <1>1, <1>3 DEF Claimable, AttemptLeft
  <1>5. RowTypes'
    <2>1. delivery' \in [Alerts -> [status : {"none", "pending", "processing", "failed", "delivered"}, attempt : 0..MaxAttempts,
                                   token : 0..MaxAttempts, expired : BOOLEAN, due : BOOLEAN]]
      BY <1>a, <1>1, <1>2 DEF RowTypes
    <2>2. worker' \in [Workers -> [phase : {"idle", "claimed", "sending", "ok", "error"}, alert : 0..MaxAlerts, token : 0..MaxAttempts]]
      BY <1>a, <1>1, <1>2 DEF RowTypes
    <2> QED BY ONLY <1>a, <1>1, <2>1, <2>2 DEF RowTypes
  <1>6. Budget(a)'
    <2>1. Cardinality(Calling(a)') = Cardinality(Calling(a)) + 1
      BY <1>1, <1>3, CallingMoves, CallingFinite
    <2>2. sent'[a] = sent[a] /\ faults'[a] = faults[a]
      BY <1>1
    <2> QED BY <1>a, <1>4, <2>1, <2>2, AlertTypes DEF Budget
  <1>7. ASSUME NEW b \in Alerts \ {a} PROVE Budget(b)'
    <2>1. Cardinality(Calling(b)') = Cardinality(Calling(b))
      BY <1>1, <1>3, CallingMoves, CallingFinite
    <2> QED BY <1>a, <1>1, <1>3, <2>1, BudgetUntouched
  <1>8. DeliveredWasSent' /\ Unraised'
    BY <1>a, <1>1, <1>3, <1>4 DEF DeliveredWasSent, Unraised
  <1>9. WorkersSound'
    BY <1>a, <1>1, <1>3 DEF WorkersSound
  <1> QED
    BY <1>3, <1>4, <1>5, <1>6, <1>7, <1>8, <1>9 DEF AlertsInductive

\* A candidate that another worker claimed meanwhile is left to it.
LEMMA ClaimStep ==
  ASSUME AlertsInductive, NEW w \in Workers, NEW a \in Alerts, claim(w, a)
  PROVE  AlertsInductive' /\ \A b \in Alerts : delivery[b].status = "delivered" => delivery'[b].status = "delivered"
  <1>1. CASE Claimable(delivery[a]) /\ delivery[a].attempt < MaxAttempts
    BY <1>1, ClaimedStep
  <1>2. CASE ~(Claimable(delivery[a]) /\ delivery[a].attempt < MaxAttempts)
    <2>1. UNCHANGED <<alert, delivery, worker, old, sent, faults>>
      BY <1>2 DEF claim
    <2> QED BY <2>1, AlertsRest
  <1> QED
    BY <1>1, <1>2

\* A call that Telegram took and answered has used up the worker's part of the
\* budget; one whose answer was lost is a fault.
LEMMA FetchStep ==
  ASSUME AlertsInductive, NEW w \in Workers, fetch(w)
  PROVE  AlertsInductive' /\ \A b \in Alerts : delivery[b].status = "delivered" => delivery'[b].status = "delivered"
  <1>a. RowTypes /\ DeliveredWasSent /\ WorkersSound /\ Unraised /\ \A b \in Alerts : Budget(b)
    BY DEF AlertsInductive
  <1>0. PICK a \in Alerts : a = worker[w].alert
    BY <1>a DEF fetch, WorkersSound
  <1>1. worker[w].phase = "sending" /\ UNCHANGED <<alert, delivery, old>>
    BY DEF fetch
  <1>t. worker[w] \in [phase : {"idle", "claimed", "sending", "ok", "error"}, alert : 0..MaxAlerts, token : 0..MaxAttempts]
    BY <1>a DEF RowTypes
  <1>2. CASE UNCHANGED <<sent, faults>> /\ worker' = [worker EXCEPT ![w].phase = "error"]
    <2> DEFINE row == [worker[w] EXCEPT !.phase = "error"]
    <2>1. worker' = [worker EXCEPT ![w] = row] /\ row.phase = "error" /\ row.alert = worker[w].alert
          /\ row \in [phase : {"idle", "claimed", "sending", "ok", "error"}, alert : 0..MaxAlerts, token : 0..MaxAttempts]
      BY <1>2, <1>t
    <2> HIDE DEF row
    <2>2. AlertsInductive'
      BY <1>1, <1>2, <2>1, CallStep
    <2> QED BY <1>1, <2>2
  <1>3. ASSUME NEW phase \in {"ok", "error"}, worker' = [worker EXCEPT ![w].phase = phase],
               sent' = [sent EXCEPT ![a] = @ + 1],
               IF phase = "ok" THEN faults' = faults ELSE faults' = [faults EXCEPT ![a] = @ + 1]
        PROVE  AlertsInductive'
    <2>1. /\ worker'[w].phase = phase /\ worker'[w].alert = a
          /\ worker' \in [Workers -> [phase : {"idle", "claimed", "sending", "ok", "error"}, alert : 0..MaxAlerts, token : 0..MaxAttempts]]
          /\ \A x \in Workers \ {w} : worker'[x] = worker[x]
      <3> DEFINE row == [worker[w] EXCEPT !.phase = phase]
      <3>1. worker' = [worker EXCEPT ![w] = row] /\ row.phase = phase /\ row.alert = a
            /\ row \in [phase : {"idle", "claimed", "sending", "ok", "error"}, alert : 0..MaxAlerts, token : 0..MaxAttempts]
        BY <1>0, <1>3, <1>t
      <3> HIDE DEF row
      <3> QED BY <1>a, <3>1 DEF RowTypes
    <2>2. sent' \in [Alerts -> Nat] /\ sent'[a] = sent[a] + 1 /\ \A b \in Alerts \ {a} : sent'[b] = sent[b]
      BY <1>a, <1>3 DEF RowTypes
    <2>3. faults' \in [Alerts -> Nat] /\ faults'[a] = faults[a] + (IF phase = "ok" THEN 0 ELSE 1)
          /\ \A b \in Alerts \ {a} : faults'[b] = faults[b]
      BY <1>a, <1>3 DEF RowTypes
    <2>4. RowTypes'
      BY ONLY <1>a, <1>1, <2>1, <2>2, <2>3 DEF RowTypes
    <2>5. Budget(a)'
      <3>1. Cardinality(Calling(a)') = Cardinality(Calling(a)) - (IF phase = "ok" THEN 1 ELSE 0)
        BY <1>0, <1>1, <1>3, <2>1, CallingMoves, CallingFinite
      <3>2. AttemptLeft(a)' = AttemptLeft(a)
        BY <1>1 DEF AttemptLeft
      <3> QED BY <1>a, <1>3, <2>2, <2>3, <3>1, <3>2, AlertTypes DEF Budget
    <2>6. ASSUME NEW b \in Alerts \ {a} PROVE Budget(b)'
      <3>1. Cardinality(Calling(b)') = Cardinality(Calling(b))
        BY <1>0, <1>1, <2>1, CallingMoves, CallingFinite
      <3> QED BY <1>a, <1>1, <2>2, <2>3, <3>1, BudgetUntouched
    <2>7. \A b \in Alerts : sent[b] \in Nat /\ (sent[b] > 0 => sent'[b] > 0) /\ sent'[a] > 0
      BY <1>a, <2>2, AlertTypes
    <2>8. DeliveredWasSent' /\ Unraised'
      BY <1>a, <1>1, <2>7 DEF DeliveredWasSent, Unraised
    <2>9. WorkersSound'
      BY <1>a, <2>1, <2>7 DEF WorkersSound
    <2> QED BY <2>4, <2>5, <2>6, <2>8, <2>9 DEF AlertsInductive
  <1>4. AlertsInductive'
    BY <1>0, <1>2, <1>3 DEF fetch
  <1> QED
    BY <1>1, <1>4

\* A worker gives its call up.
LEMMA GiveUpStep ==
  ASSUME AlertsInductive, NEW w \in Workers, worker' = [worker EXCEPT ![w] = Idle],
         UNCHANGED <<alert, delivery, old, sent, faults>>
  PROVE  AlertsInductive'
  <1>1. PICK row : row = Idle
    OBVIOUS
  <1>2. /\ row \in [phase : {"idle", "claimed", "sending", "ok", "error"}, alert : 0..MaxAlerts, token : 0..MaxAttempts]
        /\ row.phase = "idle"
    BY <1>1, AlertsAssumption DEF Idle
  <1>3. worker' = [worker EXCEPT ![w] = row] /\ row.phase # "ok"
    BY <1>1, <1>2
  <1> QED
    BY <1>2, <1>3, CallStep

\* deliver goes on with a call or gives it up; a crash gives it up.
LEMMA DeliverOrCrashStep ==
  ASSUME AlertsInductive, NEW w \in Workers, deliver(w) \/ Crash(w)
  PROVE  AlertsInductive' /\ \A b \in Alerts : delivery[b].status = "delivered" => delivery'[b].status = "delivered"
  <1>a. RowTypes
    BY DEF AlertsInductive
  <1>t. worker[w] \in [phase : {"idle", "claimed", "sending", "ok", "error"}, alert : 0..MaxAlerts, token : 0..MaxAttempts]
    BY <1>a DEF RowTypes
  <1>1. UNCHANGED <<alert, delivery, old, sent, faults>>
    BY DEF deliver, Crash
  <1>2. ASSUME worker' = [worker EXCEPT ![w] = Idle] PROVE AlertsInductive'
    BY <1>1, <1>2, GiveUpStep
  <1>3. ASSUME worker[w].phase = "claimed", worker' = [worker EXCEPT ![w] = [@ EXCEPT !.phase = "sending"]]
        PROVE  AlertsInductive'
    <2> DEFINE row == [worker[w] EXCEPT !.phase = "sending"]
    <2>1. worker' = [worker EXCEPT ![w] = row] /\ row.phase = "sending" /\ row.alert = worker[w].alert
          /\ row \in [phase : {"idle", "claimed", "sending", "ok", "error"}, alert : 0..MaxAlerts, token : 0..MaxAttempts]
      BY <1>3, <1>t
    <2> HIDE DEF row
    <2> QED BY <1>1, <1>3, <2>1, CallStep
  <1>4. CASE Crash(w)
    BY <1>1, <1>2, <1>4 DEF Crash
  <1>5. CASE deliver(w)
    <2>1. CASE Holds(w)
      BY <1>1, <1>3, <1>5, <2>1 DEF deliver
    <2>2. CASE ~Holds(w)
      BY <1>1, <1>2, <1>5, <2>2 DEF deliver
    <2> QED BY <2>1, <2>2
  <1> QED
    BY <1>4, <1>5

\* A worker records the outcome only of a delivery that is still leased to it, so
\* a delivery another worker completed stays as it is.
LEMMA RecordStep ==
  ASSUME AlertsInductive, NEW w \in Workers, deliverRecords(w) \/ failDelivery(w)
  PROVE  AlertsInductive' /\ \A b \in Alerts : delivery[b].status = "delivered" => delivery'[b].status = "delivered"
  <1>a. RowTypes /\ DeliveredWasSent /\ WorkersSound /\ Unraised /\ \A b \in Alerts : Budget(b)
    BY DEF AlertsInductive
  <1>t. Idle \in [phase : {"idle", "claimed", "sending", "ok", "error"}, alert : 0..MaxAlerts, token : 0..MaxAttempts]
        /\ Idle.phase = "idle"
    BY AlertsAssumption DEF Idle
  <1>0. PICK new \in {"delivered", "failed"} :
          Recorded(w, IF new = "delivered" THEN "ok" ELSE "error", new)
    BY DEF deliverRecords, failDelivery
  <1>1. /\ worker[w].phase = (IF new = "delivered" THEN "ok" ELSE "error")
        /\ worker' = [worker EXCEPT ![w] = Idle] /\ UNCHANGED <<alert, old, sent, faults>>
    BY <1>0 DEF Recorded
  <1>2. CASE ~Holds(w)
    <2>1. delivery' = delivery
      BY <1>0, <1>2 DEF Recorded
    <2>2. AlertsInductive'
      BY <1>1, <2>1, GiveUpStep
    <2> QED BY <2>1, <2>2
  <1>3. CASE Holds(w)
    <2>0. PICK a \in Alerts : a = worker[w].alert /\ (new = "delivered" => sent[a] > 0)
      BY <1>a, <1>1 DEF WorkersSound
    <2> DEFINE row == [delivery[a] EXCEPT !.status = new, !.token = 0, !.expired = FALSE]
    <2>1. delivery' = [delivery EXCEPT ![a].status = new, ![a].token = 0, ![a].expired = FALSE]
          /\ delivery[a].status = "processing"
      BY <1>0, <1>3, <2>0 DEF Recorded, Holds
    <2>2. /\ delivery' = [delivery EXCEPT ![a] = row] /\ row.status = new /\ row.expired = FALSE
          /\ row \in [status : {"none", "pending", "processing", "failed", "delivered"}, attempt : 0..MaxAttempts,
                      token : 0..MaxAttempts, expired : BOOLEAN, due : BOOLEAN]
      <3>1. /\ delivery[a] \in [status : {"none", "pending", "processing", "failed", "delivered"}, attempt : 0..MaxAttempts,
                                token : 0..MaxAttempts, expired : BOOLEAN, due : BOOLEAN]
            /\ 0 \in 0..MaxAttempts /\ DOMAIN delivery = Alerts
        BY <1>a, AlertTypes, AlertsAssumption
      <3>2. delivery' = [delivery EXCEPT ![a] = row]
        BY <2>1, <3>1
      <3>3. /\ row.status = new /\ row.expired = FALSE
            /\ row \in [status : {"none", "pending", "processing", "failed", "delivered"}, attempt : 0..MaxAttempts,
                        token : 0..MaxAttempts, expired : BOOLEAN, due : BOOLEAN]
        BY <3>1
      <3> QED BY <3>2, <3>3
    <2> HIDE DEF row
    <2>3. /\ delivery'[a] = row /\ \A b \in Alerts \ {a} : delivery'[b] = delivery[b]
          /\ worker'[w] = Idle /\ \A x \in Workers \ {w} : worker'[x] = worker[x]
      BY <1>a, <1>1, <2>2, AlertTypes
    <2>4. RowTypes'
      <3>1. delivery' \in [Alerts -> [status : {"none", "pending", "processing", "failed", "delivered"}, attempt : 0..MaxAttempts,
                                     token : 0..MaxAttempts, expired : BOOLEAN, due : BOOLEAN]]
        BY <1>a, <2>2 DEF RowTypes
      <3>2. worker' \in [Workers -> [phase : {"idle", "claimed", "sending", "ok", "error"}, alert : 0..MaxAlerts, token : 0..MaxAttempts]]
        BY <1>a, <1>1, <1>t DEF RowTypes
      <3> QED BY ONLY <1>a, <1>1, <3>1, <3>2 DEF RowTypes
    <2>5. Budget(a)'
      <3>1. Cardinality(Calling(a)') = Cardinality(Calling(a)) - (IF new = "failed" THEN 1 ELSE 0)
        BY <1>1, <1>t, <2>0, <2>3, CallingMoves, CallingFinite
      <3>2. AttemptLeft(a)' = IF new = "failed" THEN 1 ELSE 0
        BY <2>2, <2>3 DEF AttemptLeft
      <3> QED BY <1>a, <1>1, <3>1, <3>2, AlertTypes DEF Budget
    <2>6. ASSUME NEW b \in Alerts \ {a} PROVE Budget(b)'
      <3>1. Cardinality(Calling(b)') = Cardinality(Calling(b))
        BY <1>t, <2>0, <2>3, CallingMoves, CallingFinite
      <3> QED BY <1>a, <1>1, <2>3, <3>1, BudgetUntouched
    <2>7. DeliveredWasSent' /\ WorkersSound'
      BY <1>a, <1>1, <1>t, <2>0, <2>2, <2>3 DEF DeliveredWasSent, WorkersSound
    <2>8. Unraised'
      BY <1>a, <1>1, <2>1, <2>3 DEF Unraised
    <2> QED BY <2>1, <2>3, <2>4, <2>5, <2>6, <2>7, <2>8 DEF AlertsInductive
  <1> QED
    BY <1>2, <1>3

LEMMA AlertsStep ==
  ASSUME AlertsInductive, Next
  PROVE  AlertsInductive' /\ \A b \in Alerts : delivery[b].status = "delivered" => delivery'[b].status = "delivered"
  <1>1. ASSUME NEW w \in Workers, list(w)
        PROVE  AlertsInductive' /\ delivery' = delivery
    BY <1>1, AlertsRest DEF list
  <1> QED
    BY <1>1, IncidentStep, DeliverOrCrashStep, FetchStep, RecordStep, ClaimStep DEF Next

\* A list is made of alerts, and shrinks until it is made again.
LEMMA ListsStep ==
  ASSUME ListsTyped, [Next]_vars
  PROVE  ListsTyped'
  <1>1. ASSUME NEW w \in Workers, NEW new \in SUBSET Alerts, listed' = [listed EXCEPT ![w] = new]
        PROVE  ListsTyped'
    BY <1>1 DEF ListsTyped
  <1>2. ASSUME listed' = listed PROVE ListsTyped'
    BY <1>2 DEF ListsTyped
  <1>3. ASSUME NEW w \in Workers, list(w) \/ Crash(w) PROVE ListsTyped'
    BY <1>1, <1>3 DEF list, Crash
  <1>4. ASSUME NEW w \in Workers, NEW a \in Alerts, claim(w, a) PROVE ListsTyped'
    <2>1. listed' = [listed EXCEPT ![w] = listed[w] \ {a}] /\ listed[w] \ {a} \in SUBSET Alerts
      BY <1>4 DEF claim, ListsTyped
    <2> QED BY <1>1, <2>1
  <1>5. ASSUME NEW a \in Alerts, \/ notify(a) \/ acknowledge(a) \/ resolve(a)
                                \/ leaseExpires(a) \/ nextAttemptAt(a) \/ Age(a)
        PROVE  ListsTyped'
    BY <1>2, <1>5 DEF notify, acknowledge, resolve, transition, leaseExpires, nextAttemptAt, Age
  <1>6. ASSUME NEW w \in Workers, deliver(w) \/ fetch(w) \/ deliverRecords(w) \/ failDelivery(w) PROVE ListsTyped'
    BY <1>2, <1>6 DEF deliver, fetch, deliverRecords, failDelivery, Recorded
  <1> QED
    BY <1>2, <1>3, <1>4, <1>5, <1>6 DEF Next, vars

\* The bound the run calls NoNeedlessRepeat is what the budget leaves.
LEMMA AlertsImplySound ==
  AlertsInductive /\ ListsTyped => TypeOK /\ DeliveredWasSent /\ NoNeedlessRepeat
  BY AlertTypes DEF AlertsInductive, ListsTyped, RowTypes, TypeOK, Budget, NoNeedlessRepeat

-----------------------------------------------------------------------------
(* The back office.                                                         *)

Inductive == CasesInductive /\ ConfigInductive /\ AlertsInductive /\ ListsTyped

LEMMA BackOfficeInitially ==
  BackOfficeInit => Inductive
  BY CasesInitially, ConfigInitially, AlertsInitially DEF BackOfficeInit, Init, ListsTyped, Inductive

LEMMA BackOfficeStep ==
  ASSUME Inductive, [BackOfficeNext]_allVars
  PROVE  /\ Inductive'
         /\ Next \/ UNCHANGED vars
         /\ Support!Next \/ UNCHANGED supportVars
         /\ Config!Next \/ UNCHANGED configVars
  <1>1. /\ Next \/ UNCHANGED vars
        /\ Support!Next \/ UNCHANGED supportVars
        /\ Config!Next \/ UNCHANGED configVars
    BY DEF BackOfficeNext, AlertStep, SupportStep, ConfigStep, allVars
  <1> QED
    BY <1>1, AlertsStep, AlertsRest, ListsStep, CasesStep, CasesRest, ConfigStep_KeepsInvariant, ConfigRest
    DEF Inductive, vars

\* The limits in force keep the ceiling above safety balance and headroom, every
\* value in force was approved or is what applied before any approval, and the
\* version of the defaults counts the approvals (configuration.service.ts approve,
\* fleet createGroup), for any number of scopes, changes and amounts.
THEOREM ConfigurationAlwaysSafe == BackOfficeSpec => []ConfigurationSafe
  <1>1. Inductive /\ [BackOfficeNext]_allVars => Inductive'
    BY BackOfficeStep
  <1>2. Inductive => ConfigurationSafe
    BY ConfigImpliesSafe DEF Inductive, ConfigurationSafe
  <1> QED
    BY <1>1, <1>2, BackOfficeInitially, PTL DEF BackOfficeSpec

\* Decisions taken on old readings of a case never add up to a change the workflow
\* forbids, and nothing is said on a closed case (support-cases.service.ts
\* updateStatus, addMessage), for any number of cases, authors and requests.
THEOREM CaseRulesAlwaysKept == BackOfficeSpec => CaseRulesKept
  <1>1. Inductive /\ [BackOfficeNext]_allVars => Inductive'
    BY BackOfficeStep
  <1>2. Inductive => Support!TypeOK
    BY DEF Inductive, CasesInductive
  <1>3. Inductive /\ [BackOfficeNext]_allVars => [Support!FollowsWorkflow]_(Support!vars)
    BY BackOfficeStep, CasesStep DEF Inductive, supportVars, Support!vars
  <1>4. Inductive /\ [BackOfficeNext]_allVars => [Support!SilentIfClosed]_(Support!vars)
    BY BackOfficeStep, CasesStep DEF Inductive, supportVars, Support!vars
  <1> QED
    BY <1>1, <1>2, <1>3, <1>4, BackOfficeInitially, PTL
    DEF BackOfficeSpec, CaseRulesKept, Support!CaseRulesKept, Support!WorkflowKept, Support!ClosedSilent

\* An alert shown as delivered was accepted by Telegram and stays delivered, and a
\* message is repeated only as often as a lease expired or an answer was lost
\* (alerts.service.ts dispatchPending, deliver, failDelivery), for any number of
\* incidents, workers and attempts.
THEOREM AlertsAlwaysSound == BackOfficeSpec => AlertsSound
  <1>1. Inductive /\ [BackOfficeNext]_allVars => Inductive'
    BY BackOfficeStep
  <1>2. Inductive => TypeOK /\ DeliveredWasSent /\ NoNeedlessRepeat
    BY AlertsImplySound DEF Inductive
  <1>3. Inductive /\ [BackOfficeNext]_allVars =>
          [\A a \in Alerts : delivery[a].status = "delivered" => delivery'[a].status = "delivered"]_vars
    BY BackOfficeStep, AlertsStep DEF Inductive
  <1> QED
    BY <1>1, <1>2, <1>3, BackOfficeInitially, PTL DEF BackOfficeSpec, AlertsSound, DeliveredStays

-----------------------------------------------------------------------------
(* Balance queries.                                                          *)

SpoolEvents == [kind : {"device_started", "succeeded", "failed", "sms"}, job : Jobs, fence : 0..MaxFence,
                live : SUBSET Jobs, known : SUBSET Jobs]

QueryRows == [state : States, fence : 0..MaxFence, lease : {"none", "running", "over"}]

\* The job with the handset's lock is the only one that is leased or started.
OnlyActiveRuns == \A j \in Jobs : job[j].state \in {"leased", "device_started"} => active = j

\* A handset knows only jobs that were created.
RecordsCreated == \A j \in Jobs : record[j].status # "none" => job[j].state # "none"

\* A report in the spool s is of a job that exists, and when an SMS was received
\* the job of every report before it, and every job that has started, existed.
SpoolSound(s) ==
  /\ s \in Seq(SpoolEvents)
  /\ \A i \in DOMAIN s : s[i].kind # "sms" => job[s[i].job].state # "none"
  /\ \A i \in DOMAIN s : s[i].kind = "sms" =>
       /\ \A k \in DOMAIN s : k < i /\ s[k].kind # "sms" => s[k].job \in s[i].known
       /\ Started \subseteq s[i].known

RefreshInv ==
  /\ RefreshTypes /\ OnlyActiveRuns /\ RecordsCreated /\ SpoolSound(spool) /\ sim # "quarantined"

LEMMA RefreshConstants == MaxJobs \in Nat /\ MaxFence \in Nat /\ 0 \notin Jobs /\ Jobs \subseteq 0..MaxJobs /\ IsFiniteSet(Jobs)
  <1>1. MaxJobs \in Nat /\ MaxFence \in Nat
    BY BalanceRefreshAssumption
  <1>2. IsFiniteSet(Jobs)
    BY <1>1, FS_Interval DEF Jobs
  <1> QED BY <1>1, <1>2 DEF Jobs

LEMMA JobTypes ==
  ASSUME RefreshTypes
  PROVE  /\ job \in [Jobs -> QueryRows] /\ \A j \in Jobs : job[j] \in QueryRows
         /\ \A j \in Jobs : job[j].state \in States /\ job[j].fence \in 0..MaxFence /\ job[j].lease \in {"none", "running", "over"}
  BY DEF RefreshTypes, QueryRows

LEMMA SpoolRead ==
  ASSUME NEW s \in Seq(SpoolEvents)
  PROVE  /\ DOMAIN s = 1..Len(s) /\ Len(s) \in Nat
         /\ \A i \in DOMAIN s : s[i] \in SpoolEvents /\ s[i].job \in Jobs /\ s[i].known \subseteq Jobs
                                /\ s[i].kind \in {"device_started", "succeeded", "failed", "sms"}
  <1>1. DOMAIN s = 1..Len(s) /\ Len(s) \in Nat /\ \A i \in DOMAIN s : s[i] \in SpoolEvents
    OBVIOUS
  <1> QED BY <1>1 DEF SpoolEvents

\* A step of the backend starts no job and forgets none.
LEMMA BackendKeeps ==
  ASSUME RefreshInv, job' \in [Jobs -> QueryRows], fence' \in 0..MaxFence, active' \in 0..MaxJobs, checked' \subseteq {"cron", "staff"},
         sim' \in {"active", "payout_stale"}, UNCHANGED <<record, highest, pin, lease, answers, spool>>,
         OnlyActiveRuns',
         \A j \in Jobs : job[j].state # "none" => job'[j].state # "none",
         \A j \in Jobs : job'[j].state = "device_started" => job[j].state = "device_started"
  PROVE  RefreshInv'
  <1>1. RefreshTypes'
    BY DEF RefreshInv, RefreshTypes, QueryRows
  <1>2. RecordsCreated'
    BY DEF RefreshInv, RecordsCreated
  <1>3. Started' \subseteq Started
    BY DEF Started
  <1>4. SpoolSound(spool)'
    <2>1. spool \in Seq(SpoolEvents) /\ \A i \in DOMAIN spool : spool[i].job \in Jobs
      BY SpoolRead DEF RefreshInv, SpoolSound
    <2> QED BY <1>3, <2>1 DEF RefreshInv, SpoolSound
  <1> QED BY <1>1, <1>2, <1>4 DEF RefreshInv

LEMMA QueueingKeeps ==
  ASSUME RefreshInv, queueStaleBalanceQueries \/ queueBalance \/ updateHealth \/ \E j \in Jobs : retryDeviceJob(j)
  PROVE  RefreshInv'
  <1>1. /\ RefreshTypes /\ job \in [Jobs -> QueryRows] /\ OnlyActiveRuns /\ sim \in {"active", "payout_stale"}
        /\ fence \in 0..MaxFence /\ active \in 0..MaxJobs /\ checked \subseteq {"cron", "staff"}
        /\ MaxFence \in Nat
    BY JobTypes, RefreshConstants DEF RefreshInv, RefreshTypes
  <1>2. ASSUME NEW j \in Jobs, fence < MaxFence, fence' = fence + 1,
               job' = [job EXCEPT ![j] = [state |-> "queued", fence |-> fence + 1, lease |-> "none"]],
               checked' \subseteq checked, UNCHANGED <<sim, active, record, highest, pin, lease, answers, spool>>
        PROVE  RefreshInv'
    <2>1. fence + 1 \in 0..MaxFence
      BY <1>1, <1>2
    <2>2. [state |-> "queued", fence |-> fence + 1, lease |-> "none"] \in QueryRows
      BY <2>1 DEF QueryRows, States, Live
    <2>3. job' \in [Jobs -> QueryRows]
      BY <1>1, <1>2, <2>2
    <2>4. \A k \in Jobs : job'[k].state = IF k = j THEN "queued" ELSE job[k].state
      BY <1>1, <1>2
    <2>5. OnlyActiveRuns'
      BY <1>1, <1>2, <2>4 DEF OnlyActiveRuns
    <2> QED BY <1>1, <1>2, <2>1, <2>3, <2>4, <2>5, BackendKeeps
  <1>3. ASSUME NEW who \in {"cron", "staff"}, Check(who)
        PROVE  RefreshInv'
    <2>1. /\ checked' \subseteq {"cron", "staff"}
          /\ UNCHANGED <<sim, job, fence, active, record, highest, pin, lease, answers, spool>>
      BY <1>1, <1>3 DEF Check, handset
    <2>2. OnlyActiveRuns'
      BY <1>1, <2>1 DEF OnlyActiveRuns
    <2> QED BY <1>1, <2>1, <2>2, BackendKeeps
  <1>4. ASSUME NEW who \in {"cron", "staff"}, Queue(who)
        PROVE  RefreshInv'
    BY <1>2, <1>4 DEF Queue, handset
  <1>5. CASE updateHealth
    <2>1. sim' = "payout_stale" /\ UNCHANGED <<job, fence, active, checked, record, highest, pin, lease, answers, spool>>
      BY <1>5 DEF updateHealth, handset
    <2>2. OnlyActiveRuns'
      BY <1>1, <2>1 DEF OnlyActiveRuns
    <2> QED BY <1>1, <2>1, <2>2, BackendKeeps
  <1>6. ASSUME NEW j \in Jobs, retryDeviceJob(j)
        PROVE  RefreshInv'
    BY <1>2, <1>6 DEF retryDeviceJob, handset
  <1> QED BY <1>3, <1>4, <1>5, <1>6 DEF queueStaleBalanceQueries, queueBalance

LEMMA LeaseKeeps ==
  ASSUME RefreshInv, leaseNext \/ \E j \in Jobs : expireFinancialJobs(j) \/ backendLeaseExpires(j)
  PROVE  RefreshInv'
  <1>1. /\ RefreshTypes /\ job \in [Jobs -> QueryRows] /\ OnlyActiveRuns /\ sim \in {"active", "payout_stale"}
        /\ fence \in 0..MaxFence /\ active \in 0..MaxJobs /\ checked \subseteq {"cron", "staff"}
        /\ MaxFence \in Nat /\ MaxJobs \in Nat /\ Jobs \subseteq 0..MaxJobs /\ 0 \notin Jobs
    BY JobTypes, RefreshConstants DEF RefreshInv, RefreshTypes
  <1>2. ASSUME NEW jobs \in [Jobs -> QueryRows], NEW j \in Jobs, Take(j, jobs), fence' \in 0..MaxFence,
               \A k \in Jobs : jobs[k].state \notin {"leased", "device_started"},
               \A k \in Jobs : job[k].state # "none" => jobs[k].state # "none",
               UNCHANGED <<sim, checked, record, highest, pin, lease, answers, spool>>
        PROVE  RefreshInv'
    <2>1. jobs[j].state = "queued" /\ job' = [jobs EXCEPT ![j].state = "leased", ![j].lease = "running"] /\ active' = j
      BY <1>2 DEF Take
    <2>2. PICK r : r = [[jobs[j] EXCEPT !.state = "leased"] EXCEPT !.lease = "running"]
      OBVIOUS
    <2>3. jobs[j] \in QueryRows
      BY <1>2
    <2>4. r \in QueryRows /\ r.state = "leased"
      BY <2>2, <2>3 DEF QueryRows, States, Live
    <2>5. job' = [jobs EXCEPT ![j] = r]
      BY <1>2, <2>1, <2>2
    <2>6. job' \in [Jobs -> QueryRows] /\ \A k \in Jobs : job'[k].state = IF k = j THEN "leased" ELSE jobs[k].state
      BY <1>2, <2>4, <2>5
    <2>7. OnlyActiveRuns'
      BY <1>2, <2>1, <2>6 DEF OnlyActiveRuns
    <2>8. active' \in 0..MaxJobs
      BY <1>1, <2>1
    <2> QED BY <1>1, <1>2, <2>6, <2>7, <2>8, BackendKeeps
  <1>3. CASE leaseNext
    <2>1. UNCHANGED <<sim, checked, record, highest, pin, lease, answers, spool>>
      BY <1>3 DEF leaseNext, handset
    <2>2. CASE active = 0
      <3>1. \A k \in Jobs : job[k].state \notin {"leased", "device_started"}
        BY <1>1, <2>2 DEF OnlyActiveRuns
      <3>2. fence' = fence /\ \E j \in Jobs : Take(j, job)
        BY <1>3, <2>2 DEF leaseNext
      <3> QED BY <1>1, <1>2, <2>1, <3>1, <3>2
    <2>3. CASE active # 0
      <3>1. active \in Jobs
        BY <1>1, <2>3 DEF Jobs
      <3>2. PICK jobs : jobs = [job EXCEPT ![active] = [state |-> "queued", fence |-> fence + 1, lease |-> "none"]]
        OBVIOUS
      <3>3. /\ fence < MaxFence /\ fence' = fence + 1
            /\ (\E j \in Jobs : Take(j, jobs)) \/ (job' = jobs /\ active' = 0)
        BY <1>3, <2>3, <3>2 DEF leaseNext
      <3>4. fence' \in 0..MaxFence
        BY <1>1, <3>3
      <3>5. [state |-> "queued", fence |-> fence + 1, lease |-> "none"] \in QueryRows
        BY <3>3, <3>4 DEF QueryRows, States, Live
      <3>6. jobs \in [Jobs -> QueryRows] /\ \A k \in Jobs : jobs[k].state = IF k = active THEN "queued" ELSE job[k].state
        BY <1>1, <3>1, <3>2, <3>5
      <3>7. \A k \in Jobs : jobs[k].state \notin {"leased", "device_started"}
        BY <1>1, <3>6 DEF OnlyActiveRuns
      <3>8. \A k \in Jobs : job[k].state # "none" => jobs[k].state # "none"
        BY <3>6
      <3>9. CASE job' = jobs /\ active' = 0
        <4>1. OnlyActiveRuns'
          BY <3>7, <3>9 DEF OnlyActiveRuns
        <4>2. active' \in 0..MaxJobs
          BY <1>1, <3>9
        <4> QED BY <1>1, <2>1, <3>4, <3>6, <3>7, <3>8, <3>9, <4>1, <4>2, BackendKeeps
      <3> QED BY <1>2, <2>1, <3>3, <3>4, <3>6, <3>7, <3>8, <3>9
    <2> QED BY <2>2, <2>3
  <1>4. ASSUME NEW j \in Jobs, expireFinancialJobs(j)
        PROVE  RefreshInv'
    <2>1. /\ job' = [job EXCEPT ![j].state = "failed"] /\ active' = IF active = j THEN 0 ELSE active
          /\ UNCHANGED <<sim, fence, checked, record, highest, pin, lease, answers, spool>>
      BY <1>4 DEF expireFinancialJobs, Fail, handset
    <2>2. job' \in [Jobs -> QueryRows] /\ \A k \in Jobs : job'[k].state = IF k = j THEN "failed" ELSE job[k].state
      BY <1>1, <2>1 DEF QueryRows, States, Live
    <2>3. OnlyActiveRuns'
      BY <1>1, <2>1, <2>2 DEF OnlyActiveRuns
    <2>4. active' \in 0..MaxJobs
      BY <1>1, <2>1
    <2> QED BY <1>1, <2>1, <2>2, <2>3, <2>4, BackendKeeps
  <1>5. ASSUME NEW j \in Jobs, backendLeaseExpires(j)
        PROVE  RefreshInv'
    <2>1. /\ job' = [job EXCEPT ![j].lease = "over"]
          /\ UNCHANGED <<sim, fence, active, checked, record, highest, pin, lease, answers, spool>>
      BY <1>5 DEF backendLeaseExpires, handset
    <2>2. job' \in [Jobs -> QueryRows] /\ \A k \in Jobs : job'[k].state = job[k].state
      BY <1>1, <2>1 DEF QueryRows
    <2>3. OnlyActiveRuns'
      BY <1>1, <2>1, <2>2 DEF OnlyActiveRuns
    <2> QED BY <1>1, <2>1, <2>2, <2>3, BackendKeeps
  <1> QED BY <1>3, <1>4, <1>5

-----------------------------------------------------------------------------

LEMMA AppendSound ==
  ASSUME RefreshTypes, NEW s, SpoolSound(s), NEW e \in SpoolEvents,
         e.kind # "sms" => job[e.job].state # "none",
         e.kind = "sms" => e.known = Created
  PROVE  SpoolSound(Append(s, e))
  <1>1. PICK n \in Nat : n = Len(s)
    BY DEF SpoolSound
  <1>2. PICK z : z = Append(s, e)
    OBVIOUS
  <1>3. /\ z \in Seq(SpoolEvents) /\ DOMAIN z = 1..(n + 1) /\ z[n + 1] = e
        /\ DOMAIN s = 1..n /\ \A i \in 1..n : z[i] = s[i]
    BY <1>1, <1>2 DEF SpoolSound
  <1>4. Started \subseteq Created
    BY DEF Started, Created
  <1>5. \A i \in 1..n : s[i].job \in Jobs
    BY <1>3, SpoolRead DEF SpoolSound
  <1>6. ASSUME NEW i \in DOMAIN z, z[i].kind # "sms"
        PROVE  job[z[i].job].state # "none"
    BY <1>3, <1>6 DEF SpoolSound
  <1>7. ASSUME NEW i \in DOMAIN z, z[i].kind = "sms", NEW k \in DOMAIN z, k < i, z[k].kind # "sms"
        PROVE  z[k].job \in z[i].known
    <2>1. k \in 1..n /\ z[k] = s[k]
      BY <1>3, <1>7
    <2>2. CASE i = n + 1
      <3>1. job[s[k].job].state # "none"
        BY <1>3, <1>7, <2>1 DEF SpoolSound
      <3> QED BY <1>3, <1>5, <1>7, <2>1, <2>2, <3>1 DEF Created
    <2>3. CASE i # n + 1
      <3>1. i \in 1..n /\ z[i] = s[i]
        BY <1>3, <2>3
      <3> QED BY <1>3, <1>7, <2>1, <3>1 DEF SpoolSound
    <2> QED BY <2>2, <2>3
  <1>8. ASSUME NEW i \in DOMAIN z, z[i].kind = "sms"
        PROVE  Started \subseteq z[i].known
    BY <1>3, <1>4, <1>8 DEF SpoolSound
  <1> QED BY <1>2, <1>3, <1>6, <1>7, <1>8 DEF SpoolSound

\* A step of the handset, which may know one more leased job.
LEMMA HandsetKeeps ==
  ASSUME RefreshInv, UNCHANGED <<sim, job, fence, active, checked>>, highest' \in 0..MaxFence, pin' \in BOOLEAN, lease' \in BOOLEAN,
         answers' \subseteq Jobs,
         record' \in [Jobs -> [status : {"none", "accepted", "device_started", "succeeded", "failed"}, fence : 0..MaxFence]],
         \A j \in Jobs : record'[j].status # "none" => job[j].state # "none",
         SpoolSound(spool')
  PROVE  RefreshInv'
  <1>1. spool' \in Seq(SpoolEvents) /\ \A i \in DOMAIN spool' : spool'[i].kind \in {"device_started", "succeeded", "failed", "sms"} /\ spool'[i].job \in Jobs
    BY SpoolRead DEF SpoolSound
  <1>2. RefreshTypes'
    BY <1>1 DEF RefreshInv, RefreshTypes
  <1>3. OnlyActiveRuns' /\ RecordsCreated'
    BY DEF RefreshInv, OnlyActiveRuns, RecordsCreated
  <1>4. SpoolSound(spool)'
    BY DEF SpoolSound, Started
  <1> QED BY <1>2, <1>3, <1>4 DEF RefreshInv

QueryReports == {"device_started", "succeeded", "failed"}
HandsetRows == [status : {"none", "accepted", "device_started", "succeeded", "failed"}, fence : 0..MaxFence]
ReportOf(kind, j, token) == [kind |-> kind, job |-> j, fence |-> token, live |-> {}, known |-> {}]

LEMMA ReportSound ==
  ASSUME RefreshInv, NEW s, SpoolSound(s), NEW kind \in QueryReports, NEW j \in Jobs, job[j].state # "none", NEW token \in 0..MaxFence
  PROVE  SpoolSound(Append(s, ReportOf(kind, j, token)))
  <1>1. PICK e : e = ReportOf(kind, j, token)
    OBVIOUS
  <1>2. e \in SpoolEvents /\ e.kind # "sms" /\ e.job = j
    BY <1>1 DEF ReportOf, SpoolEvents, QueryReports
  <1> QED BY <1>1, <1>2, AppendSound DEF RefreshInv

LEMMA HandsetTypes ==
  ASSUME RefreshInv
  PROVE  /\ record \in [Jobs -> HandsetRows] /\ highest \in 0..MaxFence /\ pin \in BOOLEAN /\ lease \in BOOLEAN /\ answers \subseteq Jobs
         /\ SpoolSound(spool) /\ \A j \in Jobs : record[j] \in HandsetRows /\ record[j].fence \in 0..MaxFence
         /\ \A j \in Jobs : record[j].status # "none" => job[j].state # "none"
  BY DEF RefreshInv, RefreshTypes, HandsetRows, RecordsCreated

\* The session of j ends with the status st.
LEMMA FinishSound ==
  ASSUME RefreshInv, NEW j \in Jobs, InSession(j), NEW st \in {"succeeded", "failed"},
         record' = [record EXCEPT ![j].status = st]
  PROVE  /\ record' \in [Jobs -> HandsetRows] /\ \A k \in Jobs : record'[k].status # "none" => job[k].state # "none"
         /\ job[j].state # "none" /\ record[j].fence \in 0..MaxFence
  <1>1. record \in [Jobs -> HandsetRows] /\ record[j].status = "device_started" /\ job[j].state # "none" /\ record[j].fence \in 0..MaxFence
    BY HandsetTypes DEF InSession
  <1>2. record' \in [Jobs -> HandsetRows] /\ \A k \in Jobs : record'[k].status = IF k = j THEN st ELSE record[k].status
    BY <1>1 DEF HandsetRows
  <1> QED BY <1>1, <1>2, HandsetTypes

LEMMA SessionKeeps ==
  ASSUME RefreshInv, NEW j \in Jobs,
         submit(j) \/ SubmitLocalPin(j) \/ ProviderSuccess(j) \/ finishFailed(j) \/ balanceLeaseExpires \/ SmsLost(j)
  PROVE  RefreshInv'
  <1> USE HandsetTypes
  <1>0. UNCHANGED <<sim, job, fence, active, checked>>
    BY DEF submit, SubmitLocalPin, ProviderSuccess, finishFailed, balanceLeaseExpires, SmsLost, backend
  <1>1. CASE submit(j)
    <2>1. job[j].state = "leased" /\ job[j].fence \in 0..MaxFence
      BY <1>1, JobTypes DEF submit, RefreshInv
    <2>2. highest' = job[j].fence /\ UNCHANGED <<lease, answers>>
      BY <1>1 DEF submit
    <2>3. PICK st \in {"accepted", "device_started"} :
            /\ record' = [record EXCEPT ![j] = [status |-> st, fence |-> job[j].fence]]
            /\ pin' = FALSE \/ pin' = pin
            /\ spool' = spool \/ spool' = Append(spool, ReportOf("device_started", j, job[j].fence))
      BY <1>1 DEF submit, ReportOf
    <2>4. [status |-> st, fence |-> job[j].fence] \in HandsetRows
      BY <2>1, <2>3 DEF HandsetRows
    <2>5. record' \in [Jobs -> HandsetRows] /\ \A k \in Jobs : k # j => record'[k] = record[k]
      BY <2>3, <2>4
    <2>6. \A k \in Jobs : record'[k].status # "none" => job[k].state # "none"
      BY <2>1, <2>5
    <2>7. SpoolSound(spool')
      BY <2>1, <2>3, ReportSound DEF QueryReports
    <2> QED BY <1>0, <2>1, <2>2, <2>3, <2>5, <2>6, <2>7, HandsetKeeps DEF HandsetRows
  <1>2. ASSUME NEW st \in {"succeeded", "failed"}, InSession(j), finishLocked(j, st), UNCHANGED <<highest, pin, lease>>,
               answers' \subseteq Jobs
        PROVE  RefreshInv'
    <2>1. record' = [record EXCEPT ![j].status = st] /\ spool' = Append(spool, ReportOf(st, j, record[j].fence))
      BY <1>2 DEF finishLocked, Spooled, ReportOf
    <2>2. SpoolSound(spool')
      BY <1>2, <2>1, FinishSound, ReportSound DEF QueryReports
    <2> QED BY <1>0, <1>2, <2>1, <2>2, FinishSound, HandsetKeeps DEF HandsetRows
  <1>3. CASE SubmitLocalPin(j)
    <2>1. InSession(j) /\ answers' = answers \cup {j} /\ highest' = highest
      BY <1>3 DEF SubmitLocalPin
    <2>2. answers' \subseteq Jobs
      BY <2>1
    <2>3. CASE lease
      BY <1>2, <1>3, <2>1, <2>2, <2>3 DEF SubmitLocalPin
    <2>4. CASE ~lease
      <3>1. pin' = TRUE /\ lease' = TRUE /\ UNCHANGED <<record, spool>>
        BY <1>3, <2>4 DEF SubmitLocalPin
      <3> QED BY <1>0, <2>1, <2>2, <3>1, HandsetKeeps DEF HandsetRows
    <2> QED BY <2>3, <2>4
  <1>4. CASE ProviderSuccess(j) \/ finishFailed(j)
    BY <1>2, <1>4 DEF ProviderSuccess, finishFailed
  <1>5. CASE balanceLeaseExpires
    <2>1. lease' = FALSE /\ UNCHANGED <<record, highest, pin, answers, spool>>
      BY <1>5 DEF balanceLeaseExpires
    <2> QED BY <1>0, <2>1, HandsetKeeps DEF HandsetRows
  <1>6. CASE SmsLost(j)
    <2>1. answers' \subseteq Jobs /\ UNCHANGED <<record, highest, pin, lease, spool>>
      BY <1>6 DEF SmsLost
    <2> QED BY <1>0, <2>1, HandsetKeeps DEF HandsetRows
  <1> QED BY <1>1, <1>3, <1>4, <1>5, <1>6

LEMMA SmsKeeps ==
  ASSUME RefreshInv, NEW j \in Jobs, smsReceived(j)
  PROVE  RefreshInv'
  <1> USE HandsetTypes
  <1>1. PICK e : e = [kind |-> "sms", job |-> j, fence |-> 0, live |-> {k \in Jobs : job[k].lease = "running"}, known |-> Created]
    OBVIOUS
  <1>2. e \in SpoolEvents /\ e.kind = "sms" /\ e.known = Created
    BY <1>1, RefreshConstants DEF SpoolEvents, Created
  <1>3. SpoolSound(Append(spool, e))
    BY <1>2, AppendSound DEF RefreshInv
  <1>4. /\ UNCHANGED <<sim, job, fence, active, checked, highest, pin>> /\ lease' = FALSE /\ answers' \subseteq Jobs
    BY DEF smsReceived, backend
  <1>5. CASE lease /\ \E k \in Jobs : InSession(k)
    <2>1. PICK k \in Jobs : k = CHOOSE i \in Jobs : InSession(i)
      BY <1>5
    <2>2. InSession(k)
      BY <1>5, <2>1
    <2>3. record' = [record EXCEPT ![k].status = "succeeded"]
      BY <1>5, <2>1 DEF smsReceived
    <2>4. spool' = spool \o <<e, ReportOf("succeeded", k, record[k].fence)>>
      BY <1>1, <1>5, <2>1 DEF smsReceived, ReportOf
    <2>5. PICK f : f = ReportOf("succeeded", k, record[k].fence)
      OBVIOUS
    <2>6. spool \in Seq(SpoolEvents) /\ f \in SpoolEvents
      BY <2>2, <2>3, <2>5, FinishSound DEF SpoolSound, ReportOf, SpoolEvents
    <2>7. spool \o <<e, f>> = Append(Append(spool, e), f)
      BY <1>2, <2>6
    <2>8. SpoolSound(Append(Append(spool, e), f))
      BY <1>3, <2>2, <2>3, <2>5, FinishSound, ReportSound DEF QueryReports
    <2>9. SpoolSound(spool')
      BY <2>4, <2>5, <2>7, <2>8
    <2> QED BY <1>4, <2>2, <2>3, <2>9, FinishSound, HandsetKeeps DEF HandsetRows
  <1>6. CASE ~(lease /\ \E k \in Jobs : InSession(k))
    <2>1. spool' = Append(spool, e) /\ record' = record
      BY <1>1, <1>6 DEF smsReceived
    <2> QED BY <1>3, <1>4, <2>1, HandsetKeeps DEF HandsetRows
  <1> QED BY <1>5, <1>6

-----------------------------------------------------------------------------

\* The backend takes the head of the spool, which may start its job.
LEMMA ProcessKeeps ==
  ASSUME RefreshInv, spool # <<>>, spool' = Tail(spool), UNCHANGED <<fence, checked, record, highest, pin, lease, answers>>,
         job' \in [Jobs -> QueryRows], active' \in 0..MaxJobs, sim' \in {"active", "payout_stale"}, OnlyActiveRuns',
         \A j \in Jobs : job[j].state # "none" => job'[j].state # "none",
         \A j \in Jobs : job'[j].state = "device_started" =>
           job[j].state = "device_started" \/ (Head(spool).kind # "sms" /\ j = Head(spool).job)
  PROVE  RefreshInv'
  <1>1. PICK n \in Nat : n = Len(spool)
    BY DEF RefreshInv, SpoolSound
  <1>2. PICK z : z = Tail(spool)
    OBVIOUS
  <1>3. /\ spool \in Seq(SpoolEvents) /\ n >= 1 /\ DOMAIN spool = 1..n /\ Head(spool) = spool[1]
        /\ z \in Seq(SpoolEvents) /\ DOMAIN z = 1..(n - 1) /\ \A i \in 1..(n - 1) : z[i] = spool[i + 1]
    BY <1>1, <1>2 DEF RefreshInv, SpoolSound
  <1>4. \A i \in 1..n : spool[i].job \in Jobs
    BY <1>3, SpoolRead
  <1>5. \A i \in 1..(n - 1) : i + 1 \in 1..n /\ z[i] = spool[i + 1] /\ z[i].job \in Jobs
    BY <1>3, <1>4
  <1>6. ASSUME NEW i \in DOMAIN z, z[i].kind # "sms"
        PROVE  job'[z[i].job].state # "none"
    <2>1. i + 1 \in DOMAIN spool /\ z[i] = spool[i + 1] /\ spool[i + 1].kind # "sms" /\ z[i].job \in Jobs
      BY <1>3, <1>5, <1>6
    <2>2. job[spool[i + 1].job].state # "none"
      BY <2>1 DEF RefreshInv, SpoolSound
    <2> QED BY <2>1, <2>2
  <1>7. ASSUME NEW i \in DOMAIN z, z[i].kind = "sms", NEW k \in DOMAIN z, k < i, z[k].kind # "sms"
        PROVE  z[k].job \in z[i].known
    <2>1. i + 1 \in DOMAIN spool /\ k + 1 \in DOMAIN spool /\ k + 1 < i + 1 /\ z[i] = spool[i + 1] /\ z[k] = spool[k + 1]
      BY <1>3, <1>5, <1>7
    <2> QED BY <1>7, <2>1 DEF RefreshInv, SpoolSound
  <1>8. ASSUME NEW i \in DOMAIN z, z[i].kind = "sms"
        PROVE  Started' \subseteq z[i].known
    <2>1. i + 1 \in DOMAIN spool /\ 1 \in DOMAIN spool /\ 1 < i + 1 /\ z[i] = spool[i + 1]
      BY <1>3, <1>5, <1>8
    <2>2. Started \subseteq z[i].known
      BY <1>8, <2>1 DEF RefreshInv, SpoolSound
    <2>3. spool[1].kind # "sms" => spool[1].job \in z[i].known
      BY <1>8, <2>1 DEF RefreshInv, SpoolSound
    <2>4. \A j \in Started' : j \in Started \/ (spool[1].kind # "sms" /\ j = spool[1].job)
      BY <1>3 DEF Started
    <2> QED BY <2>2, <2>3, <2>4
  <1>9. SpoolSound(spool)'
    BY <1>2, <1>3, <1>6, <1>7, <1>8 DEF SpoolSound
  <1>10. RefreshTypes' /\ RecordsCreated'
    <2>1. \A i \in DOMAIN z : z[i].kind \in {"device_started", "succeeded", "failed", "sms"} /\ z[i].job \in Jobs
      BY <1>3, SpoolRead
    <2> QED BY <1>2, <2>1 DEF RefreshInv, RefreshTypes, RecordsCreated, QueryRows
  <1> QED BY <1>9, <1>10 DEF RefreshInv

LEMMA SpoolKeeps == ASSUME RefreshInv, processSpoolEvent PROVE RefreshInv'
  <1>1. PICK e : e = Head(spool)
    OBVIOUS
  <1>2. /\ spool # <<>> /\ spool' = Tail(spool) /\ UNCHANGED <<fence, checked, record, highest, pin, lease, answers>>
        /\ report(e) \/ ingest(e)
    BY <1>1 DEF processSpoolEvent, handset
  <1>3. e = spool[1] /\ 1 \in DOMAIN spool /\ e.job \in Jobs /\ e.kind \in {"device_started", "succeeded", "failed", "sms"}
    <2>1. e = spool[1] /\ 1 \in DOMAIN spool
      BY <1>1, <1>2 DEF RefreshInv, SpoolSound
    <2> QED BY <2>1, SpoolRead DEF RefreshInv, SpoolSound
  <1>4. /\ job \in [Jobs -> QueryRows] /\ OnlyActiveRuns /\ sim \in {"active", "payout_stale"} /\ active \in 0..MaxJobs /\ 0 \in 0..MaxJobs
    BY JobTypes, RefreshConstants DEF RefreshInv, RefreshTypes
  <1>5. \A j \in Jobs : job[j] \in QueryRows
    BY <1>4
  \* A job that stops running.
  <1>6. ASSUME NEW j \in Jobs, NEW st \in {"succeeded", "failed"}, job' = [job EXCEPT ![j].state = st],
               active' = IF active = j THEN 0 ELSE active, sim' \in {"active", "payout_stale"}
        PROVE  RefreshInv'
    <2>1. job' \in [Jobs -> QueryRows] /\ \A k \in Jobs : job'[k].state = IF k = j THEN st ELSE job[k].state
      BY <1>4, <1>6 DEF QueryRows, States
    <2>2. OnlyActiveRuns'
      BY <1>4, <1>6, <2>1 DEF OnlyActiveRuns
    <2>3. active' \in 0..MaxJobs
      BY <1>4, <1>6
    <2> QED BY <1>2, <1>6, <2>1, <2>2, <2>3, ProcessKeeps
  <1>7. ASSUME UNCHANGED <<job, active>>, sim' \in {"active", "payout_stale"}
        PROVE  RefreshInv'
    <2>1. OnlyActiveRuns' /\ active' \in 0..MaxJobs /\ job' \in [Jobs -> QueryRows]
      BY <1>4, <1>7 DEF OnlyActiveRuns
    <2> QED BY <1>2, <1>7, <2>1, ProcessKeeps
  <1>8. CASE report(e)
    <2>1. /\ e.kind # "sms" /\ sim' = sim
          /\ e.kind \in allowedTransitions(job[e.job].state) \/ e.kind = job[e.job].state
          /\ IF e.kind = "failed" THEN Fail(e.job) ELSE job' = [job EXCEPT ![e.job].state = e.kind] /\ active' = active
      BY <1>8 DEF report, Processable
    <2>2. CASE e.kind = "failed"
      BY <1>3, <1>4, <1>6, <2>1, <2>2 DEF Fail
    <2>3. CASE e.kind = job[e.job].state /\ e.kind # "failed"
      <3>1. job' = job /\ active' = active
        BY <1>3, <1>4, <1>5, <2>1, <2>3 DEF QueryRows
      <3> QED BY <1>4, <1>7, <2>1, <3>1
    <2>4. CASE e.kind # job[e.job].state /\ e.kind # "failed"
      <3>1. e.kind = "device_started" /\ job[e.job].state = "leased"
        BY <2>1, <2>4 DEF allowedTransitions
      <3>2. active = e.job
        BY <1>3, <1>4, <3>1 DEF OnlyActiveRuns
      <3>3. job' = [job EXCEPT ![e.job].state = "device_started"] /\ active' = active
        BY <2>1, <3>1
      <3>4. job' \in [Jobs -> QueryRows] /\ \A k \in Jobs : job'[k].state = IF k = e.job THEN "device_started" ELSE job[k].state
        BY <1>3, <1>4, <3>3 DEF QueryRows, States, Live
      <3>5. OnlyActiveRuns'
        BY <1>4, <3>2, <3>3, <3>4 DEF OnlyActiveRuns
      <3> QED BY <1>1, <1>2, <1>4, <2>1, <3>3, <3>4, <3>5, ProcessKeeps
    <2> QED BY <2>2, <2>3, <2>4
  <1>9. CASE ingest(e)
    <2>1. e.kind = "sms"
      BY <1>9 DEF ingest
    <2>2. Started \subseteq e.known
      BY <1>3, <2>1 DEF RefreshInv, SpoolSound
    <2>3. ~OldDeviceClock(e)
      BY <2>2 DEF OldDeviceClock
    <2>4. PICK candidates \in SUBSET correlatableBalanceQueryLeases(e) : applyBalance(candidates)
      BY <1>9, <2>3 DEF ingest
    <2>5. CASE Cardinality(candidates) = 1
      <3>1. PICK j : /\ j = CHOOSE i \in candidates : TRUE
                     /\ sim' = IF sim = "payout_stale" THEN "active" ELSE sim
                     /\ job' = [job EXCEPT ![j].state = "succeeded"]
                     /\ active' = IF active = j THEN 0 ELSE active
        BY <2>4, <2>5 DEF applyBalance
      <3>2. candidates # {}
        BY <2>5, FS_EmptySet
      <3>3. j \in candidates
        BY <3>1, <3>2
      <3>4. j \in Jobs
        BY <3>3 DEF correlatableBalanceQueryLeases, Started
      <3>5. sim' \in {"active", "payout_stale"}
        BY <1>4, <3>1
      <3> QED BY <1>6, <3>1, <3>4, <3>5
    <2>6. CASE Cardinality(candidates) # 1
      <3>1. UNCHANGED <<sim, job, active>>
        BY <2>4, <2>6 DEF applyBalance
      <3> QED BY <1>4, <1>7, <3>1
    <2> QED BY <2>5, <2>6
  <1> QED BY <1>2, <1>8, <1>9

LEMMA RefreshStep == RefreshInv /\ [RefreshNext]_refreshVars => RefreshInv'
  <1> SUFFICES ASSUME RefreshInv, [RefreshNext]_refreshVars PROVE RefreshInv'
    OBVIOUS
  <1>1. CASE RefreshNext
    <2>1. 1 \in Jobs
      BY BalanceRefreshAssumption DEF Jobs
    <2> QED BY <1>1, <2>1, QueueingKeeps, LeaseKeeps, SpoolKeeps, SessionKeeps, SmsKeeps DEF RefreshNext
  <1>2. CASE UNCHANGED refreshVars
    BY <1>2 DEF refreshVars, backend, handset, RefreshInv, RefreshTypes, OnlyActiveRuns, RecordsCreated, SpoolSound, Started
  <1> QED BY <1>1, <1>2

LEMMA RefreshInitially == RefreshInit => RefreshInv
  <1> SUFFICES ASSUME RefreshInit PROVE RefreshInv
    OBVIOUS
  <1>1. RefreshTypes
    <2>1. MaxFence \in Nat /\ MaxJobs \in Nat /\ 0 \in 0..MaxFence /\ 0 \in 0..MaxJobs
      BY RefreshConstants
    <2>2. \A i \in DOMAIN spool : FALSE
      BY DEF RefreshInit
    <2> QED BY <2>1, <2>2 DEF RefreshInit, RefreshTypes, States, Live
  <1>2. OnlyActiveRuns /\ RecordsCreated
    BY DEF RefreshInit, OnlyActiveRuns, RecordsCreated
  <1>3. SpoolSound(spool)
    <2>1. spool = <<>> /\ spool \in Seq(SpoolEvents) /\ DOMAIN spool = {}
      BY DEF RefreshInit
    <2> QED BY <2>1 DEF SpoolSound
  <1> QED BY <1>1, <1>2, <1>3 DEF RefreshInv, RefreshInit

\* However the cron and staff queue queries, leases run out, jobs are retried and
\* SMS wait in the spool: at most one query is started, so an answer is given to
\* the one that asked (applyBalance), and the running query never looks younger
\* than the SMS, so a right clock is never taken for a wrong one (ingest).
THEOREM AnswerAlwaysFindsItsQuery == RefreshSpec => []AnswerFindsItsQuery
  <1>1. RefreshInv => AnswerFindsItsQuery
    <2> SUFFICES ASSUME RefreshInv PROVE AnswerFindsItsQuery
      OBVIOUS
    <2>1. Started \subseteq {active}
      BY DEF RefreshInv, OnlyActiveRuns, Started
    <2>2. IsFiniteSet({active}) /\ Cardinality({active}) = 1
      BY FS_Singleton
    <2>3. Cardinality(Started) <= 1
      BY <2>1, <2>2, FS_Subset
    <2> QED BY <2>3 DEF RefreshInv, AnswerFindsItsQuery, NeverAmbiguous, NoFalseQuarantine
  <1> QED BY <1>1, RefreshInitially, RefreshStep, PTL DEF RefreshSpec
=============================================================================
