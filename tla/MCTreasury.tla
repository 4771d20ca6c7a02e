----------------------------- MODULE MCTreasury -----------------------------
(* The two ways money leaves the fleet for the treasury or a merchant: the   *)
(* sweeps of a rule and the settlement requests.  Settlements follows the    *)
(* transfer of either, Sweeps the rule; no step of the one reads a variable  *)
(* of the other, so a behaviour follows one of them, chosen at the           *)
(* beginning, and every behaviour of each is covered.                        *)
EXTENDS Integers, FiniteSets, TLC

CONSTANTS Sims, Phones, Evaluators, MaxVersion, MaxTime, Interval, Owners, NoPhone,
          Settlements, SweepOps, Reviewers, MaxRetries

VARIABLES subject,
          rule, seen, approval, todo, snapshot, exec, retried, ready, allowed,
          treasury, enrolled, enrolling, approving, now,
          transfer, committed, linked, told, queued, retries, reading

sweepVars == <<rule, seen, approval, todo, snapshot, exec, retried, ready, allowed,
               treasury, enrolled, enrolling, approving, now>>
settlementVars == <<transfer, committed, linked, told, queued, retries, reading>>
treasuryVars == <<subject, sweepVars, settlementVars>>

Sweep == INSTANCE Sweeps WITH Workers <- Evaluators
Settlement == INSTANCE Settlements WITH Staff <- Reviewers

ASSUME TreasuryAssumption == Sweep!SweepsAssumption /\ Settlement!SettlementsAssumption

\* The components never meet, so an instance may use the same two values as the
\* evaluators of the one and the reviewers of the other, and so on.
Symmetry == Permutations(Evaluators \cup Reviewers) \cup Permutations(Phones \cup Settlements)

\* The bound of the run: one enrolment or treasury approval under way at a time.
FewEnrolments == Cardinality(enrolling) + Cardinality(approving) <= 1

OfSweeps == subject = "sweeps"
OfSettlements == subject = "settlements"

TreasuryInit == (OfSweeps \/ OfSettlements) /\ Sweep!Init /\ Settlement!Init

TreasuryNext ==
  \/ OfSweeps /\ Sweep!Next /\ FewEnrolments' /\ UNCHANGED <<subject, settlementVars>>
  \/ OfSettlements /\ Settlement!Next /\ UNCHANGED <<subject, sweepVars>>

TreasurySpec == TreasuryInit /\ [][TreasuryNext]_treasuryVars

-----------------------------------------------------------------------------
\* However the cron and staff's execute-now interleave, and whatever happens to
\* the rule in between: two sweeps of one SIM are created further apart than the
\* rule's interval and are never in flight together, unless staff retry one, and
\* money is only sent where the version it is booked under was approved to send it
\* (sweeps.service.ts executeCandidate).
SweepsSafe == OfSweeps => Sweep!SweepsSafe

\* After each of the nine transactions that move a transfer, the settlement or
\* sweep linked to it has the status that follows from it, and a settlement
\* reviewed by two people at once is decided once (settlements.service.ts,
\* device-jobs.service.ts, withdrawals.service.ts, sms-ingestion.service.ts).
SettlementsAgree == OfSettlements => Settlement!SettlementsAgree
=============================================================================
