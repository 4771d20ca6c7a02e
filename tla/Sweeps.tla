------------------------------- MODULE Sweeps -------------------------------
(***************************************************************************)
(* One liquidity-sweep rule: its proposal by a merchant, its review by     *)
(* staff, and its execution against the SIMs of a device group by the      *)
(* minute cron and by staff on demand.                                     *)
(*                                                                         *)
(* Every transaction of the service is serializable and one action.  The   *)
(* evaluation of a rule is not one transaction: a worker reads the rule    *)
(* and lists the candidate SIMs, and then runs one transaction for each.   *)
(* Staff look at a rule before they decide on it.  The checks that keep    *)
(* sweep destinations and fleet SIMs apart are reads before the            *)
(* transaction in createDevice and createTreasuryWallet, so each of these  *)
(* is two actions.  The amounts are the subject of the module Wallets.     *)
(***************************************************************************)
EXTENDS Integers, FiniteSets

CONSTANTS
  Sims,        \* SIM wallets of the rule's group
  Phones,      \* destination phone numbers
  Workers,     \* concurrent evaluations of the rule: the cron and staff's execute-now
  MaxVersion,  \* bound on the versions of the rule
  MaxTime,     \* bound on the clock
  Interval,    \* minimumIntervalSeconds, in ticks of the clock
  Owners,      \* owners of treasury wallets and types of destination
  NoPhone

SweepsAssumption ==
  /\ NoPhone \notin Phones
  /\ MaxVersion \in Nat \ {0}
  /\ MaxTime \in Nat
  /\ Interval \in Nat \ {0}
  /\ Owners \subseteq {"platform", "merchant"}
  /\ "platform" \in Owners

Versions == 1..MaxVersion
Buckets  == 0..(MaxTime \div Interval)

\* The unique idempotencyKey of an execution (one rule).
Keys == [sim : Sims, version : Versions, bucket : Buckets]

RuleStatuses == {"none", "pending", "approved", "rejected", "disabled"}
ExecStatuses == {"none", "active", "success", "failed"}

VARIABLES
  rule,       \* the SweepRule row: status, enabled, version, destination and its type
  seen,       \* the version staff looked at before deciding, 0 for none
  approval,   \* per version: the destination it was approved with
  todo,       \* per worker: the candidates still to be executed
  snapshot,   \* per worker: the destination of the rule it read
  exec,       \* SweepExecution per key: status, time of creation, destination
  retried,    \* executions whose device job staff retried
  ready,      \* SIMs that pass every check of executeCandidate on the SIM itself
  allowed,    \* the merchant may use the group
  treasury,   \* active TreasuryWallet rows: phone -> owner ("none": no row)
  enrolled,   \* phone numbers of enrolled fleet SIMs
  enrolling,  \* phones whose createDevice has passed its checks
  approving,  \* phones (with owner) whose createTreasuryWallet has passed its check
  now

ruleVars  == <<rule, seen, approval>>
workVars  == <<todo, snapshot>>
execVars  == <<exec, retried>>
fleetVars == <<ready, allowed, treasury, enrolled, enrolling, approving>>
vars == <<ruleVars, workVars, execVars, fleetVars, now>>

TypeOK ==
  /\ rule \in [status : RuleStatuses, enabled : BOOLEAN, version : 0..MaxVersion, dest : Phones \cup {NoPhone}, type : Owners]
  /\ seen \in 0..MaxVersion
  /\ approval \in [Versions -> Phones \cup {NoPhone}]
  /\ todo \in [Workers -> SUBSET Sims]
  /\ snapshot \in [Workers -> Phones \cup {NoPhone}]
  /\ exec \in [Keys -> [status : ExecStatuses, at : 0..MaxTime, dest : Phones \cup {NoPhone}]]
  /\ retried \subseteq Keys
  /\ ready \subseteq Sims
  /\ allowed \in BOOLEAN
  /\ treasury \in [Phones -> Owners \cup {"none"}]
  /\ enrolled \subseteq Phones
  /\ enrolling \subseteq Phones
  /\ approving \subseteq Phones \X Owners
  /\ now \in 0..MaxTime

Init ==
  /\ rule = [status |-> "none", enabled |-> FALSE, version |-> 0, dest |-> NoPhone, type |-> "platform"]
  /\ seen = 0
  /\ approval = [v \in Versions |-> NoPhone]
  /\ todo = [w \in Workers |-> {}]
  /\ snapshot = [w \in Workers |-> NoPhone]
  /\ exec = [k \in Keys |-> [status |-> "none", at |-> 0, dest |-> NoPhone]]
  /\ retried = {}
  /\ ready = Sims
  /\ allowed = TRUE
  /\ treasury = [p \in Phones |-> "none"]
  /\ enrolled = {}
  /\ enrolling = {}
  /\ approving = {}
  /\ now = 0

\* The group is not dedicated to another merchant (nor the test simulator's).
assertGroupAccess == allowed

-----------------------------------------------------------------------------
(* The merchant's side: create, update, disable *)

\* A proposal is pending, enabled, and never approved.
Propose(p, type) ==
  rule' = [status |-> "pending", enabled |-> TRUE, version |-> rule.version + 1, dest |-> p, type |-> type]

create(p, type) ==
  /\ rule.status = "none"
  /\ assertGroupAccess
  /\ Propose(p, type)
  /\ UNCHANGED <<seen, approval, workVars, execVars, fleetVars, now>>

update(p, type) ==
  /\ rule.status # "none"
  /\ assertGroupAccess
  /\ rule.version < MaxVersion
  /\ Propose(p, type)
  /\ UNCHANGED <<seen, approval, workVars, execVars, fleetVars, now>>

disable ==
  /\ rule.status \notin {"none", "disabled"}
  /\ rule' = [rule EXCEPT !.status = "disabled", !.enabled = FALSE]
  /\ UNCHANGED <<seen, approval, workVars, execVars, fleetVars, now>>

-----------------------------------------------------------------------------
(* Staff's side.  The decision names the rule, not the version looked at. *)

assertDestinationNotFleet == rule.dest \notin enrolled

\* An active treasury wallet of the right owner, whose account name agrees.
assertApprovedDestination == treasury[rule.dest] = rule.type

listForAdmin ==
  /\ rule.status = "pending"
  /\ seen' = rule.version
  /\ UNCHANGED <<rule, approval, workVars, execVars, fleetVars, now>>

approve ==
  /\ seen # 0
  /\ rule.status = "pending"
  /\ assertDestinationNotFleet
  /\ assertApprovedDestination
  /\ rule' = [rule EXCEPT !.status = "approved", !.enabled = TRUE]
  /\ approval' = [approval EXCEPT ![rule.version] = rule.dest]
  /\ UNCHANGED <<seen, workVars, execVars, fleetVars, now>>

reject ==
  /\ seen # 0
  /\ rule.status = "pending"
  /\ rule' = [rule EXCEPT !.status = "rejected", !.enabled = FALSE]
  /\ UNCHANGED <<seen, approval, workVars, execVars, fleetVars, now>>

-----------------------------------------------------------------------------
(* Execution *)

\* The rule and its candidates are read outside any transaction.
executeRule(w) ==
  /\ todo[w] = {}
  /\ rule.status = "approved" /\ rule.enabled
  /\ todo' = [todo EXCEPT ![w] = ready]
  /\ snapshot' = [snapshot EXCEPT ![w] = rule.dest]
  /\ UNCHANGED <<ruleVars, execVars, fleetVars, now>>

\* An execution that keeps its rule and SIM from being swept again.
Recent(k) ==
  exec[k].status = "active" \/ (exec[k].status # "none" /\ exec[k].at >= now - Interval)

KeyOf(s) == [sim |-> s, version |-> rule.version, bucket |-> now \div Interval]

\* What the candidate's own transaction checks again before it sends money.
Dispatchable(s) ==
  /\ rule.status = "approved" /\ rule.enabled
  /\ assertGroupAccess
  /\ assertDestinationNotFleet
  /\ assertApprovedDestination
  /\ s \in ready
  /\ ~ \E k \in Keys : k.sim = s /\ Recent(k)
  /\ exec[KeyOf(s)].status = "none"

executeCandidate_FromSnapshot(w, s) ==
  /\ s \in todo[w]
  /\ todo' = [todo EXCEPT ![w] = @ \ {s}]
  /\ exec' = IF Dispatchable(s)
             THEN [exec EXCEPT ![KeyOf(s)] = [status |-> "active", at |-> now, dest |-> snapshot[w]]]
             ELSE exec
  /\ UNCHANGED <<ruleVars, snapshot, retried, fleetVars, now>>

\* One candidate.  A check that fails returns null or throws; the loop swallows
\* both and goes on.
executeCandidate(w, s) ==
  /\ s \in todo[w]
  /\ todo' = [todo EXCEPT ![w] = @ \ {s}]
  /\ exec' = IF Dispatchable(s)
             THEN [exec EXCEPT ![KeyOf(s)] = [status |-> "active", at |-> now, dest |-> rule.dest]]
             ELSE exec
  /\ UNCHANGED <<ruleVars, snapshot, retried, fleetVars, now>>

-----------------------------------------------------------------------------
(* What the linked transfer does to the execution.  A pre-commit failure    *)
(* can be retried by staff, and a late SMS can turn a failure into success. *)

SetExec(k, st) == exec' = [exec EXCEPT ![k].status = st]

TransferEnds(k) ==
  /\ \/ exec[k].status = "active" /\ \E st \in {"success", "failed"} : SetExec(k, st)
     \/ exec[k].status = "failed" /\ SetExec(k, "success")
  /\ UNCHANGED <<ruleVars, workVars, retried, fleetVars, now>>

retryDeviceJob(k) ==
  /\ exec[k].status = "failed"
  /\ SetExec(k, "active")
  /\ retried' = retried \cup {k}
  /\ UNCHANGED <<ruleVars, workVars, fleetVars, now>>

-----------------------------------------------------------------------------
(* The fleet around the rule *)

CreateDeviceChecks(p) ==
  /\ p \notin enrolled
  /\ ~ (rule.dest = p /\ rule.status \in {"pending", "approved"})
  /\ treasury[p] = "none"

\* createDevice: two reads, then the transaction that enrols the SIM.
createDevice(p) ==
  \/ /\ CreateDeviceChecks(p)
     /\ enrolling' = enrolling \cup {p}
     /\ UNCHANGED enrolled
  \/ /\ p \in enrolling
     /\ enrolling' = enrolling \ {p}
     /\ enrolled' = enrolled \cup {p}

\* createTreasuryWallet: a read, then the upsert.  An undefined merchantId
\* leaves the owner of an existing row as it is.
createTreasuryWallet(p, o) ==
  \/ /\ p \notin enrolled
     /\ approving' = approving \cup {<<p, o>>}
     /\ UNCHANGED treasury
  \/ /\ <<p, o>> \in approving
     /\ approving' = approving \ {<<p, o>>}
     /\ treasury' = [treasury EXCEPT ![p] = IF o = "merchant" \/ @ = "none" THEN o ELSE @]

Enrolment(p) ==
  /\ \/ createDevice(p) /\ UNCHANGED <<approving, treasury>>
     \/ \E o \in Owners : createTreasuryWallet(p, o) /\ UNCHANGED <<enrolling, enrolled>>
  /\ UNCHANGED <<ruleVars, workVars, execVars, ready, allowed, now>>

\* upsertMerchantGroupPolicy and removeMerchantGroupPolicy
PolicyChange ==
  /\ allowed' = ~allowed
  /\ UNCHANGED <<ruleVars, workVars, execVars, ready, treasury, enrolled, enrolling, approving, now>>

\* A SIM loses or regains its status, its fresh balance or its handset.
SimChange(s) ==
  /\ ready' = IF s \in ready THEN ready \ {s} ELSE ready \cup {s}
  /\ UNCHANGED <<ruleVars, workVars, execVars, allowed, treasury, enrolled, enrolling, approving, now>>

Tick ==
  /\ now < MaxTime
  /\ now' = now + 1
  /\ UNCHANGED <<ruleVars, workVars, execVars, fleetVars>>

Next ==
  \/ \E p \in Phones, o \in Owners : create(p, o) \/ update(p, o)
  \/ disable
  \/ listForAdmin
  \/ approve
  \/ reject
  \/ \E w \in Workers : executeRule(w)
  \/ \E w \in Workers, s \in Sims : executeCandidate(w, s)
  \/ \E k \in Keys : TransferEnds(k) \/ retryDeviceJob(k)
  \/ \E p \in Phones : Enrolment(p)
  \/ PolicyChange
  \/ \E s \in Sims : SimChange(s)
  \/ Tick

Spec == Init /\ [][Next]_vars

-----------------------------------------------------------------------------
(* Properties *)

Exists(k) == exec[k].status # "none"

\* However the cron and staff's execute-now interleave, and whatever happens to
\* the rule in between, two sweeps of one SIM are created further apart than the
\* rule's interval, across versions and time buckets (executeCandidate looks for
\* prior executions in its own transaction).
IntervalKept ==
  \A k, l \in Keys :
    k # l /\ k.sim = l.sim /\ Exists(k) /\ Exists(l) =>
      exec[k].at - exec[l].at > Interval \/ exec[l].at - exec[k].at > Interval

\* Two sweeps of one SIM are never in flight together, unless staff put one of
\* them back to work by retrying its device job.
OneInFlight ==
  \A k, l \in Keys :
    k # l /\ k.sim = l.sim /\ exec[k].status = "active" /\ exec[l].status = "active" =>
      k \in retried \/ l \in retried

\* Money is only sent where the version it is booked under was approved to send
\* it: a worker that listed its candidates before a replacement, a disable or a
\* rejection sends nothing under the old approval.
SentAsApproved == \A k \in Keys : Exists(k) => exec[k].dest = approval[k.version]

\* What a rule allows is not exceeded by anybody who acts on an old reading of it.
SweepsSafe == TypeOK /\ IntervalKept /\ OneInFlight /\ SentAsApproved

\* The guide says a replaced rule always requires reapproval: the version that
\* becomes approved is one staff had looked at.
ApprovedWhatWasSeen == \A v \in Versions : approval[v] # NoPhone => v <= seen

\* The guide says destinations must not be enrolled fleet SIMs: no sweep is in
\* flight to the number of an enrolled SIM.
NoSweepIntoFleet == \A k \in Keys : exec[k].status = "active" => exec[k].dest \notin enrolled
=============================================================================
