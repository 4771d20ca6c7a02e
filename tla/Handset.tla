------------------------------- MODULE Handset -------------------------------
(***************************************************************************)
(* The Android agent of one handset: it accepts signed jobs, dials the     *)
(* provider's USSD menu, types the PIN of a SIM at most once per financial *)
(* operation and spools what happened.                                     *)
(*                                                                         *)
(* Concurrent parts: the executor (jobs from the gateway, one at a time),  *)
(* the screen handlers (a coroutine for every screen that appears; they    *)
(* can overlap), the heartbeat loop (lease expiry, recovery), SMS, and the *)
(* death of the process at any point.  A critical section of the session   *)
(* registry's event mutex is one action.  Time is abstracted: a lease may  *)
(* be found expired at any moment.  Only jobs that move money are modelled.*)
(***************************************************************************)
EXTENDS Naturals, Sequences

CONSTANTS
  Jobs,         \* job ids
  Operations,   \* financial operations (payouts)
  Sims,
  OpOf, SimOf,  \* the operation a job is for and the SIM it is to be paid from
  Envelopes,    \* signed jobs that may arrive: pairs of a job and a fencing token
  Handlers,     \* screen-handling coroutines that can run at once
  NoJob

ASSUME HandsetAssumption ==
  /\ OpOf \in [Jobs -> Operations]
  /\ SimOf \in [Jobs -> Sims]
  /\ Envelopes \subseteq Jobs \X Nat
  /\ NoJob \notin Jobs

VARIABLES
  \* the agent's database
  jobStatus,     \* JobExecutionEntity.status ("none": no row)
  jobFence,      \* JobExecutionEntity.fencingToken
  commitGuard,   \* FinancialCommitGuardEntity: the job that committed the operation
  highestToken,  \* SimFenceEntity.highestToken
  activeSims,    \* SIMs whose identity is ACTIVE
  spool,         \* the JOB_STATUS events enqueued so far, in order
  \* the process
  session,       \* HandsetUssdSessionRegistry.activeSession; its owner holds the handset mutex
  executor,      \* where DeterministicJobExecutor.submit is
  handler,       \* where each screen handler is
  recovery,      \* "pending", "reporting" or "done" (HeartbeatService.recoveryDone)
  toReport,      \* recovered jobs whose event is still to be spooled
  \* the provider
  pins           \* how often the PIN was entered for an operation

database == <<jobStatus, jobFence, commitGuard, highestToken, activeSims>>
process  == <<session, executor, handler, recovery, toReport>>
vars     == <<database, spool, process, pins>>

-----------------------------------------------------------------------------
Terminal   == {"SUCCESS", "FAILED", "UNKNOWN", "CANCELLED"}
EventStates == Terminal \cup {"DEVICE_STARTED", "PIN_SUBMITTED", "PROVIDER_PENDING"}
NonTerminal == {"ACCEPTED", "DEVICE_STARTED", "PIN_SUBMITTED", "PROVIDER_PENDING"}
Statuses   == EventStates \cup {"ACCEPTED", "none"}

\* A flow profile has menu, text and verification steps, one PIN step and the
\* wait for the provider's result.
Steps == {"menu", "pin", "result"}

\* Commands the engine plans for a screen: the pending ones are dispatched and
\* acknowledged, the final ones end the session.
Final    == {"AbortPreCommit", "RequestNameReview", "ReceiverMismatch", "UnknownPostCommit", "ProviderSuccess", "ProviderFailure"}
Pending  == {"Enter", "SubmitLocalPin", "Wait"}
Commands == Final \cup Pending

NoSession ==
  [job |-> NoJob, dialled |-> FALSE, committed |-> FALSE, step |-> "menu", pending |-> "none", ended |-> FALSE, blocked |-> FALSE]
Sessions ==
  [job : Jobs \cup {NoJob}, dialled : BOOLEAN, committed : BOOLEAN, step : Steps,
   pending : Pending \cup {"none"}, ended : BOOLEAN, blocked : BOOLEAN]

Idle == [pc |-> "idle", job |-> NoJob, command |-> "none", live |-> FALSE]
HandlerStates ==
  [pc : {"idle", "planned", "refused", "cleared", "entered", "missed"}, job : Jobs \cup {NoJob},
   command : Commands \cup {"none"}, live : BOOLEAN]

Events == [job : Jobs, fence : Nat, state : EventStates, provider : BOOLEAN]

TypeOK ==
  /\ jobStatus \in [Jobs -> Statuses]
  /\ jobFence \in [Jobs -> Nat]
  /\ commitGuard \in [Operations -> Jobs \cup {NoJob}]
  /\ highestToken \in [Sims -> Nat]
  /\ activeSims \subseteq Sims
  /\ spool \in Seq(Events)
  /\ session \in Sessions
  /\ executor \in [pc : {"idle", "accepted", "begun", "started", "reported"}, job : Jobs \cup {NoJob}]
  /\ handler \in [Handlers -> HandlerStates]
  /\ recovery \in {"pending", "reporting", "done"}
  /\ toReport \subseteq Jobs
  /\ pins \in [Operations -> Nat]

Init ==
  /\ jobStatus = [j \in Jobs |-> "none"]
  /\ jobFence = [j \in Jobs |-> 0]
  /\ commitGuard = [o \in Operations |-> NoJob]
  /\ highestToken = [s \in Sims |-> 0]
  /\ activeSims = Sims
  /\ spool = <<>>
  /\ session = NoSession
  /\ executor = [pc |-> "idle", job |-> NoJob]
  /\ handler = [h \in Handlers |-> Idle]
  /\ recovery = "pending"
  /\ toReport = {}
  /\ pins = [o \in Operations |-> 0]

\* The process dies: what is not in the database is gone.
Dies ==
  /\ session' = NoSession
  /\ executor' = [pc |-> "idle", job |-> NoJob]
  /\ handler' = [h \in Handlers |-> Idle]
  /\ recovery' = "pending"
  /\ toReport' = {}

-----------------------------------------------------------------------------
(* JobExecutionRepository *)

Committed(j) == commitGuard[OpOf[j]] = j

\* markTerminal's compare-and-set.
MarkTerminal(j, st) ==
  IF jobStatus[j] \in {"PIN_SUBMITTED", "PROVIDER_PENDING"} \/ (jobStatus[j] = "DEVICE_STARTED" /\ st = "FAILED")
  THEN [jobStatus EXCEPT ![j] = st] ELSE jobStatus

\* transitionJob's compare-and-set.
Transition(j, from, to) == IF jobStatus[j] = from THEN [jobStatus EXCEPT ![j] = to] ELSE jobStatus

\* markPinSubmitted's checks.  An existing guard of this very job would do, but
\* guard and committedAt are written together, and a committed job is refused.
PinAllowed(j) ==
  /\ jobStatus[j] = "DEVICE_STARTED"
  /\ jobFence[j] = highestToken[SimOf[j]]
  /\ commitGuard[OpOf[j]] = NoJob

(* The spool.  A caught failure to enqueue loses the event. *)

Event(j, st, provider) == [job |-> j, fence |-> jobFence[j], state |-> st, provider |-> provider]
Enqueued(e) == spool' = Append(spool, e)
Attempted(e) == Enqueued(e) \/ UNCHANGED spool

(* HandsetUssdSessionRegistry.  FinishLocked and BlockAndQuarantineLocked need *)
(* an active session; s is that session as the caller has left it.  "provider" *)
(* says that the provider's own word (a screen, an SMS) is being reported.      *)

FinishLocked(st, reported, provider) ==
  /\ jobStatus' = MarkTerminal(session.job, st)
  /\ Attempted(Event(session.job, reported, provider))
  /\ session' = NoSession

BlockAndQuarantineLocked(s) ==
  LET outcome == IF s.committed THEN "UNKNOWN" ELSE "FAILED" IN
  IF s.blocked THEN session' = s /\ UNCHANGED <<jobStatus, activeSims, spool>>
  ELSE /\ jobStatus' = MarkTerminal(s.job, outcome)
       /\ activeSims' = activeSims \ {SimOf[s.job]}
       /\ Attempted(Event(s.job, outcome, FALSE))
       /\ session' = [s EXCEPT !.blocked = TRUE]

\* A handler's plan is live while it is the engine's pending one: once a plan is
\* acknowledged or fails, or its session ends, every handler that holds it has a
\* stale command id.  Handler h moves to x.
HandlerTo(h, x, stale) ==
  handler' = [g \in Handlers |-> IF g = h THEN x ELSE [handler[g] EXCEPT !.live = @ /\ ~stale]]
AllStale == handler' = [g \in Handlers |-> [handler[g] EXCEPT !.live = FALSE]]

-----------------------------------------------------------------------------
(* DeterministicJobExecutor.submit.  A job that is rejected, or a duplicate,  *)
(* changes nothing.  The gateway client exists only once recovery is done.    *)

ExecutorTo(pc, j) == executor' = [pc |-> pc, job |-> j]

FenceAdvances_Same(s, fence) == fence >= highestToken[s]

FenceAdvances(s, fence) == fence > highestToken[s]

Accept(j, fence) ==
  /\ executor.pc = "idle"
  /\ recovery = "done"
  /\ jobStatus[j] = "none"
  /\ SimOf[j] \in activeSims
  /\ commitGuard[OpOf[j]] = NoJob
  /\ FenceAdvances(SimOf[j], fence)
  /\ highestToken' = [highestToken EXCEPT ![SimOf[j]] = fence]
  /\ jobStatus' = [jobStatus EXCEPT ![j] = "ACCEPTED"]
  /\ jobFence' = [jobFence EXCEPT ![j] = fence]
  /\ ExecutorTo("accepted", j)
  /\ UNCHANGED <<commitGuard, activeSims, spool, session, handler, recovery, toReport, pins>>

\* The SIM is not where it should be, the handset is busy, or a processing
\* dialog may still be dismissed.
RejectAccepted ==
  /\ executor.pc = "accepted"
  /\ jobStatus' = Transition(executor.job, "ACCEPTED", "CANCELLED")
  /\ ExecutorTo("idle", NoJob)
  /\ UNCHANGED <<jobFence, commitGuard, highestToken, activeSims, spool, session, handler, recovery, toReport, pins>>

Begin ==
  /\ executor.pc = "accepted"
  /\ session.job = NoJob
  /\ session' = [NoSession EXCEPT !.job = executor.job]
  /\ ExecutorTo("begun", executor.job)
  /\ UNCHANGED <<database, spool, handler, recovery, toReport, pins>>

Start ==
  LET j == executor.job IN
  /\ executor.pc = "begun"
  /\ jobFence[j] = highestToken[SimOf[j]]
  /\ jobStatus[j] = "ACCEPTED"
  /\ jobStatus' = Transition(j, "ACCEPTED", "DEVICE_STARTED")
  /\ ExecutorTo("started", j)
  /\ UNCHANGED <<jobFence, commitGuard, highestToken, activeSims, spool, session, handler, recovery, toReport, pins>>

\* start returned false: cancelAccepted, which needs the session.
CancelAccepted ==
  /\ executor.pc = "begun"
  /\ IF session.job = NoJob THEN UNCHANGED <<jobStatus, spool, session>>
     ELSE /\ jobStatus' = Transition(session.job, "ACCEPTED", "CANCELLED")
          /\ Attempted(Event(session.job, "CANCELLED", FALSE))
          /\ session' = NoSession
  /\ AllStale
  /\ ExecutorTo("idle", NoJob)
  /\ UNCHANGED <<jobFence, commitGuard, highestToken, activeSims, recovery, toReport, pins>>

ReportStarted ==
  /\ executor.pc = "started"
  /\ session.job # NoJob
  /\ Enqueued(Event(session.job, "DEVICE_STARTED", FALSE))
  /\ ExecutorTo("reported", executor.job)
  /\ UNCHANGED <<database, session, handler, recovery, toReport, pins>>

Dial ==
  /\ executor.pc = "reported"
  /\ session' = IF session.job = NoJob THEN session ELSE [session EXCEPT !.dialled = TRUE]
  /\ ExecutorTo("idle", NoJob)
  /\ UNCHANGED <<database, spool, handler, recovery, toReport, pins>>

\* The start cannot be spooled, the session is gone or dialling fails.
FailBeforeStart ==
  /\ executor.pc \in {"started", "reported"}
  /\ IF session.job = NoJob THEN UNCHANGED <<jobStatus, spool, session>> ELSE FinishLocked("FAILED", "FAILED", FALSE)
  /\ AllStale
  /\ ExecutorTo("idle", NoJob)
  /\ UNCHANGED <<jobFence, commitGuard, highestToken, activeSims, recovery, toReport, pins>>

-----------------------------------------------------------------------------
(* TelebirrAccessibilityService.handleScreen and UssdStateMachine *)

\* What the engine may plan for a screen when it has no pending plan.
Plans(s) ==
  {"ProviderSuccess", "ProviderFailure", IF s.committed THEN "UnknownPostCommit" ELSE "AbortPreCommit"}
    \cup (IF s.step = "menu" THEN {"Enter", "RequestNameReview", "ReceiverMismatch"}
          ELSE IF s.step = "pin" THEN {"SubmitLocalPin"} ELSE {"Wait"})

\* A screen is planned.  While a plan is pending, every further screen gets it.
OnScreen(h, c) ==
  LET planned(live) == [pc |-> "planned", job |-> session.job, command |-> c, live |-> live] IN
  /\ handler[h].pc = "idle"
  /\ session.job # NoJob /\ session.dialled /\ ~session.blocked
  /\ \/ /\ session.pending = c
        /\ HandlerTo(h, planned(TRUE), FALSE)
        /\ UNCHANGED session
     \/ /\ session.pending = "none" /\ ~session.ended
        /\ c \in Plans(session)
        /\ HandlerTo(h, planned(c \in Pending), FALSE)
        /\ session' = [session EXCEPT !.pending = IF c \in Pending THEN c ELSE @, !.ended = c \in Final]
  /\ UNCHANGED <<database, spool, executor, recovery, toReport, pins>>

NextStep(s, c) == IF c = "SubmitLocalPin" THEN {"result"} ELSE IF c = "Enter" THEN {"menu", "pin"} ELSE {s}

\* acknowledge.  A stale command id throws, which nobody catches; so does a
\* failure to spool PROVIDER_PENDING.
Acknowledge(h) ==
  LET c == handler[h].command
      marked == IF c = "SubmitLocalPin" THEN Transition(session.job, "PIN_SUBMITTED", "PROVIDER_PENDING") ELSE jobStatus IN
  \/ /\ session.job = NoJob
     /\ HandlerTo(h, Idle, FALSE)
     /\ UNCHANGED <<jobStatus, spool, session, executor, recovery, toReport>>
  \/ /\ session.job # NoJob /\ handler[h].live
     /\ \E next \in NextStep(session.step, c) : session' = [session EXCEPT !.step = next, !.pending = "none"]
     /\ jobStatus' = marked
     /\ IF c = "SubmitLocalPin" THEN Enqueued(Event(session.job, "PROVIDER_PENDING", FALSE)) ELSE UNCHANGED spool
     /\ HandlerTo(h, Idle, TRUE)
     /\ UNCHANGED <<executor, recovery, toReport>>
  \/ /\ session.job # NoJob
     /\ handler[h].live => c = "SubmitLocalPin"
     /\ jobStatus' = IF handler[h].live THEN marked ELSE jobStatus
     /\ Dies
     /\ UNCHANGED spool

DispatchFailed(h) ==
  LET failed == [session EXCEPT !.pending = "none", !.ended = TRUE] IN
  \/ /\ session.job = NoJob
     /\ HandlerTo(h, Idle, FALSE)
     /\ UNCHANGED <<jobStatus, activeSims, spool, session, executor, recovery, toReport>>
  \/ /\ session.job # NoJob /\ handler[h].live
     /\ IF session.committed THEN BlockAndQuarantineLocked(failed)
        ELSE FinishLocked("FAILED", "FAILED", FALSE) /\ UNCHANGED activeSims
     /\ HandlerTo(h, Idle, TRUE)
     /\ UNCHANGED <<executor, recovery, toReport>>
  \/ /\ session.job # NoJob /\ ~handler[h].live
     /\ Dies
     /\ UNCHANGED <<jobStatus, activeSims, spool>>

\* finishForSafety and blockAndQuarantine act on whatever session is active.
FinishForSafety(c) ==
  IF session.job = NoJob THEN UNCHANGED <<jobStatus, activeSims, spool, session>>
  ELSE /\ activeSims' = IF c = "UnknownPostCommit" THEN activeSims \ {SimOf[session.job]} ELSE activeSims
       /\ LET st == IF c = "UnknownPostCommit" THEN "UNKNOWN" ELSE IF c = "ProviderSuccess" THEN "SUCCESS" ELSE "FAILED" IN
          FinishLocked(st, IF c = "RequestNameReview" THEN "CANCELLED" ELSE st, c \in {"ProviderSuccess", "ProviderFailure"})

BlockAndQuarantine ==
  IF session.job = NoJob THEN UNCHANGED <<jobStatus, activeSims, spool, session>> ELSE BlockAndQuarantineLocked(session)

\* A menu option or text is entered, or the processing dialog is dismissed.
Dispatch(h) ==
  /\ handler[h].pc = "planned"
  /\ handler[h].command \in {"Enter", "Wait"}
  /\ \/ Acknowledge(h) /\ UNCHANGED activeSims
     \/ handler[h].command = "Enter" /\ DispatchFailed(h)
     \/ handler[h].command = "Wait" /\ BlockAndQuarantine /\ HandlerTo(h, Idle, FALSE)
          /\ UNCHANGED <<executor, recovery, toReport>>
  /\ UNCHANGED <<jobFence, commitGuard, highestToken, pins>>

\* The dialog of a final screen is dismissed, or cannot be.
EndSession(h) ==
  /\ handler[h].pc = "planned"
  /\ handler[h].command \in Final
  /\ \/ FinishForSafety(handler[h].command) /\ HandlerTo(h, Idle, TRUE)
     \/ BlockAndQuarantine /\ HandlerTo(h, Idle, FALSE)
  /\ UNCHANGED <<jobFence, commitGuard, highestToken, executor, recovery, toReport, pins>>

\* beforeFinancialPin returns false without having written anything.
PinRefused(h) ==
  /\ handler[h].pc = "planned"
  /\ handler[h].command = "SubmitLocalPin"
  /\ HandlerTo(h, [handler[h] EXCEPT !.pc = "refused"], FALSE)
  /\ UNCHANGED <<database, spool, session, executor, recovery, toReport, pins>>

\* ... and the session is then ended as before commit.
AbortRefused(h) ==
  /\ handler[h].pc = "refused"
  /\ FinishForSafety("AbortPreCommit")
  /\ HandlerTo(h, Idle, TRUE)
  /\ UNCHANGED <<jobFence, commitGuard, highestToken, executor, recovery, toReport, pins>>

BeforeFinancialPin_Unannounced(h) ==
  LET j == session.job IN
  /\ handler[h].pc = "planned"
  /\ handler[h].command = "SubmitLocalPin"
  /\ j # NoJob /\ PinAllowed(j) /\ handler[h].live
  /\ commitGuard' = [commitGuard EXCEPT ![OpOf[j]] = j]
  /\ jobStatus' = [jobStatus EXCEPT ![j] = "PIN_SUBMITTED"]
  /\ Attempted(Event(j, "PIN_SUBMITTED", FALSE))
  /\ session' = [session EXCEPT !.committed = TRUE]
  /\ HandlerTo(h, [handler[h] EXCEPT !.pc = "cleared"], FALSE)
  /\ UNCHANGED <<jobFence, highestToken, activeSims, executor, recovery, toReport, pins>>

\* beforeFinancialPin: markPinSubmitted, then the engine's own mark, then the
\* PIN_SUBMITTED event.  If the engine no longer has the plan, or the event cannot
\* be spooled, the job is unknown, the session is blocked and the PIN is refused.
BeforeFinancialPin(h) ==
  LET j == session.job
      submitted == [jobStatus EXCEPT ![j] = "PIN_SUBMITTED"]
      marked == [session EXCEPT !.committed = handler[h].live] IN
  /\ handler[h].pc = "planned"
  /\ handler[h].command = "SubmitLocalPin"
  /\ j # NoJob /\ PinAllowed(j)
  /\ commitGuard' = [commitGuard EXCEPT ![OpOf[j]] = j]
  /\ \/ /\ handler[h].live
        /\ jobStatus' = submitted
        /\ Enqueued(Event(j, "PIN_SUBMITTED", FALSE))
        /\ session' = marked
        /\ HandlerTo(h, [handler[h] EXCEPT !.pc = "cleared"], FALSE)
        /\ UNCHANGED <<activeSims, executor, recovery, toReport>>
     \/ /\ jobStatus' = [jobStatus EXCEPT ![j] = "UNKNOWN"]
        /\ activeSims' = IF session.blocked THEN activeSims ELSE activeSims \ {SimOf[j]}
        /\ IF session.blocked THEN UNCHANGED spool
           ELSE Attempted(Event(j, IF marked.committed THEN "UNKNOWN" ELSE "FAILED", FALSE))
        /\ session' = [marked EXCEPT !.blocked = TRUE]
        /\ HandlerTo(h, [handler[h] EXCEPT !.pc = "refused"], FALSE)
        /\ UNCHANGED <<executor, recovery, toReport>>
     \/ jobStatus' = submitted /\ Dies /\ UNCHANGED <<activeSims, spool>>
  /\ UNCHANGED <<jobFence, highestToken, pins>>

SubmitLocalPin_Again(h, entered, ok) ==
  /\ handler[h].pc = "cleared"
  /\ ok => entered
  /\ pins' = IF entered THEN [pins EXCEPT ![OpOf[handler[h].job]] = @ + 1] ELSE pins
  /\ HandlerTo(h, [handler[h] EXCEPT !.pc = IF ok THEN "entered" ELSE "cleared"], FALSE)
  /\ UNCHANGED <<database, spool, session, executor, recovery, toReport>>

\* The driver types the PIN and presses the button.  A failure it returns does
\* not prove that the provider has not got the PIN.
SubmitLocalPin(h, entered, ok) ==
  /\ handler[h].pc = "cleared"
  /\ ok => entered
  /\ pins' = IF entered THEN [pins EXCEPT ![OpOf[handler[h].job]] = @ + 1] ELSE pins
  /\ HandlerTo(h, [handler[h] EXCEPT !.pc = IF ok THEN "entered" ELSE "missed"], FALSE)
  /\ UNCHANGED <<database, spool, session, executor, recovery, toReport>>

PinDispatched(h) ==
  /\ \/ handler[h].pc = "entered" /\ Acknowledge(h) /\ UNCHANGED activeSims
     \/ handler[h].pc = "missed" /\ DispatchFailed(h)
  /\ UNCHANGED <<jobFence, commitGuard, highestToken, pins>>

-----------------------------------------------------------------------------
(* The heartbeat loop, SMS, interruption and restarts *)

SessionLost_OnlyBeforeCommit ==
  /\ session.job # NoJob /\ ~session.blocked /\ ~session.committed
  /\ FinishLocked("FAILED", "FAILED", FALSE) /\ AllStale /\ UNCHANGED activeSims
  /\ UNCHANGED <<jobFence, commitGuard, highestToken, executor, recovery, toReport, pins>>

\* expireIfNeeded, the expiry check of onScreen, and interrupted.
SessionLost ==
  /\ session.job # NoJob /\ ~session.blocked
  /\ IF session.committed THEN BlockAndQuarantineLocked(session) /\ UNCHANGED handler
     ELSE FinishLocked("FAILED", "FAILED", FALSE) /\ AllStale /\ UNCHANGED activeSims
  /\ UNCHANGED <<jobFence, commitGuard, highestToken, executor, recovery, toReport, pins>>

\* completeFromOutgoingSms.  A payment made shortly before to the same receiver can
\* match as well, so the PIN need not have been typed.
OutgoingSms(st) ==
  /\ session.job # NoJob /\ ~session.blocked /\ session.committed
  /\ FinishLocked(st, st, TRUE)
  /\ AllStale
  /\ UNCHANGED <<jobFence, commitGuard, highestToken, activeSims, executor, recovery, toReport, pins>>

RecoveredStatus_Unmarked(j) == jobStatus[j]

RecoveredStatus_AlwaysFailed(j) == "FAILED"

RecoveredStatus(j) ==
  IF Committed(j) \/ jobStatus[j] \in {"PIN_SUBMITTED", "PROVIDER_PENDING"} THEN "UNKNOWN" ELSE "FAILED"

Recover ==
  LET orphans == {j \in Jobs \ {session.job} : jobStatus[j] \in NonTerminal} IN
  /\ recovery = "pending"
  /\ jobStatus' = [j \in Jobs |-> IF j \in orphans THEN RecoveredStatus(j) ELSE jobStatus[j]]
  /\ toReport' = orphans
  /\ recovery' = "reporting"
  /\ UNCHANGED <<jobFence, commitGuard, highestToken, activeSims, spool, session, executor, handler, pins>>

\* The events are spooled outside the transaction: when one cannot be, the next
\* round finds no orphans and the rest are never reported.
ReportRecovered ==
  /\ recovery = "reporting"
  /\ \/ /\ \E j \in toReport : Enqueued(Event(j, jobStatus[j], FALSE)) /\ toReport' = toReport \ {j}
        /\ UNCHANGED recovery
     \/ toReport # {} /\ toReport' = {} /\ recovery' = "pending" /\ UNCHANGED spool
     \/ toReport = {} /\ recovery' = "done" /\ UNCHANGED <<spool, toReport>>
  /\ UNCHANGED <<database, session, executor, handler, pins>>

\* The foreground service is restarted in a living process: the gateway client
\* and its submit are cancelled, the session and the screen handlers stay.
RestartService ==
  /\ ExecutorTo("idle", NoJob)
  /\ recovery' = "pending"
  /\ toReport' = {}
  /\ UNCHANGED <<database, spool, session, handler, pins>>

\* Process death, possibly just after a terminal status was stored.
Crash(torn) ==
  /\ torn => session.job # NoJob
  /\ jobStatus' = IF torn THEN MarkTerminal(session.job, IF session.committed THEN "UNKNOWN" ELSE "FAILED") ELSE jobStatus
  /\ Dies
  /\ UNCHANGED <<jobFence, commitGuard, highestToken, activeSims, spool, pins>>

\* Enrolment activates a SIM; a SIM found swapped or moved is quarantined.
SimChange(S) ==
  /\ activeSims' = S
  /\ UNCHANGED <<jobStatus, jobFence, commitGuard, highestToken, spool, process, pins>>

-----------------------------------------------------------------------------
Submit ==
  \/ \E e \in Envelopes : Accept(e[1], e[2])
  \/ RejectAccepted \/ Begin \/ Start \/ CancelAccepted \/ ReportStarted \/ Dial \/ FailBeforeStart

HandleScreen(h) ==
  \/ \E c \in Commands : OnScreen(h, c)
  \/ Dispatch(h) \/ EndSession(h)
  \/ BeforeFinancialPin(h) \/ PinRefused(h) \/ AbortRefused(h)
  \/ \E entered, ok \in BOOLEAN : SubmitLocalPin(h, entered, ok)
  \/ PinDispatched(h)

Next ==
  \/ Submit
  \/ \E h \in Handlers : HandleScreen(h)
  \/ SessionLost
  \/ \E st \in {"SUCCESS", "FAILED"} : OutgoingSms(st)
  \/ Recover \/ ReportRecovered \/ RestartService
  \/ \E torn \in BOOLEAN : Crash(torn)
  \/ \E S \in SUBSET Sims : SimChange(S)

Spec == Init /\ [][Next]_vars

\* The heartbeat loop calls expireIfNeeded; a lease is never renewed beyond the
\* job's own expiry, so every session is found expired in the end.
FairSpec == Spec /\ WF_vars(SessionLost)

-----------------------------------------------------------------------------
(* Properties *)

\* The PIN is entered at most once per financial operation, and only when the
\* durable commit guard names a job for it: through overlapping screen handlers,
\* process death, redelivery and further attempts (markPinSubmitted's guard).
OnePinPerOperation ==
  \A o \in Operations : pins[o] <= IF commitGuard[o] = NoJob THEN 0 ELSE 1

\* When the PIN is entered, PIN_SUBMITTED is already in the spool: the cloud can
\* learn of the commit whatever happens to the process (beforeFinancialPin).
PinAnnounced ==
  \A o \in Operations : pins[o] > 0 =>
    \E i \in DOMAIN spool : spool[i].state = "PIN_SUBMITTED" /\ spool[i].job = commitGuard[o]

\* The commits of a SIM are in the order of their fencing tokens: an older job
\* never pays after a newer one (accept, markPinSubmitted).
PinsInFenceOrder ==
  \A i, k \in DOMAIN spool :
    /\ i < k
    /\ spool[i].state = "PIN_SUBMITTED" /\ spool[k].state = "PIN_SUBMITTED"
    /\ SimOf[spool[i].job] = SimOf[spool[k].job]
    => spool[i].fence < spool[k].fence

\* After PIN_SUBMITTED the agent reports a failure or a cancellation only on the
\* provider's word; everything else is unknown (docs/en/ussd-profiles.md,
\* "Any ambiguity after PIN submission").
AmbiguityIsUnknown ==
  \A i, k \in DOMAIN spool :
    /\ i < k /\ spool[i].job = spool[k].job
    /\ spool[i].state = "PIN_SUBMITTED" /\ spool[k].state \in {"FAILED", "CANCELLED"}
    => spool[k].provider

\* A blocked session keeps the handset until the process restarts
\* (blockAndQuarantine's comment).
BlockedUntilRestart ==
  [][session.blocked => session'.blocked \/ recovery' = "pending"]_vars

\* No session keeps the handset for ever without being blocked for the operator.
SessionEnds == \A j \in Jobs : session.job = j ~> session.job # j \/ session.blocked
=============================================================================
