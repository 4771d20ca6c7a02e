---------------------------- MODULE HandsetProofs ----------------------------
(* Type correctness of Handset, its main promise, one PIN per financial      *)
(* operation, and what its spool tells of the commits: each is announced     *)
(* before the PIN, in the order of the SIM's fencing tokens, and while       *)
(* screens are handled one at a time it is never denied.  For every number   *)
(* of jobs, SIMs, operations and screen handlers.                            *)
EXTENDS MCHandset, TLAPS

USE DEF Idle

\* What HandlerTo leaves of the other handlers.
LEMMA HandlerMoves ==
  ASSUME handler \in [Handlers -> HandlerStates], NEW h \in Handlers, NEW x \in HandlerStates,
         NEW stale \in BOOLEAN, HandlerTo(h, x, stale)
  PROVE  /\ handler' \in [Handlers -> HandlerStates]
         /\ handler'[h] = x
         /\ \A g \in Handlers \ {h} :
              /\ handler'[g].pc = handler[g].pc
              /\ handler'[g].job = handler[g].job
              /\ handler'[g].live => handler[g].live /\ ~stale
  <1>1. \A g \in Handlers : handler[g] \in HandlerStates
    OBVIOUS
  <1>2. \A g \in Handlers : [handler[g] EXCEPT !.live = @ /\ ~stale] \in HandlerStates
    BY <1>1 DEF HandlerStates
  <1>3. handler' \in [Handlers -> HandlerStates]
    BY <1>2 DEF HandlerTo
  <1>4. ASSUME NEW g \in Handlers \ {h}
        PROVE  /\ handler'[g].pc = handler[g].pc
               /\ handler'[g].job = handler[g].job
               /\ handler'[g].live => handler[g].live /\ ~stale
    <2>1. handler'[g] = [handler[g] EXCEPT !.live = @ /\ ~stale]
      BY DEF HandlerTo
    <2>2. handler'[g].pc = handler[g].pc /\ handler'[g].job = handler[g].job
      BY <1>1, <2>1 DEF HandlerStates
    <2>3. handler'[g].live = (handler[g].live /\ ~stale)
      BY <1>1, <2>1 DEF HandlerStates
    <2> QED BY <2>2, <2>3
  <1> QED BY <1>3, <1>4 DEF HandlerTo

\* The same for the step that makes every handler's plan stale.
LEMMA HandlersStale ==
  ASSUME handler \in [Handlers -> HandlerStates], AllStale
  PROVE  /\ handler' \in [Handlers -> HandlerStates]
         /\ \A g \in Handlers : /\ handler'[g].pc = handler[g].pc
                                /\ handler'[g].job = handler[g].job
                                /\ ~handler'[g].live
  <1>1. \A g \in Handlers : handler[g] \in HandlerStates
    OBVIOUS
  <1>2. \A g \in Handlers : [handler[g] EXCEPT !.live = FALSE] \in HandlerStates
    BY <1>1 DEF HandlerStates
  <1>3. handler' \in [Handlers -> HandlerStates]
    BY <1>2 DEF AllStale
  <1>4. ASSUME NEW g \in Handlers
        PROVE  handler'[g].pc = handler[g].pc /\ handler'[g].job = handler[g].job /\ ~handler'[g].live
    <2>1. handler'[g] = [handler[g] EXCEPT !.live = FALSE]
      BY DEF AllStale
    <2> QED BY <1>1, <2>1 DEF HandlerStates
  <1> QED BY <1>3, <1>4

\* A step on the job table keeps its type and every terminal status.
JobsKept ==
  /\ jobStatus' \in [Jobs -> Statuses]
  /\ \A i \in Jobs : jobStatus[i] \in Terminal => jobStatus'[i] = jobStatus[i]

\* transitionJob and markTerminal are compare-and-set.
LEMMA StatusMoves ==
  ASSUME TypeOK, NEW j
  PROVE  /\ \A st \in Terminal : jobStatus' = MarkTerminal(j, st) => JobsKept
         /\ \A from \in NonTerminal, to \in Statuses : jobStatus' = Transition(j, from, to) => JobsKept
         /\ UNCHANGED jobStatus => JobsKept
  <1>1. \A st \in Terminal : jobStatus' = MarkTerminal(j, st) => JobsKept
    BY DEF TypeOK, MarkTerminal, JobsKept, Terminal, EventStates, Statuses
  <1>2. \A from \in NonTerminal, to \in Statuses : jobStatus' = Transition(j, from, to) => JobsKept
    BY DEF TypeOK, Transition, JobsKept, Terminal, NonTerminal
  <1> QED BY <1>1, <1>2 DEF TypeOK, JobsKept

\* Spooling an event of a job keeps the spool's type, whether it succeeds or not.
LEMMA SpoolKept ==
  ASSUME TypeOK, NEW j \in Jobs, NEW st \in EventStates, NEW p \in BOOLEAN
  PROVE  /\ Enqueued(Event(j, st, p)) => spool' \in Seq(Events)
         /\ Attempted(Event(j, st, p)) => spool' \in Seq(Events)
  <1>1. Event(j, st, p) \in Events
    BY DEF TypeOK, Event, Events
  <1>2. Enqueued(Event(j, st, p)) => spool' \in Seq(Events)
    BY <1>1 DEF TypeOK, Enqueued
  <1> QED BY <1>2 DEF TypeOK, Attempted

LEMMA NoSessionType ==
  /\ NoSession \in Sessions
  /\ NoSession.job = NoJob
  /\ Idle \in HandlerStates
  /\ Idle.pc = "idle" /\ Idle.live = FALSE
  BY DEF NoSession, Sessions, Steps, Pending, HandlerStates

\* Ending the session.
LEMMA FinishKeeps ==
  ASSUME TypeOK, session.job # NoJob, NEW st \in Terminal, NEW r \in EventStates, NEW p \in BOOLEAN,
         FinishLocked(st, r, p)
  PROVE  JobsKept /\ spool' \in Seq(Events) /\ session' \in Sessions /\ session'.job = NoJob
  <1>1. session.job \in Jobs
    BY DEF TypeOK, Sessions
  <1>2. JobsKept
    BY StatusMoves DEF FinishLocked
  <1>3. spool' \in Seq(Events)
    BY <1>1, SpoolKept DEF FinishLocked
  <1> QED BY <1>2, <1>3, NoSessionType DEF FinishLocked

\* Blocking the session.
LEMMA BlockKeeps ==
  ASSUME TypeOK, NEW s \in Sessions, s.job # NoJob, BlockAndQuarantineLocked(s)
  PROVE  /\ JobsKept /\ spool' \in Seq(Events) /\ activeSims' \subseteq Sims
         /\ session' \in Sessions /\ session'.job = s.job
  <1> DEFINE outcome == IF s.committed THEN "UNKNOWN" ELSE "FAILED"
  <1>1. s.job \in Jobs /\ outcome \in Terminal /\ outcome \in EventStates
    BY DEF Sessions, Terminal, EventStates
  <1>2. CASE s.blocked
    BY <1>2, StatusMoves DEF BlockAndQuarantineLocked, TypeOK
  <1>3. CASE ~s.blocked
    <2>1. JobsKept
      BY <1>1, <1>3, StatusMoves DEF BlockAndQuarantineLocked
    <2>2. spool' \in Seq(Events)
      BY <1>1, <1>3, SpoolKept DEF BlockAndQuarantineLocked
    <2>3. activeSims' \subseteq Sims
      BY <1>3 DEF BlockAndQuarantineLocked, TypeOK
    <2>4. session' = [s EXCEPT !.blocked = TRUE]
      BY <1>3 DEF BlockAndQuarantineLocked
    <2>5. session' \in Sessions /\ session'.job = s.job
      BY <2>4 DEF Sessions
    <2> QED BY <2>1, <2>2, <2>3, <2>5
  <1> QED BY <1>2, <1>3

-----------------------------------------------------------------------------
\* The events recovery still has to spool are of jobs it has ended.
Reported == \A j \in toReport : jobStatus[j] \in Terminal

\* A plan that is still pending belongs to the active session.
LiveOK == \A h \in Handlers : handler[h].live => session.job # NoJob /\ handler[h].job = session.job

\* A handler that is about to type the PIN does so for a job that has committed
\* its operation and has not typed it yet, and is the only one.
ClearedOK ==
  \A h \in Handlers : handler[h].pc = "cleared" =>
    /\ handler[h].job \in Jobs
    /\ Committed(handler[h].job)
    /\ pins[OpOf[handler[h].job]] = 0

ClearedApart ==
  \A g, h \in Handlers :
    g # h /\ handler[g].pc = "cleared" /\ handler[h].pc = "cleared" => OpOf[handler[g].job] # OpOf[handler[h].job]

Base == TypeOK /\ Reported /\ LiveOK
PinInv == Base /\ OnePinPerOperation /\ ClearedOK /\ ClearedApart

\* No handler newly gets to type the PIN.
Calm == \A g \in Handlers : handler'[g].pc = "cleared" => handler[g].pc = "cleared" /\ handler'[g].job = handler[g].job

ExecutorType == [pc : {"idle", "accepted", "begun", "started", "reported"}, job : Jobs \cup {NoJob}]

DataKept ==
  /\ JobsKept
  /\ jobFence' \in [Jobs -> Nat] /\ highestToken' \in [Sims -> Nat]
  /\ activeSims' \subseteq Sims
  /\ spool' \in Seq(Events)

ProcKept ==
  /\ session' \in Sessions
  /\ executor' \in ExecutorType
  /\ handler' \in [Handlers -> HandlerStates]
  /\ recovery' \in {"pending", "reporting", "done"}
  /\ LiveOK'

\* A step that neither commits an operation nor types a PIN.
Quiet == Base' /\ Calm /\ UNCHANGED <<commitGuard, pins>>

LEMMA QuietStep ==
  ASSUME Base, DataKept, ProcKept, Calm, UNCHANGED <<commitGuard, pins>>, toReport' \subseteq toReport
  PROVE  Quiet
  <1>1. Reported'
    BY DEF Base, TypeOK, Reported, DataKept, JobsKept
  <1>2. TypeOK'
    BY DEF Base, TypeOK, DataKept, JobsKept, ProcKept, ExecutorType
  <1> QED BY <1>1, <1>2 DEF Quiet, Base, ProcKept

\* The ways the handlers move in a quiet step.
LEMMA CalmMove ==
  ASSUME TypeOK, LiveOK, NEW h \in Handlers, NEW x \in HandlerStates, NEW stale \in BOOLEAN, HandlerTo(h, x, stale),
         x.pc # "cleared", x.live => session'.job # NoJob /\ x.job = session'.job,
         stale \/ session'.job = session.job
  PROVE  Calm /\ LiveOK' /\ handler' \in [Handlers -> HandlerStates]
  <1>1. handler \in [Handlers -> HandlerStates]
    BY DEF TypeOK
  <1>2. /\ handler' \in [Handlers -> HandlerStates]
        /\ handler'[h] = x
        /\ \A g \in Handlers \ {h} : /\ handler'[g].pc = handler[g].pc
                                     /\ handler'[g].job = handler[g].job
                                     /\ handler'[g].live => handler[g].live /\ ~stale
    BY <1>1, HandlerMoves
  <1>3. Calm
    BY <1>2 DEF Calm
  <1>4. LiveOK'
    BY <1>2 DEF LiveOK
  <1> QED BY <1>2, <1>3, <1>4

LEMMA CalmStale ==
  ASSUME TypeOK, AllStale
  PROVE  Calm /\ LiveOK' /\ handler' \in [Handlers -> HandlerStates]
  <1>1. handler \in [Handlers -> HandlerStates]
    BY DEF TypeOK
  <1> QED BY <1>1, HandlersStale DEF Calm, LiveOK

LEMMA CalmSame ==
  ASSUME TypeOK, LiveOK, UNCHANGED handler, session'.job = session.job
  PROVE  Calm /\ LiveOK' /\ handler' \in [Handlers -> HandlerStates]
  BY DEF TypeOK, Calm, LiveOK

\* The death of the process leaves its volatile state typed and nobody at the PIN.
LEMMA CalmDies ==
  ASSUME Dies
  PROVE  Calm /\ ProcKept /\ toReport' = {}
  <1>1. \A h \in Handlers : handler'[h] = Idle
    BY DEF Dies
  <1>2. handler' \in [Handlers -> HandlerStates]
    BY NoSessionType DEF Dies
  <1>3. Calm /\ LiveOK'
    BY <1>1 DEF Calm, LiveOK
  <1> QED BY <1>2, <1>3, NoSessionType DEF Dies, ProcKept, ExecutorType
-----------------------------------------------------------------------------
\* The executor's steps are quiet.
LEMMA SubmitQuiet ==
  ASSUME Base, Submit
  PROVE  Quiet
  <1>a. TypeOK /\ LiveOK
    BY DEF Base
  <1>b. session.job # NoJob => session.job \in Jobs
    BY <1>a DEF TypeOK, Sessions
  <1>c. executor.job \in Jobs \cup {NoJob}
    BY <1>a DEF TypeOK
  <1>d. /\ "CANCELLED" \in Terminal /\ "CANCELLED" \in EventStates /\ "CANCELLED" \in Statuses
        /\ "FAILED" \in Terminal /\ "FAILED" \in EventStates
        /\ "DEVICE_STARTED" \in EventStates /\ "DEVICE_STARTED" \in Statuses
        /\ "ACCEPTED" \in NonTerminal /\ FALSE \in BOOLEAN
    BY DEF Terminal, EventStates, Statuses, NonTerminal
  <1>e. \A pc \in {"idle", "accepted", "begun", "started", "reported"}, j \in Jobs \cup {NoJob} :
          ExecutorTo(pc, j) => executor' \in ExecutorType
    BY DEF ExecutorTo, ExecutorType
  <1>1. ASSUME NEW e \in Envelopes, Accept(e[1], e[2]) PROVE Quiet
    <2> USE <1>1 DEF Accept
    <2>1. e[1] \in Jobs /\ e[2] \in Nat
      BY HandsetAssumption
    <2>2. JobsKept
      BY <2>1, <1>a DEF TypeOK, JobsKept, Statuses, Terminal
    <2>3. DataKept
      BY <2>1, <2>2, <1>a DEF TypeOK, DataKept
    <2>4. Calm /\ LiveOK' /\ handler' \in [Handlers -> HandlerStates]
      BY <1>a, CalmSame
    <2>5. ProcKept
      BY <2>1, <2>4, <1>a, <1>e DEF TypeOK, ProcKept
    <2> QED BY <2>3, <2>4, <2>5, QuietStep
  <1>2. CASE RejectAccepted
    <2> USE <1>2 DEF RejectAccepted
    <2>1. JobsKept
      BY <1>a, <1>d, StatusMoves
    <2>2. DataKept
      BY <2>1, <1>a DEF TypeOK, DataKept
    <2>3. Calm /\ LiveOK' /\ handler' \in [Handlers -> HandlerStates]
      BY <1>a, CalmSame
    <2>4. ProcKept
      BY <2>3, <1>a, <1>e DEF TypeOK, ProcKept
    <2> QED BY <2>2, <2>3, <2>4, QuietStep
  <1>3. CASE Begin
    <2> USE <1>3 DEF Begin
    <2>1. DataKept
      BY <1>a, StatusMoves DEF TypeOK, DataKept, database
    <2>2. session' \in Sessions
      BY <1>c DEF NoSession, Sessions, Steps, Pending
    <2>3. \A h \in Handlers : ~handler[h].live
      BY <1>a DEF LiveOK
    <2>4. Calm /\ LiveOK' /\ handler' \in [Handlers -> HandlerStates]
      BY <2>3, <1>a DEF Calm, LiveOK, TypeOK
    <2>5. ProcKept
      BY <2>2, <2>4, <1>a, <1>c, <1>e DEF TypeOK, ProcKept
    <2> QED BY <2>1, <2>4, <2>5, QuietStep DEF database
  <1>4. CASE Start
    <2> USE <1>4 DEF Start
    <2>1. JobsKept
      BY <1>a, <1>d, StatusMoves
    <2>2. DataKept
      BY <2>1, <1>a DEF TypeOK, DataKept
    <2>3. Calm /\ LiveOK' /\ handler' \in [Handlers -> HandlerStates]
      BY <1>a, CalmSame
    <2>4. ProcKept
      BY <2>3, <1>a, <1>c, <1>e DEF TypeOK, ProcKept
    <2> QED BY <2>2, <2>3, <2>4, QuietStep
  <1>5. CASE CancelAccepted
    <2> USE <1>5 DEF CancelAccepted
    <2>1. JobsKept
      BY <1>a, <1>d, StatusMoves
    <2>2. spool' \in Seq(Events)
      BY <1>a, <1>b, <1>d, SpoolKept DEF TypeOK
    <2>3. session' \in Sessions
      BY <1>a, NoSessionType DEF TypeOK
    <2>4. Calm /\ LiveOK' /\ handler' \in [Handlers -> HandlerStates]
      BY <1>a, CalmStale
    <2>5. ProcKept
      BY <2>3, <2>4, <1>a, <1>e DEF TypeOK, ProcKept
    <2>6. DataKept
      BY <2>1, <2>2, <1>a DEF TypeOK, DataKept
    <2> QED BY <2>4, <2>5, <2>6, QuietStep
  <1>6. CASE ReportStarted
    <2> USE <1>6 DEF ReportStarted
    <2>1. spool' \in Seq(Events)
      BY <1>a, <1>b, <1>d, SpoolKept
    <2>2. DataKept
      BY <2>1, <1>a, StatusMoves DEF TypeOK, DataKept, database
    <2>3. Calm /\ LiveOK' /\ handler' \in [Handlers -> HandlerStates]
      BY <1>a, CalmSame
    <2>4. ProcKept
      BY <2>3, <1>a, <1>c, <1>e DEF TypeOK, ProcKept
    <2> QED BY <2>2, <2>3, <2>4, QuietStep DEF database
  <1>7. CASE Dial
    <2> USE <1>7 DEF Dial
    <2>1. DataKept
      BY <1>a, StatusMoves DEF TypeOK, DataKept, database
    <2>2. session' \in Sessions /\ session'.job = session.job
      BY <1>a DEF TypeOK, Sessions
    <2>3. Calm /\ LiveOK' /\ handler' \in [Handlers -> HandlerStates]
      BY <2>2, <1>a, CalmSame
    <2>4. ProcKept
      BY <2>2, <2>3, <1>a, <1>e DEF TypeOK, ProcKept
    <2> QED BY <2>1, <2>3, <2>4, QuietStep DEF database
  <1>8. CASE FailBeforeStart
    <2> USE <1>8 DEF FailBeforeStart
    <2>1. JobsKept /\ spool' \in Seq(Events) /\ session' \in Sessions
      <3>1. CASE session.job = NoJob
        BY <3>1, <1>a, StatusMoves DEF TypeOK
      <3>2. CASE session.job # NoJob
        BY <3>2, <1>a, <1>d, FinishKeeps
      <3> QED BY <3>1, <3>2
    <2>2. Calm /\ LiveOK' /\ handler' \in [Handlers -> HandlerStates]
      BY <1>a, CalmStale
    <2>3. ProcKept
      BY <2>1, <2>2, <1>a, <1>e DEF TypeOK, ProcKept
    <2>4. DataKept
      BY <2>1, <1>a DEF TypeOK, DataKept
    <2> QED BY <2>2, <2>3, <2>4, QuietStep
  <1> QED BY <1>1, <1>2, <1>3, <1>4, <1>5, <1>6, <1>7, <1>8 DEF Submit

-----------------------------------------------------------------------------
\* finishForSafety and blockAndQuarantine, with a session or without.
LEMMA SafetyKeeps ==
  ASSUME TypeOK
  PROVE  /\ \A c \in Final : FinishForSafety(c) =>
              JobsKept /\ spool' \in Seq(Events) /\ activeSims' \subseteq Sims /\ session' \in Sessions
         /\ BlockAndQuarantine =>
              /\ JobsKept /\ spool' \in Seq(Events) /\ activeSims' \subseteq Sims
              /\ session' \in Sessions /\ session'.job = session.job
  <1>1. ASSUME NEW c \in Final, FinishForSafety(c)
        PROVE  JobsKept /\ spool' \in Seq(Events) /\ activeSims' \subseteq Sims /\ session' \in Sessions
    <2>1. CASE session.job = NoJob
      BY <1>1, <2>1, StatusMoves DEF FinishForSafety, TypeOK
    <2>2. CASE session.job # NoJob
      <3> DEFINE st == IF c = "UnknownPostCommit" THEN "UNKNOWN" ELSE IF c = "ProviderSuccess" THEN "SUCCESS" ELSE "FAILED"
                 r == IF c = "RequestNameReview" THEN "CANCELLED" ELSE st
                 p == c \in {"ProviderSuccess", "ProviderFailure"}
      <3>1. st \in Terminal /\ r \in EventStates /\ p \in BOOLEAN
        BY DEF Terminal, EventStates
      <3>2. FinishLocked(st, r, p) /\ activeSims' \subseteq activeSims
        BY <1>1, <2>2 DEF FinishForSafety
      <3>3. activeSims \subseteq Sims
        BY DEF TypeOK
      <3> HIDE DEF st, r, p
      <3> QED BY <2>2, <3>1, <3>2, <3>3, FinishKeeps
    <2> QED BY <2>1, <2>2
  <1>2. ASSUME BlockAndQuarantine
        PROVE  /\ JobsKept /\ spool' \in Seq(Events) /\ activeSims' \subseteq Sims
               /\ session' \in Sessions /\ session'.job = session.job
    <2>1. CASE session.job = NoJob
      BY <1>2, <2>1, StatusMoves DEF BlockAndQuarantine, TypeOK
    <2>2. CASE session.job # NoJob
      <3>1. session \in Sessions
        BY DEF TypeOK
      <3> QED BY <1>2, <2>2, <3>1, BlockKeeps DEF BlockAndQuarantine
    <2> QED BY <2>1, <2>2
  <1> QED BY <1>1, <1>2

\* acknowledge and dispatchFailed.
LEMMA AcknowledgeQuiet ==
  ASSUME Base, NEW h \in Handlers, Acknowledge(h),
         UNCHANGED <<activeSims, jobFence, commitGuard, highestToken, pins>>
  PROVE  Quiet
  <1> DEFINE c == handler[h].command
             marked == IF c = "SubmitLocalPin" THEN Transition(session.job, "PIN_SUBMITTED", "PROVIDER_PENDING") ELSE jobStatus
  <1>a. TypeOK /\ LiveOK
    BY DEF Base
  <1>b. session.job # NoJob => session.job \in Jobs
    BY <1>a DEF TypeOK, Sessions
  <1>c. /\ "PIN_SUBMITTED" \in NonTerminal /\ "PROVIDER_PENDING" \in Statuses
        /\ "PROVIDER_PENDING" \in EventStates /\ FALSE \in BOOLEAN /\ TRUE \in BOOLEAN
    BY DEF EventStates, Statuses, NonTerminal
  <1>d. /\ jobStatus' = marked => JobsKept
        /\ jobStatus' = jobStatus => JobsKept
    BY <1>a, <1>c, StatusMoves
  <1>1. CASE /\ session.job = NoJob
             /\ HandlerTo(h, Idle, FALSE)
             /\ UNCHANGED <<jobStatus, spool, session, executor, recovery, toReport>>
    <2>1. Calm /\ LiveOK' /\ handler' \in [Handlers -> HandlerStates]
      BY <1>1, <1>a, <1>c, NoSessionType, CalmMove
    <2>2. DataKept
      BY <1>1, <1>a, <1>d DEF TypeOK, DataKept
    <2>3. ProcKept
      BY <1>1, <2>1, <1>a DEF TypeOK, ProcKept, ExecutorType
    <2> QED BY <1>1, <2>1, <2>2, <2>3, QuietStep
  <1>2. CASE /\ session.job # NoJob /\ handler[h].live
             /\ \E next \in NextStep(session.step, c) : session' = [session EXCEPT !.step = next, !.pending = "none"]
             /\ jobStatus' = marked
             /\ IF c = "SubmitLocalPin" THEN Enqueued(Event(session.job, "PROVIDER_PENDING", FALSE)) ELSE UNCHANGED spool
             /\ HandlerTo(h, Idle, TRUE)
             /\ UNCHANGED <<executor, recovery, toReport>>
    <2>1. Calm /\ LiveOK' /\ handler' \in [Handlers -> HandlerStates]
      BY <1>2, <1>a, <1>c, NoSessionType, CalmMove
    <2>2. spool' \in Seq(Events)
      BY <1>2, <1>a, <1>b, <1>c, SpoolKept DEF TypeOK
    <2>3. DataKept
      BY <1>2, <2>2, <1>a, <1>d DEF TypeOK, DataKept
    <2>4. PICK next \in NextStep(session.step, c) : session' = [session EXCEPT !.step = next, !.pending = "none"]
      BY <1>2
    <2>5. session \in Sessions
      BY <1>a DEF TypeOK
    <2>6. next \in Steps
      BY <2>5 DEF NextStep, Steps, Sessions
    <2>7. session' \in Sessions
      BY <2>4, <2>5, <2>6 DEF Sessions
    <2>8. ProcKept
      BY <1>2, <2>1, <2>7, <1>a DEF TypeOK, ProcKept, ExecutorType
    <2> QED BY <1>2, <2>1, <2>3, <2>8, QuietStep
  <1>3. CASE /\ jobStatus' = IF handler[h].live THEN marked ELSE jobStatus
             /\ Dies
             /\ UNCHANGED spool
    <2>1. Calm /\ ProcKept /\ toReport' = {}
      BY <1>3, CalmDies
    <2>2. DataKept
      BY <1>3, <1>a, <1>d DEF TypeOK, DataKept
    <2> QED BY <2>1, <2>2, QuietStep
  <1> QED BY <1>1, <1>2, <1>3 DEF Acknowledge

LEMMA DispatchFailedQuiet ==
  ASSUME Base, NEW h \in Handlers, DispatchFailed(h), UNCHANGED <<jobFence, commitGuard, highestToken, pins>>
  PROVE  Quiet
  <1> DEFINE failed == [session EXCEPT !.pending = "none", !.ended = TRUE]
  <1>a. TypeOK /\ LiveOK
    BY DEF Base
  <1>b. "FAILED" \in Terminal /\ "FAILED" \in EventStates /\ FALSE \in BOOLEAN /\ TRUE \in BOOLEAN
    BY DEF EventStates, Terminal
  <1>1. CASE /\ session.job = NoJob
             /\ HandlerTo(h, Idle, FALSE)
             /\ UNCHANGED <<jobStatus, activeSims, spool, session, executor, recovery, toReport>>
    <2>1. Calm /\ LiveOK' /\ handler' \in [Handlers -> HandlerStates]
      BY <1>1, <1>a, <1>b, NoSessionType, CalmMove
    <2>2. DataKept
      BY <1>1, <1>a, StatusMoves DEF TypeOK, DataKept
    <2>3. ProcKept
      BY <1>1, <2>1, <1>a DEF TypeOK, ProcKept, ExecutorType
    <2> QED BY <1>1, <2>1, <2>2, <2>3, QuietStep
  <1>2. CASE /\ session.job # NoJob /\ handler[h].live
             /\ IF session.committed THEN BlockAndQuarantineLocked(failed)
                ELSE FinishLocked("FAILED", "FAILED", FALSE) /\ UNCHANGED activeSims
             /\ HandlerTo(h, Idle, TRUE)
             /\ UNCHANGED <<executor, recovery, toReport>>
    <2>1. failed \in Sessions /\ failed.job = session.job
      BY <1>a DEF TypeOK, Sessions
    <2> HIDE DEF failed
    <2>2. JobsKept /\ spool' \in Seq(Events) /\ activeSims' \subseteq Sims /\ session' \in Sessions
      <3>1. CASE session.committed
        BY <1>2, <2>1, <3>1, <1>a, BlockKeeps
      <3>2. CASE ~session.committed
        <4>1. activeSims' \subseteq Sims
          BY <1>2, <3>2, <1>a DEF TypeOK
        <4> QED BY <1>2, <3>2, <4>1, <1>a, <1>b, FinishKeeps
      <3> QED BY <3>1, <3>2
    <2>3. Calm /\ LiveOK' /\ handler' \in [Handlers -> HandlerStates]
      BY <1>2, <1>a, <1>b, NoSessionType, CalmMove
    <2>4. DataKept
      BY <2>2, <1>a DEF TypeOK, DataKept
    <2>5. ProcKept
      BY <1>2, <2>2, <2>3, <1>a DEF TypeOK, ProcKept, ExecutorType
    <2> QED BY <1>2, <2>3, <2>4, <2>5, QuietStep
  <1>3. CASE Dies /\ UNCHANGED <<jobStatus, activeSims, spool>>
    <2>1. Calm /\ ProcKept /\ toReport' = {}
      BY <1>3, CalmDies
    <2>2. DataKept
      BY <1>3, <1>a, StatusMoves DEF TypeOK, DataKept
    <2> QED BY <2>1, <2>2, QuietStep
  <1> QED BY <1>1, <1>2, <1>3 DEF DispatchFailed

\* The other steps of a screen handler that are quiet.
LEMMA ScreenQuiet ==
  ASSUME Base, NEW h \in Handlers,
         \/ \E c \in Commands : OnScreen(h, c)
         \/ Dispatch(h) \/ EndSession(h) \/ PinRefused(h) \/ AbortRefused(h) \/ PinDispatched(h)
  PROVE  Quiet
  <1>a. TypeOK /\ LiveOK /\ FALSE \in BOOLEAN /\ TRUE \in BOOLEAN
    BY DEF Base
  <1>b. session \in Sessions /\ handler[h] \in HandlerStates
    BY <1>a DEF TypeOK
  <1>1. ASSUME NEW c \in Commands, OnScreen(h, c) PROVE Quiet
    <2> DEFINE planned(live) == [pc |-> "planned", job |-> session.job, command |-> c, live |-> live]
    <2>1. DataKept
      BY <1>1, <1>a, StatusMoves DEF OnScreen, TypeOK, DataKept, database
    <2>2. \A live \in BOOLEAN :
            /\ planned(live) \in HandlerStates
            /\ planned(live).pc # "cleared" /\ planned(live).job = session.job
      BY <1>b DEF HandlerStates, Sessions
    <2>3. PICK live \in BOOLEAN : HandlerTo(h, planned(live), FALSE)
      <3>1. CASE HandlerTo(h, planned(TRUE), FALSE)
        BY <3>1
      <3>2. CASE HandlerTo(h, planned(c \in Pending), FALSE)
        <4>1. (c \in Pending) \in BOOLEAN
          OBVIOUS
        <4> QED BY <3>2, <4>1, Zenon
      <3> QED BY <1>1, <3>1, <3>2 DEF OnScreen
    <2>4. session' \in Sessions /\ session'.job = session.job
      <3>1. CASE UNCHANGED session
        BY <3>1, <1>b
      <3>2. CASE session' = [session EXCEPT !.pending = IF c \in Pending THEN c ELSE @, !.ended = c \in Final]
        <4> DEFINE p == IF c \in Pending THEN c ELSE session.pending
                   e == c \in Final
        <4>1. p \in Pending \cup {"none"} /\ e \in BOOLEAN
          BY <1>b DEF Sessions
        <4>2. session' = [session EXCEPT !.pending = p, !.ended = e]
          BY <3>2, <1>b DEF Sessions
        <4> HIDE DEF p, e
        <4> QED BY <4>1, <4>2, <1>b DEF Sessions
      <3> QED BY <1>1, <3>1, <3>2 DEF OnScreen
    <2>5. session.job # NoJob
      BY <1>1 DEF OnScreen
    <2> HIDE DEF planned
    <2>6. Calm /\ LiveOK' /\ handler' \in [Handlers -> HandlerStates]
      BY <2>2, <2>3, <2>4, <2>5, <1>a, CalmMove
    <2>7. ProcKept
      BY <1>1, <2>4, <2>6, <1>a DEF OnScreen, TypeOK, ProcKept, ExecutorType
    <2> QED BY <1>1, <2>1, <2>6, <2>7, QuietStep DEF OnScreen, database
  <1>2. CASE Dispatch(h)
    <2>1. CASE Acknowledge(h) /\ UNCHANGED activeSims
      BY <1>2, <2>1, AcknowledgeQuiet DEF Dispatch
    <2>2. CASE DispatchFailed(h)
      BY <1>2, <2>2, DispatchFailedQuiet DEF Dispatch
    <2>3. CASE BlockAndQuarantine /\ HandlerTo(h, Idle, FALSE) /\ UNCHANGED <<executor, recovery, toReport>>
      <3>1. /\ JobsKept /\ spool' \in Seq(Events) /\ activeSims' \subseteq Sims
            /\ session' \in Sessions /\ session'.job = session.job
        BY <2>3, <1>a, SafetyKeeps
      <3>2. Calm /\ LiveOK' /\ handler' \in [Handlers -> HandlerStates]
        BY <2>3, <3>1, <1>a, NoSessionType, CalmMove
      <3>3. DataKept
        BY <1>2, <3>1, <1>a DEF Dispatch, TypeOK, DataKept
      <3>4. ProcKept
        BY <2>3, <3>1, <3>2, <1>a DEF TypeOK, ProcKept, ExecutorType
      <3> QED BY <1>2, <2>3, <3>2, <3>3, <3>4, QuietStep DEF Dispatch
    <2> QED BY <1>2, <2>1, <2>2, <2>3 DEF Dispatch
  <1>3. CASE EndSession(h)
    <2>1. CASE FinishForSafety(handler[h].command) /\ HandlerTo(h, Idle, TRUE)
      <3>1. JobsKept /\ spool' \in Seq(Events) /\ activeSims' \subseteq Sims /\ session' \in Sessions
        BY <1>3, <2>1, <1>a, SafetyKeeps DEF EndSession
      <3>2. Calm /\ LiveOK' /\ handler' \in [Handlers -> HandlerStates]
        BY <2>1, <1>a, NoSessionType, CalmMove
      <3>3. DataKept
        BY <1>3, <3>1, <1>a DEF EndSession, TypeOK, DataKept
      <3>4. ProcKept
        BY <1>3, <3>1, <3>2, <1>a DEF EndSession, TypeOK, ProcKept, ExecutorType
      <3> QED BY <1>3, <3>2, <3>3, <3>4, QuietStep DEF EndSession
    <2>2. CASE BlockAndQuarantine /\ HandlerTo(h, Idle, FALSE)
      <3>1. /\ JobsKept /\ spool' \in Seq(Events) /\ activeSims' \subseteq Sims
            /\ session' \in Sessions /\ session'.job = session.job
        BY <2>2, <1>a, SafetyKeeps
      <3>2. Calm /\ LiveOK' /\ handler' \in [Handlers -> HandlerStates]
        BY <2>2, <3>1, <1>a, NoSessionType, CalmMove
      <3>3. DataKept
        BY <1>3, <3>1, <1>a DEF EndSession, TypeOK, DataKept
      <3>4. ProcKept
        BY <1>3, <3>1, <3>2, <1>a DEF EndSession, TypeOK, ProcKept, ExecutorType
      <3> QED BY <1>3, <3>2, <3>3, <3>4, QuietStep DEF EndSession
    <2> QED BY <1>3, <2>1, <2>2 DEF EndSession
  <1>4. CASE PinRefused(h)
    <2> DEFINE x == [handler[h] EXCEPT !.pc = "refused"]
    <2>1. x \in HandlerStates /\ x.pc # "cleared" /\ x.live = handler[h].live /\ x.job = handler[h].job
      BY <1>b DEF HandlerStates
    <2>2. HandlerTo(h, x, FALSE) /\ UNCHANGED <<database, spool, session, executor, recovery, toReport, pins>>
      BY <1>4 DEF PinRefused
    <2> HIDE DEF x
    <2>3. x.live => session.job # NoJob /\ x.job = session.job
      BY <2>1, <1>a DEF LiveOK
    <2>4. Calm /\ LiveOK' /\ handler' \in [Handlers -> HandlerStates]
      BY <2>1, <2>2, <2>3, <1>a, CalmMove
    <2>5. DataKept
      BY <2>2, <1>a, StatusMoves DEF TypeOK, DataKept, database
    <2>6. ProcKept
      BY <2>2, <2>4, <1>a DEF TypeOK, ProcKept, ExecutorType
    <2> QED BY <2>2, <2>4, <2>5, <2>6, QuietStep DEF database
  <1>5. CASE AbortRefused(h)
    <2>1. FinishForSafety("AbortPreCommit") /\ HandlerTo(h, Idle, TRUE) /\ "AbortPreCommit" \in Final
      BY <1>5 DEF AbortRefused, Final
    <2>2. JobsKept /\ spool' \in Seq(Events) /\ activeSims' \subseteq Sims /\ session' \in Sessions
      BY <2>1, <1>a, SafetyKeeps
    <2>3. Calm /\ LiveOK' /\ handler' \in [Handlers -> HandlerStates]
      BY <2>1, <1>a, NoSessionType, CalmMove
    <2>4. DataKept
      BY <1>5, <2>2, <1>a DEF AbortRefused, TypeOK, DataKept
    <2>5. ProcKept
      BY <1>5, <2>2, <2>3, <1>a DEF AbortRefused, TypeOK, ProcKept, ExecutorType
    <2> QED BY <1>5, <2>3, <2>4, <2>5, QuietStep DEF AbortRefused
  <1>6. CASE PinDispatched(h)
    <2>1. CASE Acknowledge(h) /\ UNCHANGED activeSims
      BY <1>6, <2>1, AcknowledgeQuiet DEF PinDispatched
    <2>2. CASE DispatchFailed(h)
      BY <1>6, <2>2, DispatchFailedQuiet DEF PinDispatched
    <2> QED BY <1>6, <2>1, <2>2 DEF PinDispatched
  <1> QED BY <1>1, <1>2, <1>3, <1>4, <1>5, <1>6

\* The heartbeat loop, SMS, restarts, SIM changes and stuttering are quiet.
LEMMA SystemQuiet ==
  ASSUME Base,
         \/ SessionLost
         \/ \E st \in {"SUCCESS", "FAILED"} : OutgoingSms(st)
         \/ Recover \/ ReportRecovered \/ RestartService
         \/ \E torn \in BOOLEAN : Crash(torn)
         \/ \E S \in SUBSET Sims : SimChange(S)
         \/ UNCHANGED vars
  PROVE  Quiet
  <1>a. TypeOK /\ LiveOK /\ FALSE \in BOOLEAN /\ TRUE \in BOOLEAN
    BY DEF Base
  <1>b. session \in Sessions
    BY <1>a DEF TypeOK
  <1>c. /\ "FAILED" \in Terminal /\ "FAILED" \in EventStates /\ "SUCCESS" \in Terminal /\ "SUCCESS" \in EventStates
        /\ "UNKNOWN" \in Terminal /\ Terminal \subseteq EventStates /\ Terminal \subseteq Statuses
    BY DEF Terminal, EventStates, Statuses
  <1>1. CASE SessionLost
    <2>1. /\ JobsKept /\ spool' \in Seq(Events) /\ activeSims' \subseteq Sims /\ session' \in Sessions
          /\ Calm /\ LiveOK' /\ handler' \in [Handlers -> HandlerStates]
      <3>1. CASE session.committed
        <4>1. /\ JobsKept /\ spool' \in Seq(Events) /\ activeSims' \subseteq Sims
              /\ session' \in Sessions /\ session'.job = session.job
          BY <1>1, <3>1, <1>a, <1>b, BlockKeeps DEF SessionLost
        <4> QED BY <1>1, <3>1, <4>1, <1>a, CalmSame DEF SessionLost
      <3>2. CASE ~session.committed
        <4>1. JobsKept /\ spool' \in Seq(Events) /\ session' \in Sessions
          BY <1>1, <3>2, <1>a, <1>c, FinishKeeps DEF SessionLost
        <4>2. activeSims' \subseteq Sims
          BY <1>1, <3>2, <1>a DEF SessionLost, TypeOK
        <4> QED BY <1>1, <3>2, <4>1, <4>2, <1>a, CalmStale DEF SessionLost
      <3> QED BY <3>1, <3>2
    <2>2. DataKept
      BY <1>1, <2>1, <1>a DEF SessionLost, TypeOK, DataKept
    <2>3. ProcKept
      BY <1>1, <2>1, <1>a DEF SessionLost, TypeOK, ProcKept, ExecutorType
    <2> QED BY <1>1, <2>1, <2>2, <2>3, QuietStep DEF SessionLost
  <1>2. ASSUME NEW st \in {"SUCCESS", "FAILED"}, OutgoingSms(st) PROVE Quiet
    <2>1. JobsKept /\ spool' \in Seq(Events) /\ session' \in Sessions
      BY <1>2, <1>a, <1>c, FinishKeeps DEF OutgoingSms
    <2>2. Calm /\ LiveOK' /\ handler' \in [Handlers -> HandlerStates]
      BY <1>2, <1>a, CalmStale DEF OutgoingSms
    <2>3. DataKept
      BY <1>2, <2>1, <1>a DEF OutgoingSms, TypeOK, DataKept
    <2>4. ProcKept
      BY <1>2, <2>1, <2>2, <1>a DEF OutgoingSms, TypeOK, ProcKept, ExecutorType
    <2> QED BY <1>2, <2>2, <2>3, <2>4, QuietStep DEF OutgoingSms
  <1>3. CASE Recover
    <2> DEFINE orphans == {j \in Jobs \ {session.job} : jobStatus[j] \in NonTerminal}
    <2>1. \A j : RecoveredStatus(j) \in Terminal
      BY <1>c DEF RecoveredStatus
    <2>2. /\ orphans \subseteq Jobs
          /\ \A j \in orphans : jobStatus[j] \notin Terminal
      BY DEF NonTerminal, Terminal
    <2>3. /\ jobStatus' = [j \in Jobs |-> IF j \in orphans THEN RecoveredStatus(j) ELSE jobStatus[j]]
          /\ toReport' = orphans
      BY <1>3 DEF Recover
    <2> HIDE DEF orphans
    <2>4. JobsKept
      BY <2>1, <2>2, <2>3, <1>a, <1>c DEF TypeOK, JobsKept
    <2>5. Reported'
      BY <2>1, <2>2, <2>3 DEF Reported
    <2>6. Calm /\ LiveOK'
      BY <1>3, <1>a, CalmSame DEF Recover
    <2>7. TypeOK'
      BY <1>3, <2>2, <2>3, <2>4, <1>a DEF Recover, TypeOK, JobsKept
    <2> QED BY <1>3, <2>5, <2>6, <2>7 DEF Recover, Quiet, Base
  <1>4. CASE ReportRecovered
    <2>1. Calm /\ LiveOK' /\ handler' \in [Handlers -> HandlerStates]
      BY <1>4, <1>a, CalmSame DEF ReportRecovered
    <2>2. spool' \in Seq(Events) /\ toReport' \subseteq toReport /\ recovery' \in {"pending", "reporting", "done"}
      <3>1. CASE \E j \in toReport : Enqueued(Event(j, jobStatus[j], FALSE)) /\ toReport' = toReport \ {j}
                                      /\ UNCHANGED recovery
        <4>1. PICK j \in toReport : Enqueued(Event(j, jobStatus[j], FALSE)) /\ toReport' = toReport \ {j}
                                      /\ UNCHANGED recovery
          BY <3>1
        <4>2. j \in Jobs /\ jobStatus[j] \in EventStates
          BY <1>a, <1>c DEF TypeOK, Base, Reported
        <4>3. spool' \in Seq(Events)
          BY <4>1, <4>2, <1>a, SpoolKept
        <4> QED BY <4>1, <4>3, <1>a DEF TypeOK
      <3>2. CASE spool' = spool
        BY <1>4, <3>2, <1>a DEF ReportRecovered, TypeOK
      <3> QED BY <1>4, <3>1, <3>2 DEF ReportRecovered
    <2>3. DataKept
      BY <1>4, <2>2, <1>a, StatusMoves DEF ReportRecovered, TypeOK, DataKept, database
    <2>4. ProcKept
      BY <1>4, <2>1, <2>2, <1>a DEF ReportRecovered, TypeOK, ProcKept, ExecutorType
    <2> QED BY <1>4, <2>1, <2>2, <2>3, <2>4, QuietStep DEF ReportRecovered, database
  <1>5. CASE RestartService
    <2>1. Calm /\ LiveOK' /\ handler' \in [Handlers -> HandlerStates]
      BY <1>5, <1>a, CalmSame DEF RestartService
    <2>2. DataKept
      BY <1>5, <1>a, StatusMoves DEF RestartService, TypeOK, DataKept, database
    <2>3. ProcKept
      BY <1>5, <2>1, <1>b DEF RestartService, ExecutorTo, ProcKept, ExecutorType
    <2>4. toReport' \subseteq toReport
      BY <1>5 DEF RestartService
    <2> QED BY <1>5, <2>1, <2>2, <2>3, <2>4, QuietStep DEF RestartService, database
  <1>6. ASSUME NEW torn \in BOOLEAN, Crash(torn) PROVE Quiet
    <2>1. JobsKept
      BY <1>6, <1>a, <1>c, StatusMoves DEF Crash
    <2>2. DataKept
      BY <1>6, <2>1, <1>a DEF Crash, TypeOK, DataKept
    <2>3. Calm /\ ProcKept /\ toReport' = {}
      BY <1>6, CalmDies DEF Crash
    <2> QED BY <1>6, <2>2, <2>3, QuietStep DEF Crash
  <1>7. ASSUME NEW S \in SUBSET Sims, SimChange(S) PROVE Quiet
    <2>1. Calm /\ LiveOK' /\ handler' \in [Handlers -> HandlerStates]
      BY <1>7, <1>a, CalmSame DEF SimChange, process
    <2>2. DataKept
      BY <1>7, <1>a, StatusMoves DEF SimChange, TypeOK, DataKept
    <2>3. ProcKept
      BY <1>7, <2>1, <1>a DEF SimChange, process, TypeOK, ProcKept, ExecutorType
    <2> QED BY <1>7, <2>1, <2>2, <2>3, QuietStep DEF SimChange, process
  <1>8. CASE UNCHANGED vars
    <2>1. Calm /\ LiveOK' /\ handler' \in [Handlers -> HandlerStates]
      BY <1>8, <1>a, CalmSame DEF vars, process
    <2>2. DataKept
      BY <1>8, <1>a, StatusMoves DEF vars, database, TypeOK, DataKept
    <2>3. ProcKept
      BY <1>8, <2>1, <1>a DEF vars, process, TypeOK, ProcKept, ExecutorType
    <2> QED BY <1>8, <2>1, <2>2, <2>3, QuietStep DEF vars, database, process
  <1> QED BY <1>1, <1>2, <1>3, <1>4, <1>5, <1>6, <1>7, <1>8

-----------------------------------------------------------------------------
\* A quiet step keeps the invariant: fewer handlers are at the PIN, and the
\* commit guards and the PINs are where they were.
LEMMA QuietPin ==
  ASSUME PinInv, Quiet
  PROVE  PinInv'
  <1>1. Base' /\ Calm /\ commitGuard' = commitGuard /\ pins' = pins
    BY DEF Quiet
  <1>2. OnePinPerOperation'
    BY <1>1 DEF PinInv, OnePinPerOperation
  <1>3. ClearedOK'
    BY <1>1 DEF PinInv, ClearedOK, Calm, Committed
  <1>4. ClearedApart'
    BY <1>1 DEF PinInv, ClearedApart, Calm
  <1> QED BY <1>1, <1>2, <1>3, <1>4 DEF PinInv

\* A free operation: no PIN was entered for it and no handler is about to.
LEMMA FreeOperation ==
  ASSUME PinInv, NEW o \in Operations, commitGuard[o] = NoJob
  PROVE  /\ pins[o] = 0
         /\ \A g \in Handlers : handler[g].pc = "cleared" => OpOf[handler[g].job] # o
  <1>1. pins[o] = 0
    BY DEF PinInv, Base, TypeOK, OnePinPerOperation
  <1>2. \A g \in Handlers : handler[g].pc = "cleared" => OpOf[handler[g].job] # o
    BY HandsetAssumption DEF PinInv, ClearedOK, Committed
  <1> QED BY <1>1, <1>2

\* beforeFinancialPin: the guard it writes was free, so the handler it clears is
\* the only one for the operation, and no PIN was entered yet.
LEMMA CommitStep ==
  ASSUME PinInv, NEW h \in Handlers, BeforeFinancialPin(h)
  PROVE  PinInv'
  <1> DEFINE j == session.job
             o == OpOf[j]
             submitted == [jobStatus EXCEPT ![j] = "PIN_SUBMITTED"]
             marked == [session EXCEPT !.committed = handler[h].live]
  <1>a. TypeOK /\ Reported /\ LiveOK
    BY DEF PinInv, Base
  <1>b. session \in Sessions /\ handler[h] \in HandlerStates /\ handler \in [Handlers -> HandlerStates]
    BY <1>a DEF TypeOK
  <1>c. j \in Jobs /\ j # NoJob /\ o \in Operations /\ commitGuard[o] = NoJob
    BY <1>b, HandsetAssumption DEF BeforeFinancialPin, PinAllowed, Sessions
  <1>d. /\ handler[h].pc # "cleared" /\ jobStatus[j] \notin Terminal
        /\ jobFence' = jobFence /\ highestToken' = highestToken /\ pins' = pins
        /\ commitGuard' = [commitGuard EXCEPT ![o] = j]
    BY DEF BeforeFinancialPin, PinAllowed, Terminal
  <1>e. /\ pins[o] = 0
        /\ \A g \in Handlers : handler[g].pc = "cleared" => OpOf[handler[g].job] # o
    BY <1>c, FreeOperation
  <1>f. /\ commitGuard' \in [Operations -> Jobs \cup {NoJob}]
        /\ commitGuard'[o] = j
        /\ \A q \in Operations \ {o} : commitGuard'[q] = commitGuard[q]
    BY <1>a, <1>c, <1>d DEF TypeOK
  <1>g. OnePinPerOperation'
    BY <1>c, <1>d, <1>e, <1>f DEF PinInv, OnePinPerOperation
  <1>h. marked \in Sessions /\ marked.job = j /\ marked.committed \in BOOLEAN
    BY <1>b DEF Sessions, HandlerStates
  <1>i. \A st \in Statuses : jobStatus' = [jobStatus EXCEPT ![j] = st] => JobsKept
    BY <1>a, <1>c, <1>d DEF TypeOK, JobsKept
  <1>j. /\ "PIN_SUBMITTED" \in Statuses /\ "UNKNOWN" \in Statuses /\ "PIN_SUBMITTED" \in EventStates
        /\ "UNKNOWN" \in EventStates /\ "FAILED" \in EventStates /\ FALSE \in BOOLEAN
    BY DEF EventStates, Terminal, Statuses
  <1>k. ASSUME JobsKept, toReport' \subseteq toReport PROVE Reported'
    BY <1>k, <1>a DEF TypeOK, Reported, JobsKept
  \* A calm step that commits.
  <1>l. ASSUME Base', Calm PROVE PinInv'
    <2>1. ClearedOK'
      <3> SUFFICES ASSUME NEW g \in Handlers, handler'[g].pc = "cleared"
                   PROVE  /\ handler'[g].job \in Jobs
                          /\ commitGuard'[OpOf[handler'[g].job]] = handler'[g].job
                          /\ pins'[OpOf[handler'[g].job]] = 0
        BY DEF ClearedOK, Committed
      <3>1. handler[g].pc = "cleared" /\ handler'[g].job = handler[g].job
        BY <1>l DEF Calm
      <3>2. /\ handler[g].job \in Jobs /\ OpOf[handler[g].job] # o
            /\ commitGuard[OpOf[handler[g].job]] = handler[g].job /\ pins[OpOf[handler[g].job]] = 0
        BY <3>1, <1>e DEF PinInv, ClearedOK, Committed
      <3>3. OpOf[handler[g].job] \in Operations
        BY <3>2, HandsetAssumption
      <3> QED BY <3>1, <3>2, <3>3, <1>d, <1>f
    <2>2. ClearedApart'
      BY <1>l DEF PinInv, ClearedApart, Calm
    <2> QED BY <1>l, <2>1, <2>2, <1>g DEF PinInv
  <1>1. CASE /\ handler[h].live
             /\ jobStatus' = submitted
             /\ Enqueued(Event(j, "PIN_SUBMITTED", FALSE))
             /\ session' = marked
             /\ HandlerTo(h, [handler[h] EXCEPT !.pc = "cleared"], FALSE)
             /\ UNCHANGED <<activeSims, executor, recovery, toReport>>
    <2> DEFINE x == [handler[h] EXCEPT !.pc = "cleared"]
    <2>1. /\ x \in HandlerStates /\ x.job = handler[h].job /\ x.live = handler[h].live
          /\ HandlerTo(h, x, FALSE)
      BY <1>1, <1>b DEF HandlerStates
    <2>2. handler[h].job = j
      BY <1>1, <1>a DEF LiveOK
    <2> HIDE DEF x
    <2>3. /\ handler' \in [Handlers -> HandlerStates]
          /\ handler'[h] = x
          /\ \A g \in Handlers \ {h} : /\ handler'[g].pc = handler[g].pc
                                       /\ handler'[g].job = handler[g].job
                                       /\ handler'[g].live => handler[g].live
      BY <2>1, <1>b, <1>j, HandlerMoves
    <2>4. JobsKept
      BY <1>1, <1>i, <1>j
    <2>5. spool' \in Seq(Events)
      BY <1>1, <1>a, <1>c, <1>j, SpoolKept
    <2>6. TypeOK'
      BY <1>1, <2>3, <2>4, <2>5, <1>a, <1>d, <1>f, <1>h DEF TypeOK, JobsKept
    <2>7. LiveOK'
      BY <1>1, <2>1, <2>2, <2>3, <1>a, <1>c, <1>h DEF LiveOK
    <2>8. Reported'
      BY <1>1, <2>4, <1>k
    <2>9. ClearedOK'
      <3> SUFFICES ASSUME NEW g \in Handlers, handler'[g].pc = "cleared"
                   PROVE  /\ handler'[g].job \in Jobs
                          /\ commitGuard'[OpOf[handler'[g].job]] = handler'[g].job
                          /\ pins'[OpOf[handler'[g].job]] = 0
        BY DEF ClearedOK, Committed
      <3>1. CASE g = h
        BY <3>1, <2>1, <2>2, <2>3, <1>c, <1>d, <1>e, <1>f
      <3>2. CASE g # h
        <4>1. handler[g].pc = "cleared" /\ handler'[g].job = handler[g].job
          BY <3>2, <2>3
        <4>2. /\ handler[g].job \in Jobs /\ OpOf[handler[g].job] # o
              /\ commitGuard[OpOf[handler[g].job]] = handler[g].job /\ pins[OpOf[handler[g].job]] = 0
          BY <4>1, <1>e DEF PinInv, ClearedOK, Committed
        <4>3. OpOf[handler[g].job] \in Operations
          BY <4>2, HandsetAssumption
        <4> QED BY <4>1, <4>2, <4>3, <1>d, <1>f
      <3> QED BY <3>1, <3>2
    <2>10. ClearedApart'
      <3>1. \A g \in Handlers \ {h} : handler'[g].pc = "cleared" => OpOf[handler'[g].job] # o
        BY <2>3, <1>e
      <3>2. OpOf[handler'[h].job] = o
        BY <2>1, <2>2, <2>3
      <3> QED BY <2>3, <3>1, <3>2 DEF PinInv, ClearedApart
    <2> QED BY <2>6, <2>7, <2>8, <2>9, <2>10, <1>g DEF PinInv, Base
  <1>2. CASE /\ jobStatus' = [jobStatus EXCEPT ![j] = "UNKNOWN"]
             /\ activeSims' = IF session.blocked THEN activeSims ELSE activeSims \ {SimOf[j]}
             /\ IF session.blocked THEN UNCHANGED spool
                ELSE Attempted(Event(j, IF marked.committed THEN "UNKNOWN" ELSE "FAILED", FALSE))
             /\ session' = [marked EXCEPT !.blocked = TRUE]
             /\ HandlerTo(h, [handler[h] EXCEPT !.pc = "refused"], FALSE)
             /\ UNCHANGED <<executor, recovery, toReport>>
    <2> DEFINE x == [handler[h] EXCEPT !.pc = "refused"]
    <2>1. /\ x \in HandlerStates /\ x.pc # "cleared" /\ x.job = handler[h].job /\ x.live = handler[h].live
          /\ HandlerTo(h, x, FALSE)
      BY <1>2, <1>b DEF HandlerStates
    <2> HIDE DEF x, marked
    <2>2. session' \in Sessions /\ session'.job = session.job
      BY <1>2, <1>h DEF Sessions
    <2>3. x.live => session'.job # NoJob /\ x.job = session'.job
      BY <2>1, <2>2, <1>a DEF LiveOK
    <2>4. Calm /\ LiveOK' /\ handler' \in [Handlers -> HandlerStates]
      BY <2>1, <2>2, <2>3, <1>a, <1>j, CalmMove
    <2>5. JobsKept
      BY <1>2, <1>i, <1>j
    <2>6. spool' \in Seq(Events)
      BY <1>2, <1>a, <1>c, <1>j, SpoolKept DEF TypeOK
    <2>7. activeSims' \subseteq Sims
      BY <1>2, <1>a DEF TypeOK
    <2>8. TypeOK'
      BY <1>2, <2>2, <2>4, <2>5, <2>6, <2>7, <1>a, <1>d, <1>f DEF TypeOK, JobsKept
    <2>9. Reported'
      BY <1>2, <2>5, <1>k
    <2> QED BY <2>4, <2>8, <2>9, <1>l DEF Base
  <1>3. CASE jobStatus' = submitted /\ Dies /\ UNCHANGED <<activeSims, spool>>
    <2>1. Calm /\ ProcKept /\ toReport' = {}
      BY <1>3, CalmDies
    <2>2. JobsKept
      BY <1>3, <1>i, <1>j
    <2>3. TypeOK'
      BY <1>3, <2>1, <2>2, <1>a, <1>d, <1>f DEF TypeOK, JobsKept, ProcKept, ExecutorType
    <2>4. Reported'
      BY <2>1, <2>2, <1>k
    <2> QED BY <2>1, <2>3, <2>4, <1>l DEF Base, ProcKept
  <1> QED BY <1>1, <1>2, <1>3 DEF BeforeFinancialPin

\* Typing the PIN: the handler leaves the point at which it may.
LEMMA PinStep ==
  ASSUME PinInv, NEW h \in Handlers, NEW entered \in BOOLEAN, NEW ok \in BOOLEAN, SubmitLocalPin(h, entered, ok)
  PROVE  PinInv'
  <1> DEFINE x == [handler[h] EXCEPT !.pc = IF ok THEN "entered" ELSE "missed"]
             j == handler[h].job
             o == OpOf[j]
  <1>a. TypeOK /\ Reported /\ LiveOK /\ FALSE \in BOOLEAN
    BY DEF PinInv, Base
  <1>b. handler[h] \in HandlerStates
    BY <1>a DEF TypeOK
  <1>c. /\ handler[h].pc = "cleared" /\ UNCHANGED <<database, spool, session, executor, recovery, toReport>>
        /\ pins' = IF entered THEN [pins EXCEPT ![o] = @ + 1] ELSE pins
        /\ HandlerTo(h, x, FALSE)
    BY DEF SubmitLocalPin
  <1>d. x \in HandlerStates /\ x.pc # "cleared" /\ x.live = handler[h].live /\ x.job = j
    BY <1>b DEF HandlerStates
  <1> HIDE DEF x
  <1>e. /\ j \in Jobs /\ o \in Operations
        /\ commitGuard[o] # NoJob /\ pins[o] = 0
    BY <1>c, HandsetAssumption DEF PinInv, ClearedOK, Committed
  <1>f. x.live => session'.job # NoJob /\ x.job = session'.job
    BY <1>a, <1>c, <1>d DEF LiveOK
  <1>1. Calm /\ LiveOK' /\ handler' \in [Handlers -> HandlerStates]
    BY <1>a, <1>c, <1>d, <1>f, CalmMove
  <1>2. \A g \in Handlers : handler'[g].pc = "cleared" => OpOf[handler'[g].job] # o
    <2> SUFFICES ASSUME NEW g \in Handlers, handler'[g].pc = "cleared" PROVE OpOf[handler'[g].job] # o
      OBVIOUS
    <2>1. handler[g].pc = "cleared" /\ handler'[g].job = handler[g].job
      BY <1>1 DEF Calm
    <2>2. handler'[h] = x
      BY <1>c DEF HandlerTo
    <2>3. g # h
      BY <2>2, <1>d
    <2> QED BY <2>1, <2>3, <1>c DEF PinInv, ClearedApart
  <1>3. /\ pins' \in [Operations -> Nat] /\ pins'[o] <= 1
        /\ \A q \in Operations \ {o} : pins'[q] = pins[q]
    BY <1>a, <1>c, <1>e DEF TypeOK
  <1>4. TypeOK'
    BY <1>a, <1>c, <1>1, <1>3 DEF TypeOK, database
  <1>5. Reported'
    BY <1>a, <1>c DEF Reported, database
  <1>6. OnePinPerOperation'
    BY <1>c, <1>e, <1>3 DEF PinInv, OnePinPerOperation, database
  <1>7. ClearedOK'
    <2> SUFFICES ASSUME NEW g \in Handlers, handler'[g].pc = "cleared"
                 PROVE  /\ handler'[g].job \in Jobs
                        /\ commitGuard'[OpOf[handler'[g].job]] = handler'[g].job
                        /\ pins'[OpOf[handler'[g].job]] = 0
      BY DEF ClearedOK, Committed
    <2>1. handler[g].pc = "cleared" /\ handler'[g].job = handler[g].job
      BY <1>1 DEF Calm
    <2>2. /\ handler[g].job \in Jobs /\ commitGuard[OpOf[handler[g].job]] = handler[g].job
          /\ pins[OpOf[handler[g].job]] = 0
      BY <2>1 DEF PinInv, ClearedOK, Committed
    <2>3. OpOf[handler[g].job] \in Operations \ {o}
      BY <2>1, <2>2, <1>2, HandsetAssumption
    <2> QED BY <2>1, <2>2, <2>3, <1>c, <1>3 DEF database
  <1>8. ClearedApart'
    BY <1>1 DEF PinInv, ClearedApart, Calm
  <1> QED BY <1>1, <1>4, <1>5, <1>6, <1>7, <1>8 DEF PinInv, Base

-----------------------------------------------------------------------------
LEMMA InitPin ==
  ASSUME Init
  PROVE  PinInv
  <1>1. \A h \in Handlers : handler[h] = Idle
    BY DEF Init
  <1>2. handler \in [Handlers -> HandlerStates] /\ session \in Sessions
    BY NoSessionType DEF Init
  <1>3. spool \in Seq(Events)
    BY DEF Init
  <1>4. TypeOK
    BY <1>2, <1>3 DEF Init, TypeOK, Statuses
  <1>5. Reported /\ LiveOK /\ ClearedOK /\ ClearedApart
    BY <1>1 DEF Init, Reported, LiveOK, ClearedOK, ClearedApart
  <1>6. OnePinPerOperation
    BY DEF Init, OnePinPerOperation
  <1> QED BY <1>4, <1>5, <1>6 DEF PinInv, Base

\* PinInv is inductive.
LEMMA NextPin ==
  ASSUME PinInv, [Next]_vars
  PROVE  PinInv'
  <1>a. Base
    BY DEF PinInv
  <1>1. CASE Submit
    BY <1>1, <1>a, SubmitQuiet, QuietPin
  <1>2. ASSUME NEW h \in Handlers, HandleScreen(h) PROVE PinInv'
    <2>1. CASE \/ \E c \in Commands : OnScreen(h, c)
               \/ Dispatch(h) \/ EndSession(h) \/ PinRefused(h) \/ AbortRefused(h) \/ PinDispatched(h)
      <3>1. Quiet
        BY <2>1, <1>a, ScreenQuiet
      <3> QED BY <3>1, QuietPin
    <2>2. CASE BeforeFinancialPin(h)
      BY <2>2, CommitStep
    <2>3. ASSUME NEW entered \in BOOLEAN, NEW ok \in BOOLEAN, SubmitLocalPin(h, entered, ok) PROVE PinInv'
      BY <2>3, PinStep
    <2> QED BY <1>2, <2>1, <2>2, <2>3 DEF HandleScreen
  <1>3. CASE \/ SessionLost
             \/ \E st \in {"SUCCESS", "FAILED"} : OutgoingSms(st)
             \/ Recover \/ ReportRecovered \/ RestartService
             \/ \E torn \in BOOLEAN : Crash(torn)
             \/ \E S \in SUBSET Sims : SimChange(S)
             \/ UNCHANGED vars
    <2>1. Quiet
      BY <1>3, <1>a, SystemQuiet
    <2> QED BY <2>1, QuietPin
  <1> QED BY <1>1, <1>2, <1>3 DEF Next

\* The agent's tables and the process's state keep their types through every
\* interleaving of submit, screens, SMS, heartbeat, recovery and process death; in
\* particular recovered jobs are spooled with a state the cloud knows.
THEOREM HandsetTypeCorrect == Spec => []TypeOK
  <1>1. Init => PinInv
    BY InitPin
  <1>2. PinInv /\ [Next]_vars => PinInv'
    BY NextPin
  <1>3. PinInv => TypeOK
    BY DEF PinInv, Base
  <1> QED BY <1>1, <1>2, <1>3, PTL DEF Spec

\* However many screen handlers, jobs, redeliveries and process deaths there are,
\* the PIN is entered at most once per financial operation, and only after
\* markPinSubmitted has stored the operation's commit guard.
THEOREM OnePin == Spec => []OnePinPerOperation
  <1>1. Init => PinInv
    BY InitPin
  <1>2. PinInv /\ [Next]_vars => PinInv'
    BY NextPin
  <1>3. PinInv => OnePinPerOperation
    BY DEF PinInv
  <1> QED BY <1>1, <1>2, <1>3, PTL DEF Spec
-----------------------------------------------------------------------------
(* What the spool says of the commits *)

\* Jobs of one SIM that were accepted have tokens of their own, none above the
\* SIM's highest.
FencesApart ==
  \A i \in Jobs : jobStatus[i] # "none" =>
    /\ jobFence[i] <= highestToken[SimOf[i]]
    /\ \A k \in Jobs \ {i} : jobStatus[k] # "none" /\ SimOf[i] = SimOf[k] => jobFence[i] # jobFence[k]

\* PIN_SUBMITTED is spooled with the job's own token, of a job that committed.
EventsOfCommits ==
  \A i \in DOMAIN spool : spool[i].state = "PIN_SUBMITTED" =>
    /\ jobStatus[spool[i].job] # "none"
    /\ spool[i].fence = jobFence[spool[i].job]
    /\ Committed(spool[i].job)

Announced(j) == \E i \in DOMAIN spool : spool[i].state = "PIN_SUBMITTED" /\ spool[i].job = j
ClearedAnnounced == \A h \in Handlers : handler[h].pc = "cleared" => Announced(handler[h].job)

\* Spooled events stay where they are, and no new one is PIN_SUBMITTED.
Tells ==
  /\ \A i \in DOMAIN spool : i \in DOMAIN spool' /\ spool'[i] = spool[i]
  /\ \A i \in DOMAIN spool' \ DOMAIN spool : spool'[i].state # "PIN_SUBMITTED"

\* No job gets or loses its row.
RowsKept == \A i \in Jobs : (jobStatus'[i] = "none") <=> (jobStatus[i] = "none")

\* A step that neither accepts a job nor announces a commit.
Plain == Tells /\ RowsKept /\ UNCHANGED <<jobFence, highestToken>>

LEMMA EventAppended ==
  ASSUME NEW s \in Seq(Events), NEW e \in Events, NEW t, t = Append(s, e)
  PROVE  /\ DOMAIN s = 1..Len(s) /\ DOMAIN t = 1..(Len(s) + 1)
         /\ \A i \in 1..Len(s) : t[i] = s[i]
         /\ t[Len(s) + 1] = e
         /\ Len(s) \in Nat
  OBVIOUS

LEMMA RowMoves ==
  ASSUME TypeOK, NEW j
  PROVE  /\ \A st \in Terminal : jobStatus' = MarkTerminal(j, st) => RowsKept
         /\ \A from \in NonTerminal, to \in EventStates : jobStatus' = Transition(j, from, to) => RowsKept
         /\ UNCHANGED jobStatus => RowsKept
  <1>1. \A st \in Terminal : jobStatus' = MarkTerminal(j, st) => RowsKept
    BY DEF TypeOK, MarkTerminal, RowsKept, Terminal
  <1>2. \A from \in NonTerminal, to \in EventStates : jobStatus' = Transition(j, from, to) => RowsKept
    BY DEF TypeOK, Transition, RowsKept, Terminal, NonTerminal, EventStates
  <1> QED BY <1>1, <1>2 DEF RowsKept

LEMMA EventTells ==
  ASSUME TypeOK, NEW j \in Jobs, NEW st \in EventStates \ {"PIN_SUBMITTED"}, NEW p \in BOOLEAN
  PROVE  /\ Enqueued(Event(j, st, p)) => Tells
         /\ Attempted(Event(j, st, p)) => Tells
  <1>1. Event(j, st, p) \in Events /\ Event(j, st, p).state # "PIN_SUBMITTED"
    BY DEF TypeOK, Event, Events
  <1>2. ASSUME Enqueued(Event(j, st, p)) PROVE Tells
    <2>1. PICK e \in Events : spool' = Append(spool, e) /\ e.state # "PIN_SUBMITTED"
      BY <1>1, <1>2 DEF Enqueued
    <2>2. spool \in Seq(Events)
      BY DEF TypeOK
    <2>3. /\ DOMAIN spool = 1..Len(spool) /\ DOMAIN spool' = 1..(Len(spool) + 1)
          /\ \A i \in 1..Len(spool) : spool'[i] = spool[i]
          /\ spool'[Len(spool) + 1] = e
          /\ Len(spool) \in Nat
      BY <2>1, <2>2, EventAppended
    <2>4. ASSUME NEW i \in DOMAIN spool' \ DOMAIN spool PROVE spool'[i].state # "PIN_SUBMITTED"
      <3>1. i = Len(spool) + 1
        BY <2>3
      <3> QED BY <2>1, <2>3, <3>1
    <2> QED BY <2>3, <2>4 DEF Tells
  <1>3. UNCHANGED spool => Tells
    BY DEF Tells
  <1> QED BY <1>2, <1>3 DEF Attempted

LEMMA FinishPlain ==
  ASSUME TypeOK, session.job # NoJob, NEW st \in Terminal, NEW r \in Terminal, NEW p \in BOOLEAN,
         FinishLocked(st, r, p)
  PROVE  RowsKept /\ Tells
  <1>1. session.job \in Jobs /\ r \in EventStates \ {"PIN_SUBMITTED"}
    BY DEF TypeOK, Sessions, EventStates, Terminal
  <1>2. RowsKept
    BY RowMoves DEF FinishLocked
  <1>3. Tells
    BY <1>1, EventTells DEF FinishLocked
  <1> QED BY <1>2, <1>3

LEMMA BlockPlain ==
  ASSUME TypeOK, NEW s \in Sessions, s.job # NoJob, BlockAndQuarantineLocked(s)
  PROVE  RowsKept /\ Tells
  <1> DEFINE outcome == IF s.committed THEN "UNKNOWN" ELSE "FAILED"
  <1>1. s.job \in Jobs /\ outcome \in Terminal /\ outcome \in EventStates \ {"PIN_SUBMITTED"}
    BY DEF Sessions, Terminal, EventStates
  <1>2. CASE s.blocked
    BY <1>2 DEF BlockAndQuarantineLocked, RowsKept, Tells
  <1>3. CASE ~s.blocked
    <2>1. jobStatus' = MarkTerminal(s.job, outcome) /\ Attempted(Event(s.job, outcome, FALSE))
      BY <1>3 DEF BlockAndQuarantineLocked
    <2> HIDE DEF outcome
    <2>2. RowsKept
      BY <1>1, <2>1, RowMoves
    <2>3. Tells
      BY <1>1, <2>1, EventTells
    <2> QED BY <2>2, <2>3
  <1> QED BY <1>2, <1>3

LEMMA SafetyPlain ==
  ASSUME TypeOK
  PROVE  /\ \A c : FinishForSafety(c) => RowsKept /\ Tells
         /\ BlockAndQuarantine => RowsKept /\ Tells
  <1>1. ASSUME NEW c, FinishForSafety(c) PROVE RowsKept /\ Tells
    <2>1. CASE session.job = NoJob
      BY <1>1, <2>1 DEF FinishForSafety, RowsKept, Tells
    <2>2. CASE session.job # NoJob
      <3> DEFINE st == IF c = "UnknownPostCommit" THEN "UNKNOWN" ELSE IF c = "ProviderSuccess" THEN "SUCCESS" ELSE "FAILED"
                 r == IF c = "RequestNameReview" THEN "CANCELLED" ELSE st
                 p == c \in {"ProviderSuccess", "ProviderFailure"}
      <3>1. st \in Terminal /\ r \in Terminal /\ p \in BOOLEAN
        BY DEF Terminal
      <3>2. FinishLocked(st, r, p)
        BY <1>1, <2>2 DEF FinishForSafety
      <3> HIDE DEF st, r, p
      <3> QED BY <2>2, <3>1, <3>2, FinishPlain
    <2> QED BY <2>1, <2>2
  <1>2. ASSUME BlockAndQuarantine PROVE RowsKept /\ Tells
    <2>1. CASE session.job = NoJob
      BY <1>2, <2>1 DEF BlockAndQuarantine, RowsKept, Tells
    <2>2. CASE session.job # NoJob
      <3>1. session \in Sessions
        BY DEF TypeOK
      <3> QED BY <1>2, <2>2, <3>1, BlockPlain DEF BlockAndQuarantine
    <2> QED BY <2>1, <2>2
  <1> QED BY <1>1, <1>2

LEMMA SameRows ==
  /\ UNCHANGED spool => Tells
  /\ UNCHANGED jobStatus => RowsKept
  BY DEF Tells, RowsKept

\* Every step of submit but the acceptance of a job is plain.
LEMMA SubmitPlain ==
  ASSUME TypeOK,
         RejectAccepted \/ Begin \/ Start \/ CancelAccepted \/ ReportStarted \/ Dial \/ FailBeforeStart
  PROVE  Plain
  <1>a. session.job # NoJob => session.job \in Jobs
    BY DEF TypeOK, Sessions
  <1>b. /\ "CANCELLED" \in EventStates \ {"PIN_SUBMITTED"} /\ "FAILED" \in Terminal
        /\ "DEVICE_STARTED" \in EventStates \ {"PIN_SUBMITTED"}
        /\ "ACCEPTED" \in NonTerminal /\ FALSE \in BOOLEAN
    BY DEF Terminal, EventStates, NonTerminal
  <1>1. CASE RejectAccepted
    BY <1>1, <1>b, RowMoves, SameRows DEF RejectAccepted, Plain
  <1>2. CASE Begin
    BY <1>2, SameRows DEF Begin, Plain, database
  <1>3. CASE Start
    BY <1>3, <1>b, RowMoves, SameRows DEF Start, Plain
  <1>4. CASE CancelAccepted
    <2>1. CASE session.job = NoJob
      BY <1>4, <2>1, SameRows DEF CancelAccepted, Plain
    <2>2. CASE session.job # NoJob
      <3>1. /\ jobStatus' = Transition(session.job, "ACCEPTED", "CANCELLED")
            /\ Attempted(Event(session.job, "CANCELLED", FALSE)) /\ UNCHANGED <<jobFence, highestToken>>
        BY <1>4, <2>2 DEF CancelAccepted
      <3>2. RowsKept
        BY <3>1, <1>b, RowMoves
      <3>3. Tells
        BY <3>1, <2>2, <1>a, <1>b, EventTells
      <3> QED BY <3>1, <3>2, <3>3 DEF Plain
    <2> QED BY <2>1, <2>2
  <1>5. CASE ReportStarted
    <2>1. Tells
      BY <1>5, <1>a, <1>b, EventTells DEF ReportStarted
    <2> QED BY <1>5, <2>1, SameRows DEF ReportStarted, Plain, database
  <1>6. CASE Dial
    BY <1>6, SameRows DEF Dial, Plain, database
  <1>7. CASE FailBeforeStart
    <2>1. RowsKept /\ Tells
      <3>1. CASE session.job = NoJob
        BY <1>7, <3>1, SameRows DEF FailBeforeStart
      <3>2. CASE session.job # NoJob
        BY <1>7, <3>2, <1>b, FinishPlain DEF FailBeforeStart
      <3> QED BY <3>1, <3>2
    <2> QED BY <1>7, <2>1 DEF FailBeforeStart, Plain
  <1> QED BY <1>1, <1>2, <1>3, <1>4, <1>5, <1>6, <1>7

LEMMA AcknowledgePlain ==
  ASSUME TypeOK, NEW h \in Handlers, Acknowledge(h)
  PROVE  RowsKept /\ Tells
  <1> DEFINE c == handler[h].command
             marked == IF c = "SubmitLocalPin" THEN Transition(session.job, "PIN_SUBMITTED", "PROVIDER_PENDING") ELSE jobStatus
  <1>a. /\ "PIN_SUBMITTED" \in NonTerminal /\ "PROVIDER_PENDING" \in EventStates
        /\ "PROVIDER_PENDING" \in EventStates \ {"PIN_SUBMITTED"} /\ FALSE \in BOOLEAN
    BY DEF EventStates, NonTerminal
  <1>b. session.job # NoJob => session.job \in Jobs
    BY DEF TypeOK, Sessions
  <1>c. jobStatus' = marked \/ jobStatus' = jobStatus => RowsKept
    BY <1>a, RowMoves
  <1>1. CASE /\ session.job = NoJob
             /\ HandlerTo(h, Idle, FALSE)
             /\ UNCHANGED <<jobStatus, spool, session, executor, recovery, toReport>>
    BY <1>1, SameRows
  <1>2. CASE /\ session.job # NoJob /\ handler[h].live
             /\ \E next \in NextStep(session.step, c) : session' = [session EXCEPT !.step = next, !.pending = "none"]
             /\ jobStatus' = marked
             /\ IF c = "SubmitLocalPin" THEN Enqueued(Event(session.job, "PROVIDER_PENDING", FALSE)) ELSE UNCHANGED spool
             /\ HandlerTo(h, Idle, TRUE)
             /\ UNCHANGED <<executor, recovery, toReport>>
    <2>1. Tells
      BY <1>2, <1>a, <1>b, EventTells, SameRows
    <2> QED BY <1>2, <1>c, <2>1
  <1>3. CASE /\ jobStatus' = IF handler[h].live THEN marked ELSE jobStatus
             /\ Dies
             /\ UNCHANGED spool
    BY <1>3, <1>c, SameRows
  <1> QED BY <1>1, <1>2, <1>3 DEF Acknowledge

LEMMA DispatchFailedPlain ==
  ASSUME TypeOK, NEW h \in Handlers, DispatchFailed(h)
  PROVE  RowsKept /\ Tells
  <1> DEFINE failed == [session EXCEPT !.pending = "none", !.ended = TRUE]
  <1>1. CASE UNCHANGED <<jobStatus, activeSims, spool>>
    BY <1>1, SameRows
  <1>2. CASE session.job # NoJob /\ session.committed /\ BlockAndQuarantineLocked(failed)
    <2>1. failed \in Sessions /\ failed.job = session.job
      BY DEF TypeOK, Sessions
    <2> HIDE DEF failed
    <2> QED BY <1>2, <2>1, BlockPlain
  <1>3. CASE session.job # NoJob /\ FinishLocked("FAILED", "FAILED", FALSE)
    <2>1. "FAILED" \in Terminal /\ FALSE \in BOOLEAN
      BY DEF Terminal
    <2> QED BY <1>3, <2>1, FinishPlain
  <1> QED BY <1>1, <1>2, <1>3 DEF DispatchFailed

\* So is every step of a screen handler that does not commit or type the PIN.
LEMMA ScreenPlain ==
  ASSUME TypeOK, NEW h \in Handlers,
         \/ \E c \in Commands : OnScreen(h, c)
         \/ Dispatch(h) \/ EndSession(h) \/ PinRefused(h) \/ AbortRefused(h) \/ PinDispatched(h)
  PROVE  Plain
  <1>1. ASSUME NEW c \in Commands, OnScreen(h, c) PROVE Plain
    <2>1. UNCHANGED <<jobStatus, jobFence, highestToken, spool>>
      BY <1>1 DEF OnScreen, database
    <2> QED BY <2>1, SameRows DEF Plain, database
  <1>2. CASE Dispatch(h)
    <2>1. RowsKept /\ Tells
      BY <1>2, AcknowledgePlain, DispatchFailedPlain, SafetyPlain DEF Dispatch
    <2> QED BY <1>2, <2>1 DEF Dispatch, Plain
  <1>3. CASE EndSession(h)
    <2>1. RowsKept /\ Tells
      BY <1>3, SafetyPlain DEF EndSession
    <2> QED BY <1>3, <2>1 DEF EndSession, Plain
  <1>4. CASE PinRefused(h)
    BY <1>4, SameRows DEF PinRefused, Plain, database
  <1>5. CASE AbortRefused(h)
    <2>1. RowsKept /\ Tells
      BY <1>5, SafetyPlain DEF AbortRefused
    <2> QED BY <1>5, <2>1 DEF AbortRefused, Plain
  <1>6. CASE PinDispatched(h)
    <2>1. RowsKept /\ Tells
      BY <1>6, AcknowledgePlain, DispatchFailedPlain DEF PinDispatched
    <2> QED BY <1>6, <2>1 DEF PinDispatched, Plain
  <1> QED BY <1>1, <1>2, <1>3, <1>4, <1>5, <1>6

\* And every step of the heartbeat loop, SMS, restarts and the SIMs.
LEMMA SystemPlain ==
  ASSUME Base,
         \/ SessionLost
         \/ \E st \in {"SUCCESS", "FAILED"} : OutgoingSms(st)
         \/ Recover \/ ReportRecovered \/ RestartService
         \/ \E torn \in BOOLEAN : Crash(torn)
         \/ \E S \in SUBSET Sims : SimChange(S)
         \/ UNCHANGED vars
  PROVE  Plain
  <1>a. TypeOK /\ Reported /\ session \in Sessions /\ FALSE \in BOOLEAN /\ TRUE \in BOOLEAN
    BY DEF Base, TypeOK
  <1>b. /\ "FAILED" \in Terminal /\ "SUCCESS" \in Terminal /\ "UNKNOWN" \in Terminal
        /\ Terminal \subseteq EventStates \ {"PIN_SUBMITTED"}
    BY DEF Terminal, EventStates
  <1>1. CASE SessionLost
    <2>1. RowsKept /\ Tells
      <3>1. CASE session.committed
        BY <1>1, <3>1, <1>a, BlockPlain DEF SessionLost
      <3>2. CASE ~session.committed
        BY <1>1, <3>2, <1>a, <1>b, FinishPlain DEF SessionLost
      <3> QED BY <3>1, <3>2
    <2> QED BY <1>1, <2>1 DEF SessionLost, Plain
  <1>2. ASSUME NEW st \in {"SUCCESS", "FAILED"}, OutgoingSms(st) PROVE Plain
    <2>1. RowsKept /\ Tells
      BY <1>2, <1>a, <1>b, FinishPlain DEF OutgoingSms
    <2> QED BY <1>2, <2>1 DEF OutgoingSms, Plain
  <1>3. CASE Recover
    <2>1. \A j : RecoveredStatus(j) # "none"
      BY DEF RecoveredStatus
    <2>2. RowsKept
      BY <1>3, <2>1, <1>a DEF Recover, TypeOK, RowsKept, NonTerminal
    <2> QED BY <1>3, <2>2, SameRows DEF Recover, Plain
  <1>4. CASE ReportRecovered
    <2>1. Tells
      <3>1. CASE \E j \in toReport : Enqueued(Event(j, jobStatus[j], FALSE))
        <4>1. PICK j \in toReport : Enqueued(Event(j, jobStatus[j], FALSE))
          BY <3>1
        <4>2. j \in Jobs /\ jobStatus[j] \in EventStates \ {"PIN_SUBMITTED"}
          BY <1>a, <1>b DEF TypeOK, Reported
        <4> QED BY <4>1, <4>2, <1>a, EventTells
      <3>2. CASE spool' = spool
        BY <3>2, SameRows
      <3> QED BY <1>4, <3>1, <3>2 DEF ReportRecovered
    <2> QED BY <1>4, <2>1, SameRows DEF ReportRecovered, Plain, database
  <1>5. CASE RestartService
    BY <1>5, SameRows DEF RestartService, Plain, database
  <1>6. ASSUME NEW torn \in BOOLEAN, Crash(torn) PROVE Plain
    <2>1. RowsKept
      BY <1>6, <1>a, <1>b, RowMoves DEF Crash
    <2> QED BY <1>6, <2>1, SameRows DEF Crash, Plain
  <1>7. ASSUME NEW S \in SUBSET Sims, SimChange(S) PROVE Plain
    BY <1>7, SameRows DEF SimChange, Plain
  <1>8. CASE UNCHANGED vars
    BY <1>8, SameRows DEF vars, database, Plain
  <1> QED BY <1>1, <1>2, <1>3, <1>4, <1>5, <1>6, <1>7, <1>8
-----------------------------------------------------------------------------
SpoolFacts == FencesApart /\ EventsOfCommits /\ PinsInFenceOrder /\ ClearedAnnounced /\ PinAnnounced

\* What was announced stays announced.
LEMMA AnnouncedKept ==
  ASSUME NEW j, Announced(j), \A i \in DOMAIN spool : i \in DOMAIN spool' /\ spool'[i] = spool[i]
  PROVE  \E i \in DOMAIN spool' : spool'[i].state = "PIN_SUBMITTED" /\ spool'[i].job = j
  <1>1. PICK i \in DOMAIN spool : spool[i].state = "PIN_SUBMITTED" /\ spool[i].job = j
    BY DEF Announced
  <1>2. i \in DOMAIN spool' /\ spool'[i].state = "PIN_SUBMITTED" /\ spool'[i].job = j
    BY <1>1
  <1> QED BY <1>2 DEF Announced

\* A step that commits nothing, announces no commit and clears no handler keeps
\* what the spool says of the tables.
LEMMA PlainKeeps ==
  ASSUME TypeOK, SpoolFacts, Plain, Calm, UNCHANGED <<commitGuard, pins>>
  PROVE  SpoolFacts'
  <1>1. FencesApart'
    BY DEF SpoolFacts, FencesApart, Plain, RowsKept
  <1>2. ASSUME NEW i \in DOMAIN spool', spool'[i].state = "PIN_SUBMITTED"
        PROVE  i \in DOMAIN spool /\ spool'[i] = spool[i] /\ spool[i].job \in Jobs
    <2>1. i \in DOMAIN spool /\ spool'[i] = spool[i]
      BY <1>2 DEF Plain, Tells
    <2>2. spool[i] \in Events
      BY <2>1 DEF TypeOK
    <2> QED BY <2>1, <2>2 DEF Events
  <1>3. EventsOfCommits'
    BY <1>2 DEF SpoolFacts, EventsOfCommits, Plain, RowsKept, Committed
  <1>4. PinsInFenceOrder'
    BY <1>2 DEF SpoolFacts, PinsInFenceOrder
  <1>5. ClearedAnnounced'
    BY AnnouncedKept DEF SpoolFacts, ClearedAnnounced, Announced, Calm, Plain, Tells
  <1>6. PinAnnounced'
    <2> SUFFICES ASSUME NEW o \in Operations, pins[o] > 0
                 PROVE  \E i \in DOMAIN spool' : spool'[i].state = "PIN_SUBMITTED" /\ spool'[i].job = commitGuard[o]
      BY DEF PinAnnounced
    <2>1. Announced(commitGuard[o])
      BY DEF SpoolFacts, PinAnnounced, Announced
    <2> QED BY <2>1, AnnouncedKept DEF Plain, Tells
  <1> QED BY <1>1, <1>3, <1>4, <1>5, <1>6 DEF SpoolFacts

\* Accepting a job gives it a token above every token of its SIM.
LEMMA AcceptKeeps ==
  ASSUME TypeOK, SpoolFacts, Calm, NEW j \in Jobs, NEW fence \in Nat, Accept(j, fence)
  PROVE  SpoolFacts'
  <1>a. /\ jobStatus[j] = "none" /\ fence > highestToken[SimOf[j]]
        /\ commitGuard' = commitGuard /\ spool' = spool /\ pins' = pins
    BY DEF Accept, FenceAdvances
  <1>b. /\ highestToken' = [highestToken EXCEPT ![SimOf[j]] = fence]
        /\ jobStatus' = [jobStatus EXCEPT ![j] = "ACCEPTED"]
        /\ jobFence' = [jobFence EXCEPT ![j] = fence]
    BY DEF Accept
  <1>c. SimOf[j] \in Sims /\ \A i \in Jobs : SimOf[i] \in Sims
    BY HandsetAssumption
  <1>d. /\ jobStatus'[j] = "ACCEPTED" /\ jobFence'[j] = fence /\ highestToken'[SimOf[j]] = fence
        /\ \A i \in Jobs \ {j} : jobStatus'[i] = jobStatus[i] /\ jobFence'[i] = jobFence[i]
        /\ \A s \in Sims \ {SimOf[j]} : highestToken'[s] = highestToken[s]
    BY <1>b, <1>c DEF TypeOK
  <1>e. (\A i \in Jobs : jobFence[i] \in Nat) /\ (\A s \in Sims : highestToken[s] \in Nat)
    BY DEF TypeOK
  <1>1. FencesApart'
    <2>1. ASSUME NEW i \in Jobs, jobStatus'[i] # "none" PROVE jobFence'[i] <= highestToken'[SimOf[i]]
      <3>1. CASE i = j
        BY <3>1, <1>d
      <3>2. CASE i # j
        <4>1. jobFence[i] <= highestToken[SimOf[i]]
          BY <2>1, <3>2, <1>d DEF SpoolFacts, FencesApart
        <4>2. CASE SimOf[i] = SimOf[j]
          BY <3>2, <4>1, <4>2, <1>a, <1>c, <1>d, <1>e
        <4>3. CASE SimOf[i] # SimOf[j]
          BY <3>2, <4>1, <4>3, <1>c, <1>d
        <4> QED BY <4>2, <4>3
      <3> QED BY <3>1, <3>2
    <2>2. ASSUME NEW i \in Jobs, NEW k \in Jobs \ {i}, jobStatus'[i] # "none", jobStatus'[k] # "none", SimOf[i] = SimOf[k]
          PROVE  jobFence'[i] # jobFence'[k]
      <3>1. CASE i = j
        <4>1. jobFence[k] <= highestToken[SimOf[j]]
          BY <2>2, <3>1, <1>d DEF SpoolFacts, FencesApart
        <4> QED BY <2>2, <3>1, <4>1, <1>a, <1>c, <1>d, <1>e
      <3>2. CASE k = j
        <4>1. jobFence[i] <= highestToken[SimOf[j]]
          BY <2>2, <3>2, <1>d DEF SpoolFacts, FencesApart
        <4> QED BY <2>2, <3>2, <4>1, <1>a, <1>c, <1>d, <1>e
      <3>3. CASE i # j /\ k # j
        BY <2>2, <3>3, <1>d DEF SpoolFacts, FencesApart
      <3> QED BY <3>1, <3>2, <3>3
    <2> QED BY <2>1, <2>2 DEF FencesApart
  <1>2. EventsOfCommits'
    <2> SUFFICES ASSUME NEW i \in DOMAIN spool, spool[i].state = "PIN_SUBMITTED"
                 PROVE  /\ jobStatus'[spool[i].job] # "none"
                        /\ spool[i].fence = jobFence'[spool[i].job]
                        /\ commitGuard[OpOf[spool[i].job]] = spool[i].job
      BY <1>a DEF EventsOfCommits, Committed
    <2>1. spool[i].job \in Jobs
      <3>1. spool[i] \in Events
        BY DEF TypeOK
      <3> QED BY <3>1 DEF Events
    <2>2. /\ jobStatus[spool[i].job] # "none" /\ spool[i].fence = jobFence[spool[i].job]
          /\ Committed(spool[i].job)
      BY DEF SpoolFacts, EventsOfCommits
    <2>3. spool[i].job # j
      BY <2>2, <1>a
    <2> QED BY <2>1, <2>2, <2>3, <1>a, <1>d DEF Committed
  <1>3. PinsInFenceOrder'
    BY <1>a DEF SpoolFacts, PinsInFenceOrder
  <1>4. ClearedAnnounced'
    BY <1>a DEF SpoolFacts, ClearedAnnounced, Announced, Calm
  <1>5. PinAnnounced'
    BY <1>a DEF SpoolFacts, PinAnnounced
  <1> QED BY <1>1, <1>2, <1>3, <1>4, <1>5 DEF SpoolFacts

\* beforeFinancialPin announces the commit as it clears the handler.  The job holds
\* its SIM's highest token, so every commit announced before has a smaller one.
LEMMA CommitKeeps ==
  ASSUME PinInv, SpoolFacts, NEW h \in Handlers, BeforeFinancialPin(h)
  PROVE  SpoolFacts'
  <1> DEFINE j == session.job
             o == OpOf[j]
             submitted == [jobStatus EXCEPT ![j] = "PIN_SUBMITTED"]
             marked == [session EXCEPT !.committed = handler[h].live]
  <1>a. TypeOK /\ LiveOK /\ session \in Sessions /\ handler \in [Handlers -> HandlerStates] /\ handler[h] \in HandlerStates
    BY DEF PinInv, Base, TypeOK
  <1>b. j \in Jobs /\ o \in Operations /\ commitGuard[o] = NoJob
    BY <1>a, HandsetAssumption DEF BeforeFinancialPin, PinAllowed, Sessions
  <1>c. /\ jobStatus[j] # "none" /\ jobFence[j] = highestToken[SimOf[j]]
        /\ jobFence' = jobFence /\ highestToken' = highestToken /\ pins' = pins
        /\ commitGuard' = [commitGuard EXCEPT ![o] = j]
    BY DEF BeforeFinancialPin, PinAllowed
  <1>d. /\ commitGuard'[o] = j
        /\ \A q \in Operations \ {o} : commitGuard'[q] = commitGuard[q]
        /\ \A i \in Jobs : commitGuard[OpOf[i]] = i => commitGuard'[OpOf[i]] = i /\ i # j
    BY <1>a, <1>b, <1>c, HandsetAssumption DEF TypeOK
  <1>e. pins[o] = 0
    BY <1>b, FreeOperation
  <1>f. \A st \in EventStates : jobStatus' = [jobStatus EXCEPT ![j] = st] => RowsKept
    BY <1>a, <1>b, <1>c DEF TypeOK, RowsKept, EventStates, Terminal
  <1>g. /\ "PIN_SUBMITTED" \in EventStates /\ "UNKNOWN" \in EventStates \ {"PIN_SUBMITTED"}
        /\ "FAILED" \in EventStates \ {"PIN_SUBMITTED"} /\ "UNKNOWN" \in EventStates /\ FALSE \in BOOLEAN
    BY DEF EventStates, Terminal
  <1>h. \A i \in DOMAIN spool : spool[i] \in Events /\ spool[i].job \in Jobs /\ spool[i].fence \in Nat
    <2>1. \A i \in DOMAIN spool : spool[i] \in Events
      BY <1>a DEF TypeOK
    <2> QED BY <2>1 DEF Events
  <1>i. ASSUME RowsKept PROVE FencesApart'
    BY <1>c, <1>i DEF SpoolFacts, FencesApart, RowsKept
  <1>j. ASSUME \A i \in DOMAIN spool : i \in DOMAIN spool' /\ spool'[i] = spool[i] PROVE PinAnnounced'
    <2> SUFFICES ASSUME NEW q \in Operations, pins[q] > 0
                 PROVE  \E i \in DOMAIN spool' : spool'[i].state = "PIN_SUBMITTED" /\ spool'[i].job = commitGuard'[q]
      BY <1>c DEF PinAnnounced
    <2>1. Announced(commitGuard[q])
      BY DEF SpoolFacts, PinAnnounced, Announced
    <2>2. commitGuard'[q] = commitGuard[q]
      BY <1>d, <1>e
    <2> QED BY <2>1, <2>2, <1>j, AnnouncedKept
  <1>k. \A i \in DOMAIN spool : spool[i].state = "PIN_SUBMITTED" =>
          /\ spool[i].fence = jobFence[spool[i].job] /\ jobStatus[spool[i].job] # "none"
          /\ commitGuard'[OpOf[spool[i].job]] = spool[i].job /\ spool[i].job # j
    BY <1>d, <1>h DEF SpoolFacts, EventsOfCommits, Committed
  \* The commit is stored but not announced.
  <1>l. ASSUME RowsKept, Tells, Calm PROVE SpoolFacts'
    <2>1. ASSUME NEW i \in DOMAIN spool', spool'[i].state = "PIN_SUBMITTED"
          PROVE  i \in DOMAIN spool /\ spool'[i] = spool[i]
      BY <1>l, <2>1 DEF Tells
    <2>2. EventsOfCommits'
      BY <1>c, <1>h, <1>k, <1>l, <2>1 DEF EventsOfCommits, RowsKept, Committed
    <2>3. PinsInFenceOrder'
      BY <2>1 DEF SpoolFacts, PinsInFenceOrder
    <2>4. ClearedAnnounced'
      BY <1>l, AnnouncedKept DEF SpoolFacts, ClearedAnnounced, Announced, Calm, Tells
    <2>5. PinAnnounced'
      BY <1>j, <1>l DEF Tells
    <2> QED BY <1>i, <1>l, <2>2, <2>3, <2>4, <2>5 DEF SpoolFacts
  <1>1. CASE /\ handler[h].live
             /\ jobStatus' = submitted
             /\ Enqueued(Event(j, "PIN_SUBMITTED", FALSE))
             /\ session' = marked
             /\ HandlerTo(h, [handler[h] EXCEPT !.pc = "cleared"], FALSE)
             /\ UNCHANGED <<activeSims, executor, recovery, toReport>>
    <2> DEFINE x == [handler[h] EXCEPT !.pc = "cleared"]
               last == Len(spool) + 1
    <2>1. x \in HandlerStates /\ x.job = handler[h].job /\ HandlerTo(h, x, FALSE) /\ handler[h].job = j
      BY <1>1, <1>a DEF HandlerStates, LiveOK
    <2> HIDE DEF x
    <2>2. /\ handler'[h] = x
          /\ \A g \in Handlers \ {h} : handler'[g].pc = handler[g].pc /\ handler'[g].job = handler[g].job
      BY <2>1, <1>a, <1>g, HandlerMoves
    <2>3. PICK e \in Events : /\ spool' = Append(spool, e)
                              /\ e.job = j /\ e.fence = jobFence[j] /\ e.state = "PIN_SUBMITTED"
      <3>1. Event(j, "PIN_SUBMITTED", FALSE) \in Events
        BY <1>a, <1>b, <1>g DEF TypeOK, Event, Events
      <3> QED BY <1>1, <3>1 DEF Enqueued, Event
    <2>4. spool \in Seq(Events)
      BY <1>a DEF TypeOK
    <2>5. /\ DOMAIN spool = 1..Len(spool) /\ DOMAIN spool' = 1..last
          /\ \A i \in 1..Len(spool) : spool'[i] = spool[i]
          /\ spool'[last] = e
          /\ Len(spool) \in Nat
      BY <2>3, <2>4, EventAppended
    <2>6. \A i \in DOMAIN spool' : i = last \/ (i \in DOMAIN spool /\ spool'[i] = spool[i])
      BY <2>5
    <2>7. RowsKept
      BY <1>1, <1>f, <1>g
    <2>8. EventsOfCommits'
      <3> SUFFICES ASSUME NEW i \in DOMAIN spool', spool'[i].state = "PIN_SUBMITTED"
                   PROVE  /\ jobStatus'[spool'[i].job] # "none"
                          /\ spool'[i].fence = jobFence'[spool'[i].job]
                          /\ commitGuard'[OpOf[spool'[i].job]] = spool'[i].job
        BY DEF EventsOfCommits, Committed
      <3>1. CASE i = last
        BY <3>1, <2>3, <2>5, <2>7, <1>b, <1>c, <1>d DEF RowsKept
      <3>2. CASE i \in DOMAIN spool /\ spool'[i] = spool[i]
        BY <3>2, <2>7, <1>c, <1>h, <1>k DEF RowsKept
      <3> QED BY <3>1, <3>2, <2>6
    <2>9. PinsInFenceOrder'
      <3> SUFFICES ASSUME NEW i \in DOMAIN spool', NEW k \in DOMAIN spool', i < k,
                          spool'[i].state = "PIN_SUBMITTED", spool'[k].state = "PIN_SUBMITTED",
                          SimOf[spool'[i].job] = SimOf[spool'[k].job]
                   PROVE  spool'[i].fence < spool'[k].fence
        BY DEF PinsInFenceOrder
      <3>1. i \in DOMAIN spool /\ spool'[i] = spool[i]
        BY <2>5
      <3>2. CASE k = last
        <4>1. spool'[k].job = j /\ spool'[k].fence = jobFence[j]
          BY <3>2, <2>3, <2>5
        <4>2. /\ spool[i].fence = jobFence[spool[i].job] /\ jobStatus[spool[i].job] # "none"
              /\ spool[i].job # j /\ spool[i].job \in Jobs /\ SimOf[spool[i].job] = SimOf[j]
          BY <3>1, <4>1, <1>h, <1>k
        <4>3. jobFence[spool[i].job] <= jobFence[j] /\ jobFence[spool[i].job] # jobFence[j]
          BY <4>2, <1>b, <1>c DEF SpoolFacts, FencesApart
        <4>4. jobFence[spool[i].job] \in Nat /\ jobFence[j] \in Nat
          BY <4>2, <1>a, <1>b DEF TypeOK
        <4> QED BY <3>1, <4>1, <4>2, <4>3, <4>4
      <3>3. CASE k \in DOMAIN spool /\ spool'[k] = spool[k]
        BY <3>1, <3>3 DEF SpoolFacts, PinsInFenceOrder
      <3> QED BY <3>2, <3>3, <2>6
    <2>10. ClearedAnnounced'
      <3> SUFFICES ASSUME NEW g \in Handlers, handler'[g].pc = "cleared"
                   PROVE  \E i \in DOMAIN spool' : spool'[i].state = "PIN_SUBMITTED" /\ spool'[i].job = handler'[g].job
        BY DEF ClearedAnnounced, Announced
      <3>1. CASE g = h
        <4>1. last \in DOMAIN spool' /\ spool'[last].state = "PIN_SUBMITTED" /\ spool'[last].job = handler'[g].job
          BY <3>1, <2>1, <2>2, <2>3, <2>5
        <4> HIDE DEF last
        <4> QED BY <4>1
      <3>2. CASE g # h
        <4>1. Announced(handler[g].job) /\ handler'[g].job = handler[g].job
          BY <3>2, <2>2 DEF SpoolFacts, ClearedAnnounced
        <4> QED BY <4>1, <2>5, AnnouncedKept
      <3> QED BY <3>1, <3>2
    <2>11. PinAnnounced'
      BY <1>j, <2>5
    <2> QED BY <1>i, <2>7, <2>8, <2>9, <2>10, <2>11 DEF SpoolFacts
  <1>2. CASE /\ jobStatus' = [jobStatus EXCEPT ![j] = "UNKNOWN"]
             /\ activeSims' = IF session.blocked THEN activeSims ELSE activeSims \ {SimOf[j]}
             /\ IF session.blocked THEN UNCHANGED spool
                ELSE Attempted(Event(j, IF marked.committed THEN "UNKNOWN" ELSE "FAILED", FALSE))
             /\ session' = [marked EXCEPT !.blocked = TRUE]
             /\ HandlerTo(h, [handler[h] EXCEPT !.pc = "refused"], FALSE)
             /\ UNCHANGED <<executor, recovery, toReport>>
    <2> DEFINE x == [handler[h] EXCEPT !.pc = "refused"]
    <2>1. x \in HandlerStates /\ x.pc # "cleared" /\ HandlerTo(h, x, FALSE)
      BY <1>2, <1>a DEF HandlerStates
    <2> HIDE DEF x, marked
    <2>2. /\ handler'[h] = x
          /\ \A g \in Handlers \ {h} : handler'[g].pc = handler[g].pc /\ handler'[g].job = handler[g].job
      BY <2>1, <1>a, <1>g, HandlerMoves
    <2>3. Calm
      BY <2>1, <2>2 DEF Calm
    <2>4. RowsKept
      BY <1>2, <1>f, <1>g
    <2>5. Tells
      BY <1>2, <1>a, <1>b, <1>g, EventTells, SameRows
    <2> QED BY <2>3, <2>4, <2>5, <1>l
  <1>3. CASE jobStatus' = submitted /\ Dies /\ UNCHANGED <<activeSims, spool>>
    <2>1. Calm
      BY <1>3, CalmDies
    <2>2. RowsKept /\ Tells
      BY <1>3, <1>f, <1>g, SameRows
    <2> QED BY <2>1, <2>2, <1>l
  <1> QED BY <1>1, <1>2, <1>3 DEF BeforeFinancialPin

\* Typing the PIN: the handler's commit is announced already.
LEMMA PinKeeps ==
  ASSUME PinInv, SpoolFacts, NEW h \in Handlers, NEW entered \in BOOLEAN, NEW ok \in BOOLEAN, SubmitLocalPin(h, entered, ok)
  PROVE  SpoolFacts'
  <1> DEFINE x == [handler[h] EXCEPT !.pc = IF ok THEN "entered" ELSE "missed"]
             o == OpOf[handler[h].job]
  <1>a. TypeOK /\ handler \in [Handlers -> HandlerStates] /\ handler[h] \in HandlerStates /\ FALSE \in BOOLEAN
    BY DEF PinInv, Base, TypeOK
  <1>b. /\ handler[h].pc = "cleared" /\ UNCHANGED <<jobStatus, jobFence, commitGuard, highestToken, spool>>
        /\ pins' = IF entered THEN [pins EXCEPT ![o] = @ + 1] ELSE pins
        /\ HandlerTo(h, x, FALSE)
    BY DEF SubmitLocalPin, database
  <1>c. x \in HandlerStates /\ x.pc # "cleared"
    BY <1>a DEF HandlerStates
  <1> HIDE DEF x
  <1>d. /\ handler'[h] = x
        /\ \A g \in Handlers \ {h} : handler'[g].pc = handler[g].pc /\ handler'[g].job = handler[g].job
    BY <1>a, <1>b, <1>c, HandlerMoves
  <1>e. Announced(handler[h].job) /\ commitGuard[o] = handler[h].job /\ o \in Operations
    BY <1>b, HandsetAssumption DEF SpoolFacts, ClearedAnnounced, PinInv, ClearedOK, Committed
  <1>1. PinAnnounced'
    <2> SUFFICES ASSUME NEW q \in Operations, pins'[q] > 0 PROVE Announced(commitGuard[q])
      BY <1>b DEF PinAnnounced, Announced
    <2>1. CASE q = o
      BY <2>1, <1>e
    <2>2. CASE q # o
      <3>1. pins'[q] = pins[q]
        BY <2>2, <1>a, <1>b DEF TypeOK
      <3> QED BY <3>1 DEF SpoolFacts, PinAnnounced, Announced
    <2> QED BY <2>1, <2>2
  <1>2. ClearedAnnounced'
    BY <1>b, <1>c, <1>d DEF SpoolFacts, ClearedAnnounced, Announced
  <1>3. FencesApart' /\ EventsOfCommits' /\ PinsInFenceOrder'
    BY <1>b DEF SpoolFacts, FencesApart, EventsOfCommits, PinsInFenceOrder, Committed
  <1> QED BY <1>1, <1>2, <1>3 DEF SpoolFacts

LEMMA InitSpool ==
  ASSUME Init
  PROVE  PinInv /\ SpoolFacts
  <1>1. PinInv
    BY InitPin
  <1>2. spool = <<>> /\ DOMAIN spool = {}
    BY DEF Init
  <1>3. EventsOfCommits /\ PinsInFenceOrder
    BY <1>2 DEF EventsOfCommits, PinsInFenceOrder
  <1>4. FencesApart /\ ClearedAnnounced /\ PinAnnounced
    BY DEF Init, FencesApart, ClearedAnnounced, PinAnnounced
  <1> QED BY <1>1, <1>3, <1>4 DEF SpoolFacts

\* PinInv and what the spool says are inductive together.
LEMMA NextSpool ==
  ASSUME PinInv, SpoolFacts, [Next]_vars
  PROVE  PinInv' /\ SpoolFacts'
  <1>a. PinInv'
    BY NextPin
  <1>b. Base /\ TypeOK
    BY DEF PinInv, Base
  <1>1. CASE Submit
    <2>1. Quiet
      BY <1>1, <1>b, SubmitQuiet
    <2>2. ASSUME NEW e \in Envelopes, Accept(e[1], e[2]) PROVE SpoolFacts'
      <3>1. e[1] \in Jobs /\ e[2] \in Nat
        BY HandsetAssumption
      <3> QED BY <3>1, <2>1, <2>2, <1>b, AcceptKeeps DEF Quiet
    <2>3. CASE RejectAccepted \/ Begin \/ Start \/ CancelAccepted \/ ReportStarted \/ Dial \/ FailBeforeStart
      <3>1. Plain
        BY <2>3, <1>b, SubmitPlain
      <3> QED BY <3>1, <2>1, <1>a, <1>b, PlainKeeps DEF Quiet
    <2> QED BY <1>1, <1>a, <2>2, <2>3 DEF Submit
  <1>2. ASSUME NEW h \in Handlers, HandleScreen(h) PROVE PinInv' /\ SpoolFacts'
    <2>1. CASE \/ \E c \in Commands : OnScreen(h, c)
               \/ Dispatch(h) \/ EndSession(h) \/ PinRefused(h) \/ AbortRefused(h) \/ PinDispatched(h)
      <3>1. Quiet
        BY <2>1, <1>b, ScreenQuiet
      <3>2. Plain
        BY <2>1, <1>b, ScreenPlain
      <3> QED BY <3>1, <3>2, <1>a, <1>b, PlainKeeps DEF Quiet
    <2>2. CASE BeforeFinancialPin(h)
      BY <2>2, <1>a, CommitKeeps
    <2>3. ASSUME NEW entered \in BOOLEAN, NEW ok \in BOOLEAN, SubmitLocalPin(h, entered, ok) PROVE SpoolFacts'
      BY <2>3, PinKeeps
    <2> QED BY <1>2, <1>a, <2>1, <2>2, <2>3 DEF HandleScreen
  <1>3. CASE \/ SessionLost
             \/ \E st \in {"SUCCESS", "FAILED"} : OutgoingSms(st)
             \/ Recover \/ ReportRecovered \/ RestartService
             \/ \E torn \in BOOLEAN : Crash(torn)
             \/ \E S \in SUBSET Sims : SimChange(S)
             \/ UNCHANGED vars
    <2>1. Quiet
      BY <1>3, <1>b, SystemQuiet
    <2>2. Plain
      BY <1>3, <1>b, SystemPlain
    <2> QED BY <2>1, <2>2, <1>a, <1>b, PlainKeeps DEF Quiet
  <1> QED BY <1>1, <1>2, <1>3 DEF Next

\* Whenever a PIN was entered, beforeFinancialPin has spooled PIN_SUBMITTED for the
\* job that committed the operation: no death of the process leaves the cloud
\* without word of a commit that may have moved money.
THEOREM PinAlwaysAnnounced == Spec => []PinAnnounced
  <1>1. Init => PinInv /\ SpoolFacts
    BY InitSpool
  <1>2. PinInv /\ SpoolFacts /\ [Next]_vars => (PinInv /\ SpoolFacts)'
    BY NextSpool
  <1>3. SpoolFacts => PinAnnounced
    BY DEF SpoolFacts
  <1> QED BY <1>1, <1>2, <1>3, PTL DEF Spec

\* The commits a SIM announces are in the strict order of their fencing tokens,
\* whatever the order in which jobs are delivered and redelivered: accept only
\* raises the SIM's token, and markPinSubmitted wants the highest.
THEOREM PinsAlwaysInFenceOrder == Spec => []PinsInFenceOrder
  <1>1. Init => PinInv /\ SpoolFacts
    BY InitSpool
  <1>2. PinInv /\ SpoolFacts /\ [Next]_vars => (PinInv /\ SpoolFacts)'
    BY NextSpool
  <1>3. SpoolFacts => PinsInFenceOrder
    BY DEF SpoolFacts
  <1> QED BY <1>1, <1>2, <1>3, PTL DEF Spec

-----------------------------------------------------------------------------
(* Screens that are handled one at a time: after a commit is announced no     *)
(* failure is reported but on the provider's word.                            *)

\* What a status may be once the commit of the job is announced.
Late == Statuses \ {"none", "ACCEPTED", "DEVICE_STARTED", "CANCELLED"}

\* The executor works on a job that is still ACCEPTED until start, and on its own
\* session, which is neither dialled nor committed.
ExecutorSound ==
  /\ executor.pc # "idle" => recovery = "done" /\ executor.job # NoJob
  /\ executor.pc \in {"accepted", "begun"} => jobStatus[executor.job] = "ACCEPTED"
  /\ executor.pc \in {"begun", "started", "reported"} /\ session.job # NoJob =>
       session.job = executor.job /\ ~session.dialled /\ ~session.committed

\* The engine's pending plan fits its step, and a commit that is announced is known to it.
SessionSound ==
  /\ session.job = NoJob => session = NoSession
  /\ session.committed => session.step # "menu"
  /\ session.committed /\ session.step = "pin" => session.pending = "SubmitLocalPin" \/ session.ended
  /\ session.pending = "Enter" => session.step = "menu"
  /\ session.pending = "SubmitLocalPin" => session.step = "pin"
  /\ session.pending = "Wait" => session.step = "result"
  /\ session.job # NoJob /\ Announced(session.job) => session.committed

\* A live plan is the engine's pending one.
PlansLive ==
  \A h \in Handlers : handler[h].live => session.dialled /\ session.pending # "none" /\ handler[h].command = session.pending

AnnouncedLate == \A j \in Jobs : Announced(j) => jobStatus[j] \in Late

RecoveredUnknown == \A j \in toReport : Announced(j) => jobStatus[j] \notin {"FAILED", "CANCELLED"}

\* Handler h may end the session as failed or cancelled on the agent's own word.
FailsEarly(h) ==
  \/ handler[h].pc = "planned" /\ handler[h].command \in {"SubmitLocalPin", "AbortPreCommit", "RequestNameReview", "ReceiverMismatch"}
  \/ handler[h].pc = "refused"

\* A session that has committed and still waits for its PIN has a handler at it.
PinAwaited ==
  session.committed /\ session.pending = "SubmitLocalPin" /\ ~session.blocked =>
    \E h \in Handlers : handler[h].live /\ handler[h].pc \in {"cleared", "entered", "missed"}

AloneSound ==
  ~overlapped =>
    /\ \A h \in Handlers : FailsEarly(h) => ~Announced(session.job)
    /\ PinAwaited
    /\ ~Overlap

AloneInv == ExecutorSound /\ SessionSound /\ PlansLive /\ AnnouncedLate /\ RecoveredUnknown /\ AloneSound

\* What a step appends to the spool is a failure or a cancellation only on the
\* provider's word or for a job whose commit is not announced.
Honest ==
  \A i \in DOMAIN spool' \ DOMAIN spool :
    spool'[i].state \in {"FAILED", "CANCELLED"} => spool'[i].provider \/ ~Announced(spool'[i].job)

AtMostOne == DOMAIN spool' \subseteq 1..(Len(spool) + 1)

\* A step that announces nothing and ends no job against what is announced.
Sincere == Tells /\ AtMostOne /\ (~overlapped' => Honest)

\* How the job table may move under what is announced and reported.
Onward ==
  \A j \in Jobs :
    /\ jobStatus[j] \in Late => jobStatus'[j] \in Late
    /\ jobStatus[j] \in Terminal => jobStatus'[j] = jobStatus[j]
AcceptedKept == \A j \in Jobs : jobStatus[j] = "ACCEPTED" => jobStatus'[j] = "ACCEPTED"

LEMMA OnwardMoves ==
  ASSUME TypeOK, NEW j
  PROVE  /\ \A st \in {"SUCCESS", "FAILED", "UNKNOWN"} : jobStatus' = MarkTerminal(j, st) => Onward /\ AcceptedKept
         /\ jobStatus' = Transition(j, "PIN_SUBMITTED", "PROVIDER_PENDING") => Onward /\ AcceptedKept
         /\ \A st \in {"CANCELLED", "DEVICE_STARTED"} : jobStatus' = Transition(j, "ACCEPTED", st) => Onward
         /\ UNCHANGED jobStatus => Onward /\ AcceptedKept
  <1>1. \A st \in {"SUCCESS", "FAILED", "UNKNOWN"} : jobStatus' = MarkTerminal(j, st) => Onward /\ AcceptedKept
    BY DEF TypeOK, MarkTerminal, Onward, AcceptedKept, Late, Terminal, EventStates, Statuses
  <1>2. jobStatus' = Transition(j, "PIN_SUBMITTED", "PROVIDER_PENDING") => Onward /\ AcceptedKept
    BY DEF TypeOK, Transition, Onward, AcceptedKept, Late, Terminal, EventStates, Statuses
  <1>3. \A st \in {"CANCELLED", "DEVICE_STARTED"} : jobStatus' = Transition(j, "ACCEPTED", st) => Onward
    BY DEF TypeOK, Transition, Onward, Late, Terminal, EventStates, Statuses
  <1>4. UNCHANGED jobStatus => Onward /\ AcceptedKept
    BY DEF Onward, AcceptedKept
  <1> QED BY <1>1, <1>2, <1>3, <1>4

\* A step that announces no commit leaves what is announced.
LEMMA AnnouncedSame ==
  ASSUME Tells, NEW j
  PROVE  Announced(j)' <=> Announced(j)
  <1>1. ASSUME Announced(j) PROVE Announced(j)'
    BY <1>1, AnnouncedKept DEF Tells, Announced
  <1>2. ASSUME Announced(j)' PROVE Announced(j)
    <2>1. PICK i \in DOMAIN spool' : spool'[i].state = "PIN_SUBMITTED" /\ spool'[i].job = j
      BY <1>2 DEF Announced
    <2>2. i \in DOMAIN spool /\ spool'[i] = spool[i]
      BY <2>1 DEF Tells
    <2> QED BY <2>1, <2>2 DEF Announced
  <1> QED BY <1>1, <1>2

LEMMA NobodyAnnounced ==
  ASSUME TypeOK
  PROVE  ~Announced(NoJob)
  <1>1. \A i \in DOMAIN spool : spool[i] \in Events
    BY DEF TypeOK
  <1> QED BY <1>1, HandsetAssumption DEF Announced, Events

\* An announced commit is the operation's.
LEMMA AnnouncedCommitted ==
  ASSUME SpoolFacts, NEW j, Announced(j)
  PROVE  Committed(j)
  BY DEF SpoolFacts, EventsOfCommits, Announced

\* Spooling one event, or failing to.
LEMMA OneEvent ==
  ASSUME TypeOK, NEW j \in Jobs, NEW st \in EventStates \ {"PIN_SUBMITTED"}, NEW p \in BOOLEAN,
         Attempted(Event(j, st, p)),
         ~overlapped' => st \notin {"FAILED", "CANCELLED"} \/ p \/ ~Announced(j)
  PROVE  Sincere
  <1>1. Tells
    BY EventTells
  <1>2. PICK e \in Events : e.job = j /\ e.state = st /\ e.provider = p /\ (spool' = Append(spool, e) \/ spool' = spool)
    <2>1. Event(j, st, p) \in Events
      BY DEF TypeOK, Event, Events
    <2> QED BY <2>1 DEF Attempted, Enqueued, Event
  <1>3. spool \in Seq(Events)
    BY DEF TypeOK
  <1>4. CASE spool' = spool
    BY <1>1, <1>3, <1>4 DEF Sincere, AtMostOne, Honest
  <1>5. CASE spool' = Append(spool, e)
    <2>1. /\ DOMAIN spool = 1..Len(spool) /\ DOMAIN spool' = 1..(Len(spool) + 1)
          /\ spool'[Len(spool) + 1] = e
          /\ Len(spool) \in Nat
      BY <1>3, <1>5, EventAppended
    <2>2. \A i \in DOMAIN spool' \ DOMAIN spool : spool'[i] = e
      BY <2>1
    <2>3. ~overlapped' => Honest
      BY <1>2, <2>2 DEF Honest
    <2> QED BY <1>1, <2>1, <2>3 DEF Sincere, AtMostOne
  <1> QED BY <1>2, <1>4, <1>5

LEMMA NoEvent ==
  ASSUME TypeOK, UNCHANGED spool
  PROVE  Sincere
  <1>1. spool \in Seq(Events)
    BY DEF TypeOK
  <1>2. DOMAIN spool = 1..Len(spool) /\ Len(spool) \in Nat
    BY <1>1
  <1> QED BY <1>2, SameRows DEF Sincere, AtMostOne, Honest

\* What the tables owe to what is announced.
LEMMA TablesKept ==
  ASSUME TypeOK, Reported, AnnouncedLate, RecoveredUnknown, Tells, Onward, toReport' \subseteq toReport
  PROVE  AnnouncedLate' /\ RecoveredUnknown'
  <1>1. AnnouncedLate'
    BY AnnouncedSame DEF AnnouncedLate, Onward
  <1>2. ASSUME NEW j \in toReport', Announced(j)' PROVE jobStatus'[j] \notin {"FAILED", "CANCELLED"}
    <2>1. Announced(j) /\ j \in toReport /\ j \in Jobs
      BY <1>2, AnnouncedSame DEF TypeOK
    <2> QED BY <2>1 DEF RecoveredUnknown, Reported, Onward
  <1> QED BY <1>1, <1>2 DEF RecoveredUnknown

\* What a step that leaves the executor alone keeps of it.
LEMMA ExecutorKept ==
  ASSUME TypeOK, ExecutorSound, UNCHANGED executor, executor.pc # "idle" => recovery' = recovery, AcceptedKept,
         session'.job # NoJob => session'.job = session.job,
         session'.dialled => session.dialled, session'.committed => session.committed
  PROVE  ExecutorSound'
  <1>1. executor.pc \in {"idle", "accepted", "begun", "started", "reported"} /\ executor.job \in Jobs \cup {NoJob}
    BY DEF TypeOK
  <1> QED BY <1>1 DEF ExecutorSound, AcceptedKept

LEMMA ExecutorIdle ==
  ASSUME executor' = [pc |-> "idle", job |-> NoJob]
  PROVE  ExecutorSound'
  BY DEF ExecutorSound

\* The session ends, with every handler's plan, or there was none.
LEMMA EndSound ==
  ASSUME TypeOK, Tells, session' = NoSession, \A g \in Handlers : ~handler'[g].live,
         overlapped' = (overlapped \/ Overlap')
  PROVE  SessionSound' /\ PlansLive' /\ AloneSound'
  <1>1. session'.job = NoJob /\ ~session'.committed /\ session'.pending = "none"
    BY NoSessionType DEF NoSession
  <1>2. ~Announced(session.job)'
    <2>1. ~Announced(NoJob)'
      BY NobodyAnnounced, AnnouncedSame
    <2> QED BY <1>1, <2>1 DEF Announced
  <1>3. SessionSound'
    BY <1>1 DEF SessionSound
  <1>4. PinAwaited'
    BY <1>1 DEF PinAwaited
  <1>5. AloneSound'
    BY <1>2, <1>4 DEF AloneSound
  <1> QED BY <1>3, <1>5 DEF PlansLive

\* The session stays as it is, but for its being blocked, its plan's having failed
\* or its being dialled, and no handler newly gets to end it.
LEMMA HoldSound ==
  ASSUME TypeOK, SessionSound, PlansLive, AloneSound, Tells, overlapped' = (overlapped \/ Overlap'),
         session'.job = session.job, session'.committed = session.committed, session'.step = session.step,
         session' = session \/ session.job # NoJob,
         session.dialled => session'.dialled, session.ended => session'.ended,
         session'.pending = session.pending \/ (session'.pending = "none" /\ session'.ended /\ \A g \in Handlers : ~handler'[g].live),
         session.blocked => session'.blocked,
         \A g \in Handlers : /\ handler'[g].live => handler[g].live /\ handler'[g].command = handler[g].command
                             /\ FailsEarly(g)' => FailsEarly(g),
         ~overlapped' => session'.blocked \/ session'.pending = "none" \/ PinAwaited'
  PROVE  SessionSound' /\ PlansLive' /\ AloneSound'
  <1>1. Announced(session.job)' <=> Announced(session.job)
    <2>1. Announced(session.job)' <=> \E i \in DOMAIN spool' : spool'[i].state = "PIN_SUBMITTED" /\ spool'[i].job = session.job
      BY DEF Announced
    <2>2. PICK j : j = session.job
      OBVIOUS
    <2>3. Announced(j)' <=> Announced(j)
      BY AnnouncedSame
    <2> QED BY <2>1, <2>2, <2>3 DEF Announced
  <1>2. SessionSound'
    BY <1>1 DEF SessionSound
  <1>3. PlansLive'
    BY DEF PlansLive
  <1>4. ~overlapped' => PinAwaited'
    BY DEF PinAwaited
  <1>5. AloneSound'
    BY <1>1, <1>4 DEF AloneSound
  <1> QED BY <1>2, <1>3, <1>5

LEMMA SameSound ==
  ASSUME TypeOK, SessionSound, PlansLive, AloneSound, Tells, overlapped' = (overlapped \/ Overlap'), UNCHANGED <<session, handler>>
  PROVE  SessionSound' /\ PlansLive' /\ AloneSound'
  <1>1. \A g \in Handlers : FailsEarly(g)' => FailsEarly(g)
    BY DEF FailsEarly
  <1>2. ~overlapped' => PinAwaited'
    BY DEF AloneSound, PinAwaited
  <1> QED BY <1>1, <1>2, HoldSound

-----------------------------------------------------------------------------
\* One step: what it reports and what it keeps.
Upright == AloneInv' /\ Sincere

Watched == overlapped' = (overlapped \/ Overlap')
Before == PinInv /\ SpoolFacts /\ AloneInv

\* Where HandlerTo takes the handlers, their commands and plans included.
LEMMA HandlerShifts ==
  ASSUME handler \in [Handlers -> HandlerStates], NEW h \in Handlers, NEW x, NEW stale \in BOOLEAN, HandlerTo(h, x, stale)
  PROVE  /\ handler'[h] = x
         /\ \A g \in Handlers \ {h} :
              /\ handler'[g].pc = handler[g].pc
              /\ handler'[g].command = handler[g].command
              /\ handler'[g].live <=> handler[g].live /\ ~stale
  <1>1. ASSUME NEW g \in Handlers \ {h}
        PROVE  /\ handler'[g].pc = handler[g].pc
               /\ handler'[g].command = handler[g].command
               /\ handler'[g].live <=> handler[g].live /\ ~stale
    <2>1. handler'[g] = [handler[g] EXCEPT !.live = @ /\ ~stale] /\ handler[g] \in HandlerStates
      BY DEF HandlerTo
    <2>2. handler'[g].pc = handler[g].pc /\ handler'[g].command = handler[g].command
      BY <2>1 DEF HandlerStates
    <2>3. handler'[g].live = (handler[g].live /\ ~stale)
      BY <2>1 DEF HandlerStates
    <2> QED BY <2>2, <2>3
  <1> QED BY <1>1 DEF HandlerTo

\* The same for a handler that is done.
LEMMA HandlerLeaves ==
  ASSUME handler \in [Handlers -> HandlerStates], NEW h \in Handlers, NEW stale \in BOOLEAN, HandlerTo(h, Idle, stale)
  PROVE  /\ \A g \in Handlers : handler'[g].live => handler[g].live /\ ~stale /\ handler'[g].command = handler[g].command
         /\ \A g \in Handlers : FailsEarly(g)' => FailsEarly(g)
  <1>1. handler'[h].pc = "idle" /\ ~handler'[h].live
    BY DEF HandlerTo
  <1>2. \A g \in Handlers \ {h} : /\ handler'[g].pc = handler[g].pc
                                  /\ handler'[g].command = handler[g].command
                                  /\ handler'[g].live <=> handler[g].live /\ ~stale
    <2>1. PICK x : x = Idle
      OBVIOUS
    <2>2. HandlerTo(h, x, stale)
      BY <2>1
    <2> QED BY <2>2, HandlerShifts
  <1> QED BY <1>1, <1>2 DEF FailsEarly

LEMMA BeforeFacts ==
  ASSUME Before
  PROVE  /\ TypeOK /\ Reported /\ LiveOK /\ SpoolFacts /\ handler \in [Handlers -> HandlerStates]
         /\ session \in Sessions
         /\ session.job # NoJob => session.job \in Jobs
         /\ ExecutorSound /\ SessionSound /\ PlansLive /\ AnnouncedLate /\ RecoveredUnknown /\ AloneSound
  BY DEF Before, PinInv, Base, TypeOK, Sessions, AloneInv

LEMMA EventKinds ==
  /\ {"SUCCESS", "FAILED", "UNKNOWN", "CANCELLED", "DEVICE_STARTED", "PROVIDER_PENDING"} \subseteq EventStates \ {"PIN_SUBMITTED"}
  /\ FALSE \in BOOLEAN /\ TRUE \in BOOLEAN
  BY DEF EventStates, Terminal

\* Whoever ends the session reports a failure only if it may.
LEMMA FinishUpright ==
  ASSUME Before, Watched, session.job # NoJob,
         NEW st \in {"SUCCESS", "FAILED", "UNKNOWN"}, NEW r \in {"SUCCESS", "FAILED", "UNKNOWN", "CANCELLED"},
         NEW p \in BOOLEAN, FinishLocked(st, r, p),
         ~overlapped' => r \notin {"FAILED", "CANCELLED"} \/ p \/ ~Announced(session.job),
         \A g \in Handlers : ~handler'[g].live,
         UNCHANGED <<executor, recovery, toReport>> \/ (executor' = [pc |-> "idle", job |-> NoJob] /\ UNCHANGED toReport)
  PROVE  Upright
  <1>a. /\ TypeOK /\ Reported /\ session.job \in Jobs
        /\ ExecutorSound /\ SessionSound /\ PlansLive /\ AnnouncedLate /\ RecoveredUnknown /\ AloneSound
    BY BeforeFacts
  <1>1. Sincere
    BY <1>a, EventKinds, OneEvent DEF FinishLocked
  <1>2. Onward /\ AcceptedKept /\ session' = NoSession
    BY <1>a, OnwardMoves DEF FinishLocked
  <1>3. AnnouncedLate' /\ RecoveredUnknown'
    BY <1>a, <1>1, <1>2, TablesKept DEF Sincere
  <1>4. SessionSound' /\ PlansLive' /\ AloneSound'
    BY <1>a, <1>1, <1>2, EndSound DEF Sincere, Watched
  <1>5. session'.job = NoJob /\ ~session'.dialled /\ ~session'.committed
    BY <1>2, NoSessionType DEF NoSession
  <1>6. ExecutorSound'
    BY <1>a, <1>2, <1>5, ExecutorKept, ExecutorIdle
  <1> QED BY <1>1, <1>3, <1>4, <1>6 DEF Upright, AloneInv

\* The death of the process.
LEMMA DiesUpright ==
  ASSUME Before, Watched, Dies, UNCHANGED spool, Onward
  PROVE  Upright
  <1>a. /\ TypeOK /\ Reported
        /\ ExecutorSound /\ SessionSound /\ PlansLive /\ AnnouncedLate /\ RecoveredUnknown /\ AloneSound
    BY BeforeFacts
  <1>1. Sincere
    BY <1>a, NoEvent
  <1>2. /\ session' = NoSession /\ toReport' = {} /\ executor' = [pc |-> "idle", job |-> NoJob]
        /\ \A g \in Handlers : ~handler'[g].live
    BY NoSessionType DEF Dies
  <1>3. AnnouncedLate' /\ RecoveredUnknown'
    BY <1>a, <1>1, <1>2, TablesKept DEF Sincere
  <1>4. SessionSound' /\ PlansLive' /\ AloneSound'
    BY <1>a, <1>1, <1>2, EndSound DEF Sincere, Watched
  <1>5. ExecutorSound'
    BY <1>2, ExecutorIdle
  <1> QED BY <1>1, <1>3, <1>4, <1>5 DEF Upright, AloneInv

\* A step without a session leaves it so.
LEMMA NothingUpright ==
  ASSUME Before, Watched, session.job = NoJob, UNCHANGED <<session, spool, toReport>>, Onward, AcceptedKept,
         UNCHANGED <<executor, recovery>> \/ executor' = [pc |-> "idle", job |-> NoJob],
         \A g \in Handlers : handler'[g].live => handler[g].live
  PROVE  Upright
  <1>a. /\ TypeOK /\ Reported /\ LiveOK
        /\ ExecutorSound /\ SessionSound /\ PlansLive /\ AnnouncedLate /\ RecoveredUnknown /\ AloneSound
    BY BeforeFacts
  <1>1. Sincere
    BY <1>a, NoEvent
  <1>2. session' = NoSession /\ \A g \in Handlers : ~handler'[g].live
    BY <1>a DEF SessionSound, LiveOK
  <1>3. AnnouncedLate' /\ RecoveredUnknown'
    BY <1>a, <1>1, TablesKept DEF Sincere
  <1>4. SessionSound' /\ PlansLive' /\ AloneSound'
    BY <1>a, <1>1, <1>2, EndSound DEF Sincere, Watched
  <1>5. ExecutorSound'
    BY <1>a, ExecutorKept, ExecutorIdle
  <1> QED BY <1>1, <1>3, <1>4, <1>5 DEF Upright, AloneInv

\* Blocking the session s, which is the active one, perhaps with its plan failed.
LEMMA BlockUpright ==
  ASSUME Before, Watched, session.job # NoJob, NEW s \in Sessions, BlockAndQuarantineLocked(s),
         s.job = session.job, s.committed = session.committed, s.step = session.step, s.dialled = session.dialled,
         session.ended => s.ended, session.blocked => s.blocked,
         s.pending = session.pending \/ (s.pending = "none" /\ s.ended /\ \A g \in Handlers : ~handler'[g].live),
         UNCHANGED <<executor, recovery, toReport>>,
         \A g \in Handlers : /\ handler'[g].live => handler[g].live /\ handler'[g].command = handler[g].command
                             /\ FailsEarly(g)' => FailsEarly(g)
  PROVE  Upright
  <1> DEFINE outcome == IF s.committed THEN "UNKNOWN" ELSE "FAILED"
  <1>a. /\ TypeOK /\ Reported /\ session.job \in Jobs
        /\ ExecutorSound /\ SessionSound /\ PlansLive /\ AnnouncedLate /\ RecoveredUnknown /\ AloneSound
    BY BeforeFacts
  <1>b. outcome \in {"SUCCESS", "FAILED", "UNKNOWN"} /\ (outcome # "UNKNOWN" => ~Announced(session.job))
    BY <1>a DEF SessionSound
  <1>1. /\ session' = [s EXCEPT !.blocked = TRUE]
        /\ s.blocked => UNCHANGED <<jobStatus, spool>>
        /\ ~s.blocked => jobStatus' = MarkTerminal(s.job, outcome) /\ Attempted(Event(s.job, outcome, FALSE))
    BY DEF BlockAndQuarantineLocked, Sessions
  <1> HIDE DEF outcome
  <1>2. Sincere
    <2>1. CASE s.blocked
      BY <1>1, <2>1, <1>a, NoEvent
    <2>2. CASE ~s.blocked
      <3>1. outcome \in EventStates \ {"PIN_SUBMITTED"} /\ FALSE \in BOOLEAN
        BY <1>b, EventKinds
      <3>2. Attempted(Event(session.job, outcome, FALSE)) /\ (outcome \notin {"FAILED", "CANCELLED"} \/ ~Announced(session.job))
        BY <1>1, <1>b, <2>2
      <3> QED BY <3>1, <3>2, <1>a, OneEvent
    <2> QED BY <2>1, <2>2
  <1>3. Onward /\ AcceptedKept
    BY <1>1, <1>a, <1>b, OnwardMoves
  <1>4. AnnouncedLate' /\ RecoveredUnknown'
    BY <1>a, <1>2, <1>3, TablesKept DEF Sincere
  <1>5. /\ session'.job = session.job /\ session'.committed = session.committed /\ session'.step = session.step
        /\ session'.dialled = session.dialled /\ session'.pending = s.pending /\ session'.ended = s.ended /\ session'.blocked
    BY <1>1 DEF Sessions
  <1>6. SessionSound' /\ PlansLive' /\ AloneSound'
    BY <1>a, <1>2, <1>5, HoldSound DEF Sincere, Watched
  <1>7. ExecutorSound'
    BY <1>a, <1>3, <1>5, ExecutorKept
  <1> QED BY <1>2, <1>4, <1>6, <1>7 DEF Upright, AloneInv

\* The steps of submit.
LEMMA SubmitUpright ==
  ASSUME Before, Watched, Submit
  PROVE  Upright
  <1>a. /\ TypeOK /\ Reported /\ LiveOK /\ session \in Sessions /\ (session.job # NoJob => session.job \in Jobs)
        /\ ExecutorSound /\ SessionSound /\ PlansLive /\ AnnouncedLate /\ RecoveredUnknown /\ AloneSound
    BY BeforeFacts
  <1>b. executor.job \in Jobs \cup {NoJob} /\ handler \in [Handlers -> HandlerStates]
    BY <1>a DEF TypeOK
  <1>1. ASSUME NEW e \in Envelopes, Accept(e[1], e[2]) PROVE Upright
    <2> USE <1>1 DEF Accept
    <2>1. e[1] \in Jobs
      BY HandsetAssumption
    <2>2. Sincere
      BY <1>a, NoEvent
    <2>3. Onward /\ AcceptedKept /\ jobStatus'[e[1]] = "ACCEPTED"
      BY <2>1, <1>a DEF TypeOK, Onward, AcceptedKept, Late, Terminal
    <2>4. AnnouncedLate' /\ RecoveredUnknown'
      BY <1>a, <2>2, <2>3, TablesKept DEF Sincere
    <2>5. SessionSound' /\ PlansLive' /\ AloneSound'
      BY <1>a, <2>2, SameSound DEF Sincere, Watched
    <2>6. ExecutorSound'
      BY <2>1, <2>3, HandsetAssumption DEF ExecutorSound, ExecutorTo
    <2> QED BY <2>2, <2>4, <2>5, <2>6 DEF Upright, AloneInv
  <1>2. CASE RejectAccepted
    <2> USE <1>2 DEF RejectAccepted
    <2>1. Sincere
      BY <1>a, NoEvent
    <2>2. Onward
      BY <1>a, OnwardMoves
    <2>3. AnnouncedLate' /\ RecoveredUnknown'
      BY <1>a, <2>1, <2>2, TablesKept DEF Sincere
    <2>4. SessionSound' /\ PlansLive' /\ AloneSound'
      BY <1>a, <2>1, SameSound DEF Sincere, Watched
    <2>5. ExecutorSound'
      BY ExecutorIdle DEF ExecutorTo
    <2> QED BY <2>1, <2>3, <2>4, <2>5 DEF Upright, AloneInv
  <1>3. CASE Begin
    <2> USE <1>3 DEF Begin
    <2>1. Sincere
      BY <1>a, NoEvent
    <2>2. Onward /\ AcceptedKept
      BY <1>a, OnwardMoves DEF database
    <2>3. AnnouncedLate' /\ RecoveredUnknown'
      BY <1>a, <2>1, <2>2, TablesKept DEF Sincere
    <2>4. PICK j \in Jobs : j = executor.job /\ jobStatus[j] = "ACCEPTED" /\ ~Announced(j)
      BY <1>a, <1>b DEF ExecutorSound, AnnouncedLate, Late
    <2>5. /\ session'.job = j /\ ~session'.dialled /\ ~session'.committed /\ session'.step = "menu"
          /\ session'.pending = "none"
      BY <2>4 DEF NoSession
    <2>6. ~Announced(session.job)'
      <3>1. ~Announced(j)'
        BY <2>1, <2>4, AnnouncedSame DEF Sincere
      <3> QED BY <2>5, <3>1 DEF Announced
    <2>7. SessionSound'
      BY <2>4, <2>5, <2>6, HandsetAssumption DEF SessionSound
    <2>8. \A g \in Handlers : ~handler'[g].live
      BY <1>a DEF LiveOK
    <2>9. AloneSound'
      <3>1. PinAwaited'
        BY <2>5 DEF PinAwaited
      <3> QED BY <2>6, <3>1 DEF AloneSound, Watched
    <2>10. ExecutorSound'
      BY <2>4, <2>5, <1>a, HandsetAssumption DEF ExecutorSound, ExecutorTo, database
    <2> QED BY <2>1, <2>3, <2>7, <2>8, <2>9, <2>10 DEF Upright, AloneInv, PlansLive
  <1>4. CASE Start
    <2> USE <1>4 DEF Start
    <2>1. Sincere
      BY <1>a, NoEvent
    <2>2. Onward
      BY <1>a, OnwardMoves
    <2>3. AnnouncedLate' /\ RecoveredUnknown'
      BY <1>a, <2>1, <2>2, TablesKept DEF Sincere
    <2>4. SessionSound' /\ PlansLive' /\ AloneSound'
      BY <1>a, <2>1, SameSound DEF Sincere, Watched
    <2>5. ExecutorSound'
      BY <1>a DEF ExecutorSound, ExecutorTo
    <2> QED BY <2>1, <2>3, <2>4, <2>5 DEF Upright, AloneInv
  <1>5. CASE CancelAccepted
    <2>1. /\ executor' = [pc |-> "idle", job |-> NoJob] /\ UNCHANGED <<recovery, toReport>> /\ executor.pc = "begun"
          /\ \A g \in Handlers : ~handler'[g].live
      BY <1>5, <1>b, HandlersStale DEF CancelAccepted, ExecutorTo
    <2>2. CASE session.job = NoJob
      <3>1. UNCHANGED <<jobStatus, spool, session>>
        BY <1>5, <2>2 DEF CancelAccepted
      <3> QED BY <2>1, <2>2, <3>1, <1>a, OnwardMoves, NothingUpright
    <2>3. CASE session.job # NoJob
      <3>1. /\ jobStatus' = Transition(session.job, "ACCEPTED", "CANCELLED")
            /\ Attempted(Event(session.job, "CANCELLED", FALSE))
            /\ session' = NoSession
        BY <1>5, <2>3 DEF CancelAccepted
      <3>2. ~Announced(session.job)
        BY <2>1, <2>3, <1>a DEF ExecutorSound, AnnouncedLate, Late
      <3>3. Sincere
        BY <2>3, <3>1, <3>2, <1>a, EventKinds, OneEvent
      <3>4. Onward
        BY <3>1, <1>a, OnwardMoves
      <3>5. AnnouncedLate' /\ RecoveredUnknown'
        BY <1>a, <2>1, <3>3, <3>4, TablesKept DEF Sincere
      <3>6. SessionSound' /\ PlansLive' /\ AloneSound'
        BY <1>a, <2>1, <3>1, <3>3, EndSound DEF Sincere, Watched
      <3> QED BY <2>1, <3>3, <3>5, <3>6, ExecutorIdle DEF Upright, AloneInv
    <2> QED BY <2>2, <2>3
  <1>6. CASE ReportStarted
    <2> USE <1>6 DEF ReportStarted
    <2>1. Sincere
      <3>1. Attempted(Event(session.job, "DEVICE_STARTED", FALSE))
        BY DEF Attempted
      <3> QED BY <3>1, <1>a, EventKinds, OneEvent
    <2>2. Onward /\ AcceptedKept
      BY <1>a, OnwardMoves DEF database
    <2>3. AnnouncedLate' /\ RecoveredUnknown'
      BY <1>a, <2>1, <2>2, TablesKept DEF Sincere
    <2>4. SessionSound' /\ PlansLive' /\ AloneSound'
      BY <1>a, <2>1, SameSound DEF Sincere, Watched
    <2>5. ExecutorSound'
      BY <1>a DEF ExecutorSound, ExecutorTo
    <2> QED BY <2>1, <2>3, <2>4, <2>5 DEF Upright, AloneInv
  <1>7. CASE Dial
    <2> USE <1>7 DEF Dial
    <2>1. Sincere
      BY <1>a, NoEvent
    <2>2. Onward /\ AcceptedKept
      BY <1>a, OnwardMoves DEF database
    <2>3. AnnouncedLate' /\ RecoveredUnknown'
      BY <1>a, <2>1, <2>2, TablesKept DEF Sincere
    <2>4. /\ session'.job = session.job /\ session'.committed = session.committed /\ session'.step = session.step
          /\ session'.pending = session.pending /\ session'.ended = session.ended /\ session'.blocked = session.blocked
          /\ session.dialled => session'.dialled
          /\ session' = session \/ session.job # NoJob
      BY <1>a DEF Sessions
    <2>5. \A g \in Handlers : FailsEarly(g)' => FailsEarly(g)
      BY DEF FailsEarly
    <2>6. ~overlapped' => PinAwaited'
      BY <1>a, <2>4 DEF AloneSound, PinAwaited, Watched
    <2>7. SessionSound' /\ PlansLive' /\ AloneSound'
      BY <1>a, <2>1, <2>4, <2>5, <2>6, HoldSound DEF Sincere, Watched
    <2>8. ExecutorSound'
      BY ExecutorIdle DEF ExecutorTo
    <2> QED BY <2>1, <2>3, <2>7, <2>8 DEF Upright, AloneInv
  <1>8. CASE FailBeforeStart
    <2>1. /\ executor' = [pc |-> "idle", job |-> NoJob] /\ UNCHANGED <<recovery, toReport>>
          /\ executor.pc \in {"started", "reported"}
          /\ \A g \in Handlers : ~handler'[g].live
      BY <1>8, <1>b, HandlersStale DEF FailBeforeStart, ExecutorTo
    <2>2. CASE session.job = NoJob
      <3>1. UNCHANGED <<jobStatus, spool, session>>
        BY <1>8, <2>2 DEF FailBeforeStart
      <3> QED BY <2>1, <2>2, <3>1, <1>a, OnwardMoves, NothingUpright
    <2>3. CASE session.job # NoJob
      <3>1. ~Announced(session.job)
        BY <2>1, <2>3, <1>a DEF ExecutorSound, SessionSound
      <3>2. FinishLocked("FAILED", "FAILED", FALSE)
        BY <1>8, <2>3 DEF FailBeforeStart
      <3> QED BY <2>1, <2>3, <3>1, <3>2, FinishUpright
    <2> QED BY <2>2, <2>3
  <1> QED BY <1>1, <1>2, <1>3, <1>4, <1>5, <1>6, <1>7, <1>8 DEF Submit

-----------------------------------------------------------------------------
\* finishForSafety.
LEMMA SafetyUpright ==
  ASSUME Before, Watched, NEW c \in Final, FinishForSafety(c),
         ~overlapped /\ c \in {"AbortPreCommit", "RequestNameReview", "ReceiverMismatch"} => ~Announced(session.job),
         \A g \in Handlers : ~handler'[g].live,
         UNCHANGED <<executor, recovery, toReport>>
  PROVE  Upright
  <1> DEFINE st == IF c = "UnknownPostCommit" THEN "UNKNOWN" ELSE IF c = "ProviderSuccess" THEN "SUCCESS" ELSE "FAILED"
             r == IF c = "RequestNameReview" THEN "CANCELLED" ELSE st
             p == c \in {"ProviderSuccess", "ProviderFailure"}
  <1>a. TypeOK
    BY BeforeFacts
  <1>1. CASE session.job = NoJob
    <2>1. UNCHANGED <<jobStatus, activeSims, spool, session>>
      BY <1>1 DEF FinishForSafety
    <2> QED BY <1>1, <2>1, <1>a, OnwardMoves, NothingUpright
  <1>2. CASE session.job # NoJob
    <2>1. FinishLocked(st, r, p)
      BY <1>2 DEF FinishForSafety
    <2>2. st \in {"SUCCESS", "FAILED", "UNKNOWN"} /\ r \in {"SUCCESS", "FAILED", "UNKNOWN", "CANCELLED"} /\ p \in BOOLEAN
      OBVIOUS
    <2>3. CASE c \in {"ProviderSuccess", "ProviderFailure"}
      <3>1. p
        BY <2>3
      <3> HIDE DEF st, r, p
      <3> QED BY <1>2, <2>1, <2>2, <3>1, FinishUpright
    <2>4. CASE c = "UnknownPostCommit"
      <3>1. r \notin {"FAILED", "CANCELLED"}
        BY <2>4
      <3> HIDE DEF st, r, p
      <3> QED BY <1>2, <2>1, <2>2, <3>1, FinishUpright
    <2>5. CASE c \in {"AbortPreCommit", "RequestNameReview", "ReceiverMismatch"}
      <3>1. ~overlapped' => ~Announced(session.job)
        BY <2>5 DEF Watched
      <3> HIDE DEF st, r, p
      <3> QED BY <1>2, <2>1, <2>2, <3>1, FinishUpright
    <2> QED BY <2>3, <2>4, <2>5 DEF Final
  <1> QED BY <1>1, <1>2

\* blockAndQuarantine, which ends the handler.
LEMMA QuarantineUpright ==
  ASSUME Before, Watched, NEW h \in Handlers, BlockAndQuarantine, HandlerTo(h, Idle, FALSE),
         UNCHANGED <<executor, recovery, toReport>>
  PROVE  Upright
  <1>a. TypeOK /\ session \in Sessions /\ handler \in [Handlers -> HandlerStates]
    BY BeforeFacts
  <1>b. FALSE \in BOOLEAN
    OBVIOUS
  <1>2. \A g \in Handlers : /\ handler'[g].live => handler[g].live /\ handler'[g].command = handler[g].command
                            /\ FailsEarly(g)' => FailsEarly(g)
    BY <1>a, <1>b, HandlerLeaves
  <1>3. CASE session.job = NoJob
    <2>1. UNCHANGED <<jobStatus, activeSims, spool, session>>
      BY <1>3 DEF BlockAndQuarantine
    <2> QED BY <1>2, <1>3, <2>1, <1>a, OnwardMoves, NothingUpright
  <1>4. CASE session.job # NoJob
    BY <1>2, <1>4, <1>a, BlockUpright DEF BlockAndQuarantine
  <1> QED BY <1>3, <1>4

LEMMA AcknowledgeUpright ==
  ASSUME Before, Watched, NEW h \in Handlers, Acknowledge(h)
  PROVE  Upright
  <1> DEFINE c == handler[h].command
             marked == IF c = "SubmitLocalPin" THEN Transition(session.job, "PIN_SUBMITTED", "PROVIDER_PENDING") ELSE jobStatus
  <1>a. /\ TypeOK /\ Reported /\ LiveOK /\ session \in Sessions /\ (session.job # NoJob => session.job \in Jobs)
        /\ handler \in [Handlers -> HandlerStates]
        /\ ExecutorSound /\ SessionSound /\ PlansLive /\ AnnouncedLate /\ RecoveredUnknown /\ AloneSound
    BY BeforeFacts
  <1>b. jobStatus' = marked \/ jobStatus' = jobStatus => Onward /\ AcceptedKept
    BY <1>a, OnwardMoves
  <1>c. FALSE \in BOOLEAN /\ TRUE \in BOOLEAN
    OBVIOUS
  <1>1. CASE /\ session.job = NoJob
             /\ HandlerTo(h, Idle, FALSE)
             /\ UNCHANGED <<jobStatus, spool, session, executor, recovery, toReport>>
    <2>1. \A g \in Handlers : handler'[g].live => handler[g].live
      BY <1>1, <1>a, <1>c, HandlerLeaves
    <2> QED BY <1>1, <2>1, <1>a, OnwardMoves, NothingUpright
  <1>2. CASE /\ session.job # NoJob /\ handler[h].live
             /\ \E next \in NextStep(session.step, c) : session' = [session EXCEPT !.step = next, !.pending = "none"]
             /\ jobStatus' = marked
             /\ IF c = "SubmitLocalPin" THEN Enqueued(Event(session.job, "PROVIDER_PENDING", FALSE)) ELSE UNCHANGED spool
             /\ HandlerTo(h, Idle, TRUE)
             /\ UNCHANGED <<executor, recovery, toReport>>
    <2>1. Sincere
      <3>1. CASE c = "SubmitLocalPin"
        <4>1. Attempted(Event(session.job, "PROVIDER_PENDING", FALSE))
          BY <1>2, <3>1 DEF Attempted
        <4> QED BY <1>2, <4>1, <1>a, EventKinds, OneEvent
      <3>2. CASE c # "SubmitLocalPin"
        BY <1>2, <3>2, <1>a, NoEvent
      <3> QED BY <3>1, <3>2
    <2>2. AnnouncedLate' /\ RecoveredUnknown'
      BY <1>2, <1>a, <1>b, <2>1, TablesKept DEF Sincere
    <2>3. PICK next \in NextStep(session.step, c) : session' = [session EXCEPT !.step = next, !.pending = "none"]
      BY <1>2
    <2>4. /\ session'.job = session.job /\ session'.committed = session.committed /\ session'.dialled = session.dialled
          /\ session'.pending = "none" /\ session'.step = next
      BY <2>3, <1>a DEF Sessions
    <2>5. c = session.pending /\ c \in {"Enter", "SubmitLocalPin", "Wait"}
      BY <1>2, <1>a DEF PlansLive, Sessions, Pending
    <2>6. session'.committed => next # "menu" /\ next # "pin"
      <3>1. CASE c = "Enter"
        BY <2>4, <2>5, <3>1, <1>a DEF SessionSound
      <3>2. CASE c = "SubmitLocalPin"
        BY <2>3, <3>2 DEF NextStep
      <3>3. CASE c = "Wait"
        BY <2>3, <2>5, <3>3, <1>a DEF SessionSound, NextStep
      <3> QED BY <2>5, <3>1, <3>2, <3>3
    <2>7. Announced(session.job)' <=> Announced(session.job)
      <3>1. PICK j : j = session.job
        OBVIOUS
      <3>2. Announced(j)' <=> Announced(j)
        BY <2>1, AnnouncedSame DEF Sincere
      <3> QED BY <2>4, <3>1, <3>2 DEF Announced
    <2>8. SessionSound'
      BY <1>2, <2>4, <2>6, <2>7, <1>a DEF SessionSound
    <2>9. /\ \A g \in Handlers : ~handler'[g].live
          /\ \A g \in Handlers : FailsEarly(g)' => FailsEarly(g)
      BY <1>2, <1>a, <1>c, HandlerLeaves
    <2>10. AloneSound'
      <3>1. PinAwaited'
        BY <2>4 DEF PinAwaited
      <3> QED BY <2>7, <2>9, <3>1, <1>a DEF AloneSound, Watched
    <2>11. ExecutorSound'
      BY <1>2, <1>a, <1>b, <2>4, ExecutorKept
    <2> QED BY <2>1, <2>2, <2>8, <2>9, <2>10, <2>11 DEF Upright, AloneInv, PlansLive
  <1>3. CASE /\ jobStatus' = IF handler[h].live THEN marked ELSE jobStatus
             /\ Dies
             /\ UNCHANGED spool
    <2>1. Onward
      BY <1>3, <1>b
    <2> QED BY <1>3, <2>1, DiesUpright
  <1> QED BY <1>1, <1>2, <1>3 DEF Acknowledge

LEMMA DispatchFailedUpright ==
  ASSUME Before, Watched, NEW h \in Handlers, DispatchFailed(h)
  PROVE  Upright
  <1> DEFINE failed == [session EXCEPT !.pending = "none", !.ended = TRUE]
  <1>a. /\ TypeOK /\ Reported /\ LiveOK /\ session \in Sessions
        /\ handler \in [Handlers -> HandlerStates] /\ SessionSound
    BY BeforeFacts
  <1>c. FALSE \in BOOLEAN /\ TRUE \in BOOLEAN
    OBVIOUS
  <1>1. CASE /\ session.job = NoJob
             /\ HandlerTo(h, Idle, FALSE)
             /\ UNCHANGED <<jobStatus, activeSims, spool, session, executor, recovery, toReport>>
    <2>1. \A g \in Handlers : handler'[g].live => handler[g].live
      BY <1>1, <1>a, <1>c, HandlerLeaves
    <2> QED BY <1>1, <2>1, <1>a, OnwardMoves, NothingUpright
  <1>2. CASE /\ session.job # NoJob /\ handler[h].live
             /\ IF session.committed THEN BlockAndQuarantineLocked(failed)
                ELSE FinishLocked("FAILED", "FAILED", FALSE) /\ UNCHANGED activeSims
             /\ HandlerTo(h, Idle, TRUE)
             /\ UNCHANGED <<executor, recovery, toReport>>
    <2>1. /\ \A g \in Handlers : ~handler'[g].live
          /\ \A g \in Handlers : FailsEarly(g)' => FailsEarly(g)
      BY <1>2, <1>a, <1>c, HandlerLeaves
    <2>2. CASE session.committed
      <3>1. /\ failed \in Sessions
            /\ failed.job = session.job /\ failed.committed = session.committed /\ failed.step = session.step
            /\ failed.dialled = session.dialled /\ failed.blocked = session.blocked /\ failed.pending = "none" /\ failed.ended
        BY <1>a DEF Sessions
      <3>2. BlockAndQuarantineLocked(failed)
        BY <1>2, <2>2
      <3> HIDE DEF failed
      <3> QED BY <1>2, <2>1, <3>1, <3>2, BlockUpright
    <2>3. CASE ~session.committed
      <3>1. FinishLocked("FAILED", "FAILED", FALSE) /\ ~Announced(session.job)
        BY <1>2, <2>3, <1>a DEF SessionSound
      <3> QED BY <1>2, <2>1, <3>1, FinishUpright
    <2> QED BY <2>2, <2>3
  <1>3. CASE Dies /\ UNCHANGED <<jobStatus, activeSims, spool>>
    BY <1>3, <1>a, OnwardMoves, DiesUpright
  <1> QED BY <1>1, <1>2, <1>3 DEF DispatchFailed

\* A screen is planned.  A plan that would end the session early is made only
\* before the commit, unless the pending PIN step is planned again: then the
\* handler that is at it overlaps.
LEMMA OnScreenUpright ==
  ASSUME Before, Watched, NEW h \in Handlers, NEW c \in Commands, OnScreen(h, c)
  PROVE  Upright
  <1> DEFINE planned(live) == [pc |-> "planned", job |-> session.job, command |-> c, live |-> live]
  <1>a. /\ TypeOK /\ Reported /\ LiveOK /\ session \in Sessions /\ (session.job # NoJob => session.job \in Jobs)
        /\ handler \in [Handlers -> HandlerStates]
        /\ ExecutorSound /\ SessionSound /\ PlansLive /\ AnnouncedLate /\ RecoveredUnknown /\ AloneSound
    BY BeforeFacts
  <1>b. FALSE \in BOOLEAN /\ TRUE \in BOOLEAN
    OBVIOUS
  <1>c. /\ handler[h].pc = "idle" /\ session.job # NoJob /\ session.dialled /\ ~session.blocked
        /\ UNCHANGED <<jobStatus, spool, executor, recovery, toReport>>
    BY DEF OnScreen, database
  <1>1. Sincere /\ Onward /\ AcceptedKept
    BY <1>a, <1>c, NoEvent, OnwardMoves
  <1>2. AnnouncedLate' /\ RecoveredUnknown'
    BY <1>a, <1>c, <1>1, TablesKept DEF Sincere
  <1>3. PICK live \in BOOLEAN :
          /\ HandlerTo(h, planned(live), FALSE)
          /\ \/ live /\ session.pending = c /\ session' = session
             \/ /\ session.pending = "none" /\ ~session.ended /\ c \in Plans(session) /\ (live <=> c \in Pending)
                /\ session' = [session EXCEPT !.pending = IF c \in Pending THEN c ELSE @, !.ended = c \in Final]
    <2>1. CASE session.pending = c /\ HandlerTo(h, planned(TRUE), FALSE) /\ UNCHANGED session
      BY <2>1
    <2>2. CASE /\ session.pending = "none" /\ ~session.ended
               /\ c \in Plans(session)
               /\ HandlerTo(h, planned(c \in Pending), FALSE)
               /\ session' = [session EXCEPT !.pending = IF c \in Pending THEN c ELSE @, !.ended = c \in Final]
      <3>1. CASE c \in Pending
        <4>1. planned(TRUE) = planned(c \in Pending)
          BY <3>1
        <4> HIDE DEF planned
        <4> QED BY <2>2, <3>1, <4>1
      <3>2. CASE c \notin Pending
        <4>1. (c \in Pending) = FALSE
          BY <3>2
        <4>2. planned(FALSE) = planned(c \in Pending)
          BY <4>1
        <4> HIDE DEF planned
        <4> QED BY <2>2, <3>2, <4>2
      <3> QED BY <3>1, <3>2
    <2> QED BY <2>1, <2>2 DEF OnScreen
  <1>4. /\ session'.job = session.job /\ session'.committed = session.committed /\ session'.dialled = session.dialled
        /\ session'.step = session.step /\ session'.blocked = session.blocked
        /\ session'.pending = IF session.pending = "none" /\ c \in Pending THEN c ELSE session.pending
        /\ session.pending # "none" => session' = session
        /\ session.pending = "none" /\ c \in Final => session'.ended
        /\ session.ended => session'.ended
    <2>1. CASE session' = session /\ session.pending = c
      BY <2>1, <1>a DEF Sessions, Pending, Commands, Final
    <2>2. CASE /\ session.pending = "none" /\ ~session.ended
               /\ session' = [session EXCEPT !.pending = IF c \in Pending THEN c ELSE @, !.ended = c \in Final]
      BY <2>2, <1>a DEF Sessions
    <2> QED BY <1>3, <2>1, <2>2
  <1>5. /\ handler'[h].pc = "planned" /\ handler'[h].command = c /\ (handler'[h].live <=> live)
        /\ \A g \in Handlers \ {h} : /\ handler'[g].pc = handler[g].pc /\ handler'[g].command = handler[g].command
                                     /\ handler'[g].live <=> handler[g].live
    <2>1. PICK x : x = planned(live)
      OBVIOUS
    <2>2. HandlerTo(h, x, FALSE)
      BY <1>3, <2>1
    <2>3. x.pc = "planned" /\ x.command = c /\ x.live = live
      BY <2>1
    <2>4. handler'[h] = x
      BY <1>a, <1>b, <2>2, HandlerShifts
    <2> QED BY <1>a, <1>b, <2>2, <2>3, <2>4, HandlerShifts
  <1>6. Announced(session.job)' <=> Announced(session.job)
    <2>1. PICK j : j = session.job
      OBVIOUS
    <2>2. Announced(j)' <=> Announced(j)
      BY <1>1, AnnouncedSame DEF Sincere
    <2> QED BY <1>4, <2>1, <2>2 DEF Announced
  <1>7. SessionSound'
    <2>1. c \in {"Enter", "SubmitLocalPin", "Wait"} /\ session.pending = "none" =>
            /\ c = "Enter" => session.step = "menu"
            /\ c = "SubmitLocalPin" => session.step = "pin"
            /\ c = "Wait" => session.step = "result"
      BY <1>3, <1>a DEF Plans, Sessions, Steps
    <2>2. session'.pending \in {"Enter", "SubmitLocalPin", "Wait"} /\ session.pending = "none" => session'.pending = c
      BY <1>4
    <2> QED BY <1>4, <1>6, <1>a, <1>c, <2>1, <2>2 DEF SessionSound
  <1>8. PlansLive'
    <2>1. live => c = session'.pending /\ session'.pending # "none"
      BY <1>3, <1>4 DEF Pending, Commands, Final
    <2>2. ASSUME NEW g \in Handlers \ {h}, handler[g].live PROVE session'.pending = session.pending
      BY <1>4, <2>2, <1>a DEF PlansLive
    <2> QED BY <1>4, <1>5, <1>a, <1>c, <2>1, <2>2 DEF PlansLive
  <1>9. AloneSound'
    <2> SUFFICES ASSUME ~overlapped'
                 PROVE  /\ \A g \in Handlers : FailsEarly(g)' => ~Announced(session.job)'
                        /\ PinAwaited'
                        /\ ~Overlap'
      BY DEF AloneSound
    <2>1. ~overlapped /\ ~Overlap'
      BY DEF Watched
    <2>2. ASSUME NEW g \in Handlers, handler[g].pc # "idle" PROVE FALSE
      BY <1>5, <1>c, <2>1, <2>2 DEF Overlap
    <2>3. ~(session.committed /\ session.pending = "SubmitLocalPin")
      BY <1>a, <1>c, <2>1, <2>2 DEF AloneSound, PinAwaited
    <2>4. ASSUME c \in {"SubmitLocalPin", "AbortPreCommit", "RequestNameReview", "ReceiverMismatch"}, session.committed
          PROVE  FALSE
      <3>1. session.pending = "none" /\ ~session.ended /\ c \in Plans(session)
        BY <1>3, <2>3, <2>4, <1>a DEF Sessions, Pending
      <3>2. session.step # "menu" /\ session.step # "pin"
        BY <2>4, <3>1, <1>a DEF SessionSound
      <3> QED BY <2>4, <3>1, <3>2 DEF Plans
    <2>5. ASSUME NEW g \in Handlers, FailsEarly(g)' PROVE ~Announced(session.job)'
      <3>1. g = h
        BY <1>5, <2>2, <2>5 DEF FailsEarly
      <3>2. c \in {"SubmitLocalPin", "AbortPreCommit", "RequestNameReview", "ReceiverMismatch"}
        BY <1>5, <2>5, <3>1 DEF FailsEarly
      <3> QED BY <1>6, <1>a, <1>c, <2>4, <3>2 DEF SessionSound
    <2>6. PinAwaited'
      <3>1. ~(session'.committed /\ session'.pending = "SubmitLocalPin")
        BY <1>4, <2>3, <2>4
      <3> QED BY <3>1 DEF PinAwaited
    <2> QED BY <2>1, <2>5, <2>6
  <1>10. ExecutorSound'
    BY <1>a, <1>c, <1>1, <1>4, ExecutorKept
  <1> QED BY <1>1, <1>2, <1>7, <1>8, <1>9, <1>10 DEF Upright, AloneInv

\* The PIN is refused: its handler might have ended the session already.
LEMMA RefuseUpright ==
  ASSUME Before, Watched, NEW h \in Handlers, PinRefused(h)
  PROVE  Upright
  <1>a. /\ TypeOK /\ Reported
        /\ handler \in [Handlers -> HandlerStates] /\ handler[h] \in HandlerStates
        /\ ExecutorSound /\ SessionSound /\ PlansLive /\ AnnouncedLate /\ RecoveredUnknown /\ AloneSound
    BY BeforeFacts
  <1>b. FALSE \in BOOLEAN
    OBVIOUS
  <1>c. /\ handler[h].pc = "planned" /\ handler[h].command = "SubmitLocalPin"
        /\ UNCHANGED <<jobStatus, spool, session, executor, recovery, toReport>>
    BY DEF PinRefused, database
  <1>1. Sincere /\ Onward /\ AcceptedKept
    BY <1>a, <1>c, NoEvent, OnwardMoves
  <1>2. AnnouncedLate' /\ RecoveredUnknown'
    BY <1>a, <1>c, <1>1, TablesKept DEF Sincere
  <1>3. /\ handler'[h].pc = "refused" /\ handler'[h].command = handler[h].command /\ (handler'[h].live <=> handler[h].live)
        /\ \A g \in Handlers \ {h} : /\ handler'[g].pc = handler[g].pc /\ handler'[g].command = handler[g].command
                                     /\ handler'[g].live <=> handler[g].live
    <2>1. PICK x : x = [handler[h] EXCEPT !.pc = "refused"]
      OBVIOUS
    <2>2. HandlerTo(h, x, FALSE)
      BY <2>1 DEF PinRefused
    <2>3. x.pc = "refused" /\ x.command = handler[h].command /\ x.live = handler[h].live
      BY <2>1, <1>a DEF HandlerStates
    <2>4. handler'[h] = x
      BY <1>a, <1>b, <2>2, HandlerShifts
    <2> QED BY <1>a, <1>b, <2>2, <2>3, <2>4, HandlerShifts
  <1>4. \A g \in Handlers : FailsEarly(g)' => FailsEarly(g)
    BY <1>3, <1>c DEF FailsEarly
  <1>5. ~overlapped' => PinAwaited'
    <2> SUFFICES ASSUME ~overlapped', session.committed, session.pending = "SubmitLocalPin", ~session.blocked
                 PROVE  \E g \in Handlers : handler'[g].live /\ handler'[g].pc \in {"cleared", "entered", "missed"}
      BY <1>c DEF PinAwaited
    <2>1. PICK g \in Handlers : handler[g].live /\ handler[g].pc \in {"cleared", "entered", "missed"}
      BY <1>a DEF AloneSound, PinAwaited, Watched
    <2>2. g # h
      BY <2>1, <1>c
    <2> QED BY <2>1, <2>2, <1>3
  <1>6. SessionSound' /\ PlansLive' /\ AloneSound'
    BY <1>a, <1>c, <1>1, <1>3, <1>4, <1>5, HoldSound DEF Sincere, Watched
  <1>7. ExecutorSound'
    BY <1>a, <1>c, <1>1, ExecutorKept
  <1> QED BY <1>1, <1>2, <1>6, <1>7 DEF Upright, AloneInv

\* The PIN is typed.
LEMMA TypeUpright ==
  ASSUME Before, Watched, NEW h \in Handlers, NEW entered \in BOOLEAN, NEW ok \in BOOLEAN, SubmitLocalPin(h, entered, ok)
  PROVE  Upright
  <1>a. /\ TypeOK /\ Reported
        /\ handler \in [Handlers -> HandlerStates] /\ handler[h] \in HandlerStates
        /\ ExecutorSound /\ SessionSound /\ PlansLive /\ AnnouncedLate /\ RecoveredUnknown /\ AloneSound
    BY BeforeFacts
  <1>b. FALSE \in BOOLEAN
    OBVIOUS
  <1>c. handler[h].pc = "cleared" /\ UNCHANGED <<jobStatus, spool, session, executor, recovery, toReport>>
    BY DEF SubmitLocalPin, database
  <1>1. Sincere /\ Onward /\ AcceptedKept
    BY <1>a, <1>c, NoEvent, OnwardMoves
  <1>2. AnnouncedLate' /\ RecoveredUnknown'
    BY <1>a, <1>c, <1>1, TablesKept DEF Sincere
  <1>3. /\ handler'[h].pc \in {"entered", "missed"} /\ handler'[h].command = handler[h].command
        /\ handler'[h].live <=> handler[h].live
        /\ \A g \in Handlers \ {h} : /\ handler'[g].pc = handler[g].pc /\ handler'[g].command = handler[g].command
                                     /\ handler'[g].live <=> handler[g].live
    <2>1. PICK x : x = [handler[h] EXCEPT !.pc = IF ok THEN "entered" ELSE "missed"]
      OBVIOUS
    <2>2. HandlerTo(h, x, FALSE)
      BY <2>1 DEF SubmitLocalPin
    <2>3. x.pc \in {"entered", "missed"} /\ x.command = handler[h].command /\ x.live = handler[h].live
      BY <2>1, <1>a DEF HandlerStates
    <2>4. handler'[h] = x
      BY <1>a, <1>b, <2>2, HandlerShifts
    <2> QED BY <1>a, <1>b, <2>2, <2>3, <2>4, HandlerShifts
  <1>4. \A g \in Handlers : FailsEarly(g)' => FailsEarly(g)
    BY <1>3, <1>c DEF FailsEarly
  <1>5. ~overlapped' => PinAwaited'
    <2> SUFFICES ASSUME ~overlapped', session.committed, session.pending = "SubmitLocalPin", ~session.blocked
                 PROVE  \E g \in Handlers : handler'[g].live /\ handler'[g].pc \in {"cleared", "entered", "missed"}
      BY <1>c DEF PinAwaited
    <2>1. PICK g \in Handlers : handler[g].live /\ handler[g].pc \in {"cleared", "entered", "missed"}
      BY <1>a DEF AloneSound, PinAwaited, Watched
    <2> QED BY <2>1, <1>3
  <1>6. SessionSound' /\ PlansLive' /\ AloneSound'
    BY <1>a, <1>c, <1>1, <1>3, <1>4, <1>5, HoldSound DEF Sincere, Watched
  <1>7. ExecutorSound'
    BY <1>a, <1>c, <1>1, ExecutorKept
  <1> QED BY <1>1, <1>2, <1>6, <1>7 DEF Upright, AloneInv

-----------------------------------------------------------------------------
\* What was spooled stays, at most one event is new, and it is honest.
Truthful ==
  /\ \A i \in DOMAIN spool : i \in DOMAIN spool' /\ spool'[i] = spool[i]
  /\ AtMostOne
  /\ ~overlapped' => Honest

\* beforeFinancialPin: the commit of a free operation, whose job is announced by
\* nothing before.
LEMMA CommitUpright ==
  ASSUME Before, Watched, NEW h \in Handlers, BeforeFinancialPin(h)
  PROVE  AloneInv' /\ Truthful
  <1> DEFINE submitted == [jobStatus EXCEPT ![session.job] = "PIN_SUBMITTED"]
             marked == [session EXCEPT !.committed = handler[h].live]
  <1>a. /\ TypeOK /\ Reported /\ SpoolFacts /\ session \in Sessions
        /\ handler \in [Handlers -> HandlerStates] /\ handler[h] \in HandlerStates
        /\ ExecutorSound /\ SessionSound /\ PlansLive /\ AnnouncedLate /\ RecoveredUnknown /\ AloneSound
    BY BeforeFacts
  <1>b. FALSE \in BOOLEAN
    OBVIOUS
  <1>c. PICK j \in Jobs : j = session.job
    BY BeforeFacts DEF BeforeFinancialPin
  <1>d. /\ handler[h].pc = "planned" /\ handler[h].command = "SubmitLocalPin"
        /\ jobStatus[j] = "DEVICE_STARTED" /\ commitGuard[OpOf[j]] = NoJob
    BY <1>c DEF BeforeFinancialPin, PinAllowed
  <1>e. ~Announced(j)
    BY <1>a, <1>d, AnnouncedCommitted, HandsetAssumption DEF Committed
  <1>f. handler[h].live => session.dialled /\ session.pending = "SubmitLocalPin" /\ session.step = "pin"
    BY <1>a, <1>d DEF PlansLive, SessionSound
  <1>g. \A st \in {"PIN_SUBMITTED", "UNKNOWN"} :
          jobStatus' = [jobStatus EXCEPT ![j] = st] => Onward /\ AcceptedKept /\ jobStatus'[j] = st
    BY <1>a, <1>d DEF TypeOK, Onward, AcceptedKept, Late, Terminal, Statuses, EventStates
  <1>h. ASSUME NEW pc \in {"cleared", "refused"}, HandlerTo(h, [handler[h] EXCEPT !.pc = pc], FALSE)
        PROVE  /\ handler'[h].pc = pc
               /\ \A g \in Handlers : handler'[g].command = handler[g].command /\ (handler'[g].live <=> handler[g].live)
               /\ \A g \in Handlers \ {h} : handler'[g].pc = handler[g].pc
    <2>1. PICK x : x = [handler[h] EXCEPT !.pc = pc]
      OBVIOUS
    <2>2. HandlerTo(h, x, FALSE)
      BY <1>h, <2>1
    <2>3. x.pc = pc /\ x.command = handler[h].command /\ x.live = handler[h].live
      BY <2>1, <1>a DEF HandlerStates
    <2>4. handler'[h] = x
      BY <1>a, <1>b, <2>2, HandlerShifts
    <2> QED BY <1>a, <1>b, <2>2, <2>3, <2>4, HandlerShifts
  <1>i. ASSUME UNCHANGED executor, recovery' = recovery, AcceptedKept, session'.job = session.job,
               session'.dialled = session.dialled, session'.committed => handler[h].live
        PROVE  ExecutorSound'
    <2>1. executor.pc \in {"idle", "accepted", "begun", "started", "reported"} /\ executor.job \in Jobs \cup {NoJob}
      BY <1>a DEF TypeOK
    <2> QED BY <2>1, <1>a, <1>c, <1>f, <1>i, HandsetAssumption DEF ExecutorSound, AcceptedKept
  <1>1. CASE /\ handler[h].live
             /\ jobStatus' = submitted
             /\ Enqueued(Event(session.job, "PIN_SUBMITTED", FALSE))
             /\ session' = marked
             /\ HandlerTo(h, [handler[h] EXCEPT !.pc = "cleared"], FALSE)
             /\ UNCHANGED <<activeSims, executor, recovery, toReport>>
    <2>1. PICK e \in Events : spool' = Append(spool, e) /\ e.job = j /\ e.state = "PIN_SUBMITTED"
      <3>1. Event(j, "PIN_SUBMITTED", FALSE) \in Events
        BY <1>a DEF TypeOK, Event, Events, EventStates
      <3> QED BY <1>1, <1>c, <3>1 DEF Enqueued, Event
    <2>2. spool \in Seq(Events)
      BY <1>a DEF TypeOK
    <2>3. /\ DOMAIN spool = 1..Len(spool) /\ DOMAIN spool' = 1..(Len(spool) + 1)
          /\ \A i \in 1..Len(spool) : spool'[i] = spool[i]
          /\ spool'[Len(spool) + 1] = e
          /\ Len(spool) \in Nat
      BY <2>1, <2>2, EventAppended
    <2>4. Truthful
      <3>1. \A i \in DOMAIN spool' \ DOMAIN spool : spool'[i] = e
        BY <2>3
      <3>2. Honest
        BY <2>1, <3>1 DEF Honest
      <3> QED BY <2>3, <3>2 DEF Truthful, AtMostOne
    <2>5. ASSUME NEW k, k # j PROVE Announced(k)' => Announced(k)
      <3>1. \A i \in DOMAIN spool' : spool'[i] = e \/ (i \in DOMAIN spool /\ spool'[i] = spool[i])
        BY <2>3
      <3> QED BY <2>1, <2>5, <3>1 DEF Announced
    <2>6. Onward /\ AcceptedKept /\ jobStatus'[j] = "PIN_SUBMITTED"
      BY <1>1, <1>c, <1>g
    <2>7. AnnouncedLate'
      <3>1. "PIN_SUBMITTED" \in Late
        BY DEF Late, Statuses, EventStates
      <3> QED BY <1>a, <2>5, <2>6, <3>1 DEF AnnouncedLate, Onward
    <2>8. RecoveredUnknown'
      BY <1>1, <1>a, <2>5, <2>6 DEF RecoveredUnknown, Onward, Reported, TypeOK
    <2>9. /\ session'.job = session.job /\ session'.committed /\ session'.step = session.step
          /\ session'.pending = session.pending /\ session'.dialled = session.dialled
      BY <1>1, <1>a DEF Sessions
    <2>10. SessionSound'
      BY <1>1, <1>a, <1>c, <1>f, <2>9, HandsetAssumption DEF SessionSound
    <2>11. /\ handler'[h].pc = "cleared"
           /\ \A g \in Handlers : handler'[g].command = handler[g].command /\ (handler'[g].live <=> handler[g].live)
           /\ \A g \in Handlers \ {h} : handler'[g].pc = handler[g].pc
      BY <1>1, <1>h
    <2>12. PlansLive'
      BY <2>9, <2>11, <1>a DEF PlansLive
    <2>13. AloneSound'
      <3>1. PinAwaited'
        BY <1>1, <2>11 DEF PinAwaited
      <3>2. ASSUME ~overlapped', NEW g \in Handlers PROVE ~FailsEarly(g)'
        BY <3>2, <2>11 DEF FailsEarly, Watched, Overlap
      <3> QED BY <3>1, <3>2 DEF AloneSound, Watched
    <2>14. ExecutorSound'
      BY <1>1, <1>i, <2>6, <2>9
    <2> QED BY <2>4, <2>7, <2>8, <2>10, <2>12, <2>13, <2>14 DEF AloneInv
  <1>2. CASE /\ jobStatus' = [jobStatus EXCEPT ![session.job] = "UNKNOWN"]
             /\ activeSims' = IF session.blocked THEN activeSims ELSE activeSims \ {SimOf[session.job]}
             /\ IF session.blocked THEN UNCHANGED spool
                ELSE Attempted(Event(session.job, IF marked.committed THEN "UNKNOWN" ELSE "FAILED", FALSE))
             /\ session' = [marked EXCEPT !.blocked = TRUE]
             /\ HandlerTo(h, [handler[h] EXCEPT !.pc = "refused"], FALSE)
             /\ UNCHANGED <<executor, recovery, toReport>>
    <2>1. Sincere
      <3>1. CASE session.blocked
        BY <1>2, <3>1, <1>a, NoEvent
      <3>2. CASE ~session.blocked
        <4>1. PICK st \in {"UNKNOWN", "FAILED"} : Attempted(Event(j, st, FALSE))
          BY <1>2, <3>2, <1>c
        <4> QED BY <4>1, <1>a, <1>e, EventKinds, OneEvent
      <3> QED BY <3>1, <3>2
    <2>2. Truthful
      BY <2>1 DEF Sincere, Tells, Truthful
    <2>3. Onward /\ AcceptedKept
      BY <1>2, <1>c, <1>g
    <2>4. AnnouncedLate' /\ RecoveredUnknown'
      BY <1>2, <1>a, <2>1, <2>3, TablesKept DEF Sincere
    <2>5. /\ session'.job = session.job /\ (session'.committed <=> handler[h].live) /\ session'.step = session.step
          /\ session'.pending = session.pending /\ session'.dialled = session.dialled /\ session'.blocked
      BY <1>2, <1>a DEF Sessions
    <2>6. ~Announced(session.job)'
      <3>1. ~Announced(j)'
        BY <2>1, <1>e, AnnouncedSame DEF Sincere
      <3> QED BY <2>5, <1>c, <3>1 DEF Announced
    <2>7. SessionSound'
      BY <1>a, <1>c, <1>f, <2>5, <2>6, HandsetAssumption DEF SessionSound
    <2>8. PlansLive'
      BY <1>2, <1>h, <2>5, <1>a DEF PlansLive
    <2>9. AloneSound'
      <3>1. PinAwaited'
        BY <2>5 DEF PinAwaited
      <3> QED BY <2>6, <3>1 DEF AloneSound, Watched
    <2>10. ExecutorSound'
      BY <1>2, <1>i, <2>3, <2>5
    <2> QED BY <2>2, <2>4, <2>7, <2>8, <2>9, <2>10 DEF AloneInv
  <1>3. CASE jobStatus' = submitted /\ Dies /\ UNCHANGED <<activeSims, spool>>
    <2>1. Upright
      BY <1>3, <1>c, <1>g, DiesUpright
    <2> QED BY <2>1 DEF Upright, Sincere, Tells, Truthful
  <1> QED BY <1>1, <1>2, <1>3 DEF BeforeFinancialPin

LEMMA ScreenUpright ==
  ASSUME Before, Watched, NEW h \in Handlers, HandleScreen(h)
  PROVE  AloneInv' /\ Truthful
  <1>a. /\ handler \in [Handlers -> HandlerStates] /\ AloneSound /\ TRUE \in BOOLEAN /\ FALSE \in BOOLEAN
    BY BeforeFacts
  <1>b. Upright => AloneInv' /\ Truthful
    BY DEF Upright, Sincere, Tells, Truthful
  <1>1. CASE \E c \in Commands : OnScreen(h, c)
    BY <1>1, <1>b, OnScreenUpright
  <1>2. CASE Dispatch(h)
    <2>1. Acknowledge(h) \/ DispatchFailed(h) \/ (BlockAndQuarantine /\ HandlerTo(h, Idle, FALSE) /\ UNCHANGED <<executor, recovery, toReport>>)
      BY <1>2 DEF Dispatch
    <2> QED BY <2>1, <1>b, AcknowledgeUpright, DispatchFailedUpright, QuarantineUpright
  <1>3. CASE EndSession(h)
    <2>1. /\ handler[h].pc = "planned" /\ handler[h].command \in Final /\ UNCHANGED <<executor, recovery, toReport>>
          /\ \/ FinishForSafety(handler[h].command) /\ HandlerTo(h, Idle, TRUE)
             \/ BlockAndQuarantine /\ HandlerTo(h, Idle, FALSE)
      BY <1>3 DEF EndSession
    <2>2. CASE FinishForSafety(handler[h].command) /\ HandlerTo(h, Idle, TRUE)
      <3>1. PICK c \in Final : c = handler[h].command
        BY <2>1
      <3>2. ~overlapped /\ c \in {"AbortPreCommit", "RequestNameReview", "ReceiverMismatch"} => ~Announced(session.job)
        BY <1>a, <2>1, <3>1 DEF AloneSound, FailsEarly
      <3>3. \A g \in Handlers : ~handler'[g].live
        BY <2>2, <1>a, HandlerLeaves
      <3>4. FinishForSafety(c)
        BY <2>2, <3>1
      <3> QED BY <1>b, <2>1, <3>2, <3>3, <3>4, SafetyUpright
    <2>3. CASE BlockAndQuarantine /\ HandlerTo(h, Idle, FALSE)
      BY <1>b, <2>1, <2>3, QuarantineUpright
    <2> QED BY <2>1, <2>2, <2>3
  <1>4. CASE BeforeFinancialPin(h)
    BY <1>4, CommitUpright
  <1>5. CASE PinRefused(h)
    BY <1>5, <1>b, RefuseUpright
  <1>6. CASE AbortRefused(h)
    <2>1. /\ handler[h].pc = "refused" /\ FinishForSafety("AbortPreCommit") /\ HandlerTo(h, Idle, TRUE)
          /\ UNCHANGED <<executor, recovery, toReport>>
      BY <1>6 DEF AbortRefused
    <2>2. ~overlapped => ~Announced(session.job)
      BY <1>a, <2>1 DEF AloneSound, FailsEarly
    <2>3. \A g \in Handlers : ~handler'[g].live
      BY <2>1, <1>a, HandlerLeaves
    <2>4. "AbortPreCommit" \in Final
      BY DEF Final
    <2> QED BY <1>b, <2>1, <2>2, <2>3, <2>4, SafetyUpright
  <1>7. CASE \E entered, ok \in BOOLEAN : SubmitLocalPin(h, entered, ok)
    BY <1>7, <1>b, TypeUpright
  <1>8. CASE PinDispatched(h)
    <2>1. Acknowledge(h) \/ DispatchFailed(h)
      BY <1>8 DEF PinDispatched
    <2> QED BY <2>1, <1>b, AcknowledgeUpright, DispatchFailedUpright
  <1> QED BY <1>1, <1>2, <1>3, <1>4, <1>5, <1>6, <1>7, <1>8 DEF HandleScreen

\* The heartbeat loop, SMS, restarts and the SIMs.
LEMMA SystemUpright ==
  ASSUME Before, Watched,
         \/ SessionLost
         \/ \E st \in {"SUCCESS", "FAILED"} : OutgoingSms(st)
         \/ Recover \/ ReportRecovered \/ RestartService
         \/ \E torn \in BOOLEAN : Crash(torn)
         \/ \E S \in SUBSET Sims : SimChange(S)
         \/ UNCHANGED vars
  PROVE  Upright
  <1>a. /\ TypeOK /\ Reported /\ LiveOK /\ SpoolFacts /\ session \in Sessions /\ (session.job # NoJob => session.job \in Jobs)
        /\ handler \in [Handlers -> HandlerStates]
        /\ ExecutorSound /\ SessionSound /\ PlansLive /\ AnnouncedLate /\ RecoveredUnknown /\ AloneSound
    BY BeforeFacts
  <1>b. FALSE \in BOOLEAN /\ TRUE \in BOOLEAN
    OBVIOUS
  <1>1. CASE SessionLost
    <2>1. session.job # NoJob /\ ~session.blocked /\ UNCHANGED <<executor, recovery, toReport>>
      BY <1>1 DEF SessionLost
    <2>2. CASE session.committed
      <3>1. BlockAndQuarantineLocked(session) /\ UNCHANGED handler
        BY <1>1, <2>2 DEF SessionLost
      <3>2. \A g \in Handlers : FailsEarly(g)' => FailsEarly(g)
        BY <3>1 DEF FailsEarly
      <3> QED BY <2>1, <3>1, <3>2, <1>a, BlockUpright
    <2>3. CASE ~session.committed
      <3>1. FinishLocked("FAILED", "FAILED", FALSE) /\ AllStale
        BY <1>1, <2>3 DEF SessionLost
      <3>2. \A g \in Handlers : ~handler'[g].live
        BY <3>1, <1>a, HandlersStale
      <3>3. ~Announced(session.job)
        BY <2>1, <2>3, <1>a DEF SessionSound
      <3> QED BY <2>1, <3>1, <3>2, <3>3, <1>b, FinishUpright
    <2> QED BY <2>2, <2>3
  <1>2. ASSUME NEW st \in {"SUCCESS", "FAILED"}, OutgoingSms(st) PROVE Upright
    <2>1. session.job # NoJob /\ FinishLocked(st, st, TRUE) /\ AllStale /\ UNCHANGED <<executor, recovery, toReport>>
      BY <1>2 DEF OutgoingSms
    <2>2. \A g \in Handlers : ~handler'[g].live
      BY <2>1, <1>a, HandlersStale
    <2> QED BY <2>1, <2>2, <1>b, FinishUpright
  <1>3. CASE Recover
    <2> DEFINE orphans == {j \in Jobs \ {session.job} : jobStatus[j] \in NonTerminal}
    <2>1. Sincere
      BY <1>3, <1>a, NoEvent DEF Recover
    <2>2. ASSUME NEW j \in orphans, Announced(j) PROVE RecoveredStatus(j) = "UNKNOWN"
      BY <2>2, <1>a, AnnouncedCommitted DEF RecoveredStatus
    <2>3. \A j \in Jobs : jobStatus'[j] = IF j \in orphans THEN RecoveredStatus(j) ELSE jobStatus[j]
      BY <1>3 DEF Recover
    <2>4. AnnouncedLate'
      <3>1. "UNKNOWN" \in Late
        BY DEF Late, Statuses, EventStates, Terminal
      <3>2. ASSUME NEW j \in Jobs, Announced(j)' PROVE jobStatus'[j] \in Late
        <4>1. Announced(j)
          BY <2>1, <3>2, AnnouncedSame DEF Sincere
        <4> QED BY <2>2, <2>3, <3>1, <4>1, <1>a DEF AnnouncedLate
      <3> QED BY <3>2 DEF AnnouncedLate
    <2>5. RecoveredUnknown'
      <3>1. toReport' = orphans
        BY <1>3 DEF Recover
      <3>2. ASSUME NEW j \in orphans, Announced(j)' PROVE jobStatus'[j] \notin {"FAILED", "CANCELLED"}
        <4>1. Announced(j)
          BY <2>1, <3>2, AnnouncedSame DEF Sincere
        <4> QED BY <2>2, <2>3, <4>1
      <3> HIDE DEF orphans
      <3> QED BY <3>1, <3>2 DEF RecoveredUnknown
    <2>6. SessionSound' /\ PlansLive' /\ AloneSound'
      BY <1>3, <1>a, <2>1, SameSound DEF Recover, Sincere, Watched
    <2>7. ExecutorSound'
      BY <1>3, <1>a DEF Recover, ExecutorSound
    <2> QED BY <2>1, <2>4, <2>5, <2>6, <2>7 DEF Upright, AloneInv
  <1>4. CASE ReportRecovered
    <2>1. /\ UNCHANGED <<jobStatus, session, executor, handler>> /\ recovery = "reporting" /\ toReport' \subseteq toReport
      BY <1>4 DEF ReportRecovered, database
    <2>2. Sincere
      <3>1. CASE \E j \in toReport : Enqueued(Event(j, jobStatus[j], FALSE))
        <4>1. PICK j \in toReport : Enqueued(Event(j, jobStatus[j], FALSE))
          BY <3>1
        <4>2. j \in Jobs /\ jobStatus[j] \in Terminal
          BY <1>a DEF TypeOK, Reported
        <4>3. jobStatus[j] \notin {"FAILED", "CANCELLED"} \/ ~Announced(j)
          BY <1>a DEF RecoveredUnknown
        <4>4. PICK st \in EventStates \ {"PIN_SUBMITTED"} : st = jobStatus[j]
          BY <4>2 DEF EventStates, Terminal
        <4>5. Attempted(Event(j, st, FALSE)) /\ (st \notin {"FAILED", "CANCELLED"} \/ ~Announced(j))
          BY <4>1, <4>3, <4>4 DEF Attempted
        <4> QED BY <4>2, <4>5, <1>a, <1>b, OneEvent
      <3>2. CASE spool' = spool
        BY <3>2, <1>a, NoEvent
      <3> QED BY <1>4, <3>1, <3>2 DEF ReportRecovered
    <2>3. Onward /\ AcceptedKept
      BY <2>1, <1>a, OnwardMoves
    <2>4. AnnouncedLate' /\ RecoveredUnknown'
      BY <1>a, <2>1, <2>2, <2>3, TablesKept DEF Sincere
    <2>5. SessionSound' /\ PlansLive' /\ AloneSound'
      BY <1>a, <2>1, <2>2, SameSound DEF Sincere, Watched
    <2>6. ExecutorSound'
      BY <2>1, <1>a DEF ExecutorSound
    <2> QED BY <2>2, <2>4, <2>5, <2>6 DEF Upright, AloneInv
  <1>5. CASE RestartService
    <2>1. /\ UNCHANGED <<jobStatus, spool, session, handler>> /\ toReport' \subseteq toReport
          /\ executor' = [pc |-> "idle", job |-> NoJob]
      BY <1>5 DEF RestartService, database, ExecutorTo
    <2>2. Sincere /\ Onward
      BY <2>1, <1>a, NoEvent, OnwardMoves
    <2>3. AnnouncedLate' /\ RecoveredUnknown'
      BY <1>a, <2>1, <2>2, TablesKept DEF Sincere
    <2>4. SessionSound' /\ PlansLive' /\ AloneSound'
      BY <1>a, <2>1, <2>2, SameSound DEF Sincere, Watched
    <2> QED BY <2>1, <2>2, <2>3, <2>4, ExecutorIdle DEF Upright, AloneInv
  <1>6. ASSUME NEW torn \in BOOLEAN, Crash(torn) PROVE Upright
    <2>1. PICK st \in {"SUCCESS", "FAILED", "UNKNOWN"} : jobStatus' = MarkTerminal(session.job, st) \/ jobStatus' = jobStatus
      BY <1>6 DEF Crash
    <2>2. Onward
      BY <2>1, <1>a, OnwardMoves
    <2> QED BY <1>6, <2>2, DiesUpright DEF Crash
  <1>7. CASE (\E S \in SUBSET Sims : SimChange(S)) \/ UNCHANGED vars
    <2>1. UNCHANGED <<jobStatus, spool, session, executor, handler, recovery, toReport>>
      BY <1>7 DEF SimChange, vars, database, process
    <2>2. Sincere /\ Onward /\ AcceptedKept
      BY <2>1, <1>a, NoEvent, OnwardMoves
    <2>3. AnnouncedLate' /\ RecoveredUnknown'
      BY <1>a, <2>1, <2>2, TablesKept DEF Sincere
    <2>4. SessionSound' /\ PlansLive' /\ AloneSound'
      BY <1>a, <2>1, <2>2, SameSound DEF Sincere, Watched
    <2>5. ExecutorSound'
      BY <1>a, <2>1, <2>2, ExecutorKept
    <2> QED BY <2>2, <2>3, <2>4, <2>5 DEF Upright, AloneInv
  <1> QED BY <1>1, <1>2, <1>3, <1>4, <1>5, <1>6, <1>7

LEMMA InitAlone ==
  ASSUME WatchedInit
  PROVE  Before /\ AmbiguityIsUnknown
  <1>1. Init /\ spool = <<>> /\ DOMAIN spool = {} /\ \A h \in Handlers : handler[h] = Idle
    BY DEF WatchedInit, Init
  <1>2. \A j : ~Announced(j)
    BY <1>1 DEF Announced
  <1>3. session = NoSession /\ executor = [pc |-> "idle", job |-> NoJob] /\ toReport = {}
    BY <1>1 DEF Init
  <1>4. ExecutorSound /\ SessionSound
    BY <1>2, <1>3 DEF ExecutorSound, SessionSound, NoSession
  <1>5. PlansLive /\ AnnouncedLate /\ RecoveredUnknown
    BY <1>1, <1>2, <1>3 DEF PlansLive, AnnouncedLate, RecoveredUnknown
  <1>6. AloneSound
    <2>1. PinAwaited /\ ~Overlap
      BY <1>1, <1>3 DEF PinAwaited, NoSession, Overlap
    <2> QED BY <1>2, <2>1 DEF AloneSound
  <1>7. AmbiguityIsUnknown
    BY <1>1 DEF AmbiguityIsUnknown
  <1> QED BY <1>1, <1>4, <1>5, <1>6, <1>7, InitSpool DEF Before, AloneInv

\* An honest step reports nothing against what was announced.
LEMMA TruthKept ==
  ASSUME TypeOK, AloneAmbiguityIsUnknown, Truthful, Watched
  PROVE  AloneAmbiguityIsUnknown'
  <1> SUFFICES ASSUME ~overlapped',
                      NEW i \in DOMAIN spool', NEW k \in DOMAIN spool', i < k, spool'[i].job = spool'[k].job,
                      spool'[i].state = "PIN_SUBMITTED", spool'[k].state \in {"FAILED", "CANCELLED"}
               PROVE  spool'[k].provider
    BY DEF AloneAmbiguityIsUnknown, AmbiguityIsUnknown
  <1>1. DOMAIN spool = 1..Len(spool) /\ Len(spool) \in Nat
    <2>1. spool \in Seq(Events)
      BY DEF TypeOK
    <2> QED BY <2>1
  <1>2. i \in DOMAIN spool /\ spool'[i] = spool[i]
    BY <1>1 DEF Truthful, AtMostOne
  <1>3. CASE k \in DOMAIN spool
    <2>1. spool'[k] = spool[k] /\ ~overlapped
      BY <1>3 DEF Truthful, Watched
    <2> QED BY <1>2, <1>3, <2>1 DEF AloneAmbiguityIsUnknown, AmbiguityIsUnknown
  <1>4. CASE k \notin DOMAIN spool
    <2>1. Announced(spool'[k].job)
      BY <1>2 DEF Announced
    <2> QED BY <1>4, <2>1 DEF Truthful, Honest
  <1> QED BY <1>3, <1>4

LEMMA NextAlone ==
  ASSUME Before, AloneAmbiguityIsUnknown, [WatchedNext]_<<vars, overlapped>>
  PROVE  Before' /\ AloneAmbiguityIsUnknown'
  <1>a. [Next]_vars /\ TypeOK /\ PinInv /\ SpoolFacts
    BY BeforeFacts DEF WatchedNext, Before
  <1>b. PinInv' /\ SpoolFacts'
    BY <1>a, NextSpool
  <1>c. Upright => AloneInv' /\ Truthful
    BY DEF Upright, Sincere, Tells, Truthful
  <1>1. CASE WatchedNext
    <2>1. Watched /\ Next
      BY <1>1 DEF WatchedNext, Watched
    <2>2. ASSUME Submit PROVE AloneInv' /\ Truthful
      BY <2>1, <2>2, <1>c, SubmitUpright
    <2>3. ASSUME NEW h \in Handlers, HandleScreen(h) PROVE AloneInv' /\ Truthful
      BY <2>1, <2>3, ScreenUpright
    <2>4. ASSUME \/ SessionLost
                 \/ \E st \in {"SUCCESS", "FAILED"} : OutgoingSms(st)
                 \/ Recover \/ ReportRecovered \/ RestartService
                 \/ \E torn \in BOOLEAN : Crash(torn)
                 \/ \E S \in SUBSET Sims : SimChange(S)
          PROVE  AloneInv' /\ Truthful
      BY <2>1, <2>4, <1>c, SystemUpright
    <2>5. AloneInv' /\ Truthful
      BY <2>1, <2>2, <2>3, <2>4 DEF Next
    <2> QED BY <1>a, <1>b, <2>1, <2>5, TruthKept DEF Before
  <1>2. CASE UNCHANGED <<vars, overlapped>>
    <2>1. UNCHANGED <<vars, overlapped, spool, session, executor, handler, recovery, toReport, jobStatus>>
      BY <1>2 DEF vars, database, process
    <2>2. AloneInv'
      BY <2>1 DEF Before, AloneInv, ExecutorSound, SessionSound, PlansLive, AnnouncedLate, RecoveredUnknown, AloneSound,
                  Announced, FailsEarly, PinAwaited, Overlap
    <2>3. AloneAmbiguityIsUnknown'
      BY <2>1 DEF AloneAmbiguityIsUnknown, AmbiguityIsUnknown
    <2> QED BY <1>b, <2>2, <2>3 DEF Before
  <1> QED BY <1>1, <1>2

\* As long as every screen is handled before the next one appears, no failure and
\* no cancellation follows PIN_SUBMITTED but on the provider's word: through
\* refusals, failed dispatches, expiry, process death, recovery and redelivery
\* (finishForSafety, blockAndQuarantine, recoverAfterProcessDeath).
THEOREM AloneAmbiguityAlwaysUnknown == WatchedSpec => []AloneAmbiguityIsUnknown
  <1>1. WatchedInit => Before /\ AloneAmbiguityIsUnknown
    BY InitAlone DEF AloneAmbiguityIsUnknown
  <1>2. Before /\ AloneAmbiguityIsUnknown /\ [WatchedNext]_<<vars, overlapped>> => (Before /\ AloneAmbiguityIsUnknown)'
    BY NextAlone
  <1> QED BY <1>1, <1>2, PTL DEF WatchedSpec
=============================================================================
