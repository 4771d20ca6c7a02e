--------------------------- MODULE BalanceRefresh ---------------------------
(***************************************************************************)
(* How a SIM's stale balance is refreshed: the minute's cron and staff     *)
(* queue balance queries, the scheduler leases one, the handset runs it    *)
(* and spools its reports and the provider's SMS, and the backend gives    *)
(* the SMS to the query that is running.                                   *)
(*                                                                         *)
(* One SIM of one handset that stays online.  The handset's session and    *)
(* the backend's leases have the same deadlines; time is abstract.  The    *)
(* spool is delivered in order and an event the backend refuses stays at   *)
(* its head (DeviceLink has batches, connections and acknowledgements).    *)
(***************************************************************************)
EXTENDS Naturals, Sequences, FiniteSets

CONSTANTS
  MaxJobs,   \* bound on balance queries
  MaxFence,  \* bound on fencing tokens of the SIM
  SlowLink   \* whether a lease may run out while an acceptable report is in the spool

ASSUME BalanceRefreshAssumption == MaxJobs \in Nat \ {0} /\ MaxFence \in Nat /\ SlowLink \in BOOLEAN

Jobs == 1..MaxJobs
Live == {"queued", "leased", "device_started"}
States == {"none", "succeeded", "failed"} \cup Live

VARIABLES
  sim,      \* SimWallet.status
  job,      \* balance_query jobs: state, fencing token, lease
  fence,    \* SimWallet.nextFencingToken
  active,   \* Device.activeUssdJobId, 0: none
  checked,  \* who found no live query and is about to queue one
  \* the handset
  record,   \* its jobs: status and fencing token
  highest,  \* the highest fencing token it accepted
  pin,      \* the session's PIN was entered
  lease,    \* a BalanceQueryLease is open
  answers,  \* queries whose SMS the provider has not sent yet
  spool     \* reports and SMS on their way, oldest first

backend == <<sim, job, fence, active, checked>>
handset == <<record, highest, pin, lease, answers>>
refreshVars    == <<backend, handset, spool>>

RefreshTypes ==
  /\ sim \in {"active", "payout_stale", "quarantined"}
  /\ job \in [Jobs -> [state : States, fence : 0..MaxFence, lease : {"none", "running", "over"}]]
  /\ fence \in 0..MaxFence /\ highest \in 0..MaxFence
  /\ active \in 0..MaxJobs
  /\ checked \subseteq {"cron", "staff"}
  /\ record \in [Jobs -> [status : {"none", "accepted", "device_started", "succeeded", "failed"}, fence : 0..MaxFence]]
  /\ pin \in BOOLEAN /\ lease \in BOOLEAN
  /\ answers \subseteq Jobs
  /\ \A i \in DOMAIN spool : spool[i].kind \in {"device_started", "succeeded", "failed", "sms"} /\ spool[i].job \in Jobs

RefreshInit ==
  /\ sim = "payout_stale"
  /\ job = [j \in Jobs |-> [state |-> "none", fence |-> 0, lease |-> "none"]]
  /\ fence = 0 /\ active = 0 /\ checked = {}
  /\ record = [j \in Jobs |-> [status |-> "none", fence |-> 0]]
  /\ highest = 0 /\ pin = FALSE /\ lease = FALSE /\ answers = {}
  /\ spool = <<>>

-----------------------------------------------------------------------------
(* Queries are queued *)

Created == {j \in Jobs : job[j].state # "none"}

NoneLive_OrFailed == \A j \in Jobs : job[j].state \notin Live \cup {"failed"}

NoneLive == \A j \in Jobs : job[j].state \notin Live

\* The cron lists stale SIMs, staff ask for any; neither locks what it checked.
Check(who) ==
  /\ who \notin checked /\ NoneLive
  /\ who = "cron" => sim = "payout_stale"
  /\ checked' = checked \cup {who}
  /\ UNCHANGED <<sim, job, fence, active, handset, spool>>

Queue(who) ==
  LET j == Cardinality(Created) + 1 IN
  /\ who \in checked
  /\ j \in Jobs /\ fence < MaxFence
  /\ fence' = fence + 1
  /\ job' = [job EXCEPT ![j] = [state |-> "queued", fence |-> fence + 1, lease |-> "none"]]
  /\ checked' = checked \ {who}
  /\ UNCHANGED <<sim, active, handset, spool>>

queueStaleBalanceQueries == Check("cron") \/ Queue("cron")
queueBalance == Check("staff") \/ Queue("staff")

\* Staff queue a failed query again.
retryDeviceJob(j) ==
  /\ job[j].state = "failed" /\ fence < MaxFence
  /\ fence' = fence + 1
  /\ job' = [job EXCEPT ![j] = [state |-> "queued", fence |-> fence + 1, lease |-> "none"]]
  /\ UNCHANGED <<sim, active, checked, handset, spool>>

updateHealth ==
  /\ sim = "active"
  /\ sim' = "payout_stale"
  /\ UNCHANGED <<job, fence, active, checked, handset, spool>>

-----------------------------------------------------------------------------
(* Leases *)

Take(j, jobs) ==
  /\ jobs[j].state = "queued"
  /\ job' = [jobs EXCEPT ![j].state = "leased", ![j].lease = "running"]
  /\ active' = j

\* The handset's job keeps the handset while its lease runs; then it is queued
\* again with a new token, and stays so if it expired itself.  Staff may put any
\* queued job first.
leaseNext ==
  /\ sim # "quarantined"
  /\ \/ /\ active = 0
        /\ \E j \in Jobs : Take(j, job)
        /\ UNCHANGED fence
     \/ /\ active # 0 /\ job[active].lease = "over" /\ fence < MaxFence
        /\ fence' = fence + 1
        /\ LET jobs == [job EXCEPT ![active] = [state |-> "queued", fence |-> fence + 1, lease |-> "none"]] IN
           \/ \E j \in Jobs : Take(j, jobs)
           \/ job' = jobs /\ active' = 0
  /\ UNCHANGED <<sim, checked, handset, spool>>

Fail_LockOnly(j) ==
  /\ active' = IF active = j THEN 0 ELSE active
  /\ UNCHANGED job

Fail(j) ==
  /\ job' = [job EXCEPT ![j].state = "failed"]
  /\ active' = IF active = j THEN 0 ELSE active

\* A query without a transfer fails whatever its state, once it or its lease expired.
expireFinancialJobs(j) ==
  /\ job[j].state \in Live
  /\ job[j].state = "queued" \/ job[j].lease = "over"
  /\ Fail(j)
  /\ UNCHANGED <<sim, fence, checked, handset, spool>>

-----------------------------------------------------------------------------
(* The handset *)

InSession(j) == record[j].status = "device_started"

\* onScreen: the session goes on while its lease runs.
OnTime(j) == job[j].lease = "running" /\ job[j].fence = record[j].fence

Spooled(kind, j) == Append(spool, [kind |-> kind, job |-> j, fence |-> record[j].fence, live |-> {}, known |-> {}])

\* A job it has a record of conflicts, and an older token is stale; what it accepts
\* and cannot start is not reported.
submit(j) ==
  /\ job[j].state = "leased" /\ job[j].lease = "running"
  /\ record[j].status = "none" /\ job[j].fence > highest
  /\ highest' = job[j].fence
  /\ \/ /\ ~\E k \in Jobs : InSession(k)
        /\ record' = [record EXCEPT ![j] = [status |-> "device_started", fence |-> job[j].fence]]
        /\ pin' = FALSE
        /\ spool' = Append(spool, [kind |-> "device_started", job |-> j, fence |-> job[j].fence, live |-> {}, known |-> {}])
     \/ /\ record' = [record EXCEPT ![j] = [status |-> "accepted", fence |-> job[j].fence]]
        /\ UNCHANGED <<pin, spool>>
  /\ UNCHANGED <<backend, lease, answers>>

finishLocked(j, status) ==
  /\ record' = [record EXCEPT ![j].status = status]
  /\ spool' = Spooled(status, j)

\* The PIN opens a lease for the answer; an earlier query's lease that is still open
\* throws, and the process that dies of it fails the session when it restarts.
SubmitLocalPin(j) ==
  /\ InSession(j) /\ OnTime(j) /\ ~pin
  /\ answers' = answers \cup {j}
  /\ IF lease THEN finishLocked(j, "failed") /\ UNCHANGED <<pin, lease>>
     ELSE pin' = TRUE /\ lease' = TRUE /\ UNCHANGED <<record, spool>>
  /\ UNCHANGED <<backend, highest>>

\* A screen that says so ends the session, before or without the SMS.
ProviderSuccess(j) ==
  /\ InSession(j) /\ OnTime(j) /\ pin
  /\ finishLocked(j, "succeeded")
  /\ UNCHANGED <<backend, highest, pin, lease, answers>>

\* The lease expires, a screen is not understood, or the process restarts.
finishFailed(j) ==
  /\ InSession(j)
  /\ finishLocked(j, "failed")
  /\ UNCHANGED <<backend, highest, pin, lease, answers>>

balanceLeaseExpires ==
  /\ lease
  /\ lease' = FALSE
  /\ UNCHANGED <<backend, record, highest, pin, answers, spool>>

\* The SMS is spooled with the time of its receipt: which jobs were leased and which
\* existed then.  If a lease is open it ends the session, whichever that is.
smsReceived(j) ==
  LET evidence == [kind |-> "sms", job |-> j, fence |-> 0,
                   live |-> {k \in Jobs : job[k].lease = "running"}, known |-> Created]
  IN
  /\ j \in answers
  /\ answers' = answers \ {j}
  /\ lease' = FALSE
  /\ IF lease /\ \E k \in Jobs : InSession(k)
     THEN LET k == CHOOSE k \in Jobs : InSession(k) IN
          /\ record' = [record EXCEPT ![k].status = "succeeded"]
          /\ spool' = spool \o <<evidence, [kind |-> "succeeded", job |-> k, fence |-> record[k].fence, live |-> {}, known |-> {}]>>
     ELSE spool' = Append(spool, evidence) /\ UNCHANGED record
  /\ UNCHANGED <<backend, highest, pin>>

SmsLost(j) ==
  /\ j \in answers
  /\ answers' = answers \ {j}
  /\ UNCHANGED <<backend, record, highest, pin, lease, spool>>

-----------------------------------------------------------------------------
(* The backend takes the spool *)

allowedTransitions(state) ==
  IF state = "leased" THEN {"device_started", "failed"} ELSE IF state = "device_started" THEN {"failed"} ELSE {}

Processable(e) ==
  \/ e.kind = "sms"
  \/ /\ e.fence = job[e.job].fence
     /\ e.kind \in allowedTransitions(job[e.job].state) \/ e.kind = job[e.job].state

report(e) ==
  /\ Processable(e) /\ e.kind # "sms"
  /\ IF e.kind = "failed" THEN Fail(e.job)
     ELSE job' = [job EXCEPT ![e.job].state = e.kind] /\ UNCHANGED active
  /\ UNCHANGED sim

Started == {j \in Jobs : job[j].state = "device_started"}

\* The started queries with a lease that covers the receipt.
correlatableBalanceQueryLeases(e) == {j \in Started : j \in e.live \/ job[j].lease = "running"}

\* The newest started query may be more than a minute younger than the receipt.
OldDeviceClock(e) == Started # {} /\ \A j \in Started : j \notin e.known

\* A candidate also started near the receipt, and no newer balance is known: either
\* may fail, whenever the SMS or the query was slow.
applyBalance(candidates) ==
  IF Cardinality(candidates) = 1
  THEN LET j == CHOOSE j \in candidates : TRUE IN
       /\ sim' = IF sim = "payout_stale" THEN "active" ELSE sim
       /\ job' = [job EXCEPT ![j].state = "succeeded"]
       /\ active' = IF active = j THEN 0 ELSE active
  ELSE UNCHANGED <<sim, job, active>>

ingest(e) ==
  /\ e.kind = "sms"
  /\ \/ OldDeviceClock(e) /\ sim' = "quarantined" /\ UNCHANGED <<job, active>>
     \/ \E candidates \in SUBSET correlatableBalanceQueryLeases(e) : applyBalance(candidates)

\* The head of the spool, or nothing while the head is refused.
processSpoolEvent ==
  /\ spool # <<>>
  /\ report(Head(spool)) \/ ingest(Head(spool))
  /\ spool' = Tail(spool)
  /\ UNCHANGED <<fence, checked, handset>>

backendLeaseExpires(j) ==
  /\ job[j].lease = "running"
  /\ SlowLink \/ (spool # <<>> => ~Processable(Head(spool)))
  /\ job' = [job EXCEPT ![j].lease = "over"]
  /\ UNCHANGED <<sim, fence, active, checked, handset, spool>>

RefreshNext ==
  \/ queueStaleBalanceQueries \/ queueBalance \/ updateHealth \/ leaseNext \/ processSpoolEvent \/ balanceLeaseExpires
  \/ \E j \in Jobs :
       \/ retryDeviceJob(j) \/ expireFinancialJobs(j) \/ backendLeaseExpires(j)
       \/ submit(j) \/ SubmitLocalPin(j) \/ ProviderSuccess(j) \/ finishFailed(j) \/ smsReceived(j) \/ SmsLost(j)

RefreshSpec == RefreshInit /\ [][RefreshNext]_refreshVars

(* The crons run, a heartbeat asks for work and sends the spool, leases and sessions *)
(* have deadlines.  Nothing makes the provider answer.                               *)
RefreshFairness ==
  /\ WF_refreshVars(queueStaleBalanceQueries) /\ WF_refreshVars(leaseNext) /\ WF_refreshVars(processSpoolEvent) /\ WF_refreshVars(balanceLeaseExpires)
  /\ \A j \in Jobs :
       /\ WF_refreshVars(expireFinancialJobs(j)) /\ WF_refreshVars(backendLeaseExpires(j))
       /\ WF_refreshVars(submit(j)) /\ WF_refreshVars(SubmitLocalPin(j) \/ finishFailed(j)) /\ WF_refreshVars(smsReceived(j) \/ SmsLost(j))

FairRefreshSpec == RefreshSpec /\ RefreshFairness

-----------------------------------------------------------------------------
(* A balance SMS is given to the query that is running only if there is one        *)
(* (applyBalance).  Cron and staff may queue two, leases expire and jobs are       *)
(* retried, yet no two are started at once, so no answer is ever ambiguous.        *)
NeverAmbiguous == Cardinality(Started) <= 1

(* ingest quarantines the handset when an SMS is more than a minute older than the *)
(* running query, as the sign of a wrong clock.  A handset with the right clock is *)
(* never taken for one, however long its SMS waited in the spool.                  *)
NoFalseQuarantine == sim # "quarantined"

(* The provider's answer is taken for the query that asked, and for nothing worse. *)
AnswerFindsItsQuery == RefreshTypes /\ NeverAmbiguous /\ NoFalseQuarantine

Exhausted == Cardinality(Created) = MaxJobs \/ fence = MaxFence

\* A report the backend refuses whatever happens.
Refused(e) ==
  e.kind # "sms" /\ (e.fence < job[e.job].fence \/ (job[e.job].state \notin Live /\ e.kind # job[e.job].state))

(* The refresh loop never stalls by itself: lost answers, expired leases, double   *)
(* queries and sessions that fail lead to another query, until the balance is      *)
(* fresh or the bound is reached.  The one thing that stops it is a report at the  *)
(* head of the spool that the backend refuses for good.                            *)
RefreshedOrBlocked ==
  sim = "payout_stale" ~> \/ sim # "payout_stale" \/ Exhausted
                          \/ spool # <<>> /\ Refused(Head(spool))

(* "A stale snapshot ... schedules a refresh" (architecture.md): the provider's    *)
(* answer to a query reaches the backend.                                          *)
AnswerArrives == \A j \in Jobs : (\E i \in DOMAIN spool : spool[i].kind = "sms" /\ spool[i].job = j) ~>
                                 ~(\E i \in DOMAIN spool : spool[i].kind = "sms" /\ spool[i].job = j)
=============================================================================
