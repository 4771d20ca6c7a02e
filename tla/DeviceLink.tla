----------------------------- MODULE DeviceLink -----------------------------
(***************************************************************************)
(* The link between a handset and the backend: the handset's durable spool *)
(* and its batches, the gateway that acknowledges the prefix it could      *)
(* process, connections that drop with messages under way, and the jobs    *)
(* both ends keep: leased by the backend, run by the handset, expired by   *)
(* the sweeper and retried by staff.                                       *)
(*                                                                         *)
(* Of a job's run the model keeps the events it spools, from its start to  *)
(* its end, and the provider's SMS.  Payouts has the backend's side of a   *)
(* job in full, Handset the agent's.  A batch of an old connection that    *)
(* the server has received is still processed, next to the new             *)
(* connection's.  The spool also carries acceptances, which the gateway    *)
(* acknowledges unread, and they are left out.                             *)
(***************************************************************************)
EXTENDS Naturals, Sequences, FiniteSets, Functions

CONSTANTS
  MoneyJobs, BalanceJobs,
  NoJob,
  MaxConnections,  \* bound on connections of the handset: the last one stays up
  MaxBatch,        \* events in a batch
  MaxInFlight,     \* bound on batches and answers of the connection under way
  MaxFence,        \* bound on fencing tokens: MaxFence - 1 staff retries
  MaxCorrupt       \* bound on spooled events that cannot be read back

ASSUME DeviceLinkAssumption ==
  /\ IsFiniteSet(MoneyJobs) /\ IsFiniteSet(BalanceJobs)
  /\ MoneyJobs \cap BalanceJobs = {} /\ NoJob \notin MoneyJobs \cup BalanceJobs
  /\ MaxConnections \in Nat /\ MaxBatch \in Nat \ {0} /\ MaxInFlight \in Nat \ {0} /\ MaxFence \in Nat \ {0} /\ MaxCorrupt \in Nat

Jobs == MoneyJobs \cup BalanceJobs
Connections == 1..MaxConnections
MaxSpool == 5 * Cardinality(Jobs)  \* a run spools at most five events
Live == {"queued", "leased", "device_started", "committed", "provider_pending"}
Final == {"succeeded", "failed", "unknown"}
JobStates == Live \cup Final
Kinds == {"device_started", "committed", "provider_pending", "succeeded", "failed", "unknown", "sms"}
Events == [kind : Kinds, job : Jobs, fence : 1..MaxFence]

VARIABLES
  \* the handset
  spool,      \* spool_events in the order of their sequence
  acked, corrupt, deferred,  \* rows acknowledged, unreadable, not due yet
  record,     \* JobExecutionEntity: the job's status here and its fencing token
  sms,        \* jobs whose SMS arrived
  refused,    \* retried jobs the handset refused although it had failed them before the PIN
  \* the link
  connection, \* number of the connection; 0 before the first
  connected,
  up,         \* batches sent over each connection and not processed yet
  done,       \* events of its first batch that were processed
  down,       \* acknowledgements and jobs on their way to the handset
  \* the backend
  job,        \* DeviceJob: state, fencing token, committedAt
  active,     \* Device.activeUssdJobId
  inbox,      \* InboxEvent rows
  applied     \* the events with an effect, in the order they had it

handset == <<spool, acked, corrupt, deferred, record, sms, refused>>
link    == <<connection, connected, up, done, down>>
backend == <<job, active, inbox, applied>>
vars    == <<handset, link, backend>>

Ids == 1..Len(spool)

TypeOK ==
  /\ spool \in Seq(Events) /\ Len(spool) <= MaxSpool
  /\ acked \subseteq Ids /\ corrupt \subseteq Ids /\ deferred \subseteq Ids
  /\ record \in [Jobs -> [status : {"none", "accepted", "device_started", "committed", "provider_pending"} \cup Final,
                          fence : 0..MaxFence]]
  /\ sms \subseteq Jobs /\ refused \subseteq Jobs
  /\ connection \in 0..MaxConnections /\ connected \in BOOLEAN
  /\ up \in [Connections -> Seq(Seq(Ids))] /\ done \in [Connections -> Seq(Ids)]
  /\ down \in Seq([type : {"job"}, job : Jobs, fence : 1..MaxFence] \cup [type : {"spool_ack"}, ids : Seq(Ids)])
  /\ job \in [Jobs -> [state : JobStates, fence : 1..MaxFence, committed : BOOLEAN]]
  /\ active \in Jobs \cup {NoJob}
  /\ inbox \subseteq Ids /\ applied \in Seq(Ids)

Init ==
  /\ spool = <<>> /\ acked = {} /\ corrupt = {} /\ deferred = {}
  /\ record = [j \in Jobs |-> [status |-> "none", fence |-> 0]]
  /\ sms = {} /\ refused = {}
  /\ connection = 0 /\ connected = FALSE
  /\ up = [c \in Connections |-> <<>>] /\ done = [c \in Connections |-> <<>>] /\ down = <<>>
  /\ job = [j \in Jobs |-> [state |-> "queued", fence |-> 1, committed |-> FALSE]]
  /\ active = NoJob /\ inbox = {} /\ applied = <<>>

-----------------------------------------------------------------------------
(* The handset: its jobs *)

enqueue(kind, j, fence) == spool' = Append(spool, [kind |-> kind, job |-> j, fence |-> fence])

\* The job goes from one status to the next and spools it.
Runs(j, from, to) ==
  /\ record[j].status \in from
  /\ record' = [record EXCEPT ![j].status = to]
  /\ enqueue(to, j, record[j].fence)
  /\ UNCHANGED <<acked, corrupt, deferred, sms, refused, link, backend>>

\* One USSD session at a time.
reportStarted(j) ==
  /\ \A k \in Jobs : record[k].status \notin {"device_started", "committed", "provider_pending"}
  /\ Runs(j, {"accepted"}, "device_started")
beforeFinancialPin(j) == j \in MoneyJobs /\ Runs(j, {"device_started"}, "committed")
acknowledgePin(j) == Runs(j, {"committed"}, "provider_pending")

\* The session ends before the PIN, or the process restarts.
finishFailed(j) == Runs(j, {"accepted", "device_started"}, "failed")

\* After the PIN a timeout, an interruption or a restart leaves the outcome open.
finishUnknown(j) == Runs(j, {"committed", "provider_pending"}, "unknown")

\* A success screen ends the session, before or without the SMS.
finishSucceeded(j) == Runs(j, IF j \in MoneyJobs THEN {"provider_pending"} ELSE {"device_started"}, "succeeded")

MayBeAnswered(j) ==
  record[j].status \in {"succeeded"} \cup IF j \in MoneyJobs THEN {"committed", "provider_pending", "unknown"} ELSE {"device_started", "failed"}

\* The provider's SMS is stored and spooled in one transaction.
persistSmsEvidenceWithOutbox(j) ==
  /\ j \notin sms /\ MayBeAnswered(j)
  /\ sms' = sms \cup {j}
  /\ enqueue("sms", j, record[j].fence)
  /\ UNCHANGED <<acked, corrupt, deferred, record, refused, link, backend>>

\* Later the receiver ends the session if the SMS matches it.
completeFromSms(j) ==
  /\ j \in sms
  /\ Runs(j, IF j \in MoneyJobs THEN {"committed", "provider_pending"} ELSE {"device_started"}, "succeeded")

-----------------------------------------------------------------------------
(* The handset: the spool and the connection *)

connect_Once ==
  /\ ~connected /\ connection = 0 /\ MaxConnections > 0
  /\ connected' = TRUE
  /\ connection' = 1
  /\ UNCHANGED <<handset, up, done, down, backend>>

connect ==
  /\ ~connected /\ connection < MaxConnections
  /\ connected' = TRUE
  /\ connection' = connection + 1
  /\ UNCHANGED <<handset, up, done, down, backend>>

\* Of what is under way in either direction a prefix has arrived.  The server
\* finishes the batch it is working on.
Drop ==
  /\ connection < MaxConnections
  /\ connected' = FALSE
  /\ \E n \in 0..Len(down) : down' = SubSeq(down, 1, n)
  /\ \E n \in 0..Len(up[connection]) :
       /\ done[connection] # <<>> => n > 0
       /\ up' = [up EXCEPT ![connection] = SubSeq(@, 1, n)]

onFailure ==
  /\ connected
  /\ Drop
  /\ UNCHANGED <<handset, connection, done, backend>>

Unsettled(i) == i \notin acked \cup corrupt

pendingSpool_Unblocked == {i \in Ids : Unsettled(i) /\ i \notin deferred}

\* Due events, none past an event that is not due.
pendingSpool == {i \in Ids : Unsettled(i) /\ ~\E k \in deferred : k <= i /\ Unsettled(k)}

\* An event that cannot be decrypted or is too large for a frame is put aside.
isolate(i) ==
  /\ i \in pendingSpool
  /\ Cardinality(corrupt) < MaxCorrupt
  /\ corrupt' = corrupt \cup {i}
  /\ UNCHANGED <<spool, acked, deferred, record, sms, refused, link, backend>>

BatchSize == IF Cardinality(pendingSpool) < MaxBatch THEN Cardinality(pendingSpool) ELSE MaxBatch

\* The oldest of what is due, in order, as many as fit: the one such sequence.
Batches ==
  {b \in [1..BatchSize -> pendingSpool] :
     /\ \A p, q \in DOMAIN b : p < q => b[p] < b[q]
     /\ \A i \in pendingSpool \ Range(b) : \A p \in DOMAIN b : b[p] < i}

\* Sends what is due and not acknowledged, in flight or not.
flushSpool ==
  /\ connected /\ Len(up[connection]) + Len(down) < MaxInFlight
  /\ pendingSpool # {}
  /\ \E b \in Batches : up' = [up EXCEPT ![connection] = Append(@, b)]
  /\ UNCHANGED <<handset, connection, connected, done, down, backend>>

\* The socket refuses the frame because it is closing.
defer ==
  /\ connected /\ pendingSpool # {}
  /\ \E b \in Batches : deferred' = deferred \cup Range(b)
  /\ Drop
  /\ UNCHANGED <<spool, acked, corrupt, record, sms, refused, connection, done, backend>>

\* An event's delay doubles with its attempts, so a later event may be due first.
Due ==
  /\ \E k \in deferred : deferred' = deferred \ {k}
  /\ UNCHANGED <<spool, acked, corrupt, record, sms, refused, link, backend>>

JobEnvelope(j) == [type |-> "job", job |-> j, fence |-> job[j].fence]

\* A job record is kept for good, so another delivery of the job conflicts with it.
accept(j, fence) ==
  /\ record' = IF record[j].status = "none" THEN [record EXCEPT ![j] = [status |-> "accepted", fence |-> fence]] ELSE record
  /\ refused' = IF record[j].status = "failed" /\ fence > record[j].fence THEN refused \cup {j} ELSE refused
  /\ UNCHANGED acked

handleMessage ==
  /\ down # <<>>
  /\ down' = Tail(down)
  /\ IF Head(down).type = "job" THEN accept(Head(down).job, Head(down).fence)
     ELSE /\ acked' = acked \cup Range(Head(down).ids)
          /\ UNCHANGED <<record, refused>>
  /\ UNCHANGED <<spool, corrupt, deferred, sms, connection, connected, up, done, backend>>

-----------------------------------------------------------------------------
(* The backend: jobs *)

allowedTransitions(j) ==
  IF job[j].state = "leased" THEN {"device_started", "failed"}
  ELSE IF job[j].state = "device_started" THEN {"committed", "failed"}
  ELSE IF job[j].state = "committed" THEN {"provider_pending", "succeeded", "failed", "unknown"}
  ELSE IF job[j].state = "provider_pending" THEN {"succeeded", "failed", "unknown"} ELSE {}

\* A success screen is no settlement evidence, and after the start a failure is
\* no proof that no money moved.
financiallySafeReportState(j, st) ==
  IF st = "succeeded" THEN "provider_pending"
  ELSE IF st = "failed" /\ j \in MoneyJobs /\ (job[j].committed \/ job[j].state # "leased") THEN "unknown" ELSE st

Late(e) == job[e.job].state = "unknown" /\ e.job \in MoneyJobs

Inboxed(i) == i \in inbox

\* What report checks before it accepts a status, in its order.
Reportable(i, e) ==
  /\ e.fence = job[e.job].fence
  /\ \/ Inboxed(i) \/ Late(e)
     \/ e.kind \in allowedTransitions(e.job)
     \/ e.kind = job[e.job].state

\* The states an SMS may leave its job in: settled where it matches, else as it was.
SmsMatches(j) ==
  IF j \in MoneyJobs THEN job[j].committed ELSE job[j].state \in {"device_started", "committed", "provider_pending"}
AfterSms(j) == {job[j].state} \cup IF SmsMatches(j) THEN {"succeeded"} ELSE {}

\* What the event makes of its job, and its inbox row.
Applied(i, st, committed) ==
  LET j == spool[i].job IN
  /\ job' = [job EXCEPT ![j].state = st, ![j].committed = committed]
  /\ active' = IF active = j /\ st \in Final THEN NoJob ELSE active
  /\ inbox' = inbox \cup {i}
  /\ applied' = Append(applied, i)

\* Applies the event unless it was before.
processSpoolEvent(i) ==
  LET e == spool[i]
      row == job[e.job]
      to == financiallySafeReportState(e.job, e.kind)
  IN
  IF Inboxed(i) THEN UNCHANGED <<job, active, inbox, applied>>
  ELSE IF e.kind = "sms" THEN \E st \in AfterSms(e.job) : Applied(i, st, row.committed)
  ELSE IF Late(e) THEN Applied(i, row.state, row.committed \/ e.kind \in {"committed", "provider_pending", "succeeded"})
  ELSE IF e.kind \notin allowedTransitions(e.job) THEN Applied(i, row.state, row.committed)
  ELSE Applied(i, to, row.committed \/ to = "committed" \/ (e.job \in MoneyJobs /\ to = "unknown" /\ row.state # "leased"))

Processable(i) == spool[i].kind = "sms" \/ Reportable(i, spool[i])

\* A money job may not start now: the balance is stale, the SIM quarantined, a
\* heartbeat late, or the wallet is at a limit.
MayBeIneligible(i) ==
  LET e == spool[i] IN
  e.kind = "device_started" /\ e.job \in MoneyJobs /\ job[e.job].state = "leased" /\ ~Inboxed(i)

\* Leases a job and sends it, or nothing when the socket has closed meanwhile; the
\* device or the SIM may not be fit for a job now.
sendLeaseOrJob(c, messages) ==
  \/ /\ active = NoJob
     /\ \E j \in Jobs :
         /\ job[j].state = "queued"
         /\ job' = [job EXCEPT ![j].state = "leased"]
         /\ active' = j
         /\ down' = IF connected /\ c = connection THEN Append(messages, JobEnvelope(j)) ELSE messages
  \/ down' = messages /\ UNCHANGED <<job, active>>

\* A heartbeat of the current connection asks for work.
Heartbeat ==
  /\ connected
  /\ sendLeaseOrJob(connection, down)
  /\ UNCHANGED <<handset, connection, connected, up, done, inbox, applied>>

Rest(c) == Tail(Head(up[c]))

\* The next event of the batch is processed.
spoolEventProcessed(c) ==
  /\ up[c] # <<>> /\ Head(up[c]) # <<>>
  /\ Processable(Head(Head(up[c])))
  /\ processSpoolEvent(Head(Head(up[c])))
  /\ done' = [done EXCEPT ![c] = Append(@, Head(Head(up[c])))]
  /\ up' = [up EXCEPT ![c] = <<Rest(c)>> \o Tail(@)]
  /\ UNCHANGED <<handset, connection, connected, down>>

spoolEventDeferred_Acked(c) ==
  /\ up[c] # <<>> /\ Head(up[c]) # <<>>
  /\ ~Processable(Head(Head(up[c]))) \/ MayBeIneligible(Head(Head(up[c])))
  /\ up' = [up EXCEPT ![c] = <<(<<>>)>> \o Tail(@)]
  /\ done' = [done EXCEPT ![c] = @ \o Head(up[c])]
  /\ UNCHANGED <<handset, connection, connected, down, backend>>

\* It cannot be processed now: the rest of the batch is left for later.
spoolEventDeferred(c) ==
  /\ up[c] # <<>> /\ Head(up[c]) # <<>>
  /\ ~Processable(Head(Head(up[c]))) \/ MayBeIneligible(Head(Head(up[c])))
  /\ up' = [up EXCEPT ![c] = <<(<<>>)>> \o Tail(@)]
  /\ UNCHANGED <<handset, connection, connected, done, down, backend>>

\* The batch is answered, if its connection is still open, and work is offered.
spoolBatchAnswered(c) ==
  /\ up[c] # <<>> /\ Head(up[c]) = <<>>
  /\ up' = [up EXCEPT ![c] = Tail(@)]
  /\ done' = [done EXCEPT ![c] = <<>>]
  /\ sendLeaseOrJob(c, IF connected /\ c = connection THEN Append(down, [type |-> "spool_ack", ids |-> done[c]]) ELSE down)
  /\ UNCHANGED <<handset, connection, connected, inbox, applied>>

\* A job or its lease expires.
expireFinancialJobs(j) ==
  /\ job[j].state \in Live
  /\ job' = [job EXCEPT ![j] = IF j \in MoneyJobs /\ @.state # "queued"
                               THEN [@ EXCEPT !.state = "unknown", !.committed = TRUE]
                               ELSE [@ EXCEPT !.state = "failed"]]
  /\ active' = IF active = j THEN NoJob ELSE active
  /\ UNCHANGED <<handset, link, inbox, applied>>

retryDeviceJob(j) ==
  /\ job[j].state = "failed" /\ ~job[j].committed
  /\ job[j].fence < MaxFence
  /\ job' = [job EXCEPT ![j].state = "queued", ![j].fence = @ + 1]
  /\ UNCHANGED <<handset, link, active, inbox, applied>>

Next ==
  \/ \E j \in Jobs :
       \/ reportStarted(j) \/ beforeFinancialPin(j) \/ acknowledgePin(j) \/ finishFailed(j) \/ finishUnknown(j) \/ finishSucceeded(j)
       \/ persistSmsEvidenceWithOutbox(j) \/ completeFromSms(j)
       \/ expireFinancialJobs(j) \/ retryDeviceJob(j)
  \/ connect \/ onFailure \/ flushSpool \/ defer \/ Due \/ handleMessage \/ Heartbeat
  \/ \E i \in Ids : isolate(i)
  \/ \E c \in Connections : spoolEventProcessed(c) \/ spoolEventDeferred(c) \/ spoolBatchAnswered(c)

Spec == Init /\ [][Next]_vars

(* The gateway works off what it received and the handset what it is sent; the     *)
(* heartbeat loop reconnects, flushes and lets deferred events become due; the     *)
(* expiry cron runs every minute.                                                  *)
LinkFairness ==
  /\ WF_vars(connect) /\ WF_vars(flushSpool) /\ WF_vars(Due) /\ WF_vars(handleMessage)
  /\ \A c \in Connections : WF_vars(spoolEventProcessed(c) \/ spoolEventDeferred(c) \/ spoolBatchAnswered(c))
  /\ \A j \in Jobs : WF_vars(expireFinancialJobs(j))

FairSpec == Spec /\ LinkFairness

-----------------------------------------------------------------------------
(* "ACK only the successfully processed prefix" (gateway): over reconnections,     *)
(* resent batches and two connections at once, every spooled event has its effect  *)
(* at most once, and after the effects of the events spooled before it; only one   *)
(* that became unreadable on the handset while it was under way may be overtaken.  *)
InOrderOnce ==
  \A k, l \in DOMAIN applied : k < l =>
    /\ applied[k] # applied[l]
    /\ applied[k] < applied[l] \/ applied[l] \in corrupt

(* The handset forgets an event only when the backend has it: an acknowledged      *)
(* status or SMS was applied.                                                      *)
AckedIsApplied == acked \subseteq Range(applied)

(* "Later events can be causally dependent (DEVICE_STARTED -> PIN_SUBMITTED ->     *)
(* SMS)": when the SMS of a money job is applied, the backend knows that the PIN   *)
(* may have been entered, unless the handset lost the event that said so.          *)
SmsFindsCommit ==
  \A i \in Range(applied) : spool[i].kind = "sms" /\ spool[i].job \in MoneyJobs =>
    \/ job[spool[i].job].committed
    \/ \E k \in corrupt : k < i /\ spool[k].job = spool[i].job

(* Delivery at least once becomes an effect exactly once: the handset sends again  *)
(* (SpoolBatcher), the gateway acknowledges a prefix and the inbox drops copies.   *)
AppliedOnceInOrder == TypeOK /\ InOrderOnce /\ AckedIsApplied

\* A status the backend refuses whatever happens: its job was retried since, or has
\* ended in another state.
Refused(i) ==
  LET e == spool[i] IN
  /\ e.kind # "sms"
  /\ \/ e.fence < job[e.job].fence
     \/ ~Inboxed(i) /\ ~Late(e) /\ job[e.job].state \in Final /\ e.kind # job[e.job].state

(* No fault of the link loses or holds back evidence: through dropped connections, *)
(* lost acknowledgements, deferrals and a SIM that may not start, every spooled    *)
(* event is acknowledged in the end, put aside as unreadable, or stands behind one *)
(* the backend refuses for good.                                                   *)
ArrivesOrRefused ==
  []<>(\A i \in Ids : i \in acked \cup corrupt \/ \E k \in Ids : k <= i /\ Unsettled(k) /\ Refused(k))

(* "ACK only the successfully processed prefix ... accepting past a transient      *)
(* failure could strand settlement evidence" (gateway): a refusal is transient,    *)
(* and every spooled event, the provider's SMS with it, arrives in the end.        *)
EvidenceArrives == []<>(Ids \subseteq acked \cup corrupt)

(* "pre-commit explicit failure may retry" (JobSafetyPolicyTest): the handset      *)
(* takes a job it failed before the PIN again, with a newer fencing token.         *)
RetryRuns == refused = {}
=============================================================================
