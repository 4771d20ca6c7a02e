-------------------------- MODULE DeviceLinkProofs --------------------------
(* Every spooled event has its effect once and in order, and an SMS finds its *)
(* commit, for every number of jobs, connections, batches and retries.        *)
EXTENDS DeviceLink, FiniteSetTheorems, SequenceTheorems, TLAPS

Statuses == {"none", "accepted", "device_started", "committed", "provider_pending"} \cup Final
Fences == 1..MaxFence
Messages == [type : {"job"}, job : Jobs, fence : Fences] \cup [type : {"spool_ack"}, ids : Seq(Ids)]

\* The types but for the length of the spool, and what the records need to spool.
Typed ==
  /\ spool \in Seq(Events)
  /\ acked \subseteq Ids /\ corrupt \subseteq Ids /\ deferred \subseteq Ids
  /\ record \in [Jobs -> [status : Statuses, fence : 0..MaxFence]]
  /\ \A j \in Jobs : record[j].status # "none" => record[j].fence \in Fences
  /\ sms \subseteq Jobs /\ refused \subseteq Jobs
  /\ connection \in 0..MaxConnections /\ connected \in BOOLEAN
  /\ connected => connection \in Connections
  /\ up \in [Connections -> Seq(Seq(Ids))] /\ done \in [Connections -> Seq(Ids)]
  /\ down \in Seq(Messages)
  /\ job \in [Jobs -> [state : JobStates, fence : Fences, committed : BOOLEAN]]
  /\ active \in Jobs \cup {NoJob}
  /\ inbox \subseteq Ids /\ applied \in Seq(Ids)

-----------------------------------------------------------------------------
(* Operators *)

LEMMA OneSpooled ==
  ASSUME NEW s \in Seq(Events), NEW e \in Events
  PROVE  /\ Append(s, e) \in Seq(Events) /\ Len(s) \in Nat /\ Len(Append(s, e)) = Len(s) + 1
         /\ \A i \in 1..Len(s) : Append(s, e)[i] = s[i]
         /\ Append(s, e)[Len(s) + 1] = e
  OBVIOUS

\* What one step of a job spools.
LEMMA SpoolGrows ==
  ASSUME Typed, NEW k \in Kinds, NEW j \in Jobs, NEW f \in Fences, enqueue(k, j, f)
  PROVE  /\ spool' \in Seq(Events) /\ Len(spool) \in Nat /\ Len(spool') = Len(spool) + 1
         /\ \A i \in Ids : spool'[i] = spool[i]
         /\ spool'[Len(spool')] = [kind |-> k, job |-> j, fence |-> f]
         /\ Ids \subseteq Ids'
  <1> DEFINE e == [kind |-> k, job |-> j, fence |-> f]
  <1>1. e \in Events
    BY DEF Events, Fences
  <1>2. spool \in Seq(Events) /\ spool' = Append(spool, e)
    BY DEF Typed, enqueue
  <1> HIDE DEF e
  <1>3. /\ spool' \in Seq(Events) /\ Len(spool) \in Nat /\ Len(spool') = Len(spool) + 1
        /\ \A i \in 1..Len(spool) : spool'[i] = spool[i]
        /\ spool'[Len(spool) + 1] = e
    BY <1>1, <1>2, OneSpooled
  <1>4. Ids \subseteq Ids'
    BY <1>3 DEF Ids
  <1> QED BY <1>3, <1>4 DEF Ids, e

LEMMA MessagesGrow ==
  ASSUME Ids \subseteq Ids'
  PROVE  Messages \subseteq Messages' /\ Seq(Ids) \subseteq Seq(Ids') /\ Seq(Seq(Ids)) \subseteq Seq(Seq(Ids')) /\ Seq(Messages) \subseteq Seq(Messages')
  <1>1. Seq(Ids) \subseteq Seq(Ids')
    BY SeqMonotonic
  <1>2. Seq(Seq(Ids)) \subseteq Seq(Seq(Ids'))
    BY <1>1, SeqMonotonic
  <1>3. Messages \subseteq Messages'
    BY <1>1 DEF Messages, Fences, Jobs
  <1>4. Seq(Messages) \subseteq Seq(Messages')
    BY <1>3, SeqMonotonic
  <1> QED BY <1>1, <1>2, <1>3, <1>4

\* A job that goes from a status in which it was accepted spools the next status.
LEMMA TypedRuns ==
  ASSUME Typed, NEW j \in Jobs, NEW from, "none" \notin from, NEW to \in Kinds \ {"sms"}, Runs(j, from, to)
  PROVE  Typed'
  <1> DEFINE f == record[j].fence
  <1>1. f \in Fences /\ enqueue(to, j, f) /\ record[j].status \in from
    BY DEF Typed, Runs, Statuses
  <1>2. /\ spool' \in Seq(Events) /\ Ids \subseteq Ids'
    BY <1>1, SpoolGrows
  <1>3. record' \in [Jobs -> [status : Statuses, fence : 0..MaxFence]]
    BY DEF Typed, Runs, Kinds, Statuses, Final
  <1>4. \A k \in Jobs : record'[k].fence = record[k].fence /\ (record'[k].status # "none" => record[k].status # "none")
    BY <1>1 DEF Typed, Runs
  <1>5. UNCHANGED <<acked, corrupt, deferred, sms, refused, link, backend>>
    BY DEF Runs
  <1>6. /\ up' \in [Connections -> Seq(Seq(Ids'))] /\ done' \in [Connections -> Seq(Ids')] /\ down' \in Seq(Messages')
        /\ applied' \in Seq(Ids')
    BY <1>2, <1>5, MessagesGrow DEF Typed, link, backend
  <1> QED BY <1>1, <1>2, <1>3, <1>4, <1>5, <1>6 DEF Typed, link, backend, Connections, Statuses, Fences, JobStates, Jobs

LEMMA LastOrBefore ==
  ASSUME NEW n \in Nat, NEW m \in 1..(n + 1)
  PROVE  m \in 1..n \/ m = n + 1
  OBVIOUS

LEMMA Prefix ==
  ASSUME NEW S, NEW s \in Seq(S), NEW n \in 0..Len(s)
  PROVE  /\ SubSeq(s, 1, n) \in Seq(S) /\ Len(SubSeq(s, 1, n)) = n
         /\ \A i \in 1..n : SubSeq(s, 1, n)[i] = s[i]
  BY SubSeqProperties

\* What a lost connection leaves: prefixes.
LEMMA Dropped ==
  ASSUME Typed, connected, Drop
  PROVE  /\ connection \in Connections /\ Len(down) \in Nat /\ Len(up[connection]) \in Nat
         /\ connected' = FALSE
         /\ \E n \in 0..Len(down) : down' = SubSeq(down, 1, n) /\ down' \in Seq(Messages)
         /\ \E n \in 0..Len(up[connection]) :
              up' = [up EXCEPT ![connection] = SubSeq(@, 1, n)] /\ SubSeq(up[connection], 1, n) \in Seq(Seq(Ids))
  <1>1. connection \in Connections /\ down \in Seq(Messages) /\ up[connection] \in Seq(Seq(Ids))
    BY DEF Typed
  <1>2. PICK n \in 0..Len(down) : down' = SubSeq(down, 1, n)
    BY DEF Drop
  <1>3. PICK m \in 0..Len(up[connection]) : up' = [up EXCEPT ![connection] = SubSeq(@, 1, m)]
    BY DEF Drop
  <1>4. SubSeq(down, 1, n) \in Seq(Messages) /\ SubSeq(up[connection], 1, m) \in Seq(Seq(Ids))
    BY <1>1, Prefix
  <1>5. Len(down) \in Nat /\ Len(up[connection]) \in Nat
    BY <1>1, LenProperties
  <1> QED BY <1>1, <1>2, <1>3, <1>4, <1>5 DEF Drop

\* A batch is a sequence of pending events that leaves out none before its last.
LEMMA BatchIsAPrefix ==
  ASSUME Typed, NEW b \in Batches
  PROVE  /\ b \in Seq(Ids) /\ Len(b) \in Nat
         /\ \A p \in 1..Len(b) : b[p] \in pendingSpool
         /\ \A p \in 1..Len(b), i \in pendingSpool : i < b[p] => \E q \in 1..(p - 1) : b[q] = i
  <1>1. IsFiniteSet(pendingSpool) /\ pendingSpool \subseteq Ids /\ Ids \subseteq Nat
    <2>1. Len(spool) \in Nat
      BY LenProperties DEF Typed
    <2>2. IsFiniteSet(Ids)
      BY <2>1, FS_Interval DEF Ids
    <2>3. pendingSpool \subseteq Ids
      BY DEF pendingSpool
    <2>4. Ids \subseteq Nat
      BY <2>1 DEF Ids
    <2> QED BY <2>2, <2>3, <2>4, FS_Subset
  <1>2. BatchSize \in Nat
    BY <1>1, FS_CardinalityType, DeviceLinkAssumption DEF BatchSize
  <1>3. /\ b \in [1..BatchSize -> pendingSpool]
        /\ \A p, q \in DOMAIN b : p < q => b[p] < b[q]
        /\ \A i \in pendingSpool \ Range(b) : \A p \in DOMAIN b : b[p] < i
    BY DEF Batches
  <1> HIDE DEF Batches
  <1>4. b \in Seq(pendingSpool) /\ Len(b) = BatchSize
    BY <1>2, <1>3
  <1>5. b \in Seq(Ids)
    BY <1>1, <1>4, SeqMonotonic
  <1>6. ASSUME NEW p \in 1..Len(b), NEW i \in pendingSpool, i < b[p]
        PROVE  \E q \in 1..(p - 1) : b[q] = i
    <2>1. i \in Nat /\ \A q \in 1..Len(b) : b[q] \in Nat
      BY <1>1, <1>3, <1>4
    <2>2. i \in Range(b)
      BY <1>3, <1>4, <1>6, <2>1
    <2>3. PICK q \in 1..Len(b) : b[q] = i
      BY <1>3, <1>4, <2>2 DEF Range
    <2>4. ~(p < q) /\ p # q
      BY <1>3, <1>4, <1>6, <2>1, <2>3
    <2> QED BY <1>2, <1>4, <2>3, <2>4
  <1> QED BY <1>2, <1>3, <1>4, <1>5, <1>6

\* A job that is leased, or none.
LEMMA Leased ==
  ASSUME Typed, NEW c \in Connections, NEW messages \in Seq(Messages), sendLeaseOrJob(c, messages)
  PROVE  /\ job' \in [Jobs -> [state : JobStates, fence : Fences, committed : BOOLEAN]] /\ active' \in Jobs \cup {NoJob}
         /\ down' \in Seq(Messages)
         /\ \/ down' = messages
            \/ \E j \in Jobs : down' = Append(messages, [type |-> "job", job |-> j, fence |-> job[j].fence])
         /\ \A j \in Jobs : /\ job'[j].committed = job[j].committed
                            /\ job'[j].state = job[j].state \/ job'[j].state = "leased"
  <1> DEFINE Envelope(j) == [type |-> "job", job |-> j, fence |-> job[j].fence]
  <1>1. CASE down' = messages /\ UNCHANGED <<job, active>>
    BY <1>1 DEF Typed
  <1>2. CASE /\ active = NoJob
             /\ \E j \in Jobs :
                 /\ job[j].state = "queued"
                 /\ job' = [job EXCEPT ![j].state = "leased"]
                 /\ active' = j
                 /\ down' = IF connected /\ c = connection THEN Append(messages, JobEnvelope(j)) ELSE messages
    <2>1. PICK j \in Jobs : /\ job' = [job EXCEPT ![j].state = "leased"]
                            /\ active' = j
                            /\ down' = IF connected /\ c = connection THEN Append(messages, Envelope(j)) ELSE messages
      BY <1>2 DEF JobEnvelope
    <2>2. Envelope(j) \in Messages
      BY DEF Typed, Messages
    <2>3. Append(messages, Envelope(j)) \in Seq(Messages)
      BY <2>2, AppendProperties
    <2>4. job' \in [Jobs -> [state : JobStates, fence : Fences, committed : BOOLEAN]]
      BY <2>1 DEF Typed, JobStates, Live, Final
    <2>5. \A k \in Jobs : /\ job'[k].committed = job[k].committed
                          /\ job'[k].state = job[k].state \/ job'[k].state = "leased"
      BY <2>1 DEF Typed
    <2> QED BY <2>1, <2>3, <2>4, <2>5
  <1> QED BY <1>1, <1>2 DEF sendLeaseOrJob

\* What an event makes of its job: the marker of the commit is never taken back, and is
\* set whenever the job becomes committed or its commit is applied.
Marks(i, st, cm) ==
  /\ st \in JobStates /\ cm \in BOOLEAN /\ Applied(i, st, cm)
  /\ job[spool[i].job].committed => cm
  /\ st = "committed" => cm \/ job[spool[i].job].state = "committed"
  /\ spool[i].kind = "committed" => cm \/ job[spool[i].job].state = "committed"

LEMMA EventMarks ==
  ASSUME Typed, NEW i \in Ids, Processable(i), processSpoolEvent(i), i \notin inbox
  PROVE  \E st, cm : Marks(i, st, cm)
  <1> DEFINE e == spool[i]
             j == e.job
             row == job[j]
             to == financiallySafeReportState(j, e.kind)
  <1>0. e \in Events
    BY DEF Typed, Ids
  <1>1. /\ e.kind \in Kinds /\ j \in Jobs
        /\ row.state \in JobStates /\ row.committed \in BOOLEAN
    BY <1>0 DEF Events, Typed
  <1>2. CASE e.kind = "sms"
    <2>1. PICK st \in AfterSms(j) : Applied(i, st, row.committed)
      BY <1>2 DEF processSpoolEvent, Inboxed
    <2>2. st = row.state \/ st = "succeeded"
      BY <2>1 DEF AfterSms
    <2> QED BY <1>1, <1>2, <2>1, <2>2 DEF Marks, JobStates, Final
  <1>3. CASE e.kind # "sms" /\ Late(e)
    <2> DEFINE cm == row.committed \/ e.kind \in {"committed", "provider_pending", "succeeded"}
    <2>1. Applied(i, row.state, cm)
      BY <1>3 DEF processSpoolEvent, Inboxed
    <2>2. cm \in BOOLEAN /\ (row.committed => cm) /\ (e.kind = "committed" => cm)
      BY <1>1
    <2> HIDE DEF cm
    <2> QED BY <1>1, <2>1, <2>2 DEF Marks
  <1>4. CASE e.kind # "sms" /\ ~Late(e) /\ e.kind \notin allowedTransitions(j)
    <2>1. Applied(i, row.state, row.committed)
      BY <1>4 DEF processSpoolEvent, Inboxed
    <2>2. e.kind = row.state
      BY <1>4 DEF Processable, Reportable, Inboxed
    <2> QED BY <1>1, <2>1, <2>2 DEF Marks
  <1>5. CASE e.kind # "sms" /\ ~Late(e) /\ e.kind \in allowedTransitions(j)
    <2> DEFINE cm == row.committed \/ to = "committed" \/ (j \in MoneyJobs /\ to = "unknown" /\ row.state # "leased")
    <2>1. Applied(i, to, cm)
      BY <1>5 DEF processSpoolEvent, Inboxed
    <2>2. to \in JobStates /\ (e.kind = "committed" => to = "committed")
      BY <1>1, <1>5 DEF financiallySafeReportState, Kinds, JobStates, Live, Final
    <2>3. cm \in BOOLEAN /\ (row.committed => cm) /\ (to = "committed" => cm)
      BY <1>1
    <2> HIDE DEF cm, to
    <2> QED BY <1>1, <2>1, <2>2, <2>3 DEF Marks
  <1> QED BY <1>2, <1>3, <1>4, <1>5

-----------------------------------------------------------------------------
(* The inductive invariant *)

\* The kinds of event of which a job spools one: five.
Stage(kind) == IF kind \in Final THEN "end" ELSE kind

\* A job spools each stage once, and its record has passed what it has spooled.
Passed(e, rec, arrived) ==
  LET status == rec[e.job].status IN
  /\ e.kind = "device_started" => status \notin {"none", "accepted"}
  /\ e.kind = "committed" => status \notin {"none", "accepted", "device_started"}
  /\ e.kind = "provider_pending" => status \notin {"none", "accepted", "device_started", "committed"}
  /\ e.kind \in Final => status \in Final
  /\ e.kind = "sms" => e.job \in arrived

StagesOnce ==
  /\ \A i \in Ids : Passed(spool[i], record, sms)
  /\ \A i, k \in Ids : spool[i].job = spool[k].job /\ Stage(spool[i].kind) = Stage(spool[k].kind) => i = k

\* A money job whose PIN may be in has spooled its commit, and so it did before its SMS.
CommitsFirst ==
  /\ \A j \in MoneyJobs : record[j].status \in {"committed", "provider_pending", "succeeded", "unknown"} =>
       \E k \in Ids : spool[k].kind = "committed" /\ spool[k].job = j
  /\ \A i \in Ids : spool[i].kind = "sms" /\ spool[i].job \in MoneyJobs =>
       \E k \in Ids : k < i /\ spool[k].kind = "committed" /\ spool[k].job = spool[i].job

\* An event in a batch under way comes after all of those that are not applied yet,
\* but for the unreadable ones.
Whole(b, gone) == \A p \in 1..Len(b) : \A k \in 1..(b[p] - 1) : k \in gone \/ \E q \in 1..(p - 1) : b[q] = k
BatchesWhole == \A c \in Connections : \A m \in 1..Len(up[c]) : Whole(up[c][m], corrupt \cup inbox)

AppliedWhole == \A i \in inbox : 1..(i - 1) \subseteq corrupt \cup inbox

InboxExact == inbox = Range(applied)

\* What was processed, answered or acknowledged is applied.
AnswersTrue ==
  /\ acked \subseteq inbox
  /\ \A c \in Connections : Range(done[c]) \subseteq inbox
  /\ \A m \in 1..Len(down) : down[m].type = "spool_ack" => Range(down[m].ids) \subseteq inbox

Marked ==
  /\ \A j \in Jobs : job[j].state = "committed" => job[j].committed
  /\ \A i \in inbox : spool[i].kind = "committed" => job[spool[i].job].committed

Ordered == BatchesWhole /\ AppliedWhole /\ InboxExact /\ InOrderOnce /\ AnswersTrue

LinkInv == Typed /\ StagesOnce /\ CommitsFirst /\ Ordered /\ Marked

-----------------------------------------------------------------------------
(* Types *)

LEMMA TypedInit == Init => Typed
  <1> SUFFICES ASSUME Init PROVE Typed
    OBVIOUS
  <1>1. Len(spool) = 0 /\ spool \in Seq(Events) /\ down \in Seq(Messages) /\ applied \in Seq(Ids)
    BY EmptySeq DEF Init
  <1>2. <<>> \in Seq(Seq(Ids)) /\ <<>> \in Seq(Ids)
    BY EmptySeq
  <1>3. 1 \in Fences /\ 0 \in 0..MaxFence /\ 0 \in 0..MaxConnections
    BY DeviceLinkAssumption DEF Fences
  <1> QED BY <1>1, <1>2, <1>3 DEF Typed, Init, Statuses, JobStates, Live, Jobs

LEMMA TypedSms ==
  ASSUME Typed, NEW j \in Jobs, persistSmsEvidenceWithOutbox(j)
  PROVE  Typed'
  <1> DEFINE f == record[j].fence
  <1>1. f \in Fences /\ enqueue("sms", j, f)
    BY DEF Typed, persistSmsEvidenceWithOutbox, MayBeAnswered
  <1>2. /\ spool' \in Seq(Events) /\ Ids \subseteq Ids'
    BY <1>1, SpoolGrows DEF Kinds
  <1>3. UNCHANGED <<acked, corrupt, deferred, record, refused, link, backend>> /\ sms' \subseteq Jobs
    BY DEF persistSmsEvidenceWithOutbox, Typed
  <1>4. /\ up' \in [Connections -> Seq(Seq(Ids'))] /\ done' \in [Connections -> Seq(Ids')] /\ down' \in Seq(Messages')
        /\ applied' \in Seq(Ids')
    BY <1>2, <1>3, MessagesGrow DEF Typed, link, backend
  <1> QED BY <1>2, <1>3, <1>4 DEF Typed, link, backend, Connections, Statuses, Fences, JobStates, Jobs

\* When nothing is spooled, the types of what refers to the spool stay as they are.
LEMMA SpoolStays ==
  ASSUME spool' = spool
  PROVE  Ids' = Ids /\ Messages' = Messages
  BY DEF Ids, Messages, Fences, Jobs

LEMMA TypedHandset ==
  ASSUME Typed,
         \/ connect \/ onFailure \/ flushSpool \/ defer \/ Due \/ handleMessage
         \/ \E i \in Ids : isolate(i)
  PROVE  Typed'
  <1> USE DEF handset, link, backend
  <1>1. CASE connect
    BY <1>1, SpoolStays, DeviceLinkAssumption DEF connect, Typed, Connections, Statuses, Fences, JobStates, Jobs
  <1>2. CASE onFailure
    <2>1. connection \in Connections
      BY <1>2, Dropped DEF onFailure
    <2>2. down' \in Seq(Messages) /\ connected' = FALSE
      BY <1>2, Dropped DEF onFailure
    <2>3. up' \in [Connections -> Seq(Seq(Ids))]
      BY <1>2, Dropped DEF onFailure, Typed
    <2> QED BY <1>2, <2>1, <2>2, <2>3, SpoolStays DEF onFailure, Typed, Connections, Statuses, Fences, JobStates, Jobs
  <1>3. CASE flushSpool
    <2>1. PICK b \in Batches : up' = [up EXCEPT ![connection] = Append(@, b)]
      BY <1>3 DEF flushSpool
    <2>2. b \in Seq(Ids) /\ connection \in Connections /\ up[connection] \in Seq(Seq(Ids))
      BY <1>3, BatchIsAPrefix DEF flushSpool, Typed
    <2>3. Append(up[connection], b) \in Seq(Seq(Ids))
      BY <2>2, AppendProperties
    <2>4. up' \in [Connections -> Seq(Seq(Ids))]
      BY <2>1, <2>3 DEF Typed
    <2> QED BY <1>3, <2>4, SpoolStays DEF flushSpool, Typed, Connections, Statuses, Fences, JobStates, Jobs
  <1>4. CASE defer
    <2>1. connection \in Connections
      BY <1>4, Dropped DEF defer
    <2>2. down' \in Seq(Messages) /\ connected' = FALSE
      BY <1>4, Dropped DEF defer
    <2>3. up' \in [Connections -> Seq(Seq(Ids))]
      BY <1>4, Dropped DEF defer, Typed
    <2>4. PICK b \in Batches : deferred' = deferred \cup Range(b)
      BY <1>4 DEF defer
    <2>5. Range(b) \subseteq Ids
      BY BatchIsAPrefix DEF Range
    <2>6. deferred' \subseteq Ids
      BY <2>4, <2>5 DEF Typed
    <2> QED BY <1>4, <2>1, <2>2, <2>3, <2>6, SpoolStays DEF defer, Typed, Connections, Statuses, Fences, JobStates, Jobs
  <1>5. CASE Due
    BY <1>5, SpoolStays DEF Due, Typed, Connections, Statuses, Fences, JobStates, Jobs
  <1>6. CASE handleMessage
    <2> DEFINE m == Head(down)
    <2>1. m \in Messages /\ down' \in Seq(Messages)
      BY <1>6, HeadTailProperties DEF handleMessage, Typed
    <2>2. CASE m.type = "job"
      <3>1. accept(m.job, m.fence) /\ m.job \in Jobs /\ m.fence \in Fences
        BY <1>6, <2>1, <2>2 DEF handleMessage, Messages
      <3>2. /\ record' \in [Jobs -> [status : Statuses, fence : 0..MaxFence]]
            /\ \A j \in Jobs : record'[j].status # "none" => record'[j].fence \in Fences
            /\ refused' \subseteq Jobs /\ acked' \subseteq Ids
        <4>1. m.fence \in 0..MaxFence /\ "accepted" \in Statuses
          BY <3>1 DEF Fences, Statuses
        <4> QED BY <3>1, <4>1 DEF accept, Typed
      <3> QED BY <1>6, <2>1, <3>2, SpoolStays DEF handleMessage, Typed, Connections, Statuses, Fences, JobStates, Jobs
    <2>3. CASE m.type # "job"
      <3>1. m.ids \in Seq(Ids) /\ acked' = acked \cup Range(m.ids) /\ UNCHANGED <<record, refused>>
        BY <1>6, <2>1, <2>3 DEF handleMessage, Messages
      <3>2. acked' \subseteq Ids
        BY <3>1 DEF Typed, Range
      <3> QED BY <1>6, <2>1, <3>1, <3>2, SpoolStays DEF handleMessage, Typed, Connections, Statuses, Fences, JobStates, Jobs
    <2> QED BY <2>2, <2>3
  <1>7. CASE \E i \in Ids : isolate(i)
    BY <1>7, SpoolStays DEF isolate, Typed, Connections, Statuses, Fences, JobStates, Jobs
  <1> QED BY <1>1, <1>2, <1>3, <1>4, <1>5, <1>6, <1>7

\* The batch the server works on, and what is left when its place is taken by another.
LEMMA FirstBatch ==
  ASSUME Typed, NEW c \in Connections, up[c] # <<>>
  PROVE  /\ Len(up[c]) \in Nat \ {0} /\ Head(up[c]) \in Seq(Ids) /\ Head(up[c]) = up[c][1]
         /\ Tail(up[c]) \in Seq(Seq(Ids)) /\ Len(Tail(up[c])) = Len(up[c]) - 1
         /\ \A m \in 1..(Len(up[c]) - 1) : Tail(up[c])[m] = up[c][m + 1]
         /\ \A b \in Seq(Ids) : /\ <<b>> \o Tail(up[c]) \in Seq(Seq(Ids))
                                /\ Len(<<b>> \o Tail(up[c])) = Len(up[c])
                                /\ \A m \in 1..Len(up[c]) : (<<b>> \o Tail(up[c]))[m] = IF m = 1 THEN b ELSE up[c][m]
  <1>1. up[c] \in Seq(Seq(Ids))
    BY DEF Typed
  <1>2. /\ Len(up[c]) \in Nat \ {0} /\ Head(up[c]) \in Seq(Ids) /\ Head(up[c]) = up[c][1]
        /\ Tail(up[c]) \in Seq(Seq(Ids)) /\ Len(Tail(up[c])) = Len(up[c]) - 1
        /\ \A m \in 1..(Len(up[c]) - 1) : Tail(up[c])[m] = up[c][m + 1]
    BY <1>1, HeadTailProperties, EmptySeq
  <1>3. ASSUME NEW b \in Seq(Ids)
        PROVE  /\ <<b>> \o Tail(up[c]) \in Seq(Seq(Ids))
               /\ Len(<<b>> \o Tail(up[c])) = Len(up[c])
               /\ \A m \in 1..Len(up[c]) : (<<b>> \o Tail(up[c]))[m] = IF m = 1 THEN b ELSE up[c][m]
    <2>1. <<b>> \in Seq(Seq(Ids)) /\ Len(<<b>>) = 1 /\ <<b>>[1] = b
      OBVIOUS
    <2>2. /\ <<b>> \o Tail(up[c]) \in Seq(Seq(Ids))
          /\ Len(<<b>> \o Tail(up[c])) = 1 + Len(Tail(up[c]))
          /\ \A m \in 1..(1 + Len(Tail(up[c]))) :
               (<<b>> \o Tail(up[c]))[m] = IF m <= 1 THEN <<b>>[m] ELSE Tail(up[c])[m - 1]
      BY <1>2, <2>1, ConcatProperties
    <2> QED BY <1>2, <2>1, <2>2
  <1> QED BY <1>2, <1>3

\* The next event of that batch.
LEMMA FirstEvent ==
  ASSUME NEW b \in Seq(Ids), b # <<>>
  PROVE  /\ Head(b) \in Ids /\ Head(b) = b[1] /\ Len(b) \in Nat \ {0}
         /\ Tail(b) \in Seq(Ids) /\ Len(Tail(b)) = Len(b) - 1 /\ \A p \in 1..(Len(b) - 1) : Tail(b)[p] = b[p + 1]
  BY HeadTailProperties, EmptySeq

\* The steps of a batch, with what they leave in its place.
LEMMA ProcessedStep ==
  ASSUME Typed, NEW c \in Connections, spoolEventProcessed(c)
  PROVE  LET b == Head(up[c]) IN
         /\ up[c] # <<>> /\ b # <<>> /\ b \in Seq(Ids) /\ Head(b) \in Ids /\ Tail(b) \in Seq(Ids)
         /\ up' = [up EXCEPT ![c] = <<Tail(b)>> \o Tail(@)] /\ up' \in [Connections -> Seq(Seq(Ids))]
         /\ done' = [done EXCEPT ![c] = Append(@, Head(b))] /\ done' \in [Connections -> Seq(Ids)]
         /\ Append(done[c], Head(b)) \in Seq(Ids) /\ Range(Append(done[c], Head(b))) = Range(done[c]) \cup {Head(b)}
  <1> DEFINE b == Head(up[c])
  <1>1. /\ up[c] # <<>> /\ b # <<>> /\ b \in Seq(Ids)
    BY FirstBatch DEF spoolEventProcessed
  <1>2. Head(b) \in Ids /\ Tail(b) \in Seq(Ids)
    BY <1>1, FirstEvent
  <1>3. up' = [up EXCEPT ![c] = <<Tail(b)>> \o Tail(@)]
    BY DEF spoolEventProcessed, Rest
  <1>4. <<Tail(b)>> \o Tail(up[c]) \in Seq(Seq(Ids))
    BY <1>1, <1>2, FirstBatch
  <1>5. up' \in [Connections -> Seq(Seq(Ids))]
    BY <1>3, <1>4 DEF Typed
  <1>6. done[c] \in Seq(Ids) /\ done' = [done EXCEPT ![c] = Append(@, Head(b))]
    BY DEF Typed, spoolEventProcessed
  <1> HIDE DEF b
  <1>7. Append(done[c], Head(b)) \in Seq(Ids) /\ Range(Append(done[c], Head(b))) = Range(done[c]) \cup {Head(b)}
    <2>1. /\ Append(done[c], Head(b)) \in Seq(Ids) /\ Len(Append(done[c], Head(b))) = Len(done[c]) + 1 /\ Len(done[c]) \in Nat
          /\ \A p \in 1..(Len(done[c]) + 1) : Append(done[c], Head(b))[p] = IF p <= Len(done[c]) THEN done[c][p] ELSE Head(b)
          /\ DOMAIN done[c] = 1..Len(done[c]) /\ DOMAIN Append(done[c], Head(b)) = 1..(Len(done[c]) + 1)
      BY <1>2, <1>6
    <2> QED BY <2>1 DEF Range
  <1>8. done' \in [Connections -> Seq(Ids)]
    BY <1>6, <1>7 DEF Typed
  <1> QED BY <1>1, <1>2, <1>3, <1>5, <1>6, <1>7, <1>8 DEF b

\* The effect of an event on the backend's state.
LEMMA EventTyped ==
  ASSUME Typed, NEW i \in Ids, Processable(i), processSpoolEvent(i)
  PROVE  /\ job' \in [Jobs -> [state : JobStates, fence : Fences, committed : BOOLEAN]] /\ active' \in Jobs \cup {NoJob}
         /\ inbox' = inbox \cup {i} /\ applied' = (IF i \in inbox THEN applied ELSE Append(applied, i)) /\ applied' \in Seq(Ids)
         /\ \A j \in Jobs : /\ job[j].committed => job'[j].committed
                            /\ job'[j].state = "committed" => job'[j].committed \/ job[j].state = "committed"
         /\ spool[i].kind = "committed" /\ i \notin inbox =>
              job'[spool[i].job].committed \/ job[spool[i].job].state = "committed"
  <1>1. CASE i \in inbox
    BY <1>1 DEF processSpoolEvent, Inboxed, Typed
  <1>2. CASE i \notin inbox
    <2>1. PICK st, cm : Marks(i, st, cm)
      BY <1>2, EventMarks
    <2> DEFINE j == spool[i].job
    <2>0. spool[i] \in Events
      BY DEF Typed, Ids
    <2>2. j \in Jobs
      BY <2>0 DEF Events
    <2>3. st \in JobStates /\ cm \in BOOLEAN /\ job' = [job EXCEPT ![j].state = st, ![j].committed = cm]
      BY <2>1 DEF Marks, Applied
    <2> HIDE DEF j
    <2>4. job' \in [Jobs -> [state : JobStates, fence : Fences, committed : BOOLEAN]]
      BY <2>2, <2>3 DEF Typed
    <2>5. job'[j].state = st /\ job'[j].committed = cm /\ \A k \in Jobs \ {j} : job'[k] = job[k]
      BY <2>2, <2>3 DEF Typed
    <2>6. /\ inbox' = inbox \cup {i} /\ applied' = Append(applied, i)
          /\ active' \in Jobs \cup {NoJob}
      BY <2>1 DEF Marks, Applied, Typed
    <2>7. applied' \in Seq(Ids)
      BY <2>6, AppendProperties DEF Typed
    <2> QED BY <1>2, <2>1, <2>4, <2>5, <2>6, <2>7 DEF Marks, j
  <1> QED BY <1>1, <1>2

\* The answer to a batch, and work with it.
LEMMA AnsweredStep ==
  ASSUME Typed, NEW c \in Connections, spoolBatchAnswered(c)
  PROVE  LET ack == [type |-> "spool_ack", ids |-> done[c]] IN
         /\ up[c] # <<>> /\ up' = [up EXCEPT ![c] = Tail(@)] /\ up' \in [Connections -> Seq(Seq(Ids))]
         /\ done' = [done EXCEPT ![c] = <<>>] /\ done' \in [Connections -> Seq(Ids)]
         /\ \E messages \in Seq(Messages) : /\ messages = down \/ messages = Append(down, ack)
                                            /\ sendLeaseOrJob(c, messages)
  <1> DEFINE ack == [type |-> "spool_ack", ids |-> done[c]]
             messages == IF connected /\ c = connection THEN Append(down, ack) ELSE down
  <1>1. ack \in Messages
    BY DEF Typed, Messages
  <1>2. messages \in Seq(Messages)
    BY <1>1, AppendProperties DEF Typed
  <1>3. up[c] # <<>> /\ up' = [up EXCEPT ![c] = Tail(@)] /\ done' = [done EXCEPT ![c] = <<>>] /\ sendLeaseOrJob(c, messages)
    BY DEF spoolBatchAnswered
  <1>4. Tail(up[c]) \in Seq(Seq(Ids))
    BY <1>3, FirstBatch
  <1>5. up' \in [Connections -> Seq(Seq(Ids))]
    BY <1>3, <1>4 DEF Typed
  <1>6. <<>> \in Seq(Ids)
    BY EmptySeq
  <1>7. done' \in [Connections -> Seq(Ids)]
    BY <1>3, <1>6 DEF Typed
  <1> QED BY <1>2, <1>3, <1>5, <1>7

LEMMA TypedBackend ==
  ASSUME Typed,
         \/ Heartbeat
         \/ \E c \in Connections : spoolEventProcessed(c) \/ spoolEventDeferred(c) \/ spoolBatchAnswered(c)
         \/ \E j \in Jobs : expireFinancialJobs(j) \/ retryDeviceJob(j)
  PROVE  Typed' /\ UNCHANGED <<handset, connection, connected>>
  <1> USE DEF handset, link
  <1>1. CASE Heartbeat
    <2>1. connection \in Connections /\ down \in Seq(Messages) /\ sendLeaseOrJob(connection, down)
      BY <1>1 DEF Heartbeat, Typed
    <2> QED BY <1>1, <2>1, Leased, SpoolStays DEF Heartbeat, Typed, Connections, Statuses, Fences, JobStates, Jobs
  <1>2. ASSUME NEW c \in Connections, spoolEventProcessed(c) PROVE Typed' /\ UNCHANGED <<handset, connection, connected>>
    <2> DEFINE i == Head(Head(up[c]))
    <2>1. i \in Ids /\ Processable(i) /\ processSpoolEvent(i)
      BY <1>2, ProcessedStep DEF spoolEventProcessed
    <2>2. /\ job' \in [Jobs -> [state : JobStates, fence : Fences, committed : BOOLEAN]] /\ active' \in Jobs \cup {NoJob}
          /\ inbox' = inbox \cup {i} /\ applied' \in Seq(Ids)
      BY <2>1, EventTyped
    <2>3. up' \in [Connections -> Seq(Seq(Ids))] /\ done' \in [Connections -> Seq(Ids)]
      BY <1>2, ProcessedStep
    <2>4. UNCHANGED <<handset, connection, connected, down>>
      BY <1>2 DEF spoolEventProcessed
    <2> QED BY <2>1, <2>2, <2>3, <2>4, SpoolStays DEF Typed, Connections, Statuses, Fences, JobStates, Jobs
  <1>3. ASSUME NEW c \in Connections, spoolEventDeferred(c) PROVE Typed' /\ UNCHANGED <<handset, connection, connected>>
    <2>1. up[c] # <<>> /\ <<>> \in Seq(Ids) /\ up' = [up EXCEPT ![c] = <<(<<>>)>> \o Tail(@)]
      BY <1>3, EmptySeq DEF spoolEventDeferred
    <2>2. <<(<<>>)>> \o Tail(up[c]) \in Seq(Seq(Ids))
      BY <2>1, FirstBatch
    <2>3. up' \in [Connections -> Seq(Seq(Ids))]
      BY <2>1, <2>2 DEF Typed
    <2> QED BY <1>3, <2>3, SpoolStays DEF spoolEventDeferred, backend, Typed, Connections, Statuses, Fences, JobStates, Jobs
  <1>4. ASSUME NEW c \in Connections, spoolBatchAnswered(c) PROVE Typed' /\ UNCHANGED <<handset, connection, connected>>
    <2>1. up' \in [Connections -> Seq(Seq(Ids))] /\ done' \in [Connections -> Seq(Ids)]
      BY <1>4, AnsweredStep
    <2>2. PICK messages \in Seq(Messages) : sendLeaseOrJob(c, messages)
      BY <1>4, AnsweredStep
    <2>3. /\ job' \in [Jobs -> [state : JobStates, fence : Fences, committed : BOOLEAN]] /\ active' \in Jobs \cup {NoJob}
          /\ down' \in Seq(Messages)
      BY <2>2, Leased
    <2> QED BY <1>4, <2>1, <2>3, SpoolStays DEF spoolBatchAnswered, Typed, Connections, Statuses, Fences, JobStates, Jobs
  <1>5. ASSUME NEW j \in Jobs, expireFinancialJobs(j) PROVE Typed' /\ UNCHANGED <<handset, connection, connected>>
    <2>1. job' \in [Jobs -> [state : JobStates, fence : Fences, committed : BOOLEAN]]
      BY <1>5 DEF expireFinancialJobs, Typed, JobStates, Final
    <2> QED BY <1>5, <2>1, SpoolStays DEF expireFinancialJobs, Typed, Connections, Statuses, Fences, JobStates, Jobs
  <1>6. ASSUME NEW j \in Jobs, retryDeviceJob(j) PROVE Typed' /\ UNCHANGED <<handset, connection, connected>>
    <2>1. job[j].fence + 1 \in Fences
      BY <1>6, DeviceLinkAssumption DEF retryDeviceJob, Typed, Fences
    <2> DEFINE n == job[j].fence + 1
    <2>2. job' = [job EXCEPT ![j].state = "queued", ![j].fence = n] /\ "queued" \in JobStates /\ n \in Fences
      BY <1>6, <2>1 DEF retryDeviceJob, JobStates, Live
    <2> HIDE DEF n
    <2>3. job' \in [Jobs -> [state : JobStates, fence : Fences, committed : BOOLEAN]]
      BY <2>2 DEF Typed
    <2> QED BY <1>6, <2>3, SpoolStays DEF retryDeviceJob, Typed, Connections, Statuses, Fences, JobStates, Jobs
  <1> QED BY <1>1, <1>2, <1>3, <1>4, <1>5, <1>6

\* The seven steps of a job that spool a status.
LEMMA HandsetRuns ==
  ASSUME Typed, NEW j \in Jobs,
         \/ reportStarted(j) \/ beforeFinancialPin(j) \/ acknowledgePin(j) \/ finishFailed(j) \/ finishUnknown(j)
         \/ finishSucceeded(j) \/ completeFromSms(j)
  PROVE  \E from, to : /\ Runs(j, from, to) /\ "none" \notin from /\ to \in Kinds \ {"sms"}
                       /\ from \cap Final = {}
                       /\ to = "device_started" => from = {"accepted"}
                       /\ to = "committed" => from = {"device_started"}
                       /\ to = "provider_pending" => from = {"committed"}
                       /\ j \in MoneyJobs /\ to \in {"provider_pending", "succeeded", "unknown"} =>
                            from \subseteq {"committed", "provider_pending"}
  <1> USE DEF Kinds, Final
  <1>1. CASE reportStarted(j)
    <2>1. Runs(j, {"accepted"}, "device_started")
      BY <1>1 DEF reportStarted
    <2> QED BY <2>1
  <1>2. CASE beforeFinancialPin(j)
    <2>1. Runs(j, {"device_started"}, "committed")
      BY <1>2 DEF beforeFinancialPin
    <2> QED BY <2>1
  <1>3. CASE acknowledgePin(j)
    <2>1. Runs(j, {"committed"}, "provider_pending")
      BY <1>3 DEF acknowledgePin
    <2> QED BY <2>1
  <1>4. CASE finishFailed(j)
    <2>1. Runs(j, {"accepted", "device_started"}, "failed")
      BY <1>4 DEF finishFailed
    <2> QED BY <2>1
  <1>5. CASE finishUnknown(j)
    <2>1. Runs(j, {"committed", "provider_pending"}, "unknown")
      BY <1>5 DEF finishUnknown
    <2> QED BY <2>1
  <1>6. CASE finishSucceeded(j)
    <2> DEFINE from == IF j \in MoneyJobs THEN {"provider_pending"} ELSE {"device_started"}
    <2>1. Runs(j, from, "succeeded")
      BY <1>6 DEF finishSucceeded
    <2>2. "none" \notin from /\ from \cap {"succeeded", "failed", "unknown"} = {} /\ (j \in MoneyJobs => from \subseteq {"committed", "provider_pending"})
      OBVIOUS
    <2> HIDE DEF from
    <2> QED BY <2>1, <2>2
  <1>7. CASE completeFromSms(j)
    <2> DEFINE from == IF j \in MoneyJobs THEN {"committed", "provider_pending"} ELSE {"device_started"}
    <2>1. Runs(j, from, "succeeded")
      BY <1>7 DEF completeFromSms
    <2>2. "none" \notin from /\ from \cap {"succeeded", "failed", "unknown"} = {} /\ (j \in MoneyJobs => from \subseteq {"committed", "provider_pending"})
      OBVIOUS
    <2> HIDE DEF from
    <2> QED BY <2>1, <2>2
  <1> QED BY <1>1, <1>2, <1>3, <1>4, <1>5, <1>6, <1>7

\* Every step spools a status, spools an SMS, or leaves the spool alone.
StatusStep(j) ==
  \/ reportStarted(j) \/ beforeFinancialPin(j) \/ acknowledgePin(j) \/ finishFailed(j) \/ finishUnknown(j)
  \/ finishSucceeded(j) \/ completeFromSms(j)
HandsetStep ==
  \/ connect \/ onFailure \/ flushSpool \/ defer \/ Due \/ handleMessage
  \/ \E i \in Ids : isolate(i)
BackendStep ==
  \/ Heartbeat
  \/ \E c \in Connections : spoolEventProcessed(c) \/ spoolEventDeferred(c) \/ spoolBatchAnswered(c)
  \/ \E j \in Jobs : expireFinancialJobs(j) \/ retryDeviceJob(j)

LEMMA StepCases ==
  ASSUME Next
  PROVE  (\E j \in Jobs : StatusStep(j) \/ persistSmsEvidenceWithOutbox(j)) \/ HandsetStep \/ BackendStep
  BY DEF Next, StatusStep, HandsetStep, BackendStep

LEMMA TypedNext ==
  ASSUME Typed, Next
  PROVE  Typed'
  <1>1. ASSUME NEW j \in Jobs, StatusStep(j) PROVE Typed'
    <2>1. PICK from, to : Runs(j, from, to) /\ "none" \notin from /\ to \in Kinds \ {"sms"}
      BY <1>1, HandsetRuns DEF StatusStep
    <2> QED BY <2>1, TypedRuns
  <1> QED BY <1>1, StepCases, TypedSms, TypedHandset, TypedBackend DEF HandsetStep, BackendStep

-----------------------------------------------------------------------------
(* The spool: stages and commits *)

\* What the steps that spool nothing do to the jobs of the handset.
LEMMA JobsStay ==
  ASSUME Typed, HandsetStep \/ BackendStep
  PROVE  /\ spool' = spool /\ Ids' = Ids /\ sms' = sms
         /\ \A j \in Jobs : \/ record'[j] = record[j]
                            \/ record[j].status = "none" /\ record'[j].status = "accepted"
  <1> SUFFICES /\ spool' = spool /\ sms' = sms
               /\ \A j \in Jobs : \/ record'[j] = record[j]
                                  \/ record[j].status = "none" /\ record'[j].status = "accepted"
    BY DEF Ids
  <1>1. CASE BackendStep
    <2>1. UNCHANGED handset
      BY <1>1, TypedBackend DEF BackendStep
    <2> QED BY <2>1 DEF handset
  <1>2. CASE connect \/ onFailure \/ flushSpool
    <2>1. UNCHANGED handset
      BY <1>2 DEF connect, onFailure, flushSpool
    <2> QED BY <2>1 DEF handset
  <1>3. CASE defer \/ Due \/ \E i \in Ids : isolate(i)
    BY <1>3 DEF defer, Due, isolate
  <1>4. CASE handleMessage
    <2> DEFINE m == Head(down)
    <2>1. spool' = spool /\ sms' = sms
      BY <1>4 DEF handleMessage
    <2>2. CASE m.type = "job"
      <3>1. accept(m.job, m.fence)
        BY <1>4, <2>2 DEF handleMessage
      <3>2. record' = IF record[m.job].status = "none" THEN [record EXCEPT ![m.job] = [status |-> "accepted", fence |-> m.fence]] ELSE record
        BY <3>1 DEF accept
      <3> HIDE DEF m
      <3> QED BY <2>1, <3>2 DEF Typed
    <2>3. CASE m.type # "job"
      BY <1>4, <2>1, <2>3 DEF handleMessage
    <2> QED BY <2>2, <2>3
  <1> QED BY <1>1, <1>2, <1>3, <1>4 DEF HandsetStep

LEMMA Spooled ==
  ASSUME Typed, NEW i \in Ids
  PROVE  spool[i] \in Events /\ spool[i].kind \in Kinds /\ spool[i].job \in Jobs
  <1>1. spool[i] \in Events
    BY DEF Typed, Ids
  <1> QED BY <1>1 DEF Events

\* One more event, of a stage its job has not spooled, leaves the stages distinct.
LEMMA StagesGrow ==
  ASSUME Typed, StagesOnce, NEW k \in Kinds, NEW j \in Jobs, NEW f \in Fences, enqueue(k, j, f),
         \A i \in Ids : spool[i].job = j => Stage(spool[i].kind) # Stage(k),
         \A i \in Ids : Passed(spool'[i], record', sms'),
         Passed([kind |-> k, job |-> j, fence |-> f], record', sms')
  PROVE  StagesOnce'
  <1>1. /\ Len(spool) \in Nat /\ Len(spool') = Len(spool) + 1
        /\ \A i \in Ids : spool'[i] = spool[i]
        /\ spool'[Len(spool')] = [kind |-> k, job |-> j, fence |-> f]
    BY SpoolGrows
  <1>2. \A i \in Ids' : i \in Ids \/ i = Len(spool')
    BY <1>1 DEF Ids
  <1>3. \A i \in Ids' : Passed(spool'[i], record', sms')
    BY <1>1, <1>2 DEF Passed
  <1>4. spool'[Len(spool')].job = j /\ spool'[Len(spool')].kind = k
    BY <1>1
  <1>5. \A h, i \in Ids' : spool'[h].job = spool'[i].job /\ Stage(spool'[h].kind) = Stage(spool'[i].kind) => h = i
    BY <1>1, <1>2, <1>4 DEF StagesOnce
  <1> QED BY <1>3, <1>5 DEF StagesOnce, Stage

LEMMA StagesNext ==
  ASSUME Typed, StagesOnce, Next
  PROVE  StagesOnce'
  <1>1. ASSUME NEW j \in Jobs, StatusStep(j) PROVE StagesOnce'
    <2>1. PICK from, to : /\ Runs(j, from, to) /\ "none" \notin from /\ to \in Kinds \ {"sms"}
                          /\ from \cap Final = {}
                          /\ to = "device_started" => from = {"accepted"}
                          /\ to = "committed" => from = {"device_started"}
                          /\ to = "provider_pending" => from = {"committed"}
      BY <1>1, HandsetRuns DEF StatusStep
    <2> DEFINE f == record[j].fence
    <2>2. /\ record[j].status \in from /\ enqueue(to, j, f) /\ sms' = sms
          /\ record'[j].status = to /\ \A k \in Jobs \ {j} : record'[k] = record[k]
      BY <2>1 DEF Runs, Typed
    <2>3. f \in Fences
      BY <2>1, <2>2 DEF Typed
    <2>4. \A i \in Ids : spool'[i] = spool[i]
      BY <2>1, <2>2, <2>3, SpoolGrows
    <2> HIDE DEF f
    <2>5. ASSUME NEW i \in Ids PROVE /\ Passed(spool'[i], record', sms')
                                     /\ spool[i].job = j => Stage(spool[i].kind) # Stage(to)
      <3>1. spool[i].kind \in Kinds /\ spool[i].job \in Jobs /\ spool'[i] = spool[i] /\ Passed(spool[i], record, sms)
        BY <2>4, Spooled DEF StagesOnce
      <3>2. CASE spool[i].job # j
        BY <2>2, <3>1, <3>2 DEF Passed
      <3>3. CASE spool[i].job = j
        <4>1. spool[i].kind \notin Final
          BY <2>1, <2>2, <3>1, <3>3 DEF Passed
        <4>2. CASE spool[i].kind = "sms"
          BY <2>1, <2>2, <3>1, <3>3, <4>2 DEF Passed, Stage, Final, Kinds
        <4>3. CASE spool[i].kind = "device_started"
          BY <2>1, <2>2, <3>1, <3>3, <4>3 DEF Passed, Stage, Final, Kinds
        <4>4. CASE spool[i].kind = "committed"
          BY <2>1, <2>2, <3>1, <3>3, <4>4 DEF Passed, Stage, Final, Kinds
        <4>5. CASE spool[i].kind = "provider_pending"
          BY <2>1, <2>2, <3>1, <3>3, <4>5 DEF Passed, Stage, Final, Kinds
        <4> QED BY <3>1, <4>1, <4>2, <4>3, <4>4, <4>5 DEF Kinds, Final
      <3> QED BY <3>2, <3>3
    <2>6. Passed([kind |-> to, job |-> j, fence |-> f], record', sms')
      BY <2>1, <2>2 DEF Passed, Final, Kinds
    <2> QED BY <2>1, <2>2, <2>3, <2>5, <2>6, StagesGrow
  <1>2. ASSUME NEW j \in Jobs, persistSmsEvidenceWithOutbox(j) PROVE StagesOnce'
    <2> DEFINE f == record[j].fence
    <2>1. j \notin sms /\ sms' = sms \cup {j} /\ enqueue("sms", j, f) /\ record' = record
      BY <1>2 DEF persistSmsEvidenceWithOutbox
    <2>2. f \in Fences
      BY <1>2 DEF persistSmsEvidenceWithOutbox, MayBeAnswered, Typed
    <2>3. \A i \in Ids : spool'[i] = spool[i]
      BY <2>1, <2>2, SpoolGrows DEF Kinds
    <2> HIDE DEF f
    <2>4. ASSUME NEW i \in Ids PROVE /\ Passed(spool'[i], record', sms')
                                     /\ spool[i].job = j => Stage(spool[i].kind) # Stage("sms")
      <3>1. spool[i].kind \in Kinds /\ spool'[i] = spool[i] /\ Passed(spool[i], record, sms)
        BY <2>3, Spooled DEF StagesOnce
      <3>2. spool[i].job = j => spool[i].kind # "sms"
        BY <2>1, <3>1 DEF Passed
      <3> QED BY <2>1, <3>1, <3>2 DEF Passed, Stage, Final, Kinds
    <2>5. Passed([kind |-> "sms", job |-> j, fence |-> f], record', sms')
      BY <2>1 DEF Passed, Final
    <2> QED BY <2>1, <2>2, <2>4, <2>5, StagesGrow DEF Kinds
  <1>3. CASE HandsetStep \/ BackendStep
    <2>1. /\ spool' = spool /\ Ids' = Ids /\ sms' = sms
          /\ \A j \in Jobs : \/ record'[j] = record[j]
                             \/ record[j].status = "none" /\ record'[j].status = "accepted"
      BY <1>3, JobsStay
    <2>2. ASSUME NEW i \in Ids PROVE Passed(spool'[i], record', sms')
      <3>1. spool[i].kind \in Kinds /\ spool[i].job \in Jobs /\ spool'[i] = spool[i] /\ Passed(spool[i], record, sms)
        BY <2>1, Spooled DEF StagesOnce
      <3> QED BY <2>1, <3>1 DEF Passed, Final
    <2>3. \A i \in Ids' : Passed(spool'[i], record', sms')
      BY <2>1, <2>2
    <2>4. \A i, k \in Ids' : spool'[i].job = spool'[k].job /\ Stage(spool'[i].kind) = Stage(spool'[k].kind) => i = k
      BY <2>1 DEF StagesOnce
    <2> QED BY <2>3, <2>4 DEF StagesOnce, Stage
  <1> QED BY <1>1, <1>2, <1>3, StepCases

\* The spool is no longer than five events for each job.
LEMMA StagesBound ==
  ASSUME Typed, StagesOnce
  PROVE  Len(spool) <= MaxSpool
  <1> DEFINE Stages == {"device_started", "committed", "provider_pending", "end", "sms"}
             at == [i \in Ids |-> <<spool[i].job, Stage(spool[i].kind)>>]
  <1>1. IsFiniteSet(Jobs) /\ Cardinality(Jobs) \in Nat
    BY DeviceLinkAssumption, FS_Union, FS_CardinalityType DEF Jobs
  <1>2. IsFiniteSet(Stages) /\ Cardinality(Stages) = 5
    <2>1. IsFiniteSet({}) /\ Cardinality({}) = 0
      BY FS_EmptySet
    <2>2. IsFiniteSet({"device_started"}) /\ Cardinality({"device_started"}) = 1
      BY FS_Singleton
    <2>3. IsFiniteSet({"device_started", "committed"}) /\ Cardinality({"device_started", "committed"}) = 2
      <3>1. {"device_started", "committed"} = {"device_started"} \cup {"committed"} /\ "committed" \notin {"device_started"}
        OBVIOUS
      <3> QED BY <2>2, <3>1, FS_AddElement
    <2>4. IsFiniteSet({"device_started", "committed", "provider_pending"}) /\ Cardinality({"device_started", "committed", "provider_pending"}) = 3
      <3>1. /\ {"device_started", "committed", "provider_pending"} = {"device_started", "committed"} \cup {"provider_pending"}
            /\ "provider_pending" \notin {"device_started", "committed"}
        OBVIOUS
      <3> QED BY <2>3, <3>1, FS_AddElement
    <2>5. IsFiniteSet({"device_started", "committed", "provider_pending", "end"}) /\ Cardinality({"device_started", "committed", "provider_pending", "end"}) = 4
      <3>1. /\ {"device_started", "committed", "provider_pending", "end"} = {"device_started", "committed", "provider_pending"} \cup {"end"}
            /\ "end" \notin {"device_started", "committed", "provider_pending"}
        OBVIOUS
      <3> QED BY <2>4, <3>1, FS_AddElement
    <2>6. /\ Stages = {"device_started", "committed", "provider_pending", "end"} \cup {"sms"}
          /\ "sms" \notin {"device_started", "committed", "provider_pending", "end"}
      OBVIOUS
    <2> QED BY <2>5, <2>6, FS_AddElement
  <1>3. at \in Injection(Ids, Jobs \X Stages)
    <2>1. \A i \in Ids : spool[i].job \in Jobs /\ Stage(spool[i].kind) \in Stages
      BY Spooled DEF Stage, Kinds, Final
    <2>2. at \in [Ids -> Jobs \X Stages]
      BY <2>1
    <2>3. \A i, k \in Ids : at[i] = at[k] => i = k
      BY DEF StagesOnce
    <2> QED BY <2>2, <2>3 DEF Injection, IsInjective
  <1> HIDE DEF at, Stages
  <1>4. IsFiniteSet(Jobs \X Stages) /\ Cardinality(Jobs \X Stages) = Cardinality(Jobs) * 5
    BY <1>1, <1>2, FS_Product
  <1>5. Cardinality(Ids) <= Cardinality(Jobs) * 5
    BY <1>3, <1>4, FS_Injection
  <1>6. Len(spool) \in Nat /\ Cardinality(Ids) = Len(spool)
    <2>1. Len(spool) \in Nat
      BY LenProperties DEF Typed
    <2>2. Cardinality(1..Len(spool)) = IF 1 > Len(spool) THEN 0 ELSE Len(spool) - 1 + 1
      BY <2>1, FS_Interval
    <2> QED BY <2>1, <2>2 DEF Ids
  <1> QED BY <1>1, <1>5, <1>6 DEF MaxSpool

LEMMA CommitsNext ==
  ASSUME Typed, CommitsFirst, Next
  PROVE  CommitsFirst'
  <1> DEFINE Paying == {"committed", "provider_pending", "succeeded", "unknown"}
  <1>0. Len(spool) \in Nat /\ Ids \subseteq Nat
    <2>1. Len(spool) \in Nat
      BY LenProperties DEF Typed
    <2> QED BY <2>1 DEF Ids
  <1>1. ASSUME NEW j \in Jobs, StatusStep(j) PROVE CommitsFirst'
    <2>1. PICK from, to : /\ Runs(j, from, to) /\ "none" \notin from /\ to \in Kinds \ {"sms"}
                          /\ j \in MoneyJobs /\ to \in {"provider_pending", "succeeded", "unknown"} =>
                               from \subseteq {"committed", "provider_pending"}
      BY <1>1, HandsetRuns DEF StatusStep
    <2> DEFINE f == record[j].fence
    <2>2. /\ record[j].status \in from /\ enqueue(to, j, f)
          /\ record'[j].status = to /\ \A k \in Jobs \ {j} : record'[k] = record[k]
      BY <2>1 DEF Runs, Typed
    <2>3. f \in Fences
      BY <2>1, <2>2 DEF Typed
    <2>4. /\ \A i \in Ids : spool'[i] = spool[i]
          /\ Len(spool') = Len(spool) + 1
          /\ spool'[Len(spool')] = [kind |-> to, job |-> j, fence |-> f]
          /\ Ids \subseteq Ids'
      BY <2>1, <2>2, <2>3, SpoolGrows
    <2> HIDE DEF f
    <2>5. Len(spool') \in Ids' /\ \A i \in Ids' : i \in Ids \/ i = Len(spool')
      BY <1>0, <2>4 DEF Ids
    <2>6. ASSUME NEW k \in MoneyJobs, record'[k].status \in Paying
          PROVE  \E i \in Ids' : spool'[i].kind = "committed" /\ spool'[i].job = k
      <3>1. CASE k # j
        <4>1. record[k].status \in Paying
          BY <2>2, <2>6, <3>1 DEF Jobs
        <4> QED BY <2>4, <4>1 DEF CommitsFirst
      <3>2. CASE k = j /\ to = "committed"
        <4>1. spool'[Len(spool')].kind = "committed" /\ spool'[Len(spool')].job = k
          BY <2>4, <3>2
        <4> QED BY <2>5, <4>1
      <3>3. CASE k = j /\ to # "committed"
        <4>1. record[k].status \in Paying
          BY <2>1, <2>2, <2>6, <3>3
        <4> QED BY <2>4, <4>1 DEF CommitsFirst
      <3> QED BY <3>1, <3>2, <3>3
    <2>7. ASSUME NEW i \in Ids', spool'[i].kind = "sms", spool'[i].job \in MoneyJobs
          PROVE  \E k \in Ids' : k < i /\ spool'[k].kind = "committed" /\ spool'[k].job = spool'[i].job
      <3>1. i \in Ids
        BY <2>1, <2>4, <2>5, <2>7
      <3> QED BY <2>4, <2>7, <3>1 DEF CommitsFirst
    <2> QED BY <2>6, <2>7 DEF CommitsFirst
  <1>2. ASSUME NEW j \in Jobs, persistSmsEvidenceWithOutbox(j) PROVE CommitsFirst'
    <2> DEFINE f == record[j].fence
    <2>1. MayBeAnswered(j) /\ enqueue("sms", j, f) /\ record' = record
      BY <1>2 DEF persistSmsEvidenceWithOutbox
    <2>2. f \in Fences
      BY <1>2 DEF persistSmsEvidenceWithOutbox, MayBeAnswered, Typed
    <2>3. /\ \A i \in Ids : spool'[i] = spool[i]
          /\ Len(spool') = Len(spool) + 1
          /\ spool'[Len(spool')] = [kind |-> "sms", job |-> j, fence |-> f]
          /\ Ids \subseteq Ids'
      BY <2>1, <2>2, SpoolGrows DEF Kinds
    <2> HIDE DEF f
    <2>4. \A i \in Ids' : i \in Ids \/ i = Len(spool')
      BY <1>0, <2>3 DEF Ids
    <2>5. \A i \in Ids : i < Len(spool')
      BY <1>0, <2>3 DEF Ids
    <2>6. ASSUME NEW k \in MoneyJobs, record'[k].status \in Paying
          PROVE  \E i \in Ids' : spool'[i].kind = "committed" /\ spool'[i].job = k
      BY <2>1, <2>3, <2>6 DEF CommitsFirst
    <2>7. ASSUME NEW i \in Ids', spool'[i].kind = "sms", spool'[i].job \in MoneyJobs
          PROVE  \E k \in Ids' : k < i /\ spool'[k].kind = "committed" /\ spool'[k].job = spool'[i].job
      <3>1. CASE i \in Ids
        BY <2>3, <2>7, <3>1 DEF CommitsFirst
      <3>2. CASE i = Len(spool')
        <4>1. j \in MoneyJobs /\ spool'[i].job = j
          BY <2>3, <2>7, <3>2
        <4>2. record[j].status \in Paying
          BY <2>1, <4>1 DEF MayBeAnswered
        <4>3. PICK k \in Ids : spool[k].kind = "committed" /\ spool[k].job = j
          BY <4>1, <4>2 DEF CommitsFirst
        <4> QED BY <2>3, <2>5, <3>2, <4>1, <4>3
      <3> QED BY <2>4, <3>1, <3>2
    <2> QED BY <2>6, <2>7 DEF CommitsFirst
  <1>3. CASE HandsetStep \/ BackendStep
    <2>1. /\ spool' = spool /\ Ids' = Ids
          /\ \A j \in Jobs : \/ record'[j] = record[j]
                             \/ record[j].status = "none" /\ record'[j].status = "accepted"
      BY <1>3, JobsStay
    <2> QED BY <2>1 DEF CommitsFirst, Jobs
  <1> QED BY <1>1, <1>2, <1>3, StepCases

-----------------------------------------------------------------------------
(* The order of effects *)

LEMMA WholeGrows ==
  ASSUME NEW b, NEW gone, NEW more, Whole(b, gone), gone \subseteq more
  PROVE  Whole(b, more)
  BY DEF Whole

\* While the effects stay as they are, only the batches and the answers have to be told.
LEMMA OrderKept ==
  ASSUME Typed, Ordered, UNCHANGED <<inbox, applied>>, corrupt \subseteq corrupt',
         \A c \in Connections : \A m \in 1..Len(up'[c]) : Whole(up'[c][m], corrupt \cup inbox),
         acked' \subseteq inbox,
         \A c \in Connections : Range(done'[c]) \subseteq inbox,
         \A m \in 1..Len(down') : down'[m].type = "spool_ack" => Range(down'[m].ids) \subseteq inbox
  PROVE  Ordered'
  <1>1. corrupt \cup inbox \subseteq corrupt' \cup inbox'
    OBVIOUS
  <1>2. BatchesWhole'
    BY <1>1, WholeGrows DEF BatchesWhole
  <1>3. AppliedWhole'
    BY <1>1 DEF Ordered, AppliedWhole
  <1>4. InboxExact' /\ InOrderOnce'
    BY DEF Ordered, InboxExact, InOrderOnce
  <1>5. AnswersTrue'
    BY DEF AnswersTrue
  <1> QED BY <1>2, <1>3, <1>4, <1>5 DEF Ordered

\* Answers that were true stay so when some are lost.
LEMMA FewerAnswers ==
  ASSUME Typed, Ordered, NEW n \in 0..Len(down), down' = SubSeq(down, 1, n)
  PROVE  \A m \in 1..Len(down') : down'[m].type = "spool_ack" => Range(down'[m].ids) \subseteq inbox
  <1>1. Len(down') = n /\ \A i \in 1..n : down'[i] = down[i]
    BY Prefix DEF Typed
  <1>2. 1..n \subseteq 1..Len(down)
    BY LenProperties DEF Typed
  <1> QED BY <1>1, <1>2 DEF Ordered, AnswersTrue

\* A lost connection changes no batch that is left.
LEMMA OrderDrop ==
  ASSUME Typed, Ordered, connected, Drop
  PROVE  /\ \A c \in Connections : \A m \in 1..Len(up'[c]) : Whole(up'[c][m], corrupt \cup inbox)
         /\ \A m \in 1..Len(down') : down'[m].type = "spool_ack" => Range(down'[m].ids) \subseteq inbox
  <1>1. PICK n \in 0..Len(down) : down' = SubSeq(down, 1, n)
    BY Dropped
  <1>2. connection \in Connections /\ up[connection] \in Seq(Seq(Ids))
    BY Dropped DEF Typed
  <1>3. PICK k \in 0..Len(up[connection]) : up' = [up EXCEPT ![connection] = SubSeq(@, 1, k)]
    BY Dropped
  <1>4. /\ Len(SubSeq(up[connection], 1, k)) = k
        /\ \A i \in 1..k : SubSeq(up[connection], 1, k)[i] = up[connection][i]
        /\ 1..k \subseteq 1..Len(up[connection])
    BY <1>2, Prefix, LenProperties
  <1>5. up'[connection] = SubSeq(up[connection], 1, k) /\ \A c \in Connections \ {connection} : up'[c] = up[c]
    BY <1>2, <1>3 DEF Typed
  <1>6. \A c \in Connections : \A m \in 1..Len(up'[c]) : Whole(up'[c][m], corrupt \cup inbox)
    BY <1>2, <1>4, <1>5 DEF Ordered, BatchesWhole
  <1> QED BY <1>1, <1>6, FewerAnswers

LEMMA OrderUntouched ==
  ASSUME Typed, Ordered, UNCHANGED <<link, backend>>, corrupt \subseteq corrupt', acked' = acked
  PROVE  Ordered'
  <1> USE DEF link, backend
  <1>1. \A c \in Connections : \A m \in 1..Len(up'[c]) : Whole(up'[c][m], corrupt \cup inbox)
    BY DEF Ordered, BatchesWhole
  <1>2. /\ acked' \subseteq inbox /\ \A c \in Connections : Range(done'[c]) \subseteq inbox
        /\ \A m \in 1..Len(down') : down'[m].type = "spool_ack" => Range(down'[m].ids) \subseteq inbox
    BY DEF Ordered, AnswersTrue
  <1> QED BY <1>1, <1>2, OrderKept

\* A batch that is sent leaves out nothing before its last event that is not applied.
LEMMA BatchIsWhole ==
  ASSUME Typed, Ordered, NEW b \in Batches
  PROVE  Whole(b, corrupt \cup inbox)
  <1>1. /\ Len(b) \in Nat
        /\ \A p \in 1..Len(b) : b[p] \in pendingSpool
        /\ \A p \in 1..Len(b), i \in pendingSpool : i < b[p] => \E q \in 1..(p - 1) : b[q] = i
    BY BatchIsAPrefix
  <1>2. Len(spool) \in Nat
    BY LenProperties DEF Typed
  <1>3. ASSUME NEW p \in 1..Len(b), NEW k \in 1..(b[p] - 1), k \notin corrupt \cup inbox
        PROVE  \E q \in 1..(p - 1) : b[q] = k
    <2>1. b[p] \in pendingSpool /\ b[p] \in Ids /\ b[p] \in Nat
      BY <1>1, <1>2 DEF pendingSpool, Ids
    <2>2. k \in Ids /\ k < b[p] /\ k \in Nat
      BY <1>2, <2>1 DEF Ids
    <2>3. Unsettled(k)
      BY <1>3 DEF Unsettled, Ordered, AnswersTrue
    <2>4. ~\E h \in deferred : h <= k /\ Unsettled(h)
      <3>1. \A h \in deferred : h \in Nat /\ (h <= k => h <= b[p])
        BY <1>2, <2>1, <2>2 DEF Typed, Ids
      <3> QED BY <2>1, <3>1 DEF pendingSpool
    <2>5. k \in pendingSpool
      BY <2>2, <2>3, <2>4 DEF pendingSpool
    <2> QED BY <1>1, <2>2, <2>5
  <1> QED BY <1>3 DEF Whole

LEMMA OrderHandset ==
  ASSUME Typed, Ordered, HandsetStep
  PROVE  Ordered'
  <1> USE DEF handset, link, backend
  <1>0. /\ \A c \in Connections : \A m \in 1..Len(up[c]) : Whole(up[c][m], corrupt \cup inbox)
        /\ acked \subseteq inbox /\ \A c \in Connections : Range(done[c]) \subseteq inbox
        /\ \A m \in 1..Len(down) : down[m].type = "spool_ack" => Range(down[m].ids) \subseteq inbox
    BY DEF Ordered, BatchesWhole, AnswersTrue
  <1>1. CASE connect
    <2>1. UNCHANGED <<up, done, down, inbox, applied, corrupt, acked>>
      BY <1>1 DEF connect
    <2> QED BY <1>0, <2>1, OrderKept
  <1>2. CASE onFailure \/ defer
    <2>1. connected /\ Drop /\ UNCHANGED <<done, inbox, applied, corrupt, acked>>
      BY <1>2 DEF onFailure, defer
    <2> QED BY <1>0, <2>1, OrderDrop, OrderKept
  <1>3. CASE flushSpool
    <2>1. /\ connection \in Connections
          /\ UNCHANGED <<done, down, inbox, applied, corrupt, acked>>
      BY <1>3 DEF flushSpool, Typed
    <2>2. PICK b \in Batches : up' = [up EXCEPT ![connection] = Append(@, b)]
      BY <1>3 DEF flushSpool
    <2>3. b \in Seq(Ids) /\ up[connection] \in Seq(Seq(Ids)) /\ Len(up[connection]) \in Nat
      BY <2>1, BatchIsAPrefix, LenProperties DEF Typed
    <2>4. /\ Len(Append(up[connection], b)) = Len(up[connection]) + 1
          /\ \A m \in 1..Len(up[connection]) : Append(up[connection], b)[m] = up[connection][m]
          /\ Append(up[connection], b)[Len(up[connection]) + 1] = b
      BY <2>3, AppendProperties
    <2>5. up'[connection] = Append(up[connection], b) /\ \A c \in Connections \ {connection} : up'[c] = up[c]
      BY <2>1, <2>2 DEF Typed
    <2>6. Whole(b, corrupt \cup inbox)
      BY BatchIsWhole
    <2>7. ASSUME NEW m \in 1..(Len(up[connection]) + 1)
          PROVE  Whole(Append(up[connection], b)[m], corrupt \cup inbox)
      <3>1. m \in 1..Len(up[connection]) \/ m = Len(up[connection]) + 1
        BY <2>3, LastOrBefore
      <3> QED BY <1>0, <2>1, <2>4, <2>6, <3>1
    <2>8. \A c \in Connections : \A m \in 1..Len(up'[c]) : Whole(up'[c][m], corrupt \cup inbox)
      BY <1>0, <2>4, <2>5, <2>7
    <2> QED BY <1>0, <2>1, <2>8, OrderKept
  <1>4. CASE Due
    BY <1>4, OrderUntouched DEF Due
  <1>5. CASE handleMessage
    <2> DEFINE h == Head(down)
    <2>1. /\ down # <<>> /\ down' = Tail(down)
          /\ UNCHANGED <<up, done, inbox, applied, corrupt>>
      BY <1>5 DEF handleMessage
    <2>2. /\ Len(down) \in Nat \ {0} /\ Len(down') = Len(down) - 1
          /\ \A m \in 1..Len(down') : down'[m] = down[m + 1]
          /\ h = down[1] /\ h \in Messages
      BY <2>1, HeadTailProperties, EmptySeq DEF Typed
    <2>3. \A m \in 1..Len(down') : down'[m].type = "spool_ack" => Range(down'[m].ids) \subseteq inbox
      <3>1. \A m \in 1..Len(down') : m + 1 \in 1..Len(down)
        BY <2>2
      <3> QED BY <1>0, <2>2, <3>1
    <2>4. acked' \subseteq inbox
      <3>1. CASE h.type = "job"
        <4>1. acked' = acked
          BY <1>5, <3>1 DEF handleMessage, accept
        <4> QED BY <1>0, <4>1
      <3>2. CASE h.type # "job"
        <4>1. h.type = "spool_ack" /\ acked' = acked \cup Range(h.ids)
          BY <1>5, <2>2, <3>2 DEF handleMessage, Messages
        <4>2. 1 \in 1..Len(down)
          BY <2>2
        <4>3. down[1].type = "spool_ack" /\ acked' = acked \cup Range(down[1].ids)
          BY <2>2, <4>1
        <4>4. Range(down[1].ids) \subseteq inbox
          BY <1>0, <4>2, <4>3
        <4> QED BY <1>0, <4>3, <4>4
      <3> QED BY <3>1, <3>2
    <2> QED BY <1>0, <2>1, <2>3, <2>4, OrderKept
  <1>6. CASE \E i \in Ids : isolate(i)
    BY <1>6, OrderUntouched DEF isolate
  <1> QED BY <1>1, <1>2, <1>3, <1>4, <1>5, <1>6 DEF HandsetStep

\* When the first event of a whole batch is done, the rest is whole.
LEMMA RestIsWhole ==
  ASSUME NEW gone, NEW b \in Seq(Ids), b # <<>>, Whole(b, gone)
  PROVE  Whole(Tail(b), gone \cup {Head(b)}) /\ 1..(Head(b) - 1) \subseteq gone
  <1>1. /\ Head(b) = b[1] /\ Len(b) \in Nat \ {0}
        /\ Len(Tail(b)) = Len(b) - 1 /\ \A p \in 1..(Len(b) - 1) : Tail(b)[p] = b[p + 1]
    BY FirstEvent
  <1>2. ASSUME NEW p \in 1..Len(Tail(b)), NEW k \in 1..(Tail(b)[p] - 1), k \notin gone \cup {Head(b)}
        PROVE  \E q \in 1..(p - 1) : Tail(b)[q] = k
    <2>1. p + 1 \in 1..Len(b) /\ p \in Nat /\ Tail(b)[p] = b[p + 1]
      BY <1>1
    <2>2. PICK q \in 1..((p + 1) - 1) : b[q] = k
      BY <1>2, <2>1 DEF Whole
    <2>3. q # 1
      BY <1>1, <1>2, <2>2
    <2>4. q - 1 \in 1..(p - 1) /\ q - 1 \in 1..(Len(b) - 1) /\ (q - 1) + 1 = q
      BY <1>1, <2>1, <2>2, <2>3
    <2> QED BY <1>1, <2>2, <2>4
  <1>3. 1..(Head(b) - 1) \subseteq gone
    <2>1. 1 \in 1..Len(b) /\ 1..(1 - 1) = {}
      BY <1>1
    <2> QED BY <1>1, <2>1 DEF Whole
  <1> QED BY <1>2, <1>3 DEF Whole

LEMMA OrderProcessed ==
  ASSUME Typed, Ordered, NEW c \in Connections, spoolEventProcessed(c)
  PROVE  Ordered'
  <1> DEFINE b == Head(up[c])
             i == Head(b)
  <1>1. /\ up[c] # <<>> /\ b # <<>> /\ b \in Seq(Ids) /\ i \in Ids /\ Tail(b) \in Seq(Ids)
        /\ up' = [up EXCEPT ![c] = <<Tail(b)>> \o Tail(@)]
        /\ done' = [done EXCEPT ![c] = Append(@, i)]
        /\ Range(Append(done[c], i)) = Range(done[c]) \cup {i}
    BY ProcessedStep
  <1>2. Processable(i) /\ processSpoolEvent(i) /\ UNCHANGED <<acked, corrupt, down>>
    BY DEF spoolEventProcessed, handset
  <1>3. inbox' = inbox \cup {i} /\ applied' = (IF i \in inbox THEN applied ELSE Append(applied, i))
    BY <1>1, <1>2, EventTyped
  <1>4. /\ Len(up[c]) \in Nat \ {0} /\ b = up[c][1]
        /\ Len(<<Tail(b)>> \o Tail(up[c])) = Len(up[c])
        /\ \A m \in 1..Len(up[c]) : (<<Tail(b)>> \o Tail(up[c]))[m] = IF m = 1 THEN Tail(b) ELSE up[c][m]
    BY <1>1, FirstBatch
  <1>5. up'[c] = <<Tail(b)>> \o Tail(up[c]) /\ \A d \in Connections \ {c} : up'[d] = up[d]
    BY <1>1 DEF Typed
  <1>6. done'[c] = Append(done[c], i) /\ \A d \in Connections \ {c} : done'[d] = done[d]
    BY <1>1 DEF Typed
  <1> HIDE DEF b, i
  <1>7. Whole(b, corrupt \cup inbox)
    <2>1. 1 \in 1..Len(up[c])
      BY <1>4
    <2> QED BY <1>4, <2>1 DEF Ordered, BatchesWhole
  <1>8. Whole(Tail(b), (corrupt \cup inbox) \cup {i}) /\ 1..(i - 1) \subseteq corrupt \cup inbox
    BY <1>1, <1>7, RestIsWhole DEF i
  <1>9. (corrupt \cup inbox) \cup {i} = corrupt' \cup inbox' /\ corrupt \cup inbox \subseteq corrupt' \cup inbox'
    BY <1>2, <1>3
  <1>10. BatchesWhole'
    <2>1. \A m \in 1..Len(up[c]) : Whole(up'[c][m], corrupt' \cup inbox')
      <3>1. \A m \in 1..Len(up[c]) : Whole(up[c][m], corrupt' \cup inbox')
        BY <1>9, WholeGrows DEF Ordered, BatchesWhole
      <3>2. Whole(Tail(b), corrupt' \cup inbox')
        BY <1>8, <1>9
      <3> QED BY <1>4, <1>5, <3>1, <3>2
    <2>2. \A d \in Connections \ {c} : \A m \in 1..Len(up'[d]) : Whole(up'[d][m], corrupt' \cup inbox')
      BY <1>5, <1>9, WholeGrows DEF Ordered, BatchesWhole
    <2> QED BY <1>4, <1>5, <2>1, <2>2 DEF BatchesWhole
  <1>11. AppliedWhole'
    BY <1>3, <1>8, <1>9 DEF Ordered, AppliedWhole
  <1>12. AnswersTrue'
    BY <1>1, <1>2, <1>3, <1>6 DEF Ordered, AnswersTrue
  <1>13. InboxExact' /\ InOrderOnce'
    <2>1. CASE i \in inbox
      BY <1>2, <1>3, <2>1 DEF Ordered, InboxExact, InOrderOnce
    <2>2. CASE i \notin inbox
      <3>1. /\ applied' = Append(applied, i) /\ Len(applied) \in Nat /\ Len(applied') = Len(applied) + 1
            /\ \A k \in 1..Len(applied) : applied'[k] = applied[k]
            /\ applied'[Len(applied) + 1] = i
            /\ DOMAIN applied = 1..Len(applied) /\ DOMAIN applied' = 1..(Len(applied) + 1)
        <4>1. applied \in Seq(Ids) /\ applied' = Append(applied, i)
          BY <1>3, <2>2 DEF Typed
        <4> QED BY <1>1, <4>1, AppendProperties, LenProperties
      <3>2. \A k \in 1..(Len(applied) + 1) : k \in 1..Len(applied) \/ k = Len(applied) + 1
        BY <3>1, LastOrBefore
      <3>3. \A k \in 1..Len(applied) : applied[k] \in inbox /\ applied[k] \in Ids
        BY <3>1 DEF Ordered, InboxExact, Range, Typed
      <3>4. InboxExact'
        <4>1. Range(applied') = Range(applied) \cup {i}
          <5>1. \A x \in Range(applied') : x \in Range(applied) \cup {i}
            BY <3>1, <3>2 DEF Range
          <5>2. \A x \in Range(applied) : x \in Range(applied')
            BY <3>1 DEF Range
          <5>3. i \in Range(applied')
            BY <3>1 DEF Range
          <5> QED BY <5>1, <5>2, <5>3
        <4> QED BY <1>3, <4>1 DEF Ordered, InboxExact
      <3>5. ASSUME NEW k \in 1..Len(applied) PROVE applied[k] # i /\ (applied[k] < i \/ i \in corrupt)
        <4>1. Len(spool) \in Nat
          BY LenProperties DEF Typed
        <4>2. applied[k] \in inbox /\ applied[k] \in Nat /\ i \in Nat /\ 1 <= i
          BY <1>1, <3>3, <4>1 DEF Ids
        <4>3. applied[k] # i
          BY <2>2, <4>2
        <4>4. ASSUME ~(applied[k] < i) PROVE i \in corrupt
          <5>1. i \in 1..(applied[k] - 1)
            BY <4>2, <4>3, <4>4
          <5> QED BY <2>2, <4>2, <5>1 DEF Ordered, AppliedWhole
        <4> QED BY <4>3, <4>4
      <3>6. InOrderOnce'
        <4> SUFFICES ASSUME NEW k \in 1..(Len(applied) + 1), NEW l \in 1..(Len(applied) + 1), k < l
                     PROVE  applied'[k] # applied'[l] /\ (applied'[k] < applied'[l] \/ applied'[l] \in corrupt)
          BY <1>2, <3>1 DEF InOrderOnce
        <4>1. k \in 1..Len(applied)
          BY <3>1
        <4>2. CASE l \in 1..Len(applied)
          BY <3>1, <4>1, <4>2 DEF Ordered, InOrderOnce
        <4>3. CASE l = Len(applied) + 1
          BY <3>1, <3>5, <4>1, <4>3
        <4> QED BY <3>2, <4>2, <4>3
      <3> QED BY <3>4, <3>6
    <2> QED BY <2>1, <2>2
  <1> QED BY <1>10, <1>11, <1>12, <1>13 DEF Ordered

\* Every acknowledgement in d is of applied events.
AllApplied(d) == \A m \in 1..Len(d) : d[m].type = "spool_ack" => Range(d[m].ids) \subseteq inbox

LEMMA OneMoreTrue ==
  ASSUME NEW d \in Seq(Messages), NEW e \in Messages, AllApplied(d), e.type = "spool_ack" => Range(e.ids) \subseteq inbox
  PROVE  AllApplied(Append(d, e))
  <1>1. /\ Len(d) \in Nat /\ Len(Append(d, e)) = Len(d) + 1
        /\ \A m \in 1..Len(d) : Append(d, e)[m] = d[m]
        /\ Append(d, e)[Len(d) + 1] = e
    BY AppendProperties, LenProperties
  <1>2. \A m \in 1..(Len(d) + 1) : m \in 1..Len(d) \/ m = Len(d) + 1
    BY <1>1, LastOrBefore
  <1> QED BY <1>1, <1>2 DEF AllApplied

\* Work that is offered is no acknowledgement.
LEMMA OfferIsTrue ==
  ASSUME Typed, NEW c \in Connections, NEW messages \in Seq(Messages), AllApplied(messages), sendLeaseOrJob(c, messages)
  PROVE  AllApplied(down')
  <1>1. CASE down' = messages
    BY <1>1
  <1>2. ASSUME NEW j \in Jobs, down' = Append(messages, [type |-> "job", job |-> j, fence |-> job[j].fence])
        PROVE  AllApplied(down')
    <2> DEFINE e == [type |-> "job", job |-> j, fence |-> job[j].fence]
    <2>1. e \in Messages /\ e.type # "spool_ack"
      BY DEF Messages, Typed
    <2> HIDE DEF e
    <2>2. AllApplied(Append(messages, e))
      BY <2>1, OneMoreTrue
    <2> QED BY <1>2, <2>2 DEF e
  <1> QED BY <1>1, <1>2, Leased

LEMMA OrderBackend ==
  ASSUME Typed, Ordered, BackendStep
  PROVE  Ordered'
  <1> USE DEF handset, link, backend
  <1>0. /\ \A c \in Connections : \A m \in 1..Len(up[c]) : Whole(up[c][m], corrupt \cup inbox)
        /\ acked \subseteq inbox /\ \A c \in Connections : Range(done[c]) \subseteq inbox
        /\ AllApplied(down) /\ down \in Seq(Messages)
    BY DEF Ordered, BatchesWhole, AnswersTrue, AllApplied, Typed
  <1>1. UNCHANGED <<acked, corrupt>>
    BY TypedBackend DEF BackendStep
  <1>2. CASE Heartbeat
    <2>1. connection \in Connections /\ sendLeaseOrJob(connection, down) /\ UNCHANGED <<up, done, inbox, applied>>
      BY <1>2 DEF Heartbeat, Typed
    <2>2. AllApplied(down')
      BY <1>0, <2>1, OfferIsTrue
    <2> QED BY <1>0, <1>1, <2>1, <2>2, OrderKept DEF AllApplied
  <1>3. ASSUME NEW c \in Connections, spoolEventProcessed(c) PROVE Ordered'
    BY <1>3, OrderProcessed
  <1>4. ASSUME NEW c \in Connections, spoolEventDeferred(c) PROVE Ordered'
    <2>1. up[c] # <<>> /\ <<>> \in Seq(Ids) /\ up' = [up EXCEPT ![c] = <<(<<>>)>> \o Tail(@)]
          /\ UNCHANGED <<done, down, inbox, applied>>
      BY <1>4, EmptySeq DEF spoolEventDeferred
    <2>2. /\ Len(<<(<<>>)>> \o Tail(up[c])) = Len(up[c])
          /\ \A m \in 1..Len(up[c]) : (<<(<<>>)>> \o Tail(up[c]))[m] = IF m = 1 THEN <<>> ELSE up[c][m]
      BY <2>1, FirstBatch
    <2>3. Whole(<<>>, corrupt \cup inbox)
      BY DEF Whole
    <2>4. up'[c] = <<(<<>>)>> \o Tail(up[c]) /\ \A d \in Connections \ {c} : up'[d] = up[d]
      BY <2>1 DEF Typed
    <2>5. \A m \in 1..Len(up'[c]) : Whole(up'[c][m], corrupt \cup inbox)
      BY <1>0, <2>2, <2>3, <2>4
    <2>6. \A d \in Connections : \A m \in 1..Len(up'[d]) : Whole(up'[d][m], corrupt \cup inbox)
      BY <1>0, <2>4, <2>5
    <2> QED BY <1>0, <1>1, <2>1, <2>6, OrderKept DEF AllApplied
  <1>5. ASSUME NEW c \in Connections, spoolBatchAnswered(c) PROVE Ordered'
    <2> DEFINE ack == [type |-> "spool_ack", ids |-> done[c]]
    <2>1. /\ up[c] # <<>> /\ up' = [up EXCEPT ![c] = Tail(@)] /\ done' = [done EXCEPT ![c] = <<>>]
          /\ UNCHANGED <<inbox, applied>>
      BY <1>5, AnsweredStep DEF spoolBatchAnswered
    <2>2. PICK messages \in Seq(Messages) : (messages = down \/ messages = Append(down, ack)) /\ sendLeaseOrJob(c, messages)
      BY <1>5, AnsweredStep
    <2>3. ack \in Messages /\ Range(ack.ids) \subseteq inbox
      BY <1>0 DEF Messages, Typed
    <2> HIDE DEF ack
    <2>4. AllApplied(messages)
      BY <1>0, <2>2, <2>3, OneMoreTrue
    <2>5. AllApplied(down')
      BY <2>2, <2>4, OfferIsTrue
    <2>6. /\ Len(up[c]) \in Nat \ {0} /\ Len(Tail(up[c])) = Len(up[c]) - 1
          /\ \A m \in 1..(Len(up[c]) - 1) : Tail(up[c])[m] = up[c][m + 1]
      BY <2>1, FirstBatch
    <2>7. up'[c] = Tail(up[c]) /\ \A d \in Connections \ {c} : up'[d] = up[d]
      BY <2>1 DEF Typed
    <2>8. \A m \in 1..(Len(up[c]) - 1) : m + 1 \in 1..Len(up[c])
      BY <2>6
    <2>9. \A d \in Connections : \A m \in 1..Len(up'[d]) : Whole(up'[d][m], corrupt \cup inbox)
      <3>1. \A m \in 1..(Len(up[c]) - 1) : Whole(Tail(up[c])[m], corrupt \cup inbox)
        BY <1>0, <2>6, <2>8
      <3>2. \A m \in 1..Len(up'[c]) : Whole(up'[c][m], corrupt \cup inbox)
        BY <2>6, <2>7, <3>1
      <3> QED BY <1>0, <2>7, <3>2
    <2>10. \A d \in Connections : Range(done'[d]) \subseteq inbox
      <3>1. Range(<<>>) = {}
        BY DEF Range
      <3> QED BY <1>0, <2>1, <3>1 DEF Typed
    <2> QED BY <1>0, <1>1, <2>1, <2>5, <2>9, <2>10, OrderKept DEF AllApplied
  <1>6. ASSUME NEW j \in Jobs, expireFinancialJobs(j) \/ retryDeviceJob(j) PROVE Ordered'
    <2>1. UNCHANGED <<up, done, down, inbox, applied>>
      BY <1>6 DEF expireFinancialJobs, retryDeviceJob
    <2> QED BY <1>0, <1>1, <2>1, OrderKept DEF AllApplied
  <1> QED BY <1>2, <1>3, <1>4, <1>5, <1>6 DEF BackendStep

LEMMA OrderNext ==
  ASSUME Typed, Ordered, Next
  PROVE  Ordered'
  <1>1. ASSUME NEW j \in Jobs, StatusStep(j) PROVE Ordered'
    <2>1. PICK from, to : Runs(j, from, to)
      BY <1>1, HandsetRuns DEF StatusStep
    <2>2. UNCHANGED <<acked, corrupt, link, backend>>
      BY <2>1 DEF Runs
    <2> QED BY <2>2, OrderUntouched
  <1>2. ASSUME NEW j \in Jobs, persistSmsEvidenceWithOutbox(j) PROVE Ordered'
    <2>1. UNCHANGED <<acked, corrupt, link, backend>>
      BY <1>2 DEF persistSmsEvidenceWithOutbox
    <2> QED BY <2>1, OrderUntouched
  <1> QED BY <1>1, <1>2, StepCases, OrderHandset, OrderBackend

-----------------------------------------------------------------------------
(* The marker of the commit *)

LEMMA MarkedNext ==
  ASSUME Typed, Marked, Next
  PROVE  Marked'
  <1> USE DEF handset, link, backend
  <1>0. \A i \in inbox : i \in Ids /\ spool[i].job \in Jobs
    BY Spooled DEF Typed
  <1>1. ASSUME NEW j \in Jobs, StatusStep(j) \/ persistSmsEvidenceWithOutbox(j) PROVE Marked'
    <2>1. \E k \in Kinds, f \in Fences : enqueue(k, j, f)
      <3>1. CASE StatusStep(j)
        <4>1. PICK from, to : Runs(j, from, to) /\ "none" \notin from /\ to \in Kinds \ {"sms"}
          BY <3>1, HandsetRuns DEF StatusStep
        <4>2. enqueue(to, j, record[j].fence) /\ record[j].fence \in Fences
          BY <4>1 DEF Runs, Typed
        <4> QED BY <4>1, <4>2
      <3>2. CASE persistSmsEvidenceWithOutbox(j)
        <4>1. enqueue("sms", j, record[j].fence) /\ record[j].fence \in Fences
          BY <3>2 DEF persistSmsEvidenceWithOutbox, MayBeAnswered, Typed
        <4> QED BY <4>1 DEF Kinds
      <3> QED BY <1>1, <3>1, <3>2
    <2>2. \A i \in Ids : spool'[i] = spool[i]
      BY <2>1, SpoolGrows
    <2>3. UNCHANGED <<job, inbox>>
      <3>1. CASE StatusStep(j)
        <4>1. PICK from, to : Runs(j, from, to)
          BY <3>1, HandsetRuns DEF StatusStep
        <4> QED BY <4>1 DEF Runs
      <3>2. CASE persistSmsEvidenceWithOutbox(j)
        BY <3>2 DEF persistSmsEvidenceWithOutbox
      <3> QED BY <1>1, <3>1, <3>2
    <2> QED BY <1>0, <2>2, <2>3 DEF Marked
  <1>2. CASE HandsetStep
    <2>1. spool' = spool
      BY <1>2, JobsStay
    <2>2. UNCHANGED <<job, inbox>>
      BY <1>2 DEF HandsetStep, connect, onFailure, flushSpool, defer, Due, handleMessage, isolate
    <2> QED BY <2>1, <2>2 DEF Marked
  <1>3. CASE BackendStep
    <2>1. spool' = spool
      BY <1>3, JobsStay
    <2>2. ASSUME inbox' = inbox,
                 \A k \in Jobs : /\ job[k].committed => job'[k].committed
                                 /\ job'[k].state = "committed" => job[k].state = "committed"
          PROVE  Marked'
      BY <1>0, <2>1, <2>2 DEF Marked
    <2>3. ASSUME NEW c \in Connections, NEW messages \in Seq(Messages), sendLeaseOrJob(c, messages), inbox' = inbox
          PROVE  Marked'
      <3>1. \A k \in Jobs : /\ job'[k].committed = job[k].committed
                            /\ job'[k].state = job[k].state \/ job'[k].state = "leased"
        BY <2>3, Leased
      <3> QED BY <2>2, <2>3, <3>1
    <2>4. CASE Heartbeat
      <3>1. connection \in Connections /\ down \in Seq(Messages) /\ sendLeaseOrJob(connection, down) /\ inbox' = inbox
        BY <2>4 DEF Heartbeat, Typed
      <3> QED BY <2>3, <3>1
    <2>5. ASSUME NEW c \in Connections, spoolEventProcessed(c) PROVE Marked'
      <3> DEFINE i == Head(Head(up[c]))
      <3>1. i \in Ids /\ Processable(i) /\ processSpoolEvent(i)
        BY <2>5, ProcessedStep DEF spoolEventProcessed
      <3>2. /\ inbox' = inbox \cup {i}
            /\ \A j \in Jobs : /\ job[j].committed => job'[j].committed
                               /\ job'[j].state = "committed" => job'[j].committed \/ job[j].state = "committed"
            /\ spool[i].kind = "committed" /\ i \notin inbox =>
                 job'[spool[i].job].committed \/ job[spool[i].job].state = "committed"
        BY <3>1, EventTyped
      <3>3. spool[i].job \in Jobs
        BY <3>1, Spooled
      <3> HIDE DEF i
      <3> QED BY <1>0, <2>1, <3>2, <3>3 DEF Marked
    <2>6. ASSUME NEW c \in Connections, spoolEventDeferred(c) PROVE Marked'
      BY <2>1, <2>6 DEF spoolEventDeferred, Marked
    <2>7. ASSUME NEW c \in Connections, spoolBatchAnswered(c) PROVE Marked'
      <3>1. PICK messages \in Seq(Messages) : sendLeaseOrJob(c, messages)
        BY <2>7, AnsweredStep
      <3>2. inbox' = inbox
        BY <2>7 DEF spoolBatchAnswered
      <3> QED BY <2>3, <3>1, <3>2
    <2>8. ASSUME NEW j \in Jobs, expireFinancialJobs(j) PROVE Marked'
      <3>1. inbox' = inbox /\ \A k \in Jobs : /\ job[k].committed => job'[k].committed
                                              /\ job'[k].state = "committed" => job[k].state = "committed"
        BY <2>8 DEF expireFinancialJobs, Typed
      <3> QED BY <2>2, <3>1
    <2>9. ASSUME NEW j \in Jobs, retryDeviceJob(j) PROVE Marked'
      <3>1. inbox' = inbox /\ \A k \in Jobs : /\ job[k].committed => job'[k].committed
                                              /\ job'[k].state = "committed" => job[k].state = "committed"
        BY <2>9 DEF retryDeviceJob, Typed
      <3> QED BY <2>2, <3>1
    <2> QED BY <1>3, <2>4, <2>5, <2>6, <2>7, <2>8, <2>9 DEF BackendStep
  <1> QED BY <1>1, <1>2, <1>3, StepCases

-----------------------------------------------------------------------------
(* The theorems *)

LEMMA LinkInitially == Init => LinkInv
  <1> SUFFICES ASSUME Init PROVE LinkInv
    OBVIOUS
  <1>1. Typed
    BY TypedInit
  <1>2. /\ Ids = {} /\ inbox = {} /\ Range(applied) = {} /\ DOMAIN applied = {} /\ acked = {}
        /\ \A j \in Jobs : record[j].status = "none" /\ job[j].state = "queued"
        /\ 1..Len(down) = {} /\ \A c \in Connections : 1..Len(up[c]) = {} /\ Range(done[c]) = {}
    BY DEF Init, Ids, Range, Jobs
  <1>3. StagesOnce /\ CommitsFirst
    BY <1>2 DEF StagesOnce, CommitsFirst, Jobs
  <1>4. Ordered
    BY <1>2 DEF Ordered, BatchesWhole, AppliedWhole, InboxExact, InOrderOnce, AnswersTrue
  <1>5. Marked
    BY <1>2 DEF Marked
  <1> QED BY <1>1, <1>3, <1>4, <1>5 DEF LinkInv

LEMMA LinkNext == LinkInv /\ [Next]_vars => LinkInv'
  <1> SUFFICES ASSUME LinkInv, [Next]_vars PROVE LinkInv'
    OBVIOUS
  <1> USE DEF LinkInv
  <1>1. CASE Next
    BY <1>1, TypedNext, StagesNext, CommitsNext, OrderNext, MarkedNext
  <1>2. CASE UNCHANGED vars
    <2>1. UNCHANGED <<spool, acked, corrupt, deferred, record, sms, refused, connection, connected, up, done, down, job, active, inbox, applied>>
      BY <1>2 DEF vars, handset, link, backend
    <2>2. Typed'
      BY <2>1, SpoolStays DEF Typed, Connections, Statuses, Fences, JobStates, Jobs
    <2>3. StagesOnce' /\ CommitsFirst'
      BY <2>1, SpoolStays DEF StagesOnce, CommitsFirst, Stage
    <2>4. Ordered'
      BY <2>1, OrderUntouched DEF link, backend
    <2>5. Marked'
      BY <2>1 DEF Marked
    <2> QED BY <2>2, <2>3, <2>4, <2>5
  <1> QED BY <1>1, <1>2

LEMMA LinkSound == LinkInv => AppliedOnceInOrder /\ SmsFindsCommit
  <1> SUFFICES ASSUME LinkInv PROVE AppliedOnceInOrder /\ SmsFindsCommit
    OBVIOUS
  <1> USE DEF LinkInv
  <1>1. TypeOK
    <2>1. Len(spool) <= MaxSpool
      BY StagesBound
    <2> QED BY <2>1 DEF TypeOK, Typed, Messages, Fences, Statuses
  <1>2. InOrderOnce /\ AckedIsApplied
    BY DEF Ordered, AnswersTrue, InboxExact, AckedIsApplied
  <1>3. ASSUME NEW i \in Range(applied), spool[i].kind = "sms", spool[i].job \in MoneyJobs
        PROVE  \/ job[spool[i].job].committed
               \/ \E k \in corrupt : k < i /\ spool[k].job = spool[i].job
    <2>1. i \in inbox /\ i \in Ids
      BY DEF Ordered, InboxExact, Typed
    <2>2. PICK k \in Ids : k < i /\ spool[k].kind = "committed" /\ spool[k].job = spool[i].job
      BY <1>3, <2>1 DEF CommitsFirst
    <2>3. k \in 1..(i - 1)
      <3>1. Len(spool) \in Nat
        BY LenProperties DEF Typed
      <3> QED BY <2>1, <2>2, <3>1 DEF Ids
    <2>4. k \in corrupt \/ k \in inbox
      BY <2>1, <2>3 DEF Ordered, AppliedWhole
    <2> QED BY <2>2, <2>4 DEF Marked
  <1> QED BY <1>1, <1>2, <1>3 DEF AppliedOnceInOrder, SmsFindsCommit

\* Delivery at least once becomes an effect exactly once and in order: whatever is
\* resent over however many connections, whatever is deferred, acknowledged in part or
\* lost, no spooled event has a second effect or one before an older readable event's,
\* and the handset forgets only what the backend has applied (SpoolBatchEncoder, the
\* gateway's acknowledged prefix, the inbox).
THEOREM EffectsOnceInOrder == Spec => []AppliedOnceInOrder
  BY LinkInitially, LinkNext, LinkSound, PTL DEF Spec

\* When the SMS of a money job has its effect, the backend has marked the job as
\* committed, unless the handset lost the event that said so (spool order, report's
\* commit marker).
THEOREM SmsAfterCommit == Spec => []SmsFindsCommit
  BY LinkInitially, LinkNext, LinkSound, PTL DEF Spec
=============================================================================
