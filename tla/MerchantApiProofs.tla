-------------------------- MODULE MerchantApiProofs --------------------------
(***************************************************************************)
(* What TLAPS proves of the two things a merchant's server relies on, for  *)
(* any number of requests, identities, events, endpoints and processes.    *)
(***************************************************************************)
EXTENDS MCMerchantApi, WellFoundedInduction, TLAPS

-----------------------------------------------------------------------------
(* Idempotent requests: the transaction implements OnceOnly.                *)

Succeeded(r) == answer[r] \in Requests

\* The identity whose record decides a repeat: the reference, which goes with
\* the payload, or the key of a request that has none.
Anchor(r) == IF RefOf[r] # NoIdentity THEN RefOf[r] ELSE KeyOf[r]

\* A record holds the result of a request that took effect, under its payload,
\* and some request with the identity and the payload was answered with it.
RecordSound(i) ==
  records[i] # NoRecord =>
    /\ answer[records[i].result] = records[i].result
    /\ HashOf[records[i].result] = records[i].hash
    /\ \E q \in Requests : /\ i \in recordIdentities[q]
                           /\ answer[q] = records[i].result
                           /\ HashOf[q] = records[i].hash

\* A record a transaction has seen is never written again; and a request that
\* succeeded has every identity on file, its anchor with its own result.
RequestSound(r) ==
  /\ step[r] # "done" => answer[r] = "none"
  /\ \A i \in Identities : snapshot[r][i] # NoRecord => records[i] = snapshot[r][i]
  /\ Succeeded(r) =>
       /\ \A i \in recordIdentities[r] : records[i] # NoRecord
       /\ records[Anchor(r)].hash = HashOf[r]
       /\ records[Anchor(r)].result = answer[r]

RequestsInductive ==
  /\ TypeOK
  /\ \A i \in Identities : RecordSound(i)
  /\ \A r \in Requests : RequestSound(r)

LEMMA RequestIdentities ==
  ASSUME NEW r \in Requests
  PROVE  /\ recordIdentities[r] = {KeyOf[r], RefOf[r]} \ {NoIdentity}
         /\ recordIdentities[r] \subseteq Identities
         /\ Anchor(r) \in recordIdentities[r]
  BY IdempotencyAssumption DEF recordIdentities, Identities, Anchor

\* Requests with one payload have one reference: with a reference they have the
\* same anchor, and without one, if they share an identity, the same key.
LEMMA AlikeSameAnchor ==
  ASSUME NEW q \in Requests, NEW r \in Requests, HashOf[q] = HashOf[r],
         RefOf[r] # NoIdentity \/ recordIdentities[q] \cap recordIdentities[r] # {}
  PROVE  Anchor(q) = Anchor(r)
  BY RequestIdentities, IdempotencyAssumption DEF Anchor

LEMMA RequestsInitially ==
  Init => RequestsInductive
  BY IdempotencyAssumption DEF Init, RequestsInductive, TypeOK, RecordSound, RequestSound, Succeeded

LEMMA RequestsImplyAgreement ==
  RequestsInductive => AnswersAgree
  <1> SUFFICES ASSUME RequestsInductive PROVE AnswersAgree
    OBVIOUS
  <1>1. ASSUME NEW i \in Identities, records[i] # NoRecord
        PROVE  /\ answer[records[i].result] = records[i].result
               /\ HashOf[records[i].result] = records[i].hash
    BY <1>1 DEF RequestsInductive, RecordSound
  <1>2. ASSUME NEW q \in Requests, NEW r \in Requests, Succeeded(q), Succeeded(r),
               recordIdentities[q] \cap recordIdentities[r] # {}, HashOf[q] = HashOf[r]
        PROVE  answer[q] = answer[r]
    <2>1. Anchor(q) = Anchor(r)
      BY <1>2, AlikeSameAnchor
    <2> QED
      BY <1>2, <2>1 DEF RequestsInductive, RequestSound
  <1> QED
    BY <1>1, <1>2 DEF AnswersAgree, Succeeded

\* A step that answers nothing and files nothing keeps the invariant: the
\* snapshot it takes is what is on file.
LEMMA QuietRequest ==
  ASSUME RequestsInductive, NEW r \in Requests, Begin(r) \/ Lock(r)
  PROVE  RequestsInductive' /\ UNCHANGED answer
  <1>1. /\ UNCHANGED <<records, answer, commits>>
        /\ \A q \in Requests : step'[q] = "done" => step[q] = "done"
        /\ \A q \in Requests : step[q] = "done" => step'[q] = "done"
        /\ \A q \in Requests : snapshot'[q] = snapshot[q] \/ snapshot'[q] = records
    BY DEF Begin, Lock, RequestsInductive, TypeOK
  <1>2. TypeOK'
    BY DEF Begin, Lock, RequestsInductive, TypeOK
  <1>3. \A q \in Requests : RequestSound(q)'
    BY <1>1 DEF RequestsInductive, RequestSound, Succeeded
  <1>4. \A i \in Identities : RecordSound(i)'
    BY <1>1 DEF RequestsInductive, RecordSound
  <1> QED
    BY <1>1, <1>2, <1>3, <1>4 DEF RequestsInductive

\* A transaction that files result x for r under the identities ids, none of
\* which has a record yet, and answers r with it.
LEMMA FiledRequest ==
  ASSUME RequestsInductive, NEW r \in Requests, step[r] = "locking",
         NEW ids \in SUBSET recordIdentities[r], \A i \in ids : records[i] = NoRecord,
         NEW x \in Records, x.hash = HashOf[r],
         x.result = r \/ answer[x.result] = x.result,
         HashOf[x.result] = HashOf[r],
         File(ids, x), Finish(r, x.result),
         \A i \in recordIdentities[r] \ ids : records[i] # NoRecord,
         Anchor(r) \in ids \/ (records[Anchor(r)].hash = x.hash /\ records[Anchor(r)].result = x.result)
  PROVE  RequestsInductive'
  <1>0. /\ TypeOK
        /\ \A i \in Identities : RecordSound(i)
        /\ \A q \in Requests : RequestSound(q)
    BY DEF RequestsInductive
  <1>1. /\ \A i \in Identities : records'[i] = IF i \in ids THEN x ELSE records[i]
        /\ \A q \in Requests : answer'[q] = IF q = r THEN x.result ELSE answer[q]
        /\ \A q \in Requests : step'[q] = IF q = r THEN "done" ELSE step[q]
        /\ snapshot' = snapshot
    BY <1>0 DEF File, Finish, TypeOK
  <1>2. x.result \in Requests /\ x # NoRecord /\ answer[r] = "none" /\ "none" \notin Requests
    BY <1>0, IdempotencyAssumption DEF Records, RequestSound
  <1>3. TypeOK'
    <2>1. held' \in [Identities -> Requests \cup {NoOne}]
      BY <1>0 DEF Finish, Released, TypeOK
    <2>2. records' \in [Identities -> Records \cup {NoRecord}] /\ commits' \in Nat
      BY <1>0 DEF File, TypeOK
    <2> QED
      BY <1>0, <1>2, <2>1, <2>2 DEF Finish, TypeOK
  <1>4. \A i \in Identities : records[i] # NoRecord => records'[i] = records[i]
    BY <1>1
  <1>5. \A q \in Requests : answer[q] \in Requests => answer'[q] = answer[q]
    BY <1>1, <1>2
  <1>6. ASSUME NEW i \in Identities PROVE RecordSound(i)'
    <2>1. CASE i \in ids
      <3>1. answer'[x.result] = x.result
        BY <1>1, <1>2
      <3>2. /\ records'[i] = x
            /\ i \in recordIdentities[r] /\ answer'[r] = x.result /\ HashOf[r] = x.hash
        BY <1>1, <2>1
      <3> QED
        BY <3>1, <3>2 DEF RecordSound
    <2>2. CASE i \notin ids /\ records[i] # NoRecord
      <3>1. records[i].result \in Requests
        BY <1>0, <2>2 DEF TypeOK, Records
      <3>2. PICK q \in Requests : /\ i \in recordIdentities[q]
                                  /\ answer[q] = records[i].result
                                  /\ HashOf[q] = records[i].hash
        BY <1>0, <2>2 DEF RecordSound
      <3>3. answer[records[i].result] = records[i].result /\ HashOf[records[i].result] = records[i].hash
        BY <1>0, <2>2 DEF RecordSound
      <3>4. answer'[q] = answer[q] /\ answer'[records[i].result] = records[i].result
        BY <1>5, <3>1, <3>2, <3>3
      <3> QED
        BY <1>4, <2>2, <3>2, <3>3, <3>4 DEF RecordSound
    <2> QED
      BY <1>1, <2>1, <2>2 DEF RecordSound
  <1>7. ASSUME NEW q \in Requests PROVE RequestSound(q)'
    <2>1. step'[q] # "done" => answer'[q] = "none"
      BY <1>0, <1>1 DEF RequestSound
    <2>2. \A i \in Identities : snapshot'[q][i] # NoRecord => records'[i] = snapshot'[q][i]
      BY <1>0, <1>1, <1>4 DEF RequestSound
    <2>3. CASE q = r
      <3>1. \A i \in recordIdentities[r] : records'[i] # NoRecord
        BY <1>1, <1>2, RequestIdentities
      <3>2. records'[Anchor(r)].hash = HashOf[r] /\ records'[Anchor(r)].result = x.result
        BY <1>1, RequestIdentities
      <3> QED
        BY <1>1, <2>1, <2>2, <2>3, <3>1, <3>2 DEF RequestSound, Anchor
    <2>4. CASE q # r
      <3>1. CASE Succeeded(q)
        <4>1. \A i \in recordIdentities[q] : records[i] # NoRecord
          BY <1>0, <3>1 DEF RequestSound
        <4>2. \A i \in recordIdentities[q] : records'[i] = records[i]
          BY <1>4, <4>1, RequestIdentities
        <4> QED
          BY <1>0, <1>1, <2>1, <2>2, <2>4, <3>1, <4>1, <4>2, RequestIdentities DEF RequestSound, Succeeded, Anchor
      <3>2. CASE ~ Succeeded(q)
        BY <1>1, <2>1, <2>2, <2>4, <3>2 DEF RequestSound, Succeeded
      <3> QED BY <3>1, <3>2
    <2> QED BY <2>3, <2>4
  <1> QED
    BY <1>3, <1>6, <1>7 DEF RequestsInductive

LEMMA RefusedRequest ==
  ASSUME RequestsInductive, NEW r \in Requests, step[r] = "locking",
         NEW why \in Refusals, Finish(r, why), UNCHANGED <<records, commits>>
  PROVE  RequestsInductive' /\ Promise!Refuse(r)
  <1>0. /\ TypeOK
        /\ \A i \in Identities : RecordSound(i)
        /\ \A q \in Requests : RequestSound(q)
    BY DEF RequestsInductive
  <1>1. /\ \A q \in Requests : answer'[q] = IF q = r THEN why ELSE answer[q]
        /\ \A q \in Requests : step'[q] = IF q = r THEN "done" ELSE step[q]
        /\ snapshot' = snapshot
    BY <1>0 DEF Finish, TypeOK
  <1>2. answer[r] = "none" /\ "none" \notin Requests /\ why \notin Requests
    BY <1>0, IdempotencyAssumption DEF RequestSound
  <1>3. TypeOK'
    <2>1. held' \in [Identities -> Requests \cup {NoOne}]
      BY <1>0 DEF Finish, Released, TypeOK
    <2> QED
      BY <1>0, <2>1 DEF Finish, TypeOK
  <1>4. ASSUME NEW i \in Identities PROVE RecordSound(i)'
    <2>1. records[i] # NoRecord => records[i].result \in Requests
      BY <1>0 DEF TypeOK, Records
    <2> QED
      BY <1>0, <1>1, <1>2, <2>1 DEF RecordSound
  <1>5. \A q \in Requests : RequestSound(q)'
    BY <1>0, <1>1, <1>2 DEF RequestSound, Succeeded, Anchor
  <1>6. Promise!Refuse(r)
    BY <1>2 DEF Promise!Refuse, Promise!Refusals, Refusals, Finish
  <1> QED
    BY <1>3, <1>4, <1>5, <1>6 DEF RequestsInductive

\* What a snapshot shows of the request's identities is on file and sound.
LEMMA SeenRecord ==
  ASSUME RequestsInductive, NEW r \in Requests, NEW x \in Existing(r)
  PROVE  \E i \in recordIdentities[r] : snapshot[r][i] = x /\ records[i] = x /\ x # NoRecord /\ x \in Records
  BY RequestIdentities DEF Existing, RequestsInductive, RequestSound, TypeOK

\* The operation runs only when no identity of the request has a record, that is
\* when no request that shares one has succeeded.
LEMMA ExecuteStep ==
  ASSUME RequestsInductive, NEW r \in Requests, Execute(r)
  PROVE  RequestsInductive' /\ Promise!Apply(r)
  <1>0. /\ TypeOK
        /\ \A q \in Requests : RequestSound(q)
    BY DEF RequestsInductive
  <1>1. step[r] = "locking" /\ \A i \in recordIdentities[r] : records[i] = NoRecord
    BY DEF Execute, Locked, Overtaken, StoredFor
  <1> DEFINE x == [hash |-> HashOf[r], result |-> r, createdAt |-> commits + 1]
  <1>2. PICK y \in Records : y = x
    <2>1. x \in Records
      BY <1>0 DEF Records, TypeOK
    <2> QED BY <2>1
  <1>3. RequestsInductive'
    <2>1. Anchor(r) \in recordIdentities[r]
      BY RequestIdentities
    <2>2. y.hash = HashOf[r] /\ y.result = r
      BY <1>2
    <2>3. File(recordIdentities[r], y) /\ Finish(r, r)
      BY <1>2 DEF Execute, StoredFor
    <2> QED
      BY <1>1, <2>1, <2>2, <2>3, FiledRequest
  <1>4. answer[r] = "none"
    BY <1>0, <1>1 DEF RequestSound
  <1>5. ASSUME NEW q \in Requests, Promise!Shares(q, r) PROVE ~ Promise!Succeeded(q)
    BY <1>0, <1>1, <1>5 DEF Promise!Shares, Promise!Succeeded, RequestSound, Succeeded
  <1>6. answer' = [answer EXCEPT ![r] = r]
    BY DEF Execute, Finish
  <1> QED
    BY <1>3, <1>4, <1>5, <1>6 DEF Promise!Apply

\* A replay answers with what some request that shares the identity and has the
\* same payload was answered.
LEMMA ReplayStep ==
  ASSUME RequestsInductive, NEW r \in Requests, Replay(r)
  PROVE  RequestsInductive' /\ Promise!Repeat(r)
  <1>0. /\ TypeOK
        /\ \A i \in Identities : RecordSound(i)
        /\ \A q \in Requests : RequestSound(q)
    BY DEF RequestsInductive
  <1>1. PICK x \in Existing(r) : /\ x.hash = HashOf[r]
                                 /\ ~ Overtaken(AddedFor(r))
                                 /\ File(AddedFor(r), [x EXCEPT !.createdAt = commits + 1])
                                 /\ Finish(r, x.result)
    BY DEF Replay, responseBody
  <1>2. PICK i \in recordIdentities[r] : /\ snapshot[r][i] = x /\ records[i] = x
                                         /\ x # NoRecord /\ x \in Records
    BY SeenRecord
  <1>3. i \in Identities /\ step[r] = "locking" /\ answer[r] = "none"
    BY <1>0, RequestIdentities DEF Replay, Locked, RequestSound
  <1>4. PICK q \in Requests : i \in recordIdentities[q] /\ answer[q] = x.result /\ HashOf[q] = HashOf[r]
    BY <1>0, <1>1, <1>2, <1>3 DEF RecordSound
  <1>5. /\ x.result \in Requests /\ answer[x.result] = x.result
        /\ HashOf[x.result] = HashOf[r]
    BY <1>0, <1>1, <1>2, <1>3 DEF RecordSound, Records
  <1>6. Promise!Repeat(r)
    <2>1. answer' = [answer EXCEPT ![r] = answer[q]]
      BY <1>1, <1>4 DEF Finish
    <2> QED
      BY <1>2, <1>3, <1>4, <1>5, <2>1 DEF Promise!Repeat, Promise!Succeeded, Promise!Shares
  <1>7. RequestsInductive'
    <2> PICK ids \in SUBSET recordIdentities[r] : ids = AddedFor(r)
      BY DEF AddedFor
    <2>1. PICK y \in Records : y = [x EXCEPT !.createdAt = commits + 1]
      <3>1. [x EXCEPT !.createdAt = commits + 1] \in Records
        <4>1. x \in Records /\ commits + 1 \in Nat
          BY <1>0, <1>2 DEF TypeOK
        <4> QED BY <4>1 DEF Records
      <3> QED BY <3>1
    <2>2. y.hash = HashOf[r] /\ y.result = x.result
      BY <1>1, <1>2, <2>1 DEF Records
    <2>3. \A j \in ids : records[j] = NoRecord
      BY <1>1 DEF Overtaken
    <2>4. \A j \in recordIdentities[r] \ ids : records[j] # NoRecord
      BY <1>0, RequestIdentities DEF AddedFor, RequestSound
    <2>5. records[Anchor(r)].hash = HashOf[r] /\ records[Anchor(r)].result = x.result
      <3>1. CASE RefOf[r] # NoIdentity
        <4>1. Anchor(x.result) = Anchor(r)
          BY <1>5, <3>1, AlikeSameAnchor
        <4> QED
          BY <1>0, <1>5, <4>1 DEF RequestSound, Succeeded
      <3>2. CASE RefOf[r] = NoIdentity
        <4>1. i = Anchor(r)
          BY <3>2, RequestIdentities DEF Anchor
        <4> QED
          BY <1>1, <1>2, <4>1
      <3> QED BY <3>1, <3>2
    <2> QED
      BY <1>1, <1>3, <1>5, <2>1, <2>2, <2>3, <2>4, <2>5, FiledRequest
  <1> QED
    BY <1>6, <1>7

LEMMA RequestsStep ==
  ASSUME RequestsInductive, Next
  PROVE  RequestsInductive' /\ [Promise!Next]_answer
  <1> USE DEF Promise!Next
  <1>1. ASSUME NEW r \in Requests, Begin(r) \/ Lock(r)
        PROVE  RequestsInductive' /\ [Promise!Next]_answer
    BY <1>1, QuietRequest
  <1>2. ASSUME NEW r \in Requests, Execute(r)
        PROVE  RequestsInductive' /\ [Promise!Next]_answer
    BY <1>2, ExecuteStep
  <1>3. ASSUME NEW r \in Requests, Replay(r)
        PROVE  RequestsInductive' /\ [Promise!Next]_answer
    BY <1>3, ReplayStep
  <1>4. ASSUME NEW r \in Requests, Mismatch(r) \/ UniqueConflict(r) \/ Rollback(r)
        PROVE  RequestsInductive' /\ [Promise!Next]_answer
    <2>1. step[r] = "locking" /\ UNCHANGED <<records, commits>>
      BY <1>4 DEF Mismatch, UniqueConflict, Rollback, Locked
    <2>2. \E why \in Refusals : Finish(r, why)
      BY <1>4 DEF Mismatch, UniqueConflict, Rollback, Refusals
    <2> QED
      BY <2>1, <2>2, RefusedRequest
  <1> QED
    BY <1>1, <1>2, <1>3, <1>4 DEF Next, Proceed

LEMMA RequestsRest ==
  ASSUME RequestsInductive, UNCHANGED vars
  PROVE  RequestsInductive' /\ UNCHANGED answer
  BY DEF RequestsInductive, TypeOK, RecordSound, RequestSound, Succeeded, Anchor, vars

\* The transaction around a merchant's operation implements the promise that an
\* operation takes effect at most once per key and per reference and that a
\* repeat is answered with the original's effect, in every interleaving of lock
\* waits, commits, rollbacks and unique-constraint conflicts
\* (idempotency.service.ts execute).
THEOREM RequestsOnceOnly == ApiSpec => ImplementsOnceOnly
  <1>1. ApiInit => RequestsInductive /\ Promise!Init
    BY RequestsInitially DEF ApiInit, Init, Promise!Init
  <1>2. RequestsInductive /\ [ApiNext]_allVars => RequestsInductive' /\ [Promise!Next]_answer
    BY RequestsStep, RequestsRest DEF ApiNext, allVars
  <1> QED
    BY <1>1, <1>2, PTL DEF ApiSpec, ImplementsOnceOnly, Promise!Spec

-----------------------------------------------------------------------------
(* Webhooks: no event is lost to an endpoint, and the lease and the claim's *)
(* token fence every record of an answer.                                   *)

\* Until an event is published, an endpoint that has listened to it is enabled.
EventSound(e) == e \notin published => listening[e] \subseteq enabled

\* A process between its read of the endpoints and the publication of an event
\* of the merchant has read, and then written a delivery for, every endpoint
\* that still listens to it.
RoundSound(w) ==
  /\ todo[w] \subseteq created
  /\ phase[w] \in {"write", "publish"} => todo[w] # {} /\ Hooks!aggregateOwner(Hooks!Min(todo[w]))
  /\ phase[w] = "write" =>
       (Hooks!Min(todo[w]) \notin published => listening[Hooks!Min(todo[w])] \subseteq targets[w])
  /\ phase[w] = "publish" =>
       \A p \in listening[Hooks!Min(todo[w])] : status[<<Hooks!Min(todo[w]), p>>] # "none"

\* Unless it was claimed behind a change's snapshot, a delivery in progress is to an
\* enabled endpoint and is matched by every change of it that is under way; and as
\* long as a claim holds it, the request was signed with the secret the endpoint still has.
DeliverySound(x) ==
  x \notin racing =>
    /\ status[x] = "processing" =>
         x[2] \in enabled /\ (changing[x[2]] # "none" => x \in rows[x[2]])
    /\ \A w \in Workers :
         claim[w][x] \in {"signed", "posting"} /\ Hooks!Fenced(w, x) => signed[w][x] = secret[x[2]]

Registered == \A p \in enabled : secret[p] # 0

\* What a change under way matches is still unfinished: whoever writes one of its
\* rows rolls it back.
RowsHeld ==
  \A p \in Endpoints : \A x \in rows[p] : x[2] = p /\ status[x] \in {"pending", "processing"}

OutboxSound ==
  /\ Hooks!OutboxComplete
  /\ \A e \in Events : EventSound(e)
  /\ \A w \in Workers : RoundSound(w)

ClaimsSound == Registered /\ RowsHeld /\ \A x \in Hooks!Deliveries : DeliverySound(x)

WebhooksInductive == Hooks!TypeOK /\ OutboxSound /\ ClaimsSound

LEMMA EarliestEvent ==
  ASSUME NEW S, S \subseteq Nat, S # {}
  PROVE  Hooks!Min(S) \in S
  <1> DEFINE Before == {ss \in Nat \X Nat : ss[1] < ss[2]}
  <1>1. Before = OpToRel(<, Nat)
    BY DEF OpToRel
  <1>2. IsWellFoundedOn(Before, Nat)
    BY ONLY <1>1, NatLessThanWellFounded
  <1>3. PICK x \in S : \A y \in S : ~ (<<y, x>> \in Before)
    <2> HIDE DEF Before
    <2> QED BY <1>2, WFMin
  <1>4. ASSUME NEW y \in S PROVE x <= y
    <2>1. x \in Nat /\ y \in Nat /\ <<y, x>> \in Nat \X Nat
      OBVIOUS
    <2>2. ~ (<<y, x>>[1] < <<y, x>>[2])
      <3>1. <<y, x>> \notin Before
        BY <1>3
      <3> QED
        BY ONLY <2>1, <3>1
    <2> QED
      BY <2>1, <2>2
  <1> QED
    BY <1>4 DEF Hooks!Min

LEMMA WebhooksInitially ==
  Hooks!Init => WebhooksInductive
  <1> SUFFICES ASSUME Hooks!Init PROVE WebhooksInductive
    OBVIOUS
  <1> USE MerchantApiAssumption DEF Hooks!Init, Hooks!WebhooksAssumption
  <1>1. Hooks!TypeOK
    BY DEF Hooks!TypeOK
  <1>2. OutboxSound
    BY DEF OutboxSound, Hooks!OutboxComplete, EventSound, RoundSound
  <1>3. ClaimsSound
    BY DEF ClaimsSound, Registered, RowsHeld, DeliverySound
  <1> QED
    BY <1>1, <1>2, <1>3 DEF WebhooksInductive

\* The outbox side is kept by every step that leaves the events, the endpoints and
\* the rounds alone and removes no delivery.
LEMMA OutboxFrame ==
  ASSUME OutboxSound, Hooks!TypeOK, UNCHANGED <<created, published, listening, enabled, phase, todo, targets>>,
         \A x \in Hooks!Deliveries : status[x] # "none" => status'[x] # "none"
  PROVE  OutboxSound'
  <1>1. \A e \in Events : listening[e] \subseteq Endpoints
    BY DEF Hooks!TypeOK
  <1>2. created \subseteq Events /\ published \subseteq Events /\ Events \subseteq Nat
    BY MerchantApiAssumption DEF Hooks!TypeOK, Hooks!WebhooksAssumption
  <1>3. Hooks!OutboxComplete'
    BY <1>1, <1>2 DEF OutboxSound, Hooks!OutboxComplete, Hooks!Deliveries
  <1>4. \A e \in Events : EventSound(e)'
    BY DEF OutboxSound, EventSound
  <1>5. ASSUME NEW w \in Workers PROVE RoundSound(w)'
    <2>1. todo[w] # {} => Hooks!Min(todo[w]) \in Events
      BY <1>2, EarliestEvent DEF OutboxSound, RoundSound
    <2> QED
      BY <1>1, <2>1 DEF OutboxSound, RoundSound, Hooks!Deliveries
  <1> QED
    BY <1>3, <1>4, <1>5 DEF OutboxSound

\* The changes of some endpoints end and the others stay as they are.
OnlyEnds ==
  \A p \in Endpoints :
    \/ changing'[p] = "none" /\ rows'[p] = {}
    \/ changing'[p] = changing[p] /\ rows'[p] = rows[p]

LEMMA EndsOnly ==
  ASSUME Hooks!TypeOK, NEW ps, Hooks!Ends(ps) \/ UNCHANGED <<changing, rows>>
  PROVE  OnlyEnds /\ (Hooks!Ends(ps) => \A p \in ps \cap Endpoints : changing'[p] = "none" /\ rows'[p] = {})
  BY DEF Hooks!Ends, OnlyEnds, Hooks!TypeOK

LEMMA ChangesTyped ==
  ASSUME Hooks!TypeOK, NEW ps, Hooks!Ends(ps) \/ UNCHANGED <<changing, rows>>
  PROVE  changing' \in [Endpoints -> {"none", "rotate", "disable"}] /\ rows' \in [Endpoints -> SUBSET Hooks!Deliveries]
  <1>1. changing \in [Endpoints -> {"none", "rotate", "disable"}] /\ rows \in [Endpoints -> SUBSET Hooks!Deliveries]
    BY DEF Hooks!TypeOK
  <1> QED
    BY <1>1 DEF Hooks!Ends

\* A delivery that is written is matched by no change any more.
LEMMA WrittenEnds ==
  ASSUME Hooks!TypeOK, NEW x \in Hooks!Deliveries, Hooks!Written(x)
  PROVE  OnlyEnds /\ \A p \in Endpoints : x \notin rows'[p]
  BY DEF Hooks!Written, Hooks!Ends, OnlyEnds, Hooks!TypeOK

\* The claims' side is kept by every step that leaves the claims and the endpoints
\* alone and writes no row a change that stays under way matches, but for deliveries
\* that are created.
LEMMA ClaimsFrame ==
  ASSUME ClaimsSound, Hooks!TypeOK, OnlyEnds, UNCHANGED <<enabled, secret, lease, claim, signed, racing>>,
         \A x \in Hooks!Deliveries : status'[x] = status[x] \/ (status[x] = "none" /\ status'[x] = "pending")
  PROVE  ClaimsSound'
  <1>1. \A w \in Workers, x \in Hooks!Deliveries : Hooks!Fenced(w, x)' => Hooks!Fenced(w, x)
    BY DEF Hooks!Fenced
  <1>2. \A x \in Hooks!Deliveries : x[2] \in Endpoints
    BY DEF Hooks!Deliveries
  <1>3. \A p \in Endpoints : rows[p] \subseteq Hooks!Deliveries
    BY DEF Hooks!TypeOK
  <1>4. RowsHeld'
    BY <1>3 DEF ClaimsSound, RowsHeld, OnlyEnds
  <1>5. ASSUME NEW x \in Hooks!Deliveries PROVE DeliverySound(x)'
    BY <1>1, <1>2 DEF ClaimsSound, DeliverySound, OnlyEnds
  <1> QED
    BY <1>4, <1>5 DEF ClaimsSound, Registered

\* The event a process works on is one of its backlog.
LEMMA WorkedEvent ==
  ASSUME WebhooksInductive, NEW w \in Workers, todo[w] # {}
  PROVE  /\ Hooks!Min(todo[w]) \in todo[w]
         /\ Hooks!Min(todo[w]) \in created
         /\ Hooks!Min(todo[w]) \in Events
  BY EarliestEvent, MerchantApiAssumption
  DEF WebhooksInductive, OutboxSound, RoundSound, Hooks!TypeOK, Hooks!WebhooksAssumption

-----------------------------------------------------------------------------
(* Types.                                                                   *)

DeliveriesTyped ==
  /\ status \in [Hooks!Deliveries -> {"none", "pending", "processing"} \cup Hooks!Done]
  /\ lease \in [Hooks!Deliveries -> Workers \cup {NoWorker}]
  /\ \A x \in Hooks!Deliveries : lease[x] # NoWorker => status[x] = "processing"
  /\ live \subseteq Hooks!Deliveries

LEMMA SettledTyped ==
  ASSUME Hooks!TypeOK, NEW xs \in SUBSET Hooks!Deliveries, NEW st \in {"pending", "delivered", "dead"},
         Hooks!Settle(xs, st)
  PROVE  DeliveriesTyped'
  BY DEF Hooks!TypeOK, DeliveriesTyped, Hooks!Settle, Hooks!Done

Claims == [Workers -> [Hooks!Deliveries -> {"none", "claimed", "signed", "posting"}]]
Signatures == [Workers -> [Hooks!Deliveries -> 0..MaxSecrets]]

\* A step that moves one claim, or none, and its signature, or none.
LEMMA ClaimTyped ==
  ASSUME Hooks!TypeOK, NEW w \in Workers, NEW x \in Hooks!Deliveries,
         NEW st \in {"none", "claimed", "signed", "posting"}, NEW n \in 0..MaxSecrets,
         claim' = [claim EXCEPT ![w][x] = st] \/ claim' = claim,
         signed' = [signed EXCEPT ![w][x] = n] \/ signed' = signed
  PROVE  claim' \in Claims /\ signed' \in Signatures
  <1>1. claim' \in Claims
    <2>1. claim \in Claims
      BY DEF Hooks!TypeOK, Claims
    <2>2. CASE claim' = claim
      BY <2>1, <2>2
    <2>3. CASE claim' = [claim EXCEPT ![w][x] = st]
      BY ONLY <2>1, <2>3, w \in Workers, x \in Hooks!Deliveries,
              st \in {"none", "claimed", "signed", "posting"} DEF Claims
    <2> QED BY <2>2, <2>3
  <1>2. signed' \in Signatures
    <2>1. signed \in Signatures
      BY DEF Hooks!TypeOK, Signatures
    <2>2. CASE signed' = signed
      BY <2>1, <2>2
    <2>3. CASE signed' = [signed EXCEPT ![w][x] = n]
      BY ONLY <2>1, <2>3, w \in Workers, x \in Hooks!Deliveries, n \in 0..MaxSecrets DEF Signatures
    <2> QED BY <2>2, <2>3
  <1> QED BY <1>1, <1>2

LEMMA PublishedTyped ==
  ASSUME Hooks!TypeOK, NEW w \in Workers, NEW e \in created, Hooks!Publish(w, e)
  PROVE  /\ published' \subseteq created
         /\ todo' \in [Workers -> SUBSET Events]
         /\ phase' \in [Workers -> {"idle", "expand", "write", "publish", "claim", "deliver"}]
         /\ targets' \in [Workers -> SUBSET Endpoints]
  BY DEF Hooks!TypeOK, Hooks!Publish

LEMMA MerchantTyped ==
  ASSUME Hooks!TypeOK, Hooks!Merchant
  PROVE  Hooks!TypeOK'
  <1> USE MerchantApiAssumption DEF Hooks!TypeOK, Hooks!WebhooksAssumption, Hooks!Done, Hooks!endpointVars,
          Hooks!deliveryVars, Hooks!roundVars, Hooks!claimVars, Hooks!changeVars, Hooks!faultVars, Hooks!outboxVars
  <1>1. ASSUME NEW e \in Events, Hooks!RecordEvent(e) PROVE Hooks!TypeOK'
    BY <1>1 DEF Hooks!RecordEvent
  <1>2. ASSUME NEW p \in Endpoints, Hooks!Register(p) PROVE Hooks!TypeOK'
    BY <1>2 DEF Hooks!Register
  <1>3. ASSUME NEW p \in Endpoints, Hooks!RotateSecret(p) PROVE Hooks!TypeOK'
    <2>1. DeliveriesTyped'
      BY <1>3, SettledTyped DEF Hooks!RotateSecret
    <2>2. secret' \in [Endpoints -> 0..MaxSecrets]
      BY <1>3 DEF Hooks!RotateSecret
    <2>3. changing' \in [Endpoints -> {"none", "rotate", "disable"}] /\ rows' \in [Endpoints -> SUBSET Hooks!Deliveries]
      BY <1>3, ChangesTyped DEF Hooks!RotateSecret
    <2> QED
      BY <1>3, <2>1, <2>2, <2>3 DEF Hooks!RotateSecret, DeliveriesTyped
  <1>4. ASSUME NEW p \in Endpoints, NEW on \in BOOLEAN, Hooks!SetEnabled(p, on) PROVE Hooks!TypeOK'
    <2>0. changing' \in [Endpoints -> {"none", "rotate", "disable"}] /\ rows' \in [Endpoints -> SUBSET Hooks!Deliveries]
      BY <1>4, ChangesTyped DEF Hooks!SetEnabled
    <2>1. CASE on
      BY <1>4, <2>0, <2>1 DEF Hooks!SetEnabled
    <2>2. CASE ~ on
      <3>1. DeliveriesTyped'
        BY <1>4, <2>2, SettledTyped DEF Hooks!SetEnabled
      <3>2. listening' \in [Events -> SUBSET Endpoints]
        BY <1>4, <2>2 DEF Hooks!SetEnabled
      <3> QED
        BY <1>4, <2>0, <2>2, <3>1, <3>2 DEF Hooks!SetEnabled, DeliveriesTyped
    <2> QED BY <2>1, <2>2
  <1>5. ASSUME NEW x \in Hooks!Deliveries, Hooks!Replay(x) PROVE Hooks!TypeOK'
    <2>1. DeliveriesTyped'
      BY <1>5, SettledTyped DEF Hooks!Replay
    <2>2. changing' \in [Endpoints -> {"none", "rotate", "disable"}] /\ rows' \in [Endpoints -> SUBSET Hooks!Deliveries]
      BY <1>5, ChangesTyped DEF Hooks!Replay
    <2> QED
      BY <1>5, <2>1, <2>2 DEF Hooks!Replay, DeliveriesTyped
  <1>6. ASSUME NEW p \in Endpoints, NEW op \in {"rotate", "disable"}, Hooks!BeginChange(p, op) PROVE Hooks!TypeOK'
    <2>1. Hooks!Matched(p, op) \subseteq Hooks!Deliveries
      BY DEF Hooks!Matched
    <2> QED
      BY <1>6, <2>1 DEF Hooks!BeginChange
  <1>7. ASSUME NEW p \in Endpoints, Hooks!RollBack(p) PROVE Hooks!TypeOK'
    <2>1. changing' \in [Endpoints -> {"none", "rotate", "disable"}] /\ rows' \in [Endpoints -> SUBSET Hooks!Deliveries]
      BY <1>7, ChangesTyped DEF Hooks!RollBack
    <2> QED
      BY <1>7, <2>1 DEF Hooks!RollBack
  <1> QED
    BY <1>1, <1>2, <1>3, <1>4, <1>5, <1>6, <1>7 DEF Hooks!Merchant

LEMMA RoundTyped ==
  ASSUME WebhooksInductive, NEW w \in Workers, Hooks!RoundStep(w) \/ Hooks!Crash(w) \/ Hooks!Restart(w)
  PROVE  Hooks!TypeOK'
  <1> USE MerchantApiAssumption DEF Hooks!TypeOK, Hooks!WebhooksAssumption, Hooks!Done, Hooks!endpointVars,
          Hooks!deliveryVars, Hooks!roundVars, Hooks!claimVars, Hooks!changeVars, Hooks!faultVars, Hooks!outboxVars
  <1>0. Hooks!TypeOK
    BY DEF WebhooksInductive
  <1>1. ASSUME Hooks!StartRound(w) PROVE Hooks!TypeOK'
    BY <1>0, <1>1 DEF Hooks!StartRound, Hooks!Backlog
  <1>2. ASSUME Hooks!ReadEvent(w) PROVE Hooks!TypeOK'
    <2>1. /\ published' \subseteq created
          /\ todo' \in [Workers -> SUBSET Events]
          /\ phase' \in [Workers -> {"idle", "expand", "write", "publish", "claim", "deliver"}]
          /\ targets' \in [Workers -> SUBSET Endpoints]
      <3>1. CASE Hooks!Publish(w, Hooks!Min(todo[w]))
        BY <1>0, <1>2, <3>1, WorkedEvent, PublishedTyped DEF Hooks!ReadEvent
      <3>2. CASE ~ Hooks!Publish(w, Hooks!Min(todo[w]))
        BY <1>0, <1>2, <3>2 DEF Hooks!ReadEvent
      <3> QED BY <3>1, <3>2
    <2> QED
      BY <1>0, <1>2, <2>1 DEF Hooks!ReadEvent
  <1>3. ASSUME Hooks!CreateDeliveries(w) PROVE Hooks!TypeOK'
    BY <1>0, <1>3 DEF Hooks!CreateDeliveries
  <1>4. ASSUME Hooks!PublishEvent(w) PROVE Hooks!TypeOK'
    <2>1. todo[w] # {}
      BY <1>4 DEF Hooks!PublishEvent, WebhooksInductive, OutboxSound, RoundSound
    <2>2. /\ published' \subseteq created
          /\ todo' \in [Workers -> SUBSET Events]
          /\ phase' \in [Workers -> {"idle", "expand", "write", "publish", "claim", "deliver"}]
          /\ targets' \in [Workers -> SUBSET Endpoints]
      <3>1. CASE Hooks!Publish(w, Hooks!Min(todo[w]))
        BY <1>0, <2>1, <3>1, WorkedEvent, PublishedTyped
      <3>2. CASE ~ Hooks!Publish(w, Hooks!Min(todo[w]))
        BY <1>0, <1>4, <3>2 DEF Hooks!PublishEvent
      <3> QED BY <3>1, <3>2
    <2> QED
      <3>1. faults' \in 0..MaxFaults
        BY <1>0, <1>4 DEF Hooks!PublishEvent, Hooks!Fault
      <3> QED
        BY <1>0, <1>4, <2>2, <3>1 DEF Hooks!PublishEvent
  <1>5. ASSUME Hooks!FindCandidates(w) PROVE Hooks!TypeOK'
    BY <1>0, <1>5 DEF Hooks!FindCandidates
  <1>6. ASSUME Hooks!ClaimDelivery(w) PROVE Hooks!TypeOK'
    <2> PICK x \in candidates[w] :
          /\ candidates' = [candidates EXCEPT ![w] = @ \ {x}]
          /\ IF Hooks!Claimable(x)
             THEN /\ status' = [status EXCEPT ![x] = "processing"]
                  /\ lease' = [lease EXCEPT ![x] = w]
                  /\ live' = live \cup {x}
                  /\ claim' = [claim EXCEPT ![w][x] = "claimed"]
                  /\ Hooks!Written(x)
                  /\ racing' = IF changing'[x[2]] = "none" THEN racing \ {x} ELSE racing \cup {x}
             ELSE UNCHANGED <<status, lease, live, claim, changing, rows, racing>>
      BY <1>6 DEF Hooks!ClaimDelivery
    <2>1. x \in Hooks!Deliveries
      BY <1>0
    <2>2. DeliveriesTyped'
      <3>1. CASE Hooks!Claimable(x)
        <4>1. status' = [status EXCEPT ![x] = "processing"] /\ lease' = [lease EXCEPT ![x] = w]
              /\ live' = live \cup {x}
          BY <3>1
        <4> HIDE DEF Hooks!Claimable
        <4> QED
          BY <1>0, <2>1, <4>1 DEF DeliveriesTyped
      <3>2. CASE ~ Hooks!Claimable(x)
        BY <1>0, <3>2 DEF DeliveriesTyped
      <3> QED BY <3>1, <3>2
    <2>3. claim' \in Claims /\ signed' \in Signatures
      <3>1. (claim' = [claim EXCEPT ![w][x] = "claimed"] \/ claim' = claim) /\ signed' = signed
        BY <1>6 DEF Hooks!ClaimDelivery
      <3>2. 0 \in 0..MaxSecrets
        OBVIOUS
      <3> QED
        BY ONLY <1>0, <2>1, <3>1, <3>2, ClaimTyped
    <2>4. candidates' \in [Workers -> SUBSET Hooks!Deliveries]
      BY <1>0
    <2>5. UNCHANGED <<phase, todo, targets, aged, replayed, signed, created, published, listening, enabled,
                      secret, connected, faults>>
      BY <1>6 DEF Hooks!ClaimDelivery
    <2>7. /\ changing' \in [Endpoints -> {"none", "rotate", "disable"}]
          /\ rows' \in [Endpoints -> SUBSET Hooks!Deliveries]
          /\ racing' \subseteq Hooks!Deliveries
      <3>1. (\E ps : Hooks!Ends(ps)) \/ UNCHANGED <<changing, rows>>
        BY DEF Hooks!Written
      <3>2. racing' \subseteq Hooks!Deliveries
        BY <1>0, <2>1
      <3> QED
        BY <1>0, <3>1, <3>2, ChangesTyped
    <2>6. /\ status' \in [Hooks!Deliveries -> {"none", "pending", "processing"} \cup Hooks!Done]
          /\ lease' \in [Hooks!Deliveries -> Workers \cup {NoWorker}]
          /\ \A y \in Hooks!Deliveries : lease'[y] # NoWorker => status'[y] = "processing"
          /\ live' \subseteq Hooks!Deliveries
      BY <2>2 DEF DeliveriesTyped
    <2> QED
      BY ONLY <1>0, <2>3, <2>4, <2>5, <2>6, <2>7 DEF Hooks!TypeOK, Claims, Signatures
  <1>7. ASSUME Hooks!StartDelivering(w) PROVE Hooks!TypeOK'
    BY <1>0, <1>7 DEF Hooks!StartDelivering
  <1>8. ASSUME Hooks!EndRound(w) PROVE Hooks!TypeOK'
    BY <1>0, <1>8 DEF Hooks!EndRound
  <1>9. ASSUME Hooks!Crash(w) \/ Hooks!Restart(w) PROVE Hooks!TypeOK'
    <2>1. faults' \in 0..MaxFaults
      BY <1>0, <1>9 DEF Hooks!Crash, Hooks!Restart, Hooks!Fault
    <2>2. Hooks!Starts(w)
      BY <1>9 DEF Hooks!Crash, Hooks!Restart
    <2>3. claim' \in Claims /\ signed' \in Signatures
      <3>1. claim \in Claims /\ signed \in Signatures
        BY <1>0 DEF Claims, Signatures
      <3> QED
        BY <2>2, <3>1 DEF Hooks!Starts, Claims, Signatures
    <2>4. /\ phase' \in [Workers -> {"idle", "expand", "write", "publish", "claim", "deliver"}]
          /\ todo' \in [Workers -> SUBSET Events]
          /\ targets' \in [Workers -> SUBSET Endpoints]
          /\ candidates' \in [Workers -> SUBSET Hooks!Deliveries]
          /\ connected' \subseteq Workers
      BY <1>0, <2>2 DEF Hooks!Starts
    <2>5. UNCHANGED <<created, published, listening, enabled, secret, status, lease, live, aged, replayed,
                      changing, rows, racing>>
      BY <2>2 DEF Hooks!Starts
    <2> QED
      BY ONLY <1>0, <2>1, <2>3, <2>4, <2>5 DEF Hooks!TypeOK, Claims, Signatures
  <1> QED
    BY <1>1, <1>2, <1>3, <1>4, <1>5, <1>6, <1>7, <1>8, <1>9 DEF Hooks!RoundStep

LEMMA DeliverTyped ==
  ASSUME Hooks!TypeOK, NEW w \in Workers, NEW x \in Hooks!Deliveries, Hooks!DeliverStep(w, x)
  PROVE  Hooks!TypeOK'
  <1> USE MerchantApiAssumption DEF Hooks!TypeOK, Hooks!WebhooksAssumption, Hooks!Done, Hooks!endpointVars,
          Hooks!deliveryVars, Hooks!roundVars, Hooks!claimVars, Hooks!changeVars, Hooks!faultVars, Hooks!outboxVars
  <1>0. x[2] \in Endpoints
    BY DEF Hooks!Deliveries
  <1>1. 0 \in 0..MaxSecrets /\ secret[x[2]] \in 0..MaxSecrets
    BY <1>0
  <1>2. ASSUME NEW st \in {"pending", "delivered", "dead"}, Hooks!FinishClaim(w, x, st) PROVE Hooks!TypeOK'
    <2>1. DeliveriesTyped'
      BY <1>2, SettledTyped DEF Hooks!FinishClaim, DeliveriesTyped
    <2>2. claim' \in Claims /\ signed' \in Signatures
      <3>1. claim' = [claim EXCEPT ![w][x] = "none"] /\ signed' = [signed EXCEPT ![w][x] = 0]
        BY <1>2 DEF Hooks!FinishClaim
      <3> QED
        BY ONLY Hooks!TypeOK, <1>1, <3>1, ClaimTyped
    <2>3. changing' \in [Endpoints -> {"none", "rotate", "disable"}] /\ rows' \in [Endpoints -> SUBSET Hooks!Deliveries]
      BY <1>2, ChangesTyped DEF Hooks!FinishClaim, Hooks!Written
    <2> QED
      BY <1>2, <2>1, <2>2, <2>3 DEF Hooks!FinishClaim, DeliveriesTyped, Claims, Signatures
  <1>3. ASSUME Hooks!Sign(w, x) PROVE Hooks!TypeOK'
    <2>1. CASE Hooks!FinishClaim(w, x, "dead")
      BY <1>2, <2>1
    <2>2. CASE ~ Hooks!FinishClaim(w, x, "dead")
      <3>1. claim' \in Claims /\ signed' \in Signatures
        <4>1. claim' = [claim EXCEPT ![w][x] = "signed"] /\ signed' = [signed EXCEPT ![w][x] = secret[x[2]]]
          BY <1>3, <2>2 DEF Hooks!Sign
        <4> QED
          BY ONLY Hooks!TypeOK, <1>1, <4>1, ClaimTyped
      <3> QED
        <4>1. UNCHANGED <<created, published, listening, enabled, secret, status, lease, live, aged, replayed,
                          phase, todo, targets, candidates, changing, rows, racing, connected, faults>>
          BY <1>3, <2>2 DEF Hooks!Sign
        <4> QED
          BY ONLY Hooks!TypeOK, <3>1, <4>1 DEF Hooks!TypeOK, Claims, Signatures
    <2> QED BY <2>1, <2>2
  <1>4. ASSUME Hooks!Renew(w, x) PROVE Hooks!TypeOK'
    <2>1. claim' \in Claims /\ signed' \in Signatures
      <3>1. CASE Hooks!Fenced(w, x)
        <4>1. claim' = [claim EXCEPT ![w][x] = "posting"] /\ signed' = signed
          BY <1>4, <3>1 DEF Hooks!Renew
        <4> QED
          BY ONLY Hooks!TypeOK, <1>1, <4>1, ClaimTyped
      <3>2. CASE ~ Hooks!Fenced(w, x)
        <4>1. claim' = [claim EXCEPT ![w][x] = "none"] /\ signed' = [signed EXCEPT ![w][x] = 0]
          BY <1>4, <3>2 DEF Hooks!Renew
        <4> QED
          BY ONLY Hooks!TypeOK, <1>1, <4>1, ClaimTyped
      <3> QED BY <3>1, <3>2
    <2> QED
      <3>1. UNCHANGED <<created, published, listening, enabled, secret, status, lease, aged, replayed,
                        phase, todo, targets, candidates, racing, connected, faults>>
        BY <1>4 DEF Hooks!Renew
      <3>2. live' \subseteq Hooks!Deliveries
        BY <1>4 DEF Hooks!Renew
      <3>3. changing' \in [Endpoints -> {"none", "rotate", "disable"}] /\ rows' \in [Endpoints -> SUBSET Hooks!Deliveries]
        BY <1>4, ChangesTyped DEF Hooks!Renew, Hooks!Written
      <3> QED
        BY ONLY Hooks!TypeOK, <2>1, <3>1, <3>2, <3>3 DEF Hooks!TypeOK, Claims, Signatures
  <1>5. ASSUME Hooks!Delivered(w, x) \/ Hooks!Failed(w, x) PROVE Hooks!TypeOK'
    BY <1>2, <1>5 DEF Hooks!Delivered, Hooks!Failed
  <1> QED
    BY <1>3, <1>4, <1>5 DEF Hooks!DeliverStep

LEMMA TimeTyped ==
  ASSUME Hooks!TypeOK,
         \/ \E x \in Hooks!Deliveries : Hooks!LeaseExpires(x) \/ Hooks!Age(x)
         \/ \E w \in Workers : Hooks!ChannelLost(w)
  PROVE  Hooks!TypeOK'
  <1> USE DEF Hooks!endpointVars, Hooks!deliveryVars, Hooks!roundVars, Hooks!claimVars,
          Hooks!changeVars, Hooks!faultVars, Hooks!outboxVars
  <1>1. faults' \in 0..MaxFaults
    BY MerchantApiAssumption DEF Hooks!TypeOK, Hooks!WebhooksAssumption, Hooks!LeaseExpires, Hooks!Age,
       Hooks!ChannelLost, Hooks!Fault
  <1>2. ASSUME NEW x \in Hooks!Deliveries, Hooks!LeaseExpires(x) PROVE Hooks!TypeOK'
    BY <1>1, <1>2 DEF Hooks!LeaseExpires, Hooks!TypeOK
  <1>3. ASSUME NEW x \in Hooks!Deliveries, Hooks!Age(x) PROVE Hooks!TypeOK'
    BY <1>1, <1>3 DEF Hooks!Age, Hooks!TypeOK
  <1>4. ASSUME NEW w \in Workers, Hooks!ChannelLost(w) PROVE Hooks!TypeOK'
    BY <1>1, <1>4 DEF Hooks!ChannelLost, Hooks!TypeOK
  <1> QED
    BY <1>2, <1>3, <1>4

-----------------------------------------------------------------------------
(* The outbox.                                                              *)

\* What a merchant does: an event begins with the endpoints that are enabled, and
\* an endpoint that is disabled stops listening to what is not yet published.
LEMMA MerchantKeepsOutbox ==
  ASSUME WebhooksInductive, Hooks!Merchant
  PROVE  OutboxSound'
  <1> USE DEF Hooks!outboxVars, Hooks!endpointVars, Hooks!roundVars
  <1>0. Hooks!TypeOK /\ OutboxSound
    BY DEF WebhooksInductive
  <1>1. \A e \in Events : listening[e] \subseteq Endpoints
    BY <1>0 DEF Hooks!TypeOK
  <1>2. ASSUME NEW w \in Workers
        PROVE  /\ todo[w] \subseteq created
               /\ phase[w] \in {"write", "publish"} =>
                    Hooks!Min(todo[w]) \in created /\ Hooks!Min(todo[w]) \in Events
    BY <1>0, WorkedEvent DEF OutboxSound, RoundSound
  <1>3. ASSUME NEW e \in Events, Hooks!RecordEvent(e) PROVE OutboxSound'
    <2>1. /\ e \notin created /\ e \notin published
          /\ created' = created \cup {e}
          /\ \A f \in Events : listening'[f] = IF f = e THEN enabled ELSE listening[f]
          /\ UNCHANGED <<published, enabled, phase, todo, targets, status>>
      BY <1>0, <1>3 DEF Hooks!RecordEvent, Hooks!TypeOK, Hooks!deliveryVars
    <2>2. Hooks!OutboxComplete'
      BY <1>0, <2>1 DEF OutboxSound, Hooks!OutboxComplete, Hooks!TypeOK
    <2>3. \A f \in Events : EventSound(f)'
      BY <1>0, <2>1 DEF OutboxSound, EventSound
    <2>4. \A w \in Workers : RoundSound(w)'
      BY <1>0, <1>2, <2>1 DEF OutboxSound, RoundSound
    <2> QED
      BY <2>2, <2>3, <2>4 DEF OutboxSound
  <1>4. ASSUME NEW p \in Endpoints, Hooks!Register(p) PROVE OutboxSound'
    <2>1. enabled \subseteq enabled' /\ UNCHANGED <<created, published, listening, phase, todo, targets, status>>
      BY <1>4 DEF Hooks!Register, Hooks!deliveryVars
    <2> QED
      BY <1>0, <2>1 DEF OutboxSound, Hooks!OutboxComplete, EventSound, RoundSound
  <1>5. ASSUME NEW p \in Endpoints, Hooks!RotateSecret(p) PROVE OutboxSound'
    <2>1. /\ UNCHANGED <<created, published, listening, enabled, phase, todo, targets>>
          /\ \A x \in Hooks!Deliveries : status[x] # "none" => status'[x] # "none"
      BY <1>5 DEF Hooks!RotateSecret, Hooks!Settle
    <2> QED
      BY <1>0, <2>1, OutboxFrame
  <1>6. ASSUME NEW p \in Endpoints, Hooks!SetEnabled(p, TRUE) PROVE OutboxSound'
    <2>1. enabled \subseteq enabled' /\ UNCHANGED <<created, published, listening, phase, todo, targets, status>>
      BY <1>6 DEF Hooks!SetEnabled
    <2> QED
      BY <1>0, <2>1 DEF OutboxSound, Hooks!OutboxComplete, EventSound, RoundSound
  <1>7. ASSUME NEW p \in Endpoints, Hooks!SetEnabled(p, FALSE) PROVE OutboxSound'
    <2>1. /\ enabled' = enabled \ {p}
          /\ \A e \in Events : listening'[e] = IF e \in published THEN listening[e] ELSE listening[e] \ {p}
          /\ \A x \in Hooks!Deliveries : status[x] # "none" => status'[x] # "none"
          /\ UNCHANGED <<created, published, phase, todo, targets>>
      BY <1>7 DEF Hooks!SetEnabled, Hooks!Settle
    <2>2. Hooks!OutboxComplete'
      BY <1>0, <1>1, <2>1 DEF OutboxSound, Hooks!OutboxComplete, Hooks!Deliveries, Hooks!TypeOK
    <2>3. \A e \in Events : EventSound(e)'
      BY <1>0, <2>1 DEF OutboxSound, EventSound
    <2>4. \A w \in Workers : RoundSound(w)'
      BY <1>0, <1>1, <1>2, <2>1 DEF OutboxSound, RoundSound, Hooks!Deliveries
    <2> QED
      BY <2>2, <2>3, <2>4 DEF OutboxSound
  <1>8. ASSUME NEW x \in Hooks!Deliveries, Hooks!Replay(x) PROVE OutboxSound'
    <2>1. /\ UNCHANGED <<created, published, listening, enabled, phase, todo, targets>>
          /\ \A y \in Hooks!Deliveries : status[y] # "none" => status'[y] # "none"
      BY <1>8 DEF Hooks!Replay, Hooks!Settle
    <2> QED
      BY <1>0, <2>1, OutboxFrame
  <1>9. ASSUME NEW p \in Endpoints, Hooks!RollBack(p) \/ \E op \in {"rotate", "disable"} : Hooks!BeginChange(p, op)
        PROVE  OutboxSound'
    <2>1. UNCHANGED <<created, published, listening, enabled, phase, todo, targets, status>>
      BY <1>9 DEF Hooks!RollBack, Hooks!BeginChange, Hooks!deliveryVars
    <2> QED
      BY <1>0, <2>1, OutboxFrame
  <1> QED
    BY <1>3, <1>4, <1>5, <1>6, <1>7, <1>8, <1>9 DEF Hooks!Merchant

\* Publication of the event a process works on: every endpoint that listens to it
\* has its delivery.
LEMMA PublishKeepsOutbox ==
  ASSUME WebhooksInductive, NEW w \in Workers, todo[w] # {}, Hooks!Publish(w, Hooks!Min(todo[w])),
         Hooks!Min(todo[w]) \in Owned =>
           \A p \in listening[Hooks!Min(todo[w])] : status[<<Hooks!Min(todo[w]), p>>] # "none",
         UNCHANGED <<created, listening, enabled, status>>
  PROVE  OutboxSound'
  <1>0. Hooks!TypeOK /\ OutboxSound
    BY DEF WebhooksInductive
  <1>1. PICK e \in todo[w] : e = Hooks!Min(todo[w])
    BY WorkedEvent
  <1>2. /\ published' = published \cup {e}
        /\ \A v \in Workers \ {w} : todo'[v] = todo[v] /\ phase'[v] = phase[v] /\ targets'[v] = targets[v]
        /\ todo'[w] = todo[w] \ {e} /\ phase'[w] = "expand"
    BY <1>0, <1>1 DEF Hooks!Publish, Hooks!TypeOK
  <1>3. Hooks!OutboxComplete'
    BY <1>0, <1>1, <1>2 DEF OutboxSound, Hooks!OutboxComplete
  <1>4. \A f \in Events : EventSound(f)'
    BY <1>0, <1>2 DEF OutboxSound, EventSound
  <1>5. \A v \in Workers \ {w} : RoundSound(v)'
    BY <1>0, <1>2 DEF OutboxSound, RoundSound
  <1>6. RoundSound(w)'
    BY <1>0, <1>2 DEF OutboxSound, RoundSound
  <1> QED
    BY <1>3, <1>4, <1>5, <1>6 DEF OutboxSound

\* A step of one process that publishes nothing and removes no delivery.
LEMMA WorkerFrame ==
  ASSUME WebhooksInductive, NEW w \in Workers, RoundSound(w)',
         UNCHANGED <<created, published, listening, enabled>>,
         \A x \in Hooks!Deliveries : status[x] # "none" => status'[x] # "none",
         \A v \in Workers \ {w} : todo'[v] = todo[v] /\ phase'[v] = phase[v] /\ targets'[v] = targets[v]
  PROVE  OutboxSound'
  <1>0. Hooks!TypeOK /\ OutboxSound
    BY DEF WebhooksInductive
  <1>1. \A e \in Events : listening[e] \subseteq Endpoints
    BY <1>0 DEF Hooks!TypeOK
  <1>2. Hooks!OutboxComplete'
    BY <1>0, <1>1 DEF OutboxSound, Hooks!OutboxComplete, Hooks!Deliveries, Hooks!TypeOK
  <1>3. \A e \in Events : EventSound(e)'
    BY <1>0 DEF OutboxSound, EventSound
  <1>4. ASSUME NEW v \in Workers, v # w PROVE RoundSound(v)'
    <2>1. phase[v] = "publish" => Hooks!Min(todo[v]) \in Events
      BY <1>0, WorkedEvent DEF OutboxSound, RoundSound
    <2> QED
      BY <1>0, <1>1, <1>4, <2>1 DEF OutboxSound, RoundSound, Hooks!Deliveries
  <1> QED
    BY <1>2, <1>3, <1>4 DEF OutboxSound

LEMMA RoundKeepsOutbox ==
  ASSUME WebhooksInductive, NEW w \in Workers, Hooks!RoundStep(w) \/ Hooks!Crash(w) \/ Hooks!Restart(w)
  PROVE  OutboxSound'
  <1> USE DEF Hooks!outboxVars, Hooks!endpointVars, Hooks!deliveryVars
  <1>0. Hooks!TypeOK /\ OutboxSound /\ RoundSound(w)
    BY DEF WebhooksInductive, OutboxSound
  <1>1. ASSUME Hooks!StartRound(w) PROVE OutboxSound'
    <2>1. /\ phase'[w] = "expand" /\ todo'[w] \subseteq created
          /\ \A v \in Workers \ {w} : todo'[v] = todo[v] /\ phase'[v] = phase[v] /\ targets'[v] = targets[v]
      BY <1>0, <1>1 DEF Hooks!StartRound, Hooks!Backlog, Hooks!TypeOK
    <2>2. UNCHANGED <<created, published, listening, enabled, status>>
      BY <1>1 DEF Hooks!StartRound
    <2>3. RoundSound(w)'
      BY <2>1, <2>2 DEF RoundSound
    <2> QED
      BY <2>1, <2>2, <2>3, WorkerFrame
  <1>2. ASSUME Hooks!ReadEvent(w) PROVE OutboxSound'
    <2>1. todo[w] # {} /\ UNCHANGED <<created, listening, enabled, status>>
      BY <1>2 DEF Hooks!ReadEvent
    <2>2. CASE ~ Hooks!aggregateOwner(Hooks!Min(todo[w])) /\ Hooks!Publish(w, Hooks!Min(todo[w]))
      BY <2>1, <2>2, PublishKeepsOutbox DEF Hooks!aggregateOwner
    <2>3. CASE /\ Hooks!aggregateOwner(Hooks!Min(todo[w]))
               /\ phase' = [phase EXCEPT ![w] = "write"]
               /\ targets' = [targets EXCEPT ![w] = enabled]
               /\ UNCHANGED <<published, todo>>
      <3>1. /\ phase'[w] = "write" /\ targets'[w] = enabled
            /\ \A v \in Workers \ {w} : todo'[v] = todo[v] /\ phase'[v] = phase[v] /\ targets'[v] = targets[v]
        BY <1>0, <2>3 DEF Hooks!TypeOK
      <3>2. RoundSound(w)'
        <4>1. Hooks!Min(todo[w]) \in Events
          BY <2>1, WorkedEvent
        <4>2. Hooks!Min(todo[w]) \notin published => listening[Hooks!Min(todo[w])] \subseteq enabled
          BY <1>0, <4>1 DEF OutboxSound, EventSound
        <4> QED
          BY <1>0, <2>1, <2>3, <3>1, <4>2 DEF RoundSound, Hooks!aggregateOwner
      <3> QED
        BY <2>1, <2>3, <3>1, <3>2, WorkerFrame
    <2> QED
      BY <1>2, <2>2, <2>3 DEF Hooks!ReadEvent
  <1>3. ASSUME Hooks!CreateDeliveries(w) PROVE OutboxSound'
    <2> DEFINE e == Hooks!Min(todo[w])
    <2>1. /\ phase[w] = "write" /\ phase'[w] = "publish" /\ todo[w] # {}
          /\ \A v \in Workers \ {w} : phase'[v] = phase[v]
          /\ UNCHANGED <<created, published, listening, enabled, todo, targets>>
      BY <1>0, <1>3 DEF Hooks!CreateDeliveries, Hooks!TypeOK, RoundSound
    <2>2. \A x \in Hooks!Deliveries :
            /\ status[x] # "none" => status'[x] # "none"
            /\ x[1] = e /\ x[2] \in targets[w] => status'[x] # "none"
      BY <1>3 DEF Hooks!CreateDeliveries
    <2>3. e \in Events /\ listening[e] \subseteq Endpoints
      BY <1>0, <2>1, WorkedEvent DEF Hooks!TypeOK
    <2>4. \A p \in listening[e] : status'[<<e, p>>] # "none"
      <3> SUFFICES ASSUME NEW p \in listening[e] PROVE status'[<<e, p>>] # "none"
        OBVIOUS
      <3>1. <<e, p>> \in Hooks!Deliveries /\ <<e, p>>[1] = e /\ <<e, p>>[2] = p
        BY <2>3 DEF Hooks!Deliveries
      <3>2. CASE e \in published
        BY <1>0, <2>1, <2>2, <2>3, <3>1, <3>2
        DEF OutboxSound, RoundSound, Hooks!OutboxComplete, Hooks!aggregateOwner
      <3>3. CASE e \notin published
        BY <1>0, <2>1, <2>2, <3>1, <3>3 DEF RoundSound
      <3> QED BY <3>2, <3>3
    <2>5. RoundSound(w)'
      BY <1>0, <2>1, <2>4 DEF RoundSound
    <2> QED
      BY <2>1, <2>2, <2>5, WorkerFrame
  <1>4. ASSUME Hooks!PublishEvent(w) PROVE OutboxSound'
    <2>1. todo[w] # {} /\ phase[w] = "publish" /\ UNCHANGED <<created, listening, enabled, status>>
      BY <1>0, <1>4 DEF Hooks!PublishEvent, RoundSound
    <2>2. CASE Hooks!Publish(w, Hooks!Min(todo[w]))
      BY <1>0, <2>1, <2>2, PublishKeepsOutbox DEF RoundSound
    <2>3. CASE ~ Hooks!Publish(w, Hooks!Min(todo[w]))
      <3>1. /\ phase'[w] = "idle" /\ todo'[w] = {} /\ UNCHANGED published
            /\ \A v \in Workers \ {w} : todo'[v] = todo[v] /\ phase'[v] = phase[v] /\ targets'[v] = targets[v]
        BY <1>0, <1>4, <2>3 DEF Hooks!PublishEvent, Hooks!TypeOK
      <3>2. RoundSound(w)'
        BY <3>1 DEF RoundSound
      <3> QED
        BY <2>1, <3>1, <3>2, WorkerFrame
    <2> QED BY <2>2, <2>3
  <1>5. ASSUME NEW to \in {"idle", "claim", "deliver"}, phase' = [phase EXCEPT ![w] = to],
               UNCHANGED <<created, published, listening, enabled, status, todo, targets>>
        PROVE  OutboxSound'
    <2>1. /\ phase'[w] = to
          /\ \A v \in Workers \ {w} : todo'[v] = todo[v] /\ phase'[v] = phase[v] /\ targets'[v] = targets[v]
      BY <1>0, <1>5 DEF Hooks!TypeOK
    <2>2. RoundSound(w)'
      BY <1>0, <1>5, <2>1 DEF RoundSound
    <2> QED
      BY <1>5, <2>1, <2>2, WorkerFrame
  <1>6. ASSUME Hooks!FindCandidates(w) \/ Hooks!StartDelivering(w) \/ Hooks!EndRound(w) PROVE OutboxSound'
    BY <1>5, <1>6 DEF Hooks!FindCandidates, Hooks!StartDelivering, Hooks!EndRound
  <1>7. ASSUME Hooks!ClaimDelivery(w) PROVE OutboxSound'
    <2>1. UNCHANGED <<created, published, listening, enabled, phase, todo, targets>>
      BY <1>7 DEF Hooks!ClaimDelivery
    <2>2. \A x \in Hooks!Deliveries : status[x] # "none" => status'[x] # "none"
      BY <1>0, <1>7 DEF Hooks!ClaimDelivery, Hooks!TypeOK
    <2> QED
      BY <1>0, <2>1, <2>2, OutboxFrame
  <1>8. ASSUME Hooks!Crash(w) \/ Hooks!Restart(w) PROVE OutboxSound'
    <2>1. /\ phase'[w] = "idle" /\ todo'[w] = {}
          /\ \A v \in Workers \ {w} : todo'[v] = todo[v] /\ phase'[v] = phase[v] /\ targets'[v] = targets[v]
      BY <1>0, <1>8 DEF Hooks!Crash, Hooks!Restart, Hooks!Starts, Hooks!TypeOK
    <2>2. UNCHANGED <<created, published, listening, enabled, status>>
      BY <1>8 DEF Hooks!Crash, Hooks!Restart, Hooks!Starts
    <2>3. RoundSound(w)'
      BY <2>1 DEF RoundSound
    <2> QED
      BY <2>1, <2>2, <2>3, WorkerFrame
  <1> QED
    BY <1>1, <1>2, <1>3, <1>4, <1>6, <1>7, <1>8 DEF Hooks!RoundStep

\* What processes do with their claims, and what time and faults do, leaves the
\* outbox alone.
LEMMA DeliveriesKeepOutbox ==
  ASSUME WebhooksInductive,
         \/ \E w \in Workers, x \in Hooks!Deliveries : Hooks!DeliverStep(w, x)
         \/ \E x \in Hooks!Deliveries : Hooks!LeaseExpires(x) \/ Hooks!Age(x)
         \/ \E w \in Workers : Hooks!ChannelLost(w)
  PROVE  OutboxSound'
  <1> USE DEF Hooks!outboxVars, Hooks!endpointVars, Hooks!deliveryVars, Hooks!roundVars
  <1>0. Hooks!TypeOK /\ OutboxSound
    BY DEF WebhooksInductive
  <1>1. ASSUME NEW w \in Workers, NEW x \in Hooks!Deliveries, Hooks!DeliverStep(w, x)
        PROVE  /\ UNCHANGED <<created, published, listening, enabled, phase, todo, targets>>
               /\ \A y \in Hooks!Deliveries : status[y] # "none" => status'[y] # "none"
    BY <1>1 DEF Hooks!DeliverStep, Hooks!Sign, Hooks!Renew, Hooks!Delivered, Hooks!Failed,
       Hooks!FinishClaim, Hooks!Settle
  <1>2. ASSUME NEW x \in Hooks!Deliveries, Hooks!LeaseExpires(x) \/ Hooks!Age(x)
        PROVE  UNCHANGED <<created, published, listening, enabled, phase, todo, targets, status>>
    BY <1>2 DEF Hooks!LeaseExpires, Hooks!Age
  <1>3. ASSUME NEW w \in Workers, Hooks!ChannelLost(w)
        PROVE  UNCHANGED <<created, published, listening, enabled, phase, todo, targets, status>>
    BY <1>3 DEF Hooks!ChannelLost
  <1> QED
    BY <1>0, <1>1, <1>2, <1>3, OutboxFrame

-----------------------------------------------------------------------------
(* The claims.                                                              *)

LEMMA SettledClaims ==
  ASSUME Hooks!TypeOK, NEW xs \in SUBSET Hooks!Deliveries, NEW st \in {"pending", "delivered", "dead"},
         Hooks!Settle(xs, st)
  PROVE  \A x \in Hooks!Deliveries :
           /\ x \notin xs => status'[x] = status[x]
           /\ status'[x] = "processing" => x \notin xs
           /\ \A w \in Workers : Hooks!Fenced(w, x)' => x \notin xs /\ Hooks!Fenced(w, x)
  BY DEF Hooks!Settle, Hooks!Fenced, Hooks!TypeOK

\* A step that finishes deliveries, each of which no change that stays under way
\* matches, and moves no claim but that of a finished delivery.
LEMMA SettleKeepsClaims ==
  ASSUME Hooks!TypeOK, ClaimsSound, OnlyEnds, NEW xs \in SUBSET Hooks!Deliveries,
         NEW st \in {"pending", "delivered", "dead"}, Hooks!Settle(xs, st),
         \A p \in Endpoints : rows'[p] \cap xs = {},
         UNCHANGED <<enabled, secret, racing>>,
         \A w \in Workers : \A x \in Hooks!Deliveries \ xs : claim'[w][x] = claim[w][x] /\ signed'[w][x] = signed[w][x]
  PROVE  ClaimsSound'
  <1>1. \A x \in Hooks!Deliveries :
          /\ x \notin xs => status'[x] = status[x]
          /\ status'[x] = "processing" => x \notin xs
          /\ \A w \in Workers : Hooks!Fenced(w, x)' => x \notin xs /\ Hooks!Fenced(w, x)
    BY SettledClaims
  <1>2. \A x \in Hooks!Deliveries : x[2] \in Endpoints
    BY DEF Hooks!Deliveries
  <1>3. RowsHeld'
    <2>1. ASSUME NEW p \in Endpoints, NEW x \in rows'[p] PROVE x[2] = p /\ status'[x] \in {"pending", "processing"}
      <3>1. x \in rows[p] /\ x \in Hooks!Deliveries /\ x \notin xs
        BY <2>1 DEF OnlyEnds, Hooks!TypeOK
      <3> QED
        BY <1>1, <3>1 DEF ClaimsSound, RowsHeld
    <2> QED BY <2>1 DEF RowsHeld
  <1>4. ASSUME NEW x \in Hooks!Deliveries PROVE DeliverySound(x)'
    <2>1. x[2] \in Endpoints /\ DeliverySound(x)
      BY <1>2 DEF ClaimsSound
    <2> QED
      BY <1>1, <2>1 DEF DeliverySound, OnlyEnds
  <1> QED
    BY <1>3, <1>4 DEF ClaimsSound, Registered

\* A rotation and a disabling that commit: every claim made before their snapshot
\* is matched, so that what is still in progress was claimed behind it.
LEMMA ChangeKeepsClaims ==
  ASSUME WebhooksInductive, NEW p \in Endpoints, Hooks!RotateSecret(p) \/ Hooks!SetEnabled(p, FALSE)
  PROVE  ClaimsSound'
  <1> USE DEF Hooks!outboxVars, Hooks!endpointVars, Hooks!deliveryVars, Hooks!claimVars
  <1>0. Hooks!TypeOK /\ ClaimsSound
    BY DEF WebhooksInductive
  <1>1. PICK st \in {"pending", "dead"} : Hooks!Settle(rows[p], st)
    BY DEF Hooks!RotateSecret, Hooks!SetEnabled
  <1>2. /\ Hooks!Ends({p}) /\ changing[p] # "none"
        /\ UNCHANGED <<claim, signed, racing>>
    BY DEF Hooks!RotateSecret, Hooks!SetEnabled
  <1>3. OnlyEnds /\ changing'[p] = "none" /\ rows'[p] = {}
    BY <1>0, <1>2, EndsOnly
  <1>4. rows[p] \in SUBSET Hooks!Deliveries
    BY <1>0 DEF Hooks!TypeOK
  <1>5. \A x \in Hooks!Deliveries :
          /\ x \notin rows[p] => status'[x] = status[x]
          /\ status'[x] = "processing" => x \notin rows[p]
          /\ \A w \in Workers : Hooks!Fenced(w, x)' => x \notin rows[p] /\ Hooks!Fenced(w, x)
    BY <1>0, <1>1, <1>4, SettledClaims
  <1>6. /\ \A q \in Endpoints \ {p} : secret'[q] = secret[q] /\ (q \in enabled => q \in enabled')
        /\ secret[p] # 0 => secret'[p] # 0
        /\ enabled' \subseteq enabled
    <2>1. CASE Hooks!RotateSecret(p)
      BY <1>0, <2>1 DEF Hooks!RotateSecret, Hooks!TypeOK
    <2>2. CASE Hooks!SetEnabled(p, FALSE)
      BY <1>0, <2>2 DEF Hooks!SetEnabled, Hooks!TypeOK
    <2> QED BY <2>1, <2>2
  <1>7. Registered'
    BY <1>0, <1>6 DEF ClaimsSound, Registered, Hooks!TypeOK
  <1>8. RowsHeld'
    <2>1. ASSUME NEW q \in Endpoints, NEW x \in rows'[q] PROVE x[2] = q /\ status'[x] \in {"pending", "processing"}
      <3>1. q # p /\ x \in rows[q] /\ x \in Hooks!Deliveries
        BY <1>0, <1>3, <2>1 DEF OnlyEnds, Hooks!TypeOK
      <3>2. x \notin rows[p] /\ x[2] = q /\ status[x] \in {"pending", "processing"}
        BY <1>0, <3>1 DEF ClaimsSound, RowsHeld
      <3> QED
        BY <1>5, <3>1, <3>2
    <2> QED BY <2>1 DEF RowsHeld
  <1>9. ASSUME NEW x \in Hooks!Deliveries PROVE DeliverySound(x)'
    <2>1. x[2] \in Endpoints /\ DeliverySound(x)
      BY <1>0 DEF ClaimsSound, Hooks!Deliveries
    <2>2. CASE x[2] = p
      <3>1. x \notin racing => status'[x] # "processing"
        BY <1>2, <1>5, <2>1, <2>2 DEF DeliverySound
      <3>2. \A w \in Workers : Hooks!Fenced(w, x)' => status'[x] = "processing"
        BY DEF Hooks!Fenced
      <3> QED
        BY <1>2, <3>1, <3>2 DEF DeliverySound
    <2>3. CASE x[2] # p
      <3>1. secret'[x[2]] = secret[x[2]] /\ (x[2] \in enabled => x[2] \in enabled')
        BY <1>6, <2>1, <2>3
      <3>2. status'[x] = "processing" => status[x] = "processing"
        BY <1>5
      <3> QED
        BY <1>2, <1>3, <1>5, <2>1, <3>1, <3>2 DEF DeliverySound, OnlyEnds
    <2> QED BY <2>2, <2>3
  <1> QED
    BY <1>7, <1>8, <1>9 DEF ClaimsSound

LEMMA MerchantKeepsClaims ==
  ASSUME WebhooksInductive, Hooks!Merchant
  PROVE  ClaimsSound'
  <1> USE DEF Hooks!outboxVars, Hooks!endpointVars, Hooks!deliveryVars, Hooks!claimVars, Hooks!changeVars
  <1>0. Hooks!TypeOK /\ ClaimsSound
    BY DEF WebhooksInductive
  <1>1. \A x \in Hooks!Deliveries : x[2] \in Endpoints
    BY DEF Hooks!Deliveries
  <1>2. ASSUME NEW e \in Events, Hooks!RecordEvent(e) PROVE ClaimsSound'
    <2>1. OnlyEnds
      BY <1>2 DEF Hooks!RecordEvent, OnlyEnds
    <2> QED
      BY <1>0, <1>2, <2>1, ClaimsFrame DEF Hooks!RecordEvent
  <1>3. ASSUME NEW p \in Endpoints, Hooks!Register(p) PROVE ClaimsSound'
    <2>1. /\ secret[p] = 0 /\ enabled' = enabled \cup {p}
          /\ \A q \in Endpoints : secret'[q] = IF q = p THEN 1 ELSE secret[q]
          /\ UNCHANGED <<status, lease, claim, signed, changing, rows, racing>>
      BY <1>0, <1>3 DEF Hooks!Register, Hooks!TypeOK
    <2>2. Registered'
      BY <1>0, <2>1 DEF ClaimsSound, Registered, Hooks!TypeOK
    <2>3. ASSUME NEW x \in Hooks!Deliveries PROVE DeliverySound(x)'
      <3>1. x \notin racing /\ status[x] = "processing" => secret'[x[2]] = secret[x[2]]
        BY <1>0, <1>1, <2>1 DEF ClaimsSound, DeliverySound, Registered
      <3> QED
        BY <1>0, <2>1, <3>1 DEF ClaimsSound, DeliverySound, Hooks!Fenced
    <2>4. RowsHeld'
      BY <1>0, <2>1 DEF ClaimsSound, RowsHeld
    <2> QED
      BY <2>2, <2>3, <2>4 DEF ClaimsSound
  <1>4. ASSUME NEW p \in Endpoints, Hooks!SetEnabled(p, TRUE) PROVE ClaimsSound'
    <2>1. secret[p] # 0 /\ enabled' = enabled \cup {p} /\ UNCHANGED <<secret, status, lease, claim, signed, racing>>
      BY <1>4 DEF Hooks!SetEnabled
    <2>2. OnlyEnds
      BY <1>0, <1>4, EndsOnly DEF Hooks!SetEnabled
    <2>3. RowsHeld'
      BY <1>0, <2>1, <2>2 DEF ClaimsSound, RowsHeld, OnlyEnds
    <2>4. \A x \in Hooks!Deliveries : DeliverySound(x)'
      BY <1>0, <1>1, <2>1, <2>2 DEF ClaimsSound, DeliverySound, OnlyEnds, Hooks!Fenced
    <2> QED
      BY <1>0, <2>1, <2>3, <2>4 DEF ClaimsSound, Registered
  <1>5. ASSUME NEW x \in Hooks!Deliveries, Hooks!Replay(x) PROVE ClaimsSound'
    <2>1. UNCHANGED <<enabled, secret, claim, signed, racing>> /\ Hooks!Settle({x}, "pending") /\ Hooks!Ends({x[2]})
      BY <1>5 DEF Hooks!Replay
    <2>2. OnlyEnds /\ rows'[x[2]] = {}
      BY <1>0, <1>1, <2>1, EndsOnly
    <2>3. \A p \in Endpoints : rows'[p] \cap {x} = {}
      BY <1>0, <2>2 DEF ClaimsSound, RowsHeld, OnlyEnds
    <2> QED
      BY <1>0, <2>1, <2>2, <2>3, SettleKeepsClaims
  <1>6. ASSUME NEW p \in Endpoints, NEW op \in {"rotate", "disable"}, Hooks!BeginChange(p, op) PROVE ClaimsSound'
    <2>1. /\ UNCHANGED <<enabled, secret, status, lease, claim, signed, racing>>
          /\ \A q \in Endpoints : /\ rows'[q] = IF q = p THEN Hooks!Matched(p, op) ELSE rows[q]
                                  /\ q # p => changing'[q] = changing[q]
      BY <1>0, <1>6 DEF Hooks!BeginChange, Hooks!TypeOK
    <2>2. RowsHeld'
      <3>1. \A x \in Hooks!Matched(p, op) : x[2] = p /\ status[x] \in {"pending", "processing"}
        BY DEF Hooks!Matched
      <3>2. \A x \in rows'[p] : x[2] = p /\ status'[x] \in {"pending", "processing"}
        BY <2>1, <3>1
      <3>3. \A q \in Endpoints \ {p} : \A x \in rows'[q] : x[2] = q /\ status'[x] \in {"pending", "processing"}
        BY <1>0, <2>1 DEF ClaimsSound, RowsHeld
      <3> QED
        BY <3>2, <3>3 DEF RowsHeld
    <2>3. ASSUME NEW x \in Hooks!Deliveries PROVE DeliverySound(x)'
      <3>1. x[2] = p /\ status[x] = "processing" => x \in rows'[p]
        BY <2>1 DEF Hooks!Matched
      <3> QED
        BY <1>0, <1>1, <2>1, <3>1 DEF ClaimsSound, DeliverySound, Hooks!Fenced
    <2> QED
      BY <1>0, <2>1, <2>2, <2>3 DEF ClaimsSound, Registered
  <1>7. ASSUME NEW p \in Endpoints, Hooks!RollBack(p) PROVE ClaimsSound'
    <2>1. OnlyEnds
      BY <1>0, <1>7, EndsOnly DEF Hooks!RollBack
    <2> QED
      BY <1>0, <1>7, <2>1, ClaimsFrame DEF Hooks!RollBack
  <1>8. ASSUME NEW p \in Endpoints, NEW on \in BOOLEAN, Hooks!SetEnabled(p, on) PROVE ClaimsSound'
    BY <1>4, <1>8, ChangeKeepsClaims
  <1> QED
    BY <1>2, <1>3, <1>5, <1>6, <1>7, <1>8, ChangeKeepsClaims DEF Hooks!Merchant

LEMMA RoundKeepsClaims ==
  ASSUME WebhooksInductive, NEW w \in Workers, Hooks!RoundStep(w) \/ Hooks!Crash(w) \/ Hooks!Restart(w)
  PROVE  ClaimsSound'
  <1> USE DEF Hooks!outboxVars, Hooks!endpointVars, Hooks!deliveryVars, Hooks!claimVars, Hooks!changeVars
  <1>0. Hooks!TypeOK /\ ClaimsSound
    BY DEF WebhooksInductive
  <1>1. ASSUME \/ Hooks!StartRound(w) \/ Hooks!ReadEvent(w) \/ Hooks!CreateDeliveries(w) \/ Hooks!PublishEvent(w)
               \/ Hooks!FindCandidates(w) \/ Hooks!StartDelivering(w) \/ Hooks!EndRound(w)
        PROVE  ClaimsSound'
    <2>1. /\ UNCHANGED <<enabled, secret, lease, claim, signed, changing, rows, racing>>
          /\ \A x \in Hooks!Deliveries : status'[x] = status[x] \/ (status[x] = "none" /\ status'[x] = "pending")
      BY <1>1 DEF Hooks!StartRound, Hooks!ReadEvent, Hooks!CreateDeliveries, Hooks!PublishEvent,
         Hooks!FindCandidates, Hooks!StartDelivering, Hooks!EndRound
    <2>2. OnlyEnds
      BY <2>1 DEF OnlyEnds
    <2> QED
      BY <1>0, <2>1, <2>2, ClaimsFrame
  <1>2. ASSUME Hooks!ClaimDelivery(w) PROVE ClaimsSound'
    <2>0. UNCHANGED <<enabled, secret, signed>>
      BY <1>2 DEF Hooks!ClaimDelivery
    <2>1. PICK x \in candidates[w] :
            IF Hooks!Claimable(x)
            THEN /\ status' = [status EXCEPT ![x] = "processing"]
                 /\ lease' = [lease EXCEPT ![x] = w]
                 /\ claim' = [claim EXCEPT ![w][x] = "claimed"]
                 /\ Hooks!Written(x)
                 /\ racing' = IF changing'[x[2]] = "none" THEN racing \ {x} ELSE racing \cup {x}
            ELSE UNCHANGED <<status, lease, live, claim, changing, rows, racing>>
      BY <1>2 DEF Hooks!ClaimDelivery
    <2>2. CASE Hooks!Claimable(x)
      <3>0. x \in Hooks!Deliveries /\ x[2] \in Endpoints
        BY <1>0 DEF Hooks!TypeOK, Hooks!Deliveries
      <3>1. x[2] \in enabled
        BY <2>2 DEF Hooks!Claimable
      <3>2. \A y \in Hooks!Deliveries :
              /\ status'[y] = IF y = x THEN "processing" ELSE status[y]
              /\ lease'[y] = IF y = x THEN w ELSE lease[y]
              /\ y # x => (y \in racing' <=> y \in racing)
        BY <1>0, <2>1, <2>2 DEF Hooks!TypeOK
      <3>3. \A v \in Workers, y \in Hooks!Deliveries :
              claim'[v][y] = IF v = w /\ y = x THEN "claimed" ELSE claim[v][y]
        BY <1>0, <2>1, <2>2 DEF Hooks!TypeOK
      <3>4. OnlyEnds /\ \A p \in Endpoints : x \notin rows'[p]
        BY <1>0, <2>1, <2>2, <3>0, WrittenEnds
      <3>5. RowsHeld'
        <4>1. ASSUME NEW p \in Endpoints, NEW y \in rows'[p] PROVE y[2] = p /\ status'[y] \in {"pending", "processing"}
          <5>1. y \in rows[p] /\ y \in Hooks!Deliveries /\ y # x
            BY <1>0, <3>4, <4>1 DEF OnlyEnds, Hooks!TypeOK
          <5> QED
            BY <1>0, <3>2, <5>1 DEF ClaimsSound, RowsHeld
        <4> QED BY <4>1 DEF RowsHeld
      <3>6. DeliverySound(x)'
        <4>1. \A v \in Workers : claim'[v][x] \in {"signed", "posting"} => ~ Hooks!Fenced(v, x)'
          BY <3>0, <3>2, <3>3 DEF Hooks!Fenced
        <4>2. x \notin racing' => changing'[x[2]] = "none"
          BY <2>1, <2>2
        <4> QED
          BY <2>0, <3>1, <4>1, <4>2 DEF DeliverySound
      <3>7. ASSUME NEW y \in Hooks!Deliveries, y # x PROVE DeliverySound(y)'
        <4>1. DeliverySound(y) /\ y[2] \in Endpoints
          BY <1>0 DEF ClaimsSound, Hooks!Deliveries
        <4> QED
          BY <2>0, <3>2, <3>3, <3>4, <3>7, <4>1 DEF DeliverySound, OnlyEnds, Hooks!Fenced
      <3> QED
        BY <1>0, <2>0, <3>5, <3>6, <3>7 DEF ClaimsSound, Registered
    <2>3. CASE ~ Hooks!Claimable(x)
      <3>1. UNCHANGED <<status, lease, claim, changing, rows, racing>>
        BY <2>1, <2>3
      <3>2. OnlyEnds
        BY <3>1 DEF OnlyEnds
      <3> QED
        BY <1>0, <2>0, <3>1, <3>2, ClaimsFrame
    <2> QED BY <2>2, <2>3
  <1>3. ASSUME Hooks!Crash(w) \/ Hooks!Restart(w) PROVE ClaimsSound'
    <2>1. /\ UNCHANGED <<enabled, secret, status, lease, changing, rows, racing>>
          /\ \A v \in Workers, y \in Hooks!Deliveries :
               /\ claim'[v][y] = IF v = w THEN "none" ELSE claim[v][y]
               /\ v # w => signed'[v][y] = signed[v][y]
      BY <1>0, <1>3 DEF Hooks!Crash, Hooks!Restart, Hooks!Starts, Hooks!TypeOK
    <2> QED
      BY <1>0, <2>1 DEF ClaimsSound, Registered, RowsHeld, DeliverySound, Hooks!Fenced
  <1> QED
    BY <1>1, <1>2, <1>3 DEF Hooks!RoundStep

LEMMA DeliveriesKeepClaims ==
  ASSUME WebhooksInductive,
         \/ \E w \in Workers, x \in Hooks!Deliveries : Hooks!DeliverStep(w, x)
         \/ \E x \in Hooks!Deliveries : Hooks!LeaseExpires(x) \/ Hooks!Age(x)
         \/ \E w \in Workers : Hooks!ChannelLost(w)
  PROVE  ClaimsSound'
  <1> USE DEF Hooks!outboxVars, Hooks!endpointVars, Hooks!deliveryVars, Hooks!claimVars, Hooks!changeVars
  <1>0. Hooks!TypeOK /\ ClaimsSound
    BY DEF WebhooksInductive
  <1>1. ASSUME NEW w \in Workers, NEW x \in Hooks!Deliveries, NEW st \in {"pending", "delivered", "dead"},
               Hooks!FinishClaim(w, x, st)
        PROVE  ClaimsSound'
    <2>1. /\ UNCHANGED <<enabled, secret, racing>>
          /\ \A v \in Workers, y \in Hooks!Deliveries :
               /\ claim'[v][y] = IF v = w /\ y = x THEN "none" ELSE claim[v][y]
               /\ v # w \/ y # x => signed'[v][y] = signed[v][y]
      BY <1>0, <1>1 DEF Hooks!FinishClaim, Hooks!TypeOK
    <2>2. CASE Hooks!Fenced(w, x)
      <3>1. Hooks!Settle({x}, st) /\ Hooks!Written(x)
        BY <1>1, <2>2 DEF Hooks!FinishClaim
      <3>2. OnlyEnds /\ \A p \in Endpoints : x \notin rows'[p]
        BY <1>0, <3>1, WrittenEnds
      <3>3. \A y \in Hooks!Deliveries :
              /\ y # x => status'[y] = status[y]
              /\ status'[y] = "processing" => y # x
              /\ \A v \in Workers : Hooks!Fenced(v, y)' => y # x /\ Hooks!Fenced(v, y)
        BY <1>0, <3>1, SettledClaims
      <3>4. RowsHeld'
        <4>1. ASSUME NEW p \in Endpoints, NEW y \in rows'[p] PROVE y[2] = p /\ status'[y] \in {"pending", "processing"}
          <5>1. y \in rows[p] /\ y \in Hooks!Deliveries /\ y # x
            BY <1>0, <3>2, <4>1 DEF OnlyEnds, Hooks!TypeOK
          <5> QED
            BY <1>0, <3>3, <5>1 DEF ClaimsSound, RowsHeld
        <4> QED BY <4>1 DEF RowsHeld
      <3>5. ASSUME NEW y \in Hooks!Deliveries PROVE DeliverySound(y)'
        <4>1. DeliverySound(y) /\ y[2] \in Endpoints
          BY <1>0 DEF ClaimsSound, Hooks!Deliveries
        <4> QED
          BY <2>1, <3>2, <3>3, <4>1 DEF DeliverySound, OnlyEnds
      <3> QED
        BY <1>0, <2>1, <3>4, <3>5 DEF ClaimsSound, Registered
    <2>3. CASE ~ Hooks!Fenced(w, x)
      <3>1. UNCHANGED <<status, lease, changing, rows>>
        BY <1>1, <2>3 DEF Hooks!FinishClaim
      <3>2. \A v \in Workers, y \in Hooks!Deliveries :
              claim'[v][y] \in {"signed", "posting"} => claim'[v][y] = claim[v][y] /\ signed'[v][y] = signed[v][y]
        BY <2>1
      <3> QED
        BY <1>0, <2>1, <3>1, <3>2 DEF ClaimsSound, Registered, RowsHeld, DeliverySound, Hooks!Fenced
    <2> QED BY <2>2, <2>3
  <1>2. ASSUME NEW w \in Workers, NEW x \in Hooks!Deliveries, Hooks!Sign(w, x) PROVE ClaimsSound'
    <2>1. CASE Hooks!FinishClaim(w, x, "dead")
      BY <1>1, <2>1
    <2>2. CASE ~ Hooks!FinishClaim(w, x, "dead")
      <3>1. /\ UNCHANGED <<enabled, secret, status, lease, changing, rows, racing>>
            /\ \A v \in Workers, y \in Hooks!Deliveries :
                 IF v = w /\ y = x THEN signed'[v][y] = secret[x[2]]
                 ELSE signed'[v][y] = signed[v][y] /\ claim'[v][y] = claim[v][y]
        BY <1>0, <1>2, <2>2 DEF Hooks!Sign, Hooks!TypeOK
      <3> QED
        BY <1>0, <3>1 DEF ClaimsSound, Registered, RowsHeld, DeliverySound, Hooks!Fenced
    <2> QED BY <2>1, <2>2
  <1>3. ASSUME NEW w \in Workers, NEW x \in Hooks!Deliveries, Hooks!Renew(w, x) PROVE ClaimsSound'
    <2>1. /\ UNCHANGED <<enabled, secret, status, lease, racing>> /\ claim[w][x] = "signed"
          /\ \A v \in Workers, y \in Hooks!Deliveries :
               \/ signed'[v][y] = signed[v][y] /\ claim'[v][y] = claim[v][y]
               \/ v = w /\ y = x /\ signed'[v][y] = signed[v][y]
               \/ claim'[v][y] = "none"
      BY <1>0, <1>3 DEF Hooks!Renew, Hooks!TypeOK
    <2>2. OnlyEnds
      <3>1. CASE Hooks!Fenced(w, x)
        BY <1>0, <1>3, <3>1, WrittenEnds DEF Hooks!Renew
      <3>2. CASE ~ Hooks!Fenced(w, x)
        BY <1>3, <3>2 DEF Hooks!Renew, OnlyEnds
      <3> QED BY <3>1, <3>2
    <2>3. RowsHeld'
      BY <1>0, <2>1, <2>2 DEF ClaimsSound, RowsHeld, OnlyEnds
    <2>4. ASSUME NEW y \in Hooks!Deliveries PROVE DeliverySound(y)'
      <3>1. DeliverySound(y) /\ y[2] \in Endpoints
        BY <1>0 DEF ClaimsSound, Hooks!Deliveries
      <3> QED
        BY <2>1, <2>2, <3>1 DEF DeliverySound, OnlyEnds, Hooks!Fenced
    <2> QED
      BY <1>0, <2>1, <2>3, <2>4 DEF ClaimsSound, Registered
  <1>4. ASSUME NEW w \in Workers, NEW x \in Hooks!Deliveries, Hooks!Delivered(w, x) \/ Hooks!Failed(w, x)
        PROVE  ClaimsSound'
    BY <1>1, <1>4 DEF Hooks!Delivered, Hooks!Failed
  <1>5. ASSUME \/ \E x \in Hooks!Deliveries : Hooks!LeaseExpires(x) \/ Hooks!Age(x)
               \/ \E w \in Workers : Hooks!ChannelLost(w)
        PROVE  ClaimsSound'
    <2>1. UNCHANGED <<enabled, secret, status, lease, claim, signed, changing, rows, racing>>
      BY <1>5 DEF Hooks!LeaseExpires, Hooks!Age, Hooks!ChannelLost
    <2>2. OnlyEnds
      BY <2>1 DEF OnlyEnds
    <2> QED
      BY <1>0, <2>1, <2>2, ClaimsFrame
  <1> QED
    BY <1>2, <1>3, <1>4, <1>5 DEF Hooks!DeliverStep

-----------------------------------------------------------------------------
(* The theorems.                                                            *)

LEMMA WebhooksStep ==
  ASSUME WebhooksInductive, Hooks!Next
  PROVE  WebhooksInductive'
  <1>0. Hooks!TypeOK
    BY DEF WebhooksInductive
  <1>1. ASSUME Hooks!Merchant PROVE WebhooksInductive'
    BY <1>0, <1>1, MerchantTyped, MerchantKeepsOutbox, MerchantKeepsClaims DEF WebhooksInductive
  <1>2. ASSUME NEW w \in Workers, Hooks!RoundStep(w) \/ Hooks!Crash(w) \/ Hooks!Restart(w) PROVE WebhooksInductive'
    BY <1>2, RoundTyped, RoundKeepsOutbox, RoundKeepsClaims DEF WebhooksInductive
  <1>3. ASSUME NEW w \in Workers, NEW x \in Hooks!Deliveries, Hooks!DeliverStep(w, x) PROVE WebhooksInductive'
    BY <1>0, <1>3, DeliverTyped, DeliveriesKeepOutbox, DeliveriesKeepClaims DEF WebhooksInductive
  <1>4. ASSUME NEW x \in Hooks!Deliveries, Hooks!LeaseExpires(x) \/ Hooks!Age(x) PROVE WebhooksInductive'
    BY <1>0, <1>4, TimeTyped, DeliveriesKeepOutbox, DeliveriesKeepClaims DEF WebhooksInductive
  <1>5. ASSUME NEW w \in Workers, Hooks!ChannelLost(w) PROVE WebhooksInductive'
    BY <1>0, <1>5, TimeTyped, DeliveriesKeepOutbox, DeliveriesKeepClaims DEF WebhooksInductive
  <1> QED
    BY <1>1, <1>2, <1>3, <1>4, <1>5 DEF Hooks!Next

LEMMA WebhooksRest ==
  ASSUME WebhooksInductive, UNCHANGED Hooks!vars
  PROVE  WebhooksInductive'
  <1>1. UNCHANGED <<created, published, listening, enabled, secret, status, lease, live, aged, replayed,
                    phase, todo, targets, candidates, claim, signed, changing, rows, racing, connected, faults>>
    BY DEF Hooks!vars, Hooks!outboxVars, Hooks!endpointVars, Hooks!deliveryVars, Hooks!roundVars,
       Hooks!claimVars, Hooks!changeVars, Hooks!faultVars
  <1>2. Hooks!TypeOK'
    BY <1>1 DEF WebhooksInductive, Hooks!TypeOK
  <1>3. OutboxSound'
    BY <1>1 DEF WebhooksInductive, OutboxSound, Hooks!OutboxComplete, EventSound, RoundSound
  <1>4. ClaimsSound'
    BY <1>1 DEF WebhooksInductive, ClaimsSound, Registered, RowsHeld, DeliverySound, Hooks!Fenced
  <1> QED
    BY <1>2, <1>3, <1>4 DEF WebhooksInductive

\* The only step that records a delivery as delivered is the answer of the claim
\* that holds it, and only the merchant's replay touches a finished one.
LEMMA ClaimsFenceAnswers ==
  ASSUME WebhooksInductive, Hooks!Next
  PROVE  Hooks!RecordedByClaim /\ Hooks!ReopenedByReplay
  <1> USE DEF Hooks!RecordedByClaim, Hooks!ReopenedByReplay, Hooks!Done, Hooks!deliveryVars
  <1>0. Hooks!TypeOK /\ ClaimsSound
    BY DEF WebhooksInductive
  <1>1. ASSUME UNCHANGED status PROVE Hooks!RecordedByClaim /\ Hooks!ReopenedByReplay
    BY <1>1
  <1>2. ASSUME Hooks!Merchant PROVE Hooks!RecordedByClaim /\ Hooks!ReopenedByReplay
    <2>1. ASSUME NEW e \in Events, Hooks!RecordEvent(e) PROVE UNCHANGED status
      BY <2>1 DEF Hooks!RecordEvent
    <2>2. ASSUME NEW p \in Endpoints, Hooks!Register(p) PROVE UNCHANGED status
      BY <2>2 DEF Hooks!Register
    <2>3. ASSUME NEW p \in Endpoints, Hooks!RotateSecret(p) PROVE Hooks!RecordedByClaim /\ Hooks!ReopenedByReplay
      BY <1>0, <2>3 DEF Hooks!RotateSecret, Hooks!Settle, ClaimsSound, RowsHeld
    <2>4. ASSUME NEW p \in Endpoints, NEW on \in BOOLEAN, Hooks!SetEnabled(p, on)
          PROVE  Hooks!RecordedByClaim /\ Hooks!ReopenedByReplay
      BY <1>0, <2>4 DEF Hooks!SetEnabled, Hooks!Settle, ClaimsSound, RowsHeld
    <2>5. ASSUME NEW x \in Hooks!Deliveries, Hooks!Replay(x) PROVE Hooks!RecordedByClaim /\ Hooks!ReopenedByReplay
      BY <2>5 DEF Hooks!Replay, Hooks!Settle, Hooks!Replayable
    <2>6. ASSUME NEW p \in Endpoints, Hooks!RollBack(p) \/ \E op \in {"rotate", "disable"} : Hooks!BeginChange(p, op)
          PROVE  UNCHANGED status
      BY <2>6 DEF Hooks!RollBack, Hooks!BeginChange
    <2> QED
      BY <1>1, <1>2, <2>1, <2>2, <2>3, <2>4, <2>5, <2>6 DEF Hooks!Merchant
  <1>3. ASSUME NEW w \in Workers, Hooks!RoundStep(w) \/ Hooks!Crash(w) \/ Hooks!Restart(w) PROVE Hooks!RecordedByClaim /\ Hooks!ReopenedByReplay
    <2>1. ASSUME Hooks!CreateDeliveries(w) PROVE Hooks!RecordedByClaim /\ Hooks!ReopenedByReplay
      BY <2>1 DEF Hooks!CreateDeliveries
    <2>2. ASSUME Hooks!ClaimDelivery(w) PROVE Hooks!RecordedByClaim /\ Hooks!ReopenedByReplay
      BY <1>0, <2>2 DEF Hooks!ClaimDelivery, Hooks!Claimable, Hooks!TypeOK
    <2>3. ASSUME \/ Hooks!StartRound(w) \/ Hooks!ReadEvent(w) \/ Hooks!PublishEvent(w) \/ Hooks!FindCandidates(w)
                 \/ Hooks!StartDelivering(w) \/ Hooks!EndRound(w) \/ Hooks!Crash(w) \/ Hooks!Restart(w)
          PROVE  UNCHANGED status
      BY <2>3 DEF Hooks!StartRound, Hooks!ReadEvent, Hooks!PublishEvent, Hooks!FindCandidates,
         Hooks!StartDelivering, Hooks!EndRound, Hooks!Crash, Hooks!Restart, Hooks!Starts
    <2> QED
      BY <1>1, <1>3, <2>1, <2>2, <2>3 DEF Hooks!RoundStep
  <1>4. ASSUME NEW w \in Workers, NEW x \in Hooks!Deliveries, Hooks!DeliverStep(w, x)
        PROVE  Hooks!RecordedByClaim /\ Hooks!ReopenedByReplay
    <2>1. ASSUME NEW st \in {"pending", "dead"}, Hooks!FinishClaim(w, x, st)
          PROVE  Hooks!RecordedByClaim /\ Hooks!ReopenedByReplay
      BY <2>1 DEF Hooks!FinishClaim, Hooks!Settle, Hooks!Fenced
    <2>2. ASSUME Hooks!Delivered(w, x) PROVE Hooks!RecordedByClaim /\ Hooks!ReopenedByReplay
      <3>1. CASE Hooks!Fenced(w, x)
        <4>1. /\ lease[x] = w /\ status[x] = "processing"
              /\ x \in racing \/ (x[2] \in enabled /\ signed[w][x] = secret[x[2]])
          BY <1>0, <2>2, <3>1 DEF Hooks!Delivered, Hooks!Fenced, ClaimsSound, DeliverySound
        <4>2. \A y \in Hooks!Deliveries : status'[y] = IF y = x THEN "delivered" ELSE status[y]
          BY <2>2, <3>1 DEF Hooks!Delivered, Hooks!FinishClaim, Hooks!Settle
        <4> QED
          BY <4>1, <4>2
      <3>2. CASE ~ Hooks!Fenced(w, x)
        BY <1>1, <2>2, <3>2 DEF Hooks!Delivered, Hooks!FinishClaim
      <3> QED BY <3>1, <3>2
    <2>3. ASSUME Hooks!Renew(w, x) PROVE UNCHANGED status
      BY <2>3 DEF Hooks!Renew
    <2>4. ASSUME Hooks!Sign(w, x) PROVE Hooks!RecordedByClaim /\ Hooks!ReopenedByReplay
      BY <1>1, <2>1, <2>4 DEF Hooks!Sign
    <2>5. ASSUME Hooks!Failed(w, x) PROVE Hooks!RecordedByClaim /\ Hooks!ReopenedByReplay
      BY <2>1, <2>5 DEF Hooks!Failed
    <2> QED
      BY <1>1, <1>4, <2>2, <2>3, <2>4, <2>5 DEF Hooks!DeliverStep
  <1>5. ASSUME \/ \E x \in Hooks!Deliveries : Hooks!LeaseExpires(x) \/ Hooks!Age(x)
               \/ \E w \in Workers : Hooks!ChannelLost(w)
        PROVE  UNCHANGED status
    BY <1>5 DEF Hooks!LeaseExpires, Hooks!Age, Hooks!ChannelLost
  <1> QED
    BY <1>1, <1>2, <1>3, <1>4, <1>5 DEF Hooks!Next

LEMMA ApiStep ==
  ASSUME RequestsInductive, WebhooksInductive, [ApiNext]_allVars
  PROVE  /\ RequestsInductive' /\ WebhooksInductive'
         /\ Hooks!Next \/ UNCHANGED Hooks!vars
  <1>1. CASE Next /\ UNCHANGED webhookVars
    <2>1. UNCHANGED Hooks!vars
      BY <1>1 DEF webhookVars, Hooks!vars, Hooks!outboxVars, Hooks!endpointVars, Hooks!deliveryVars,
         Hooks!roundVars, Hooks!claimVars, Hooks!changeVars, Hooks!faultVars
    <2> QED
      BY <1>1, <2>1, RequestsStep, WebhooksRest
  <1>2. CASE Hooks!Next /\ UNCHANGED vars
    BY <1>2, RequestsRest, WebhooksStep
  <1>3. CASE UNCHANGED allVars
    <2>1. UNCHANGED vars /\ UNCHANGED Hooks!vars
      BY <1>3 DEF allVars, webhookVars, Hooks!vars, Hooks!outboxVars, Hooks!endpointVars, Hooks!deliveryVars,
         Hooks!roundVars, Hooks!claimVars, Hooks!changeVars, Hooks!faultVars
    <2> QED
      BY <2>1, RequestsRest, WebhooksRest
  <1> QED
    BY <1>1, <1>2, <1>3 DEF ApiNext

LEMMA ApiInitially ==
  ApiInit => RequestsInductive /\ WebhooksInductive
  BY RequestsInitially, WebhooksInitially DEF ApiInit

\* Everything on file about idempotent requests leads to one effect; and no event
\* is lost to an endpoint that was enabled all the time from the event's creation
\* to its publication, whatever crashes, lost channels and concurrent rounds came in
\* between (idempotency.service.ts execute, webhooks.service.ts publishOutbox).
THEOREM NothingEverLost == ApiSpec => []NothingLost
  <1> DEFINE Inv == RequestsInductive /\ WebhooksInductive
  <1>1. ApiInit => Inv
    BY ApiInitially
  <1>2. Inv /\ [ApiNext]_allVars => Inv'
    BY ApiStep
  <1>3. Inv => NothingLost
    BY RequestsImplyAgreement DEF NothingLost, RequestsInductive, WebhooksInductive, OutboxSound
  <1> QED
    BY <1>1, <1>2, <1>3, PTL DEF ApiSpec

\* A delivery is recorded as delivered only by the claim that holds it; unless the
\* claim was made while a rotation or a disabling of the endpoint was under way that
\* does not match it, the endpoint is enabled and the request signed by the secret it
\* still has; and a finished delivery is reopened by the merchant's replay and by
\* nothing else: not by the late answer of a worker that lost its claim
\* (webhooks.service.ts rotateSecret, setEnabled, deliver).
THEOREM ClaimsAlwaysFenced == ApiSpec => ClaimsFenced
  <1> DEFINE Inv == RequestsInductive /\ WebhooksInductive
  <1>1. ApiInit => Inv
    BY ApiInitially
  <1>2. Inv /\ [ApiNext]_allVars => Inv'
    BY ApiStep
  <1>3. Inv /\ [ApiNext]_allVars => (Hooks!RecordedByClaim /\ Hooks!ReopenedByReplay) \/ UNCHANGED Hooks!vars
    BY ApiStep, ClaimsFenceAnswers
  <1>4. Inv /\ [ApiNext]_allVars => [Hooks!RecordedByClaim]_(Hooks!vars)
    BY <1>3
  <1>5. Inv /\ [ApiNext]_allVars => [Hooks!ReopenedByReplay]_(Hooks!vars)
    BY <1>3
  <1> QED
    BY <1>1, <1>2, <1>4, <1>5, PTL
    DEF ApiSpec, ClaimsFenced, Hooks!ClaimsFenced, Hooks!DeliveredFresh, Hooks!FinishedOnlyReplayed

\* The same of the dispatcher by itself, without the run's bound on when the other
\* merchant's events appear.
THEOREM DispatcherSound == Hooks!Spec => [](Hooks!TypeOK /\ Hooks!OutboxComplete)
  <1>1. WebhooksInductive /\ [Hooks!Next]_(Hooks!vars) => WebhooksInductive'
    BY WebhooksStep, WebhooksRest
  <1>2. WebhooksInductive => Hooks!TypeOK /\ Hooks!OutboxComplete
    BY DEF WebhooksInductive, OutboxSound
  <1> QED
    BY <1>1, <1>2, WebhooksInitially, PTL DEF Hooks!Spec
=============================================================================
