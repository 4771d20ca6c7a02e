----------------------------- MODULE Idempotency -----------------------------
(***************************************************************************)
(* IdempotencyService.execute, the transaction around every merchant       *)
(* operation that creates something.  It locks the request's identities    *)
(* (idempotency key and reference) one after the other, looks for a record *)
(* of either, and replays it or runs the operation and files its result.   *)
(*                                                                         *)
(* The transaction is serializable, so PostgreSQL freezes its snapshot at  *)
(* the first statement, which is the request for the first lock: a record  *)
(* committed while it waits is not visible to it, and the write of a       *)
(* second record for the identity then fails.                              *)
(***************************************************************************)
EXTENDS Integers, FiniteSets, FiniteSetsExt

CONSTANTS
  Requests,   \* calls of merchant operations
  KeyOf,      \* the identity (operation, key) of each, a number in lock order
  RefOf,      \* the identity (reference operation, reference), or NoIdentity
  HashOf,     \* the hash of its payload
  NoIdentity,
  NoRecord,
  NoOne

recordIdentities == [r \in Requests |-> {KeyOf[r], RefOf[r]} \ {NoIdentity}]
Identities == UNION {recordIdentities[r] : r \in Requests}
Records == [hash : {HashOf[r] : r \in Requests}, result : Requests, createdAt : Nat]
Refusals == {"conflict", "unique_conflict", "failed"}

\* The reference is a field of the payload, and keys cannot carry the prefix
\* reserved for references.  A request is told apart from a refusal, a record
\* from the absence of one.
ASSUME IdempotencyAssumption ==
  /\ Identities \subseteq Nat
  /\ \A q, r \in Requests : HashOf[q] = HashOf[r] => RefOf[q] = RefOf[r]
  /\ \A q, r \in Requests : KeyOf[q] # RefOf[r]
  /\ Requests \cap (Refusals \cup {NoOne, "none"}) = {}
  /\ NoRecord \notin Records

VARIABLES
  step,      \* how far the request's transaction is
  held,      \* the request that holds the advisory lock of an identity
  snapshot,  \* the IdempotencyRecord rows the transaction can see
  records,   \* IdempotencyRecord: payload hash, the request whose result it holds, age
  commits,   \* number of transactions committed (createdAt)
  answer     \* what the merchant got: a request's result, or a refusal

vars == <<step, held, snapshot, records, commits, answer>>

TypeOK ==
  /\ step \in [Requests -> {"idle", "locking", "done"}]
  /\ held \in [Identities -> Requests \cup {NoOne}]
  /\ records \in [Identities -> Records \cup {NoRecord}]
  /\ snapshot \in [Requests -> [Identities -> Records \cup {NoRecord}]]
  /\ commits \in Nat
  /\ answer \in [Requests -> Requests \cup Refusals \cup {"none"}]

Init ==
  /\ step = [r \in Requests |-> "idle"]
  /\ held = [i \in Identities |-> NoOne]
  /\ records = [i \in Identities |-> NoRecord]
  /\ snapshot = [r \in Requests |-> [i \in Identities |-> NoRecord]]
  /\ commits = 0
  /\ answer = [r \in Requests |-> "none"]

-----------------------------------------------------------------------------
Missing(r) == {i \in recordIdentities[r] : held[i] # r}
Locked(r) == step[r] = "locking" /\ Missing(r) = {}

\* Locks are taken in the order of the identities.
NextLock(r) == Min(Missing(r))

\* The first statement of the transaction.
Begin(r) ==
  /\ step[r] = "idle"
  /\ step' = [step EXCEPT ![r] = "locking"]
  /\ snapshot' = [snapshot EXCEPT ![r] = records]
  /\ UNCHANGED <<held, records, commits, answer>>

Lock(r) ==
  /\ step[r] = "locking"
  /\ Missing(r) # {}
  /\ held[NextLock(r)] = NoOne
  /\ held' = [held EXCEPT ![NextLock(r)] = r]
  /\ UNCHANGED <<step, snapshot, records, commits, answer>>

\* Commit and rollback both release the transaction's advisory locks.
Released(r) == [i \in Identities |-> IF held[i] = r THEN NoOne ELSE held[i]]

\* The oldest visible record of either identity.
Existing(r) ==
  LET found == {snapshot[r][i] : i \in recordIdentities[r]} \ {NoRecord}
  IN {x \in found : \A y \in found : x.createdAt <= y.createdAt}

\* What a replay answers with.
responseBody(x) == x.result

\* A row for one of these identities was committed after the snapshot: the
\* unique constraint (or serialization) rejects the transaction.
Overtaken(ids) == \E i \in ids : records[i] # NoRecord

StoredFor_KeyOnly(r) == {KeyOf[r]}
\* The identities a new result is filed under.
StoredFor(r) == recordIdentities[r]

\* The replay adds the identities that have no visible record yet.
AddedFor(r) == {i \in recordIdentities[r] : snapshot[r][i] = NoRecord}

Finish(r, a) ==
  /\ step' = [step EXCEPT ![r] = "done"]
  /\ held' = Released(r)
  /\ answer' = [answer EXCEPT ![r] = a]
  /\ UNCHANGED snapshot

File(ids, x) ==
  /\ records' = [i \in Identities |-> IF i \in ids THEN x ELSE records[i]]
  /\ commits' = commits + 1

Execute(r) ==
  /\ Locked(r) /\ Existing(r) = {}
  /\ ~Overtaken(StoredFor(r))
  /\ File(StoredFor(r), [hash |-> HashOf[r], result |-> r, createdAt |-> commits + 1])
  /\ Finish(r, r)

Replay(r) ==
  /\ Locked(r)
  /\ \E x \in Existing(r) :
       /\ x.hash = HashOf[r]
       /\ ~Overtaken(AddedFor(r))
       /\ File(AddedFor(r), [x EXCEPT !.createdAt = commits + 1])
       /\ Finish(r, responseBody(x))

Mismatch(r) ==
  /\ Locked(r)
  /\ \E x \in Existing(r) : x.hash # HashOf[r]
  /\ Finish(r, "conflict")
  /\ UNCHANGED <<records, commits>>

UniqueConflict(r) ==
  /\ Locked(r)
  /\ \/ Existing(r) = {} /\ Overtaken(StoredFor(r))
     \/ \E x \in Existing(r) : x.hash = HashOf[r] /\ Overtaken(AddedFor(r))
  /\ Finish(r, "unique_conflict")
  /\ UNCHANGED <<records, commits>>

\* The operation throws, the 15 s timeout passes or the process dies: rollback.
Rollback(r) ==
  /\ step[r] = "locking"
  /\ Finish(r, "failed")
  /\ UNCHANGED <<records, commits>>

Proceed(r) == Lock(r) \/ Execute(r) \/ Replay(r) \/ Mismatch(r) \/ UniqueConflict(r)

Next == \E r \in Requests : Begin(r) \/ Proceed(r) \/ Rollback(r)

\* A transaction that can take its next statement does; a merchant's calls and
\* failures are not forced.
Fairness == \A r \in Requests : WF_vars(Proceed(r))

Spec == Init /\ [][Next]_vars /\ Fairness

-----------------------------------------------------------------------------
\* The transaction implements OnceOnly: at most one effect per key and per
\* reference, and repeats get the original's result, in every interleaving of
\* lock waits, commits and rollbacks.
Promise == INSTANCE OnceOnly WITH identities <- recordIdentities
ImplementsOnceOnly == Promise!Spec

\* Everything on file leads to one effect: the records of an identity name a
\* request that really took effect and whose payload they carry, and all answers
\* under one identity with one payload are the same.
AnswersAgree ==
  /\ \A i \in Identities :
       records[i] # NoRecord =>
         /\ answer[records[i].result] = records[i].result
         /\ HashOf[records[i].result] = records[i].hash
  /\ \A q, r \in Requests :
       /\ answer[q] \in Requests /\ answer[r] \in Requests
       /\ recordIdentities[q] \cap recordIdentities[r] # {}
       /\ HashOf[q] = HashOf[r]
       => answer[q] = answer[r]

\* No request waits for a lock for ever: the locks are taken in one order and
\* every way out of the transaction releases them.
RequestsAnswered == []<>(\A r \in Requests : step[r] \in {"idle", "done"})

\* "Repeating the same payload returns the original resource."
\* (docs/en/api-integration.md:181)
RepeatReturnsOriginal ==
  \A q, r \in Requests :
    answer[q] = q /\ KeyOf[q] = KeyOf[r] /\ HashOf[q] = HashOf[r] => answer[r] # "unique_conflict"
=============================================================================
