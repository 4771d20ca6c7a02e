------------------------------- MODULE OnceOnly -------------------------------
(***************************************************************************)
(* What the idempotency service promises to merchants: an operation takes  *)
(* effect at most once per idempotency key and per reference, and a repeat *)
(* with the same payload is answered with the effect of the first request. *)
(* The only state is what each request was answered: a request that took   *)
(* effect is answered by itself, a repeat by the request it repeats.       *)
(***************************************************************************)
CONSTANTS
  Requests,
  identities,   \* the key and the reference a request is filed under
  HashOf        \* the hash of its payload

VARIABLE answer

Refusals == {"conflict", "unique_conflict", "failed"}

Succeeded(r) == answer[r] \in Requests
Shares(q, r) == identities[q] \cap identities[r] # {}

\* The operation takes effect: nothing filed under its key or reference has.
Apply(r) ==
  /\ answer[r] = "none"
  /\ \A q \in Requests : Shares(q, r) => ~Succeeded(q)
  /\ answer' = [answer EXCEPT ![r] = r]

\* A repeat is answered with the original's result and changes nothing else.
Repeat(r) ==
  /\ answer[r] = "none"
  /\ \E q \in Requests :
       /\ Succeeded(q) /\ Shares(q, r) /\ HashOf[q] = HashOf[r]
       /\ answer' = [answer EXCEPT ![r] = answer[q]]

\* A refused request has no effect.
Refuse(r) ==
  /\ answer[r] = "none"
  /\ \E a \in Refusals : answer' = [answer EXCEPT ![r] = a]

Init == answer = [r \in Requests |-> "none"]

Next == \E r \in Requests : Apply(r) \/ Repeat(r) \/ Refuse(r)

Spec == Init /\ [][Next]_answer
=============================================================================
