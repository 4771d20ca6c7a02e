------------------------------- MODULE Alerts -------------------------------
(***************************************************************************)
(* The alert engine: incidents deduplicated by type and redacted metadata, *)
(* their staff lifecycle, and the Telegram deliveries that several workers *)
(* claim under a lease.                                                    *)
(*                                                                         *)
(* A worker is one dispatchPending in flight (the minute's cron of each    *)
(* process, or the dispatch that notify starts).  Time is abstract: leases *)
(* expire, retries fall due and deliveries grow older than a day when they *)
(* like.  A claim's random lease token is its attempt number, which no     *)
(* other claim of the delivery has.                                        *)
(***************************************************************************)
EXTENDS Naturals, FiniteSets

CONSTANTS
  Keys,        \* dedupe keys
  MaxAlerts,   \* bound on incidents raised
  Workers,
  MaxAttempts  \* bound on attempts of a delivery; the last one succeeds

ASSUME AlertsAssumption == MaxAlerts \in Nat /\ MaxAttempts \in Nat \ {0} /\ IsFiniteSet(Workers)

Alerts == 1..MaxAlerts
Idle == [phase |-> "idle", alert |-> 0, token |-> 0]

VARIABLES
  alert,     \* OperationalAlert: key and status, "none" before it is raised
  delivery,  \* AlertDelivery: status, attempt, lease token (0: none), lease expired, retry due
  listed,    \* the candidates a worker has listed and not yet tried to claim
  worker,    \* what a worker is doing, with which token
  old,       \* deliveries created more than 24 hours ago
  sent,      \* messages Telegram accepted, by alert
  faults     \* crashes, expired leases and lost answers, by alert

vars == <<alert, delivery, listed, worker, old, sent, faults>>

TypeOK ==
  /\ alert \in [Alerts -> [key : Keys, status : {"none", "open", "acknowledged", "resolved"}]]
  /\ delivery \in [Alerts -> [status : {"none", "pending", "processing", "failed", "delivered"}, attempt : 0..MaxAttempts,
                              token : 0..MaxAttempts, expired : BOOLEAN, due : BOOLEAN]]
  /\ listed \in [Workers -> SUBSET Alerts]
  /\ worker \in [Workers -> [phase : {"idle", "claimed", "sending", "ok", "error"}, alert : 0..MaxAlerts, token : 0..MaxAttempts]]
  /\ old \subseteq Alerts
  /\ sent \in [Alerts -> Nat] /\ faults \in [Alerts -> Nat]

Init ==
  /\ alert \in [Alerts -> [key : Keys, status : {"none"}]]
  /\ delivery = [a \in Alerts |-> [status |-> "none", attempt |-> 0, token |-> 0, expired |-> FALSE, due |-> FALSE]]
  /\ listed = [w \in Workers |-> {}]
  /\ worker = [w \in Workers |-> Idle]
  /\ old = {}
  /\ sent = [a \in Alerts |-> 0] /\ faults = [a \in Alerts |-> 0]

-----------------------------------------------------------------------------
(* Incidents *)

Active(a) == alert[a].status \in {"open", "acknowledged"}

\* Under the key's lock.  Whether Telegram is told is decided by a configuration
\* read before, so it is left open.
notify(a) ==
  /\ alert[a].status = "none" /\ \A b \in 1..(a - 1) : alert[b].status # "none"
  /\ ~\E b \in Alerts : Active(b) /\ alert[b].key = alert[a].key
  /\ alert' = [alert EXCEPT ![a].status = "open"]
  /\ \E told \in BOOLEAN :
       delivery' = IF told THEN [delivery EXCEPT ![a].status = "pending", ![a].due = TRUE] ELSE delivery
  /\ UNCHANGED <<worker, old, sent, faults, listed>>

transition(a, status) ==
  /\ alert[a].status # "none"
  /\ alert' = [alert EXCEPT ![a].status = status]
  /\ UNCHANGED <<delivery, worker, old, sent, faults, listed>>

acknowledge(a) == transition(a, "acknowledged")
resolve(a) == transition(a, "resolved")

-----------------------------------------------------------------------------
(* Deliveries *)

Claimable(d) ==
  \/ d.status \in {"pending", "failed"} /\ d.due
  \/ d.status = "processing" /\ d.expired

\* dispatchPending lists what is to be sent; here and only here the age counts.
list(w) ==
  LET candidates == {a \in Alerts \ old : Claimable(delivery[a])} IN
  /\ worker[w].phase = "idle" /\ listed[w] = {}
  /\ candidates # {}
  /\ listed' = [listed EXCEPT ![w] = candidates]
  /\ UNCHANGED <<alert, delivery, worker, old, sent, faults>>

\* A conditional update: of two workers with the same candidate one claims it and
\* the other goes on to its next one.
claim(w, a) ==
  /\ worker[w].phase = "idle"
  /\ a \in listed[w]
  /\ listed' = [listed EXCEPT ![w] = @ \ {a}]
  /\ IF Claimable(delivery[a]) /\ delivery[a].attempt < MaxAttempts
     THEN LET n == delivery[a].attempt + 1 IN
       /\ delivery' = [delivery EXCEPT ![a] = [status |-> "processing", attempt |-> n, token |-> n, expired |-> FALSE, due |-> FALSE]]
       /\ worker' = [worker EXCEPT ![w] = [phase |-> "claimed", alert |-> a, token |-> n]]
     ELSE UNCHANGED <<delivery, worker>>
  /\ UNCHANGED <<alert, old, sent, faults>>

Holds_ById(w) == delivery[worker[w].alert].status # "none"

\* The update's condition: the delivery is still leased to this worker.
Holds(w) == LET d == delivery[worker[w].alert] IN d.status = "processing" /\ d.token = worker[w].token

\* Loads the delivery it claimed, if it still has it.
deliver(w) ==
  /\ worker[w].phase = "claimed"
  /\ worker' = [worker EXCEPT ![w] = IF Holds(w) THEN [@ EXCEPT !.phase = "sending"] ELSE Idle]
  /\ UNCHANGED <<alert, delivery, old, sent, faults, listed>>

\* The HTTP call is answered, refused, or its answer lost after Telegram took it.
fetch(w) ==
  LET a == worker[w].alert IN
  /\ worker[w].phase = "sending"
  /\ \/ /\ worker' = [worker EXCEPT ![w].phase = "ok"]
        /\ sent' = [sent EXCEPT ![a] = @ + 1]
        /\ UNCHANGED faults
     \/ /\ worker[w].token < MaxAttempts
        /\ worker' = [worker EXCEPT ![w].phase = "error"]
        /\ \/ UNCHANGED <<sent, faults>>
           \/ sent' = [sent EXCEPT ![a] = @ + 1] /\ faults' = [faults EXCEPT ![a] = @ + 1]
  /\ UNCHANGED <<alert, delivery, old, listed>>

Recorded(w, phase, status) ==
  /\ worker[w].phase = phase
  /\ worker' = [worker EXCEPT ![w] = Idle]
  /\ delivery' = IF Holds(w)
                 THEN [delivery EXCEPT ![worker[w].alert].status = status, ![worker[w].alert].token = 0, ![worker[w].alert].expired = FALSE]
                 ELSE delivery
  /\ UNCHANGED <<alert, old, sent, faults, listed>>

deliverRecords(w) == Recorded(w, "ok", "delivered")

failDelivery(w) == Recorded(w, "error", "failed")

-----------------------------------------------------------------------------
(* Time and crashes *)

leaseExpires(a) ==
  /\ delivery[a].status = "processing" /\ ~delivery[a].expired
  /\ delivery[a].attempt < MaxAttempts
  /\ delivery' = [delivery EXCEPT ![a].expired = TRUE]
  /\ faults' = [faults EXCEPT ![a] = @ + 1]
  /\ UNCHANGED <<alert, worker, old, sent, listed>>

nextAttemptAt(a) ==
  /\ delivery[a].status = "failed" /\ ~delivery[a].due
  /\ delivery' = [delivery EXCEPT ![a].due = TRUE]
  /\ UNCHANGED <<alert, worker, old, sent, faults, listed>>

Age(a) ==
  /\ delivery[a].status # "none" /\ a \notin old
  /\ old' = old \cup {a}
  /\ UNCHANGED <<alert, delivery, worker, sent, faults, listed>>

\* The process dies with its list, and with the claim it may have.
Crash(w) ==
  /\ worker[w].phase # "idle" \/ listed[w] # {}
  /\ worker[w].token < MaxAttempts
  /\ worker' = [worker EXCEPT ![w] = Idle]
  /\ listed' = [listed EXCEPT ![w] = {}]
  /\ UNCHANGED <<alert, delivery, old, sent, faults>>

Next ==
  \/ \E a \in Alerts : notify(a) \/ acknowledge(a) \/ resolve(a) \/ leaseExpires(a) \/ nextAttemptAt(a) \/ Age(a)
  \/ \E w \in Workers : list(w) \/ deliver(w) \/ fetch(w) \/ deliverRecords(w) \/ failDelivery(w) \/ Crash(w)
  \/ \E w \in Workers, a \in Alerts : claim(w, a)

Spec == Init /\ [][Next]_vars

(* The cron runs every minute, a running worker goes on (a call times out after ten *)
(* seconds), time passes, and a candidate that is listed again and again is claimed *)
(* some time: workers do not die between the two for ever.  A delivery's last       *)
(* attempt within the bound succeeds.                                               *)
Fairness ==
  /\ \A a \in Alerts : WF_vars(leaseExpires(a)) /\ WF_vars(nextAttemptAt(a)) /\ SF_vars(\E w \in Workers : claim(w, a))
  /\ \A w \in Workers : WF_vars(list(w)) /\ WF_vars(deliver(w) \/ fetch(w) \/ deliverRecords(w) \/ failDelivery(w))

FairSpec == Spec /\ Fairness

-----------------------------------------------------------------------------
(* The lease token fences the outcome (deliver, failDelivery): a worker that lost  *)
(* its lease cannot reopen a delivery another worker completed.                    *)
DeliveredStays == [][\A a \in Alerts : delivery[a].status = "delivered" => delivery'[a].status = "delivered"]_vars

(* What is shown to staff as delivered was accepted by Telegram, whatever became   *)
(* of the worker that sent it.                                                     *)
DeliveredWasSent == \A a \in Alerts : delivery[a].status = "delivered" => sent[a] > 0

(* dispatchPending runs in every process and after every notify: a message is      *)
(* repeated only after a lease expired or an answer was lost.                      *)
NoNeedlessRepeat == \A a \in Alerts : sent[a] <= 1 + faults[a]

(* A delivery is made in the end, through crashed workers and failed calls, unless *)
(* it grows older than a day first.                                                *)
DeliveredOrOld == \A a \in Alerts : delivery[a].status = "pending" ~> delivery[a].status = "delivered" \/ a \in old

(* Each incident reaches Telegram, once unless a fault hides the answer, and the   *)
(* record says so for good.                                                        *)
AlertsSound == [](TypeOK /\ DeliveredWasSent /\ NoNeedlessRepeat) /\ DeliveredStays
AlertsDelivered == AlertsSound /\ DeliveredOrOld
=============================================================================
