------------------------------- MODULE Webhooks -------------------------------
(***************************************************************************)
(* The webhook dispatcher: every API process runs a round every five       *)
(* seconds that expands unpublished outbox events into one delivery per    *)
(* enabled endpoint, then claims due deliveries under a lease and posts    *)
(* them, while merchants register, disable, rotate and replay.             *)
(*                                                                         *)
(* A step of a round is one statement or transaction at read committed;    *)
(* merchant operations are serializable.  A rotation or a disabling works  *)
(* on the snapshot it took when it began: a row it matches must not have   *)
(* been written since (it is rolled back otherwise), and what the          *)
(* dispatcher claimed since it does not see.  Time is abstracted: a        *)
(* pending delivery may be due at any moment, a lease may be found         *)
(* expired, and a delivery may reach the age of 24 hours.  A process has   *)
(* at most one claim on a delivery, so its name stands for the claim's     *)
(* random lease token.                                                     *)
(***************************************************************************)
EXTENDS Integers, FiniteSets, FiniteSetsExt

CONSTANTS
  Endpoints,   \* webhook URLs of one merchant
  Events,      \* outbox events, numbered in order of creation
  Owned,       \* the events whose aggregate belongs to the merchant
  Workers,     \* API processes
  MaxSecrets,  \* bound on the secrets of one endpoint
  MaxFaults,   \* bound on crashes, lost channels, refused publications and expired leases of slow workers
  NoWorker

WebhooksAssumption ==
  /\ Events \subseteq Nat
  /\ Owned \subseteq Events
  /\ MaxSecrets \in Nat \ {0}
  /\ MaxFaults \in Nat
  /\ NoWorker \notin Workers

Deliveries == Events \X Endpoints
aggregateOwner(e) == e \in Owned

VARIABLES
  created,    \* OutboxEvent rows
  published,  \* OutboxEvent.publishedAt is set
  listening,  \* history: endpoints enabled from the event's creation to its publication
  enabled,    \* WebhookEndpoint.enabled
  secret,     \* WebhookEndpoint.encryptedSecret; 0: not registered
  status,     \* WebhookDelivery.status; "none": no row
  lease,      \* WebhookDelivery.leaseToken
  live,       \* leaseExpiresAt is in the future
  aged,       \* the delivery was created 24 hours ago
  replayed,   \* deliveries with a webhooks.replay idempotency record
  phase,      \* where the process is in its round
  todo,       \* unpublished events found at the start of the round
  targets,    \* endpoints read for the event being expanded
  candidates, \* due deliveries found by deliverPending
  claim,      \* what the process is doing with a delivery it claimed
  signed,     \* the secret its request is signed with
  changing,   \* the rotation or disabling of the endpoint that is under way
  rows,       \* the deliveries it matches in its snapshot
  racing,     \* history: claimed while such a change was under way that does not match it
  connected,  \* processes whose RabbitMQ channel is open
  faults

outboxVars   == <<created, published, listening>>
endpointVars == <<enabled, secret>>
deliveryVars == <<status, lease, live, aged, replayed>>
roundVars    == <<phase, todo, targets, candidates>>
claimVars    == <<claim, signed>>
changeVars   == <<changing, rows>>
faultVars    == <<connected, faults>>
vars == <<outboxVars, endpointVars, deliveryVars, roundVars, claimVars, changeVars, racing, faultVars>>

Done == {"delivered", "dead"}

TypeOK ==
  /\ created \subseteq Events /\ published \subseteq created
  /\ listening \in [Events -> SUBSET Endpoints]
  /\ enabled \subseteq Endpoints
  /\ secret \in [Endpoints -> 0..MaxSecrets]
  /\ status \in [Deliveries -> {"none", "pending", "processing"} \cup Done]
  /\ lease \in [Deliveries -> Workers \cup {NoWorker}]
  /\ \A d \in Deliveries : lease[d] # NoWorker => status[d] = "processing"
  /\ live \subseteq Deliveries /\ aged \subseteq Deliveries /\ replayed \subseteq Deliveries
  /\ phase \in [Workers -> {"idle", "expand", "write", "publish", "claim", "deliver"}]
  /\ todo \in [Workers -> SUBSET Events]
  /\ targets \in [Workers -> SUBSET Endpoints]
  /\ candidates \in [Workers -> SUBSET Deliveries]
  /\ claim \in [Workers -> [Deliveries -> {"none", "claimed", "signed", "posting"}]]
  /\ signed \in [Workers -> [Deliveries -> 0..MaxSecrets]]
  /\ changing \in [Endpoints -> {"none", "rotate", "disable"}]
  /\ rows \in [Endpoints -> SUBSET Deliveries]
  /\ racing \subseteq Deliveries
  /\ connected \subseteq Workers
  /\ faults \in 0..MaxFaults

Init ==
  /\ created = {} /\ published = {}
  /\ listening = [e \in Events |-> {}]
  /\ enabled = {}
  /\ secret = [p \in Endpoints |-> 0]
  /\ status = [d \in Deliveries |-> "none"]
  /\ lease = [d \in Deliveries |-> NoWorker]
  /\ live = {} /\ aged = {} /\ replayed = {}
  /\ phase = [w \in Workers |-> "idle"]
  /\ todo = [w \in Workers |-> {}]
  /\ targets = [w \in Workers |-> {}]
  /\ candidates = [w \in Workers |-> {}]
  /\ claim = [w \in Workers |-> [d \in Deliveries |-> "none"]]
  /\ signed = [w \in Workers |-> [d \in Deliveries |-> 0]]
  /\ changing = [p \in Endpoints |-> "none"]
  /\ rows = [p \in Endpoints |-> {}]
  /\ racing = {}
  /\ connected = Workers
  /\ faults = 0

Fault == faults < MaxFaults /\ faults' = faults + 1

-----------------------------------------------------------------------------
(* Merchant operations.                                                     *)

\* A payment operation records an event in its own transaction.
RecordEvent(e) ==
  /\ e \notin created /\ \A f \in Events : f < e => f \in created
  /\ created' = created \cup {e}
  /\ listening' = [listening EXCEPT ![e] = enabled]
  /\ UNCHANGED <<published, endpointVars, deliveryVars, roundVars, claimVars, changeVars, racing, faultVars>>

\* The first registration of a URL; every later one finds the endpoint and
\* changes nothing.
Register(p) ==
  /\ secret[p] = 0
  /\ secret' = [secret EXCEPT ![p] = 1]
  /\ enabled' = enabled \cup {p}
  /\ UNCHANGED <<outboxVars, deliveryVars, roundVars, claimVars, changeVars, racing, faultVars>>

\* The rows of ds get status s and lose their lease.
Settle(ds, s) ==
  /\ status' = [d \in Deliveries |-> IF d \in ds THEN s ELSE status[d]]
  /\ lease' = [d \in Deliveries |-> IF d \in ds THEN NoWorker ELSE lease[d]]
  /\ live' = live \ ds

\* The deliveries a rotation recalls, and those a disabling gives up.
Matched(p, op) ==
  {d \in Deliveries : d[2] = p /\ status[d] \in (IF op = "rotate" THEN {"processing"} ELSE {"pending", "processing"})}

Ends(ps) ==
  /\ changing' = [p \in Endpoints |-> IF p \in ps THEN "none" ELSE changing[p]]
  /\ rows' = [p \in Endpoints |-> IF p \in ps THEN {} ELSE rows[p]]

\* A row a change matches was written: the change is rolled back.
Written(d) == Ends({p \in Endpoints : d \in rows[p]})

\* The first statement takes the snapshot.  Of two changes of one endpoint under way
\* the first to commit rolls the other back, so one is enough.
BeginChange(p, op) ==
  /\ secret[p] # 0 /\ changing[p] = "none"
  /\ op = "rotate" => secret[p] < MaxSecrets
  /\ changing' = [changing EXCEPT ![p] = op]
  /\ rows' = [rows EXCEPT ![p] = Matched(p, op)]
  /\ UNCHANGED <<outboxVars, endpointVars, deliveryVars, roundVars, claimVars, racing, faultVars>>

RollBack(p) ==
  /\ changing[p] # "none"
  /\ Ends({p})
  /\ UNCHANGED <<outboxVars, endpointVars, deliveryVars, roundVars, claimVars, racing, faultVars>>

\* A rotation with a new idempotency key commits: deliveries in flight in its
\* snapshot go back to pending.
RotateSecret(p) ==
  /\ changing[p] = "rotate" /\ secret[p] < MaxSecrets
  /\ secret' = [secret EXCEPT ![p] = @ + 1]
  /\ Settle(rows[p], "pending")
  /\ Ends({p})
  /\ UNCHANGED <<outboxVars, enabled, aged, replayed, roundVars, claimVars, racing, faultVars>>

\* setEnabled; a change under way is rolled back because its endpoint was written.
SetEnabled(p, on) ==
  /\ IF on
     THEN /\ secret[p] # 0
          /\ enabled' = enabled \cup {p}
          /\ UNCHANGED <<listening, status, lease, live>>
     ELSE /\ changing[p] = "disable"
          /\ enabled' = enabled \ {p}
          /\ listening' = [e \in Events |-> IF e \in published THEN listening[e] ELSE listening[e] \ {p}]
          /\ Settle(rows[p], "dead")
  /\ Ends({p})
  /\ UNCHANGED <<created, published, secret, aged, replayed, roundVars, claimVars, racing, faultVars>>

\* The record of the delivery's first replay answers every later request.
Replayable(d) == d \notin replayed

\* Serializable, too: it reads the endpoint and writes what a change under way
\* reads, so that one is rolled back.
Replay(d) ==
  /\ status[d] # "none"
  /\ Replayable(d)
  /\ status[d] = "processing" => d \notin live
  /\ Settle({d}, "pending")
  /\ replayed' = replayed \cup {d}
  /\ Ends({d[2]})
  /\ UNCHANGED <<outboxVars, endpointVars, aged, roundVars, claimVars, racing, faultVars>>

-----------------------------------------------------------------------------
(* A round: expandOutbox.                                                   *)

Backlog == created \ published

StartRound(w) ==
  /\ phase[w] = "idle"
  /\ phase' = [phase EXCEPT ![w] = "expand"]
  /\ todo' = [todo EXCEPT ![w] = Backlog]
  /\ UNCHANGED <<targets, candidates, outboxVars, endpointVars, deliveryVars, claimVars, changeVars, racing, faultVars>>

Publish(w, e) ==
  /\ published' = published \cup {e}
  /\ todo' = [todo EXCEPT ![w] = @ \ {e}]
  /\ phase' = [phase EXCEPT ![w] = "expand"]
  /\ targets' = [targets EXCEPT ![w] = {}]

ReadEvent_MarksFirst(w) ==
  /\ phase[w] = "expand" /\ todo[w] # {}
  /\ published' = published \cup {Min(todo[w])}
  /\ phase' = [phase EXCEPT ![w] = "write"]
  /\ targets' = [targets EXCEPT ![w] = enabled]
  /\ UNCHANGED <<todo, created, listening, candidates, endpointVars, deliveryVars, claimVars, changeVars, racing, faultVars>>

\* The next event: without an owner it is published at once, otherwise the
\* enabled endpoints are read.
ReadEvent(w) ==
  /\ phase[w] = "expand" /\ todo[w] # {}
  /\ LET e == Min(todo[w])
     IN \/ ~aggregateOwner(e) /\ Publish(w, e)
        \/ /\ aggregateOwner(e)
           /\ phase' = [phase EXCEPT ![w] = "write"]
           /\ targets' = [targets EXCEPT ![w] = enabled]
           /\ UNCHANGED <<published, todo>>
  /\ UNCHANGED <<created, listening, candidates, endpointVars, deliveryVars, claimVars, changeVars, racing, faultVars>>

\* The transaction commits one row per endpoint; existing rows stay as they are.
CreateDeliveries(w) ==
  /\ phase[w] = "write"
  /\ phase' = [phase EXCEPT ![w] = "publish"]
  /\ status' = [d \in Deliveries |->
       IF d[1] = Min(todo[w]) /\ d[2] \in targets[w] /\ status[d] = "none" THEN "pending" ELSE status[d]]
  /\ UNCHANGED <<lease, live, aged, replayed, todo, targets, candidates, outboxVars, endpointVars, claimVars, changeVars, racing, faultVars>>

\* The channel is opened once, when the process starts.  The broker confirms and
\* the event is marked; or the channel is gone, or the broker refuses, and the
\* exception ends the round before deliverPending.
PublishEvent(w) ==
  /\ phase[w] = "publish"
  /\ \/ w \in connected /\ Publish(w, Min(todo[w])) /\ UNCHANGED faults
     \/ /\ IF w \in connected THEN Fault ELSE UNCHANGED faults
        /\ phase' = [phase EXCEPT ![w] = "idle"]
        /\ todo' = [todo EXCEPT ![w] = {}]
        /\ targets' = [targets EXCEPT ![w] = {}]
        /\ UNCHANGED published
  /\ UNCHANGED <<created, listening, candidates, endpointVars, deliveryVars, claimVars, changeVars, racing, connected>>

-----------------------------------------------------------------------------
(* A round: deliverPending.                                                 *)

Claimable_PendingOnly(d) == d[2] \in enabled /\ status[d] = "pending"
Claimable(d) ==
  /\ d[2] \in enabled
  /\ status[d] = "pending" \/ (status[d] = "processing" /\ d \notin live)

FindCandidates(w) ==
  /\ phase[w] = "expand" /\ todo[w] = {}
  /\ phase' = [phase EXCEPT ![w] = "claim"]
  /\ candidates' = [candidates EXCEPT ![w] = {d \in Deliveries : Claimable(d)}]
  /\ UNCHANGED <<todo, targets, outboxVars, endpointVars, deliveryVars, claimVars, changeVars, racing, faultVars>>

\* The conditional update decides between processes that saw the same candidate.
ClaimDelivery(w) ==
  /\ phase[w] = "claim"
  /\ \E d \in candidates[w] :
       /\ candidates' = [candidates EXCEPT ![w] = @ \ {d}]
       /\ IF Claimable(d)
          THEN /\ status' = [status EXCEPT ![d] = "processing"]
               /\ lease' = [lease EXCEPT ![d] = w]
               /\ live' = live \cup {d}
               /\ claim' = [claim EXCEPT ![w][d] = "claimed"]
               /\ Written(d)
               /\ racing' = IF changing'[d[2]] = "none" THEN racing \ {d} ELSE racing \cup {d}
          ELSE UNCHANGED <<status, lease, live, claim, changeVars, racing>>
  /\ UNCHANGED <<phase, todo, targets, aged, replayed, signed, outboxVars, endpointVars, faultVars>>

StartDelivering(w) ==
  /\ phase[w] = "claim" /\ candidates[w] = {}
  /\ phase' = [phase EXCEPT ![w] = "deliver"]
  /\ UNCHANGED <<todo, targets, candidates, outboxVars, endpointVars, deliveryVars, claimVars, changeVars, racing, faultVars>>

Fenced_ById(w, d) == TRUE
Fenced(w, d) == status[d] = "processing" /\ lease[d] = w

\* finishClaim: the update matches only the claim's own token.  The process is
\* through with the delivery either way.
FinishClaim(w, d, s) ==
  /\ IF Fenced(w, d) THEN Settle({d}, s) /\ Written(d) ELSE UNCHANGED <<status, lease, live, changeVars>>
  /\ claim' = [claim EXCEPT ![w][d] = "none"]
  /\ signed' = [signed EXCEPT ![w][d] = 0]
  /\ UNCHANGED <<aged, replayed, outboxVars, endpointVars, roundVars, racing, faultVars>>

\* The endpoint is read again: a disabled one is given up, otherwise the body is
\* signed with its secret of now.
Sign(w, d) ==
  /\ phase[w] = "deliver" /\ claim[w][d] = "claimed"
  /\ \/ d[2] \notin enabled /\ FinishClaim(w, d, "dead")
     \/ /\ d[2] \in enabled
        /\ claim' = [claim EXCEPT ![w][d] = "signed"]
        /\ signed' = [signed EXCEPT ![w][d] = secret[d[2]]]
        /\ UNCHANGED <<outboxVars, endpointVars, deliveryVars, roundVars, changeVars, racing, faultVars>>

\* The claim is renewed before the POST; one that was lost is dropped.
Renew(w, d) ==
  /\ claim[w][d] = "signed"
  /\ IF Fenced(w, d)
     THEN /\ claim' = [claim EXCEPT ![w][d] = "posting"]
          /\ live' = live \cup {d}
          /\ Written(d)
          /\ UNCHANGED signed
     ELSE /\ claim' = [claim EXCEPT ![w][d] = "none"]
          /\ signed' = [signed EXCEPT ![w][d] = 0]
          /\ UNCHANGED <<live, changeVars>>
  /\ UNCHANGED <<status, lease, aged, replayed, outboxVars, endpointVars, roundVars, racing, faultVars>>

\* The receiver answered with 2xx.
Delivered(w, d) ==
  /\ claim[w][d] = "posting"
  /\ FinishClaim(w, d, "delivered")

\* The host did not resolve, the POST failed or was refused.
Failed(w, d) ==
  /\ claim[w][d] \in {"signed", "posting"}
  /\ FinishClaim(w, d, IF d \in aged THEN "dead" ELSE "pending")

EndRound(w) ==
  /\ phase[w] = "deliver" /\ \A d \in Deliveries : claim[w][d] = "none"
  /\ phase' = [phase EXCEPT ![w] = "idle"]
  /\ UNCHANGED <<todo, targets, candidates, outboxVars, endpointVars, deliveryVars, claimVars, changeVars, racing, faultVars>>

-----------------------------------------------------------------------------
(* Time and faults.                                                         *)

\* A lease runs out: always for an abandoned claim, as a fault when its worker
\* is only slow.
LeaseExpires(d) ==
  /\ d \in live
  /\ IF claim[lease[d]][d] # "none" THEN Fault ELSE UNCHANGED faults
  /\ live' = live \ {d}
  /\ UNCHANGED <<status, lease, aged, replayed, connected, outboxVars, endpointVars, roundVars, claimVars, changeVars, racing>>

Age(d) ==
  /\ status[d] # "none" /\ d \notin aged
  /\ aged' = aged \cup {d}
  /\ UNCHANGED <<status, lease, live, replayed, outboxVars, endpointVars, roundVars, claimVars, changeVars, racing, faultVars>>

\* The process starts anew and opens its channel.
Starts(w) ==
  /\ phase' = [phase EXCEPT ![w] = "idle"]
  /\ todo' = [todo EXCEPT ![w] = {}]
  /\ targets' = [targets EXCEPT ![w] = {}]
  /\ candidates' = [candidates EXCEPT ![w] = {}]
  /\ claim' = [claim EXCEPT ![w] = [d \in Deliveries |-> "none"]]
  /\ signed' = [signed EXCEPT ![w] = [d \in Deliveries |-> 0]]
  /\ connected' = connected \cup {w}
  /\ UNCHANGED <<outboxVars, endpointVars, deliveryVars, changeVars, racing>>

Crash(w) == phase[w] # "idle" /\ Fault /\ Starts(w)

\* The broker closes the channel.
ChannelLost(w) ==
  /\ w \in connected /\ Fault
  /\ connected' = connected \ {w}
  /\ UNCHANGED <<outboxVars, endpointVars, deliveryVars, roundVars, claimVars, changeVars, racing>>

\* Somebody restarts a process that cannot publish; nothing in the code does.
Restart(w) == w \notin connected /\ Starts(w) /\ UNCHANGED faults

-----------------------------------------------------------------------------
RoundStep(w) ==
  StartRound(w) \/ ReadEvent(w) \/ CreateDeliveries(w) \/ PublishEvent(w) \/ FindCandidates(w)
    \/ ClaimDelivery(w) \/ StartDelivering(w) \/ EndRound(w)

DeliverStep(w, d) == Sign(w, d) \/ Renew(w, d) \/ Delivered(w, d) \/ Failed(w, d)

Merchant ==
  \/ \E e \in Events : RecordEvent(e)
  \/ \E p \in Endpoints : Register(p) \/ RotateSecret(p) \/ RollBack(p)
  \/ \E p \in Endpoints : (\E on \in BOOLEAN : SetEnabled(p, on)) \/ \E op \in {"rotate", "disable"} : BeginChange(p, op)
  \/ \E d \in Deliveries : Replay(d)

Next ==
  \/ Merchant
  \/ \E w \in Workers : RoundStep(w) \/ Crash(w) \/ ChannelLost(w) \/ Restart(w) \/ \E d \in Deliveries : DeliverStep(w, d)
  \/ \E d \in Deliveries : LeaseExpires(d) \/ Age(d)

\* The cron runs every round to its end, an HTTP request ends within its ten
\* seconds and time passes.  Nobody need restart a process.
Fairness ==
  /\ \A w \in Workers : WF_vars(RoundStep(w)) /\ \A d \in Deliveries : WF_vars(DeliverStep(w, d))
  /\ \A d \in Deliveries : WF_vars(Age(d)) /\ WF_vars(LeaseExpires(d) /\ UNCHANGED faults)

Spec == Init /\ [][Next]_vars /\ Fairness

-----------------------------------------------------------------------------
\* No event is lost to an endpoint: one that was enabled all the time from the
\* event's creation to its publication has a delivery, whatever crashes, outages
\* and concurrent rounds came in between.
OutboxComplete ==
  \A e \in published \cap Owned, p \in Endpoints : p \in listening[e] => status[<<e, p>>] # "none"

\* A delivery is recorded as delivered only by the claim that holds it; and, unless
\* the claim was made while a rotation or a disabling was under way, to an endpoint
\* that is enabled, with a request signed by the secret the endpoint still has:
\* rotation and disabling recall what is in flight in their snapshot.
RecordedByClaim ==
  \A x \in Deliveries :
    status[x] # "delivered" /\ status'[x] = "delivered"
      => \E w \in Workers :
           /\ lease[x] = w
           /\ x \in racing \/ (x[2] \in enabled /\ signed[w][x] = secret[x[2]])

DeliveredFresh == [][RecordedByClaim]_vars

\* A finished delivery is reopened by the merchant's replay and by nothing else:
\* not by the late answer of a worker whose claim was lost.
ReopenedByReplay ==
  \A x \in Deliveries : status[x] \in Done /\ status'[x] # status[x] => x \in replayed' \ replayed

FinishedOnlyReplayed == [][ReopenedByReplay]_vars

\* The lease and the claim's token fence every record of an answer (deliver).
ClaimsFenced == DeliveredFresh /\ FinishedOnlyReplayed

\* As long as one process keeps its channel every event is published, also when
\* processes die half-way or the broker refuses: again and again, nothing is left in
\* the outbox.
OnePublishes == \E w \in Workers : <>[](w \in connected)
Drained == created \subseteq published
OutboxDrains == OnePublishes => []<>Drained

\* Then also every delivery to an endpoint that stays enabled ends: receivers that
\* never answer, abandoned claims and rotations do not keep it pending for ever.
DeliveriesEnd == OnePublishes => []<>(\A d \in Deliveries : status[d] \in {"none"} \cup Done \/ d[2] \notin enabled)

\* "Webhook dispatcher: outbox-backed HMAC events with at-least-once delivery and
\* replay." (docs/en/architecture.md:46) A channel that was lost is never opened
\* again (message-bus.service.ts:17-56).
AlwaysDrains == []<>Drained

\* A delivery is recorded as delivered only with a request signed by the secret the
\* endpoint still has.  A claim made after the snapshot of a rotation is not recalled
\* by it and records what it signed with the old secret (webhooks.service.ts:162-165).
AlwaysFresh ==
  [][\A x \in Deliveries :
       status[x] # "delivered" /\ status'[x] = "delivered" => \E w \in Workers : lease[x] = w /\ signed[w][x] = secret[x[2]]]_vars

\* "Failed deliveries retry exponentially for up to 24 hours before becoming
\* manually replayable." (docs/en/api-integration.md:222)
DeadIsReplayable == \A d \in Deliveries : status[d] = "dead" => Replayable(d)
=============================================================================
