--------------------------- MODULE MCMerchantApi ---------------------------
(* What a merchant's server relies on: idempotent requests and webhooks.     *)
(* They share no table; a behaviour follows one of them, chosen at the       *)
(* beginning, and every behaviour of each is covered.                        *)
(* Four calls of one operation: b and c are the same request sent twice, a   *)
(* has the same reference under another key, and d uses a's key for another  *)
(* payload.  Two outbox events, of which the second is another merchant's.   *)
EXTENDS Idempotency, TLC

CONSTANTS a, b, c, d,
          Endpoints, Events, Owned, Workers, MaxSecrets, MaxFaults, NoWorker

MCKeyOf == (a :> 1) @@ (b :> 2) @@ (c :> 2) @@ (d :> 1)
MCRefOf == (a :> 3) @@ (b :> 3) @@ (c :> 3) @@ (d :> 4)
MCHashOf == (a :> "p") @@ (b :> "p") @@ (c :> "p") @@ (d :> "q")

VARIABLES subject,
          created, published, listening, enabled, secret, status, lease, live,
          aged, replayed, phase, todo, targets, candidates, claim, signed,
          changing, rows, racing, connected, faults

webhookVars == <<created, published, listening, enabled, secret, status, lease, live,
                 aged, replayed, phase, todo, targets, candidates, claim, signed,
                 changing, rows, racing, connected, faults>>
allVars == <<subject, vars, webhookVars>>

Hooks == INSTANCE Webhooks

ASSUME MerchantApiAssumption == Hooks!WebhooksAssumption

OfRequests == subject = "requests"
OfWebhooks == subject = "webhooks"

\* The bound of the run: the other merchant's event appears, and a channel is lost,
\* only while nothing has been rotated or replayed.
Unchanged == replayed = {} /\ \A p \in Endpoints : secret[p] <= 1
Bounded ==
  /\ connected = Workers \/ Unchanged
  /\ created \subseteq Owned \/ (Unchanged /\ \A p \in Endpoints : p \in enabled /\ changing[p] = "none")

ApiInit == (OfRequests \/ OfWebhooks) /\ Init /\ Hooks!Init

ApiNext ==
  \/ OfRequests /\ Next /\ UNCHANGED <<subject, webhookVars>>
  \/ OfWebhooks /\ Hooks!Next /\ Bounded' /\ UNCHANGED <<subject, vars>>

\* The fairness of Webhooks for the behaviours that follow it; no step of
\* Idempotency's is enabled in the others.
HookFairness ==
  /\ \A w \in Workers :
       /\ WF_webhookVars(OfWebhooks /\ Hooks!RoundStep(w))
       /\ \A e \in Hooks!Deliveries : WF_webhookVars(OfWebhooks /\ Hooks!DeliverStep(w, e))
  /\ \A e \in Hooks!Deliveries :
       WF_webhookVars(OfWebhooks /\ Hooks!Age(e)) /\ WF_webhookVars(OfWebhooks /\ Hooks!LeaseExpires(e) /\ UNCHANGED faults)

ApiSpec == ApiInit /\ [][ApiNext]_allVars /\ Fairness /\ HookFairness

-----------------------------------------------------------------------------
\* Everything on file about idempotent requests leads to one effect
\* (idempotency.service.ts); and no event is lost to an endpoint that was enabled all
\* the time from the event's creation to its publication (webhooks.service.ts
\* publishOutbox).
NothingLost ==
  /\ OfRequests => TypeOK /\ AnswersAgree
  /\ OfWebhooks => Hooks!TypeOK /\ Hooks!OutboxComplete

\* A delivery is recorded as delivered only by the claim that holds it and, unless
\* the claim was made while a rotation or a disabling was under way, to an enabled
\* endpoint, with a request signed by the secret the endpoint still has; a finished
\* one is reopened by the merchant's replay and by nothing else (webhooks.service.ts
\* rotateSecret, setEnabled, deliver).
ClaimsFenced == Hooks!ClaimsFenced

\* Every request is answered; and as long as one process keeps its channel to the
\* broker, every event is published and every delivery to an endpoint that stays
\* enabled ends, also when processes die half-way, the broker refuses or receivers
\* never answer (idempotency.service.ts, webhooks.service.ts, message-bus.service.ts).
NothingWaitsForEver == RequestsAnswered /\ Hooks!OutboxDrains /\ Hooks!DeliveriesEnd
=============================================================================
