----------------------------- MODULE Settlements -----------------------------
(***************************************************************************)
(* Merchant settlements, and what becomes of a settlement or a sweep after *)
(* its transfer was queued: every transaction that moves a transfer also   *)
(* writes the row linked to it, and some announce it to the merchant.      *)
(*                                                                         *)
(* The transfer is the one of Payouts, reduced to its status and to        *)
(* whether the PIN may have been entered; a staff retry, whose race is a   *)
(* subject of Payouts, is one step here.  Transactions are atomic, with    *)
(* one exception: a staff approval is serializable and its snapshot is     *)
(* taken by the statement that asks for the advisory lock, so it may be    *)
(* older than a decision that held the lock.                               *)
(***************************************************************************)
EXTENDS Naturals

CONSTANTS
  Settlements,  \* settlement requests
  SweepOps,     \* sweep executions
  Staff,        \* staff members who review
  MaxRetries    \* bound on staff retries of a failed transfer

SettlementsAssumption ==
  /\ Settlements \cap SweepOps = {}
  /\ MaxRetries \in Nat

Ops == Settlements \cup SweepOps

TransferStatuses ==
  {"none", "queued", "device_started", "committed", "provider_pending", "success",
   "failed", "unknown", "manual_review", "cancelled"}
LinkedStatuses == (TransferStatuses \ {"cancelled"}) \cup {"requested", "rejected", "dispatched"}

VARIABLES
  transfer,   \* Transfer.status
  committed,  \* Transfer.committedAt is set
  linked,     \* SettlementRequest.status or SweepExecution.status
  told,       \* p2p_status of the last settlement.updated or sweep.updated event
  queued,     \* number of transfers queued for the operation
  retries,    \* staff retries of the transfer
  reading     \* per staff member: the settlement and the status in the snapshot

vars == <<transfer, committed, linked, told, queued, retries, reading>>

NotReading == [op |-> "none", status |-> "none"]

TypeOK ==
  /\ transfer \in [Ops -> TransferStatuses]
  /\ committed \in [Ops -> BOOLEAN]
  /\ linked \in [Ops -> LinkedStatuses]
  /\ told \in [Ops -> LinkedStatuses]
  /\ queued \in [Ops -> Nat]
  /\ retries \in [Ops -> 0..MaxRetries]
  /\ reading \in [Staff -> [op : Settlements, status : LinkedStatuses] \cup {NotReading}]

Init ==
  /\ transfer = [o \in Ops |-> "none"]
  /\ committed = [o \in Ops |-> FALSE]
  /\ linked = [o \in Ops |-> "none"]
  /\ told = [o \in Ops |-> "none"]
  /\ queued = [o \in Ops |-> 0]
  /\ retries = [o \in Ops |-> 0]
  /\ reading = [a \in Staff |-> NotReading]

Link(o, st) == linked' = [linked EXCEPT ![o] = st]
Tell(o, st) == told' = [told EXCEPT ![o] = st]
Move(o, st) == transfer' = [transfer EXCEPT ![o] = st]

-----------------------------------------------------------------------------
(* SettlementsService *)

request(o) ==
  /\ linked[o] = "none"
  /\ Link(o, "requested")
  /\ Tell(o, "requested")
  /\ UNCHANGED <<transfer, committed, queued, retries, reading>>

canReviewSettlement(status) == status = "requested"

\* The transaction's snapshot, taken while it waits for settlement:<id>.
approveBegins(a, o) ==
  /\ reading[a] = NotReading
  /\ linked[o] # "none"
  /\ reading' = [reading EXCEPT ![a] = [op |-> o, status |-> linked[o]]]
  /\ UNCHANGED <<transfer, committed, linked, told, queued, retries>>

RowUnchanged_ReadBeforeLock(a) == TRUE

\* PostgreSQL aborts a serializable update of a row written since the snapshot.
RowUnchanged(a) == linked[reading[a].op] = reading[a].status

\* The approval holds the lock: it queues the transfer with the settlement, or
\* returns what is there, or throws, or is aborted.
approve(a) ==
  LET o == reading[a].op IN
  /\ reading[a] # NotReading
  /\ reading' = [reading EXCEPT ![a] = NotReading]
  /\ IF canReviewSettlement(reading[a].status) /\ RowUnchanged(a)
     THEN /\ Move(o, "queued")
          /\ queued' = [queued EXCEPT ![o] = @ + 1]
          /\ Link(o, "dispatched")
          /\ Tell(o, "dispatched")
     ELSE UNCHANGED <<transfer, queued, linked, told>>
  /\ UNCHANGED <<committed, retries>>

\* Runs at the default isolation, but reads only after it has the lock.
reject(o) ==
  /\ canReviewSettlement(linked[o])
  /\ Link(o, "rejected")
  /\ Tell(o, "rejected")
  /\ UNCHANGED <<transfer, committed, queued, retries, reading>>

\* SweepsService.executeCandidate queues the transfer and links it at once.
executeCandidate(o) ==
  /\ linked[o] = "none"
  /\ Move(o, "queued")
  /\ queued' = [queued EXCEPT ![o] = @ + 1]
  /\ Link(o, "queued")
  /\ Tell(o, "queued")
  /\ UNCHANGED <<committed, retries, reading>>

-----------------------------------------------------------------------------
(* Moves of the transfer *)

\* Where a device report may take the transfer; before the PIN it may fail or go
\* to name review, from then on a missing confirmation is unknown.
Reported(o) ==
  IF transfer[o] = "queued" THEN {"device_started", "failed", "manual_review"}
  ELSE IF transfer[o] = "device_started" THEN {"committed", "failed", "manual_review", "unknown"}
  ELSE IF transfer[o] = "committed" THEN {"provider_pending", "unknown"}
  ELSE IF transfer[o] = "provider_pending" THEN {"unknown"} ELSE {}

\* A sweep follows every report, a settlement only the ones that end the work.
Mirrored(o, st) ==
  IF o \in SweepOps \/ st \in {"failed", "unknown", "manual_review"} THEN st ELSE linked[o]

report(o) ==
  \E st \in Reported(o) :
    /\ Move(o, st)
    /\ committed' = [committed EXCEPT ![o] = @ \/ st \in {"committed", "unknown"}]
    /\ Link(o, Mirrored(o, st))
    /\ UNCHANGED <<told, queued, retries, reading>>

\* updateExpiredLinkedOperation: a queued job fails, a delivered one is unknown.
expire(o) ==
  /\ transfer[o] \in {"queued", "device_started", "committed", "provider_pending"}
  /\ \E st \in {"failed", "unknown"} :
       /\ st = "failed" => transfer[o] = "queued"
       /\ Move(o, st)
       /\ committed' = [committed EXCEPT ![o] = @ \/ st = "unknown"]
       /\ Link(o, st)
       /\ Tell(o, st)
  /\ UNCHANGED <<queued, retries, reading>>

updateLinkedOperation(o, st) == Link(o, st) /\ Tell(o, st)

cancelBeforeStart(o) ==
  /\ transfer[o] = "queued"
  /\ Move(o, "cancelled")
  /\ updateLinkedOperation(o, "failed")
  /\ UNCHANGED <<committed, queued, retries, reading>>

resolveUnknown(o) ==
  /\ transfer[o] \in {"unknown", "manual_review"}
  /\ \E st \in {"success", "failed"} : Move(o, st) /\ updateLinkedOperation(o, st)
  /\ UNCHANGED <<committed, queued, retries, reading>>

\* A provider SMS settles the transfer, even one that was failed after the PIN.
matchOutgoing(o) ==
  /\ committed[o]
  /\ transfer[o] \in {"committed", "provider_pending", "unknown", "failed"}
  /\ Move(o, "success")
  /\ Link(o, "success")
  /\ Tell(o, "success")
  /\ UNCHANGED <<committed, queued, retries, reading>>

\* What a row is set to when its transfer goes back to the queue.
InFlight(o) == IF o \in SweepOps THEN "queued" ELSE "dispatched"

Requeue(o) ==
  /\ retries[o] < MaxRetries
  /\ retries' = [retries EXCEPT ![o] = @ + 1]
  /\ ~committed[o]
  /\ Move(o, "queued")
  /\ Link(o, InFlight(o))
  /\ UNCHANGED <<committed, told, queued, reading>>

approveNameAndRetry(o) == transfer[o] = "manual_review" /\ Requeue(o)

retryDeviceJob(o) == transfer[o] = "failed" /\ Requeue(o)

Next ==
  \/ \E o \in Settlements : request(o) \/ reject(o)
  \/ \E a \in Staff, o \in Settlements : approveBegins(a, o)
  \/ \E a \in Staff : approve(a)
  \/ \E o \in SweepOps : executeCandidate(o)
  \/ \E o \in Ops :
       report(o) \/ expire(o) \/ cancelBeforeStart(o) \/ resolveUnknown(o) \/ matchOutgoing(o)
         \/ approveNameAndRetry(o) \/ retryDeviceJob(o)

Spec == Init /\ [][Next]_vars

-----------------------------------------------------------------------------
(* Properties *)

\* The status of the linked row that the transfer's status stands for.
Standing(o) ==
  IF transfer[o] = "cancelled" THEN "failed"
  ELSE IF o \in SweepOps \/ transfer[o] \in {"success", "failed", "unknown", "manual_review"} THEN transfer[o]
  ELSE "dispatched"

\* Nine transactions in four services move a transfer; after each of them the
\* settlement or sweep linked to it has the status that follows from it.
LinkedAgrees == \A o \in Ops : transfer[o] # "none" => linked[o] = Standing(o)

\* Reviewed by two people at once, a settlement is decided once: at most one
\* transfer is ever queued for it, and none when it was rejected.
DecidedOnce ==
  \A o \in Settlements : queued[o] <= 1 /\ (linked[o] = "rejected" => queued[o] = 0)

\* A settlement and its transfer are decided once and tell the same story.
SettlementsAgree == TypeOK /\ LinkedAgrees /\ DecidedOnce

\* The guide says lifecycle notifications use settlement.updated: when the
\* settlement is failed, unknown or under review, its last event says so.
LifecycleTold ==
  \A o \in Settlements : linked[o] \in {"failed", "unknown", "manual_review"} => told[o] = linked[o]
=============================================================================
