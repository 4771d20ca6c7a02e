----------------------------- MODULE SupportCases -----------------------------
(***************************************************************************)
(* Merchant support cases: merchants and staff write messages, staff move  *)
(* the case through its workflow.  Every handler reads the case first and  *)
(* then claims it with a conditional update inside a transaction, so a     *)
(* request is two actions with others in between.                          *)
(***************************************************************************)
EXTENDS Integers, FiniteSets

CONSTANTS
  Cases,
  Authors,      \* merchant users and platform staff
  Staff,        \* the platform staff among them
  MaxMessages,  \* bound on the messages of one case
  MaxInFlight,  \* bound on requests between their read and their write
  NoOne

SupportCasesAssumption ==
  Staff \subseteq Authors /\ NoOne \notin Authors /\ MaxMessages \in Nat \ {0} /\ MaxInFlight \in Nat

VARIABLES
  status,      \* MerchantSupportCase.status ("none": not created)
  resolvedAt,  \* the cases whose resolvedAt is set
  assigned,    \* assignedStaffId
  messages,    \* number of SupportCaseMessage rows
  inFlight     \* requests that have read the case

vars == <<status, resolvedAt, assigned, messages, inFlight>>

WORKFLOW_TRANSITIONS ==
  [open              |-> {"investigating", "awaiting_merchant", "resolved", "closed"},
   investigating     |-> {"open", "awaiting_merchant", "resolved", "closed"},
   awaiting_merchant |-> {"open", "investigating", "resolved", "closed"},
   resolved          |-> {"investigating", "closed"},
   closed            |-> {"open"}]
Statuses == DOMAIN WORKFLOW_TRANSITIONS

MessageRequests == [kind : {"message"}, case : Cases, by : Authors]
StatusRequests == [kind : {"status"}, case : Cases, by : Staff, seen : Statuses, to : Statuses]

TypeOK ==
  /\ status \in [Cases -> Statuses \cup {"none"}]
  /\ resolvedAt \subseteq Cases
  /\ assigned \in [Cases -> Staff \cup {NoOne}]
  /\ messages \in [Cases -> 0..MaxMessages]
  /\ inFlight \subseteq MessageRequests \cup StatusRequests

Init ==
  /\ status = [c \in Cases |-> "none"]
  /\ resolvedAt = {}
  /\ assigned = [c \in Cases |-> NoOne]
  /\ messages = [c \in Cases |-> 0]
  /\ inFlight = {}

\* The case and its first message are created in one transaction.
CreateForMerchant(c) ==
  /\ status[c] = "none"
  /\ status' = [status EXCEPT ![c] = "open"]
  /\ messages' = [messages EXCEPT ![c] = 1]
  /\ UNCHANGED <<resolvedAt, assigned, inFlight>>

Submit(r) == Cardinality(inFlight) < MaxInFlight /\ inFlight' = inFlight \cup {r}

ReadForMessage(c, a) ==
  /\ status[c] \notin {"none", "closed"}
  /\ Submit([kind |-> "message", case |-> c, by |-> a])
  /\ UNCHANGED <<status, resolvedAt, assigned, messages>>

ReadForStatus(c, a, to) ==
  /\ status[c] # "none"
  /\ to = status[c] \/ to \in WORKFLOW_TRANSITIONS[status[c]]
  /\ Submit([kind |-> "status", case |-> c, by |-> a, seen |-> status[c], to |-> to])
  /\ UNCHANGED <<status, resolvedAt, assigned, messages>>

ClaimForMessage(r) == status[r.case] # "closed"

\* A message by staff also assigns the case to them.
AddMessage(r) ==
  /\ r \in inFlight /\ r.kind = "message" /\ messages[r.case] < MaxMessages
  /\ inFlight' = inFlight \ {r}
  /\ IF ClaimForMessage(r)
     THEN /\ messages' = [messages EXCEPT ![r.case] = @ + 1]
          /\ assigned' = IF r.by \in Staff THEN [assigned EXCEPT ![r.case] = r.by] ELSE assigned
     ELSE UNCHANGED <<messages, assigned>>
  /\ UNCHANGED <<status, resolvedAt>>

ClaimForStatus_Trusting(r) == TRUE
ClaimForStatus(r) == status[r.case] = r.seen

ChangeWorkflowStatus(r) ==
  /\ r \in inFlight /\ r.kind = "status"
  /\ inFlight' = inFlight \ {r}
  /\ IF ClaimForStatus(r)
     THEN /\ status' = [status EXCEPT ![r.case] = r.to]
          /\ assigned' = [assigned EXCEPT ![r.case] = r.by]
          /\ resolvedAt' = IF r.to \in {"resolved", "closed"} THEN resolvedAt \cup {r.case} ELSE resolvedAt \ {r.case}
     ELSE UNCHANGED <<status, assigned, resolvedAt>>
  /\ UNCHANGED messages

Next ==
  \/ \E c \in Cases : CreateForMerchant(c)
  \/ \E c \in Cases, a \in Authors : ReadForMessage(c, a)
  \/ \E c \in Cases, a \in Staff, to \in Statuses : ReadForStatus(c, a, to)
  \/ \E r \in inFlight : AddMessage(r) \/ ChangeWorkflowStatus(r)

Spec == Init /\ [][Next]_vars

\* Two staff decisions taken on the same reading of a case never add up to a
\* change the workflow forbids.
FollowsWorkflow ==
  \A c \in Cases :
    status[c] \in Statuses /\ status'[c] # status[c] => status'[c] \in WORKFLOW_TRANSITIONS[status[c]]

WorkflowKept == [][FollowsWorkflow]_vars

\* Nothing is said on a closed case, also by an author who read it while it was
\* open.
SilentIfClosed == \A c \in Cases : status[c] = "closed" => messages'[c] = messages[c]

ClosedSilent == [][SilentIfClosed]_vars

\* Old readings of a case break no rule of the workflow (updateStatus, addMessage).
CaseRulesKept == []TypeOK /\ WorkflowKept /\ ClosedSilent
=============================================================================
