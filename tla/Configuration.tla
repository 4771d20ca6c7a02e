---------------------------- MODULE Configuration ----------------------------
(***************************************************************************)
(* Configuration control: proposals for the platform's defaults, a device  *)
(* group or a merchant, their review, and the values in force.  A device   *)
(* group takes the defaults it read before it is created.                  *)
(*                                                                         *)
(* Of a fleet value the model keeps the wallet ceiling, the safety balance *)
(* and the headroom; of a merchant's the deposit minimum and maximum and   *)
(* the tolerance: the fields normalizeConfiguration relates.               *)
(***************************************************************************)
EXTENDS Naturals, FiniteSets

CONSTANTS
  Groups, Merchants,
  Platform,
  Amounts,     \* amounts of money
  MaxChanges   \* bound on proposals

ConfigurationAssumption ==
  /\ Amounts \subseteq Nat /\ {0, 1} \subseteq Amounts
  /\ Platform \notin Groups \cup Merchants /\ Groups \cap Merchants = {} /\ MaxChanges \in Nat

Scopes == {Platform} \cup Groups \cup Merchants
FleetValues == [ceiling : Amounts \ {0}, safety : Amounts, headroom : Amounts]
MerchantValues == [minimum : Amounts \ {0}, maximum : Amounts \ {0}, tolerance : Amounts]
ValuesOf(scope) == IF scope \in Merchants THEN MerchantValues ELSE FleetValues
Absent == [absent |-> TRUE]

\* What applies before anything is approved: the policy's fallbacks, the schema's defaults.
FallbackPolicy == [ceiling |-> 1, safety |-> 0, headroom |-> 0]
MerchantDefaults == [minimum |-> 1, maximum |-> 1, tolerance |-> 0]

VARIABLES
  change,   \* ConfigurationChange rows, in the order of their creation
  inForce,  \* the values that drive the runtime, by scope
  version,  \* PlatformSetting.version of the defaults: 0 before the first approval
  read      \* the defaults a group's creation has read

vars == <<change, inForce, version, read>>

Changes == DOMAIN change

TypeOK ==
  /\ Changes = 1..Cardinality(Changes) /\ Cardinality(Changes) <= MaxChanges
  /\ \A c \in Changes :
       /\ change[c].scope \in Scopes /\ change[c].proposed \in ValuesOf(change[c].scope)
       /\ change[c].version \in 1..MaxChanges /\ change[c].status \in {"pending", "approved", "rejected"}
  /\ \A s \in Scopes : inForce[s] \in ValuesOf(s) \cup {Absent}
  /\ version \in Nat
  /\ read \in [Groups -> FleetValues \cup {Absent}]

Init ==
  /\ change = [c \in {} |-> {}]
  /\ inForce = [s \in Scopes |-> IF s \in Groups THEN Absent ELSE IF s \in Merchants THEN MerchantDefaults ELSE FallbackPolicy]
  /\ version = 0
  /\ read = [g \in Groups |-> Absent]

-----------------------------------------------------------------------------
\* What a proposal must satisfy.
normalizeConfiguration(scope, v) ==
  IF scope \in Merchants THEN v.minimum <= v.maximum /\ v.tolerance <= v.maximum
  ELSE v.ceiling > v.safety + v.headroom

VersionsOf(scope) == {change[c].version : c \in {d \in Changes : change[d].scope = scope}}

NextVersion(scope) == Cardinality(VersionsOf(scope)) + 1

\* Under the scope's lock, which is taken before the last version is read.
propose(scope, v) ==
  /\ Cardinality(Changes) < MaxChanges
  /\ inForce[scope] # Absent
  /\ normalizeConfiguration(scope, v)
  /\ change' = [c \in Changes \cup {Cardinality(Changes) + 1} |->
                  IF c \in Changes THEN change[c]
                  ELSE [scope |-> scope, version |-> NextVersion(scope), proposed |-> v, status |-> "pending"]]
  /\ UNCHANGED <<inForce, version, read>>

apply(scope, v) ==
  /\ inForce' = [inForce EXCEPT ![scope] = v]
  /\ version' = IF scope = Platform THEN version + 1 ELSE version

Pending_Undecided(c) == change[c].status # "rejected"

Pending(c) == change[c].status = "pending"

approve(c) ==
  /\ Pending(c)
  /\ version < MaxChanges
  /\ apply(change[c].scope, change[c].proposed)
  /\ change' = [change EXCEPT ![c].status = "approved"]
  /\ UNCHANGED read

reject(c) ==
  /\ Pending(c)
  /\ change' = [change EXCEPT ![c].status = "rejected"]
  /\ UNCHANGED <<inForce, version, read>>

\* createGroup reads the defaults and then creates the group, in no transaction.
loadPlatformPolicy(g) ==
  /\ inForce[g] = Absent /\ read[g] = Absent
  /\ read' = [read EXCEPT ![g] = inForce[Platform]]
  /\ UNCHANGED <<change, inForce, version>>

createGroup(g) ==
  /\ inForce[g] = Absent /\ read[g] # Absent
  /\ inForce' = [inForce EXCEPT ![g] = read[g]]
  /\ UNCHANGED <<change, version, read>>

Next ==
  \/ \E s \in Scopes : \E v \in ValuesOf(s) : propose(s, v)
  \/ \E c \in Changes : approve(c) \/ reject(c)
  \/ \E g \in Groups : loadPlatformPolicy(g) \/ createGroup(g)

Spec == Init /\ [][Next]_vars

-----------------------------------------------------------------------------
(* "Wallet ceiling must exceed the combined safety balance and headroom"           *)
(* (normalizeConfiguration checks a proposal): so do the limits SIM selection and  *)
(* sweeps use, whatever was approved in whichever order and copied to groups.      *)
LimitsSafe ==
  /\ \A s \in {Platform} \cup Groups : inForce[s] # Absent => inForce[s].ceiling > inForce[s].safety + inForce[s].headroom
  /\ \A m \in Merchants : inForce[m].minimum <= inForce[m].maximum

(* "Pending or rejected values never affect scheduling or money movement"          *)
(* (portal-access.md): a value in force was approved for its scope, or is what     *)
(* applies before any approval, or is what a group copied from approved defaults.  *)
ApprovedFor(s) == {change[c].proposed : c \in {d \in Changes : change[d].scope = s /\ change[d].status = "approved"}}
OnlyApprovedInForce ==
  /\ inForce[Platform] \in ApprovedFor(Platform) \cup {FallbackPolicy}
  /\ \A g \in Groups : inForce[g] \in {Absent, FallbackPolicy} \cup ApprovedFor(g) \cup ApprovedFor(Platform)
  /\ \A m \in Merchants : inForce[m] \in ApprovedFor(m) \cup {MerchantDefaults}

(* "Approval persists a new version atomically" (portal-access.md): the version of *)
(* the defaults counts the approvals, none of them applied twice.                  *)
VersionCountsApprovals ==
  version = Cardinality({c \in Changes : change[c].scope = Platform /\ change[c].status = "approved"})

(* What is in force is safe and exactly what was approved.                         *)
ConfigurationSafe == TypeOK /\ LimitsSafe /\ OnlyApprovedInForce /\ VersionCountsApprovals
=============================================================================
