---------------------------- MODULE MCBackOffice ----------------------------
(* The alert engine, the support cases and the configuration control of one  *)
(* back office.  They share no table, so a step of the one is never seen by  *)
(* the others: a behaviour follows the steps of one of them, chosen at the   *)
(* beginning, and every behaviour of each of them is covered.                *)
EXTENDS Alerts

CONSTANTS Cases, Authors, Staff, MaxMessages, MaxInFlight, NoOne,
          Groups, Merchants, Platform, Amounts, MaxChanges

VARIABLES component,
          status, resolvedAt, assigned, messages, inFlight,  \* of SupportCases
          change, inForce, version, read                     \* of Configuration

Support == INSTANCE SupportCases
Config == INSTANCE Configuration

ASSUME BackOfficeAssumption == Support!SupportCasesAssumption /\ Config!ConfigurationAssumption

supportVars == <<status, resolvedAt, assigned, messages, inFlight>>
configVars == <<change, inForce, version, read>>
allVars == <<component, vars, supportVars, configVars>>

BackOfficeInit ==
  /\ component \in {"alerts", "support cases", "configuration"}
  /\ Init /\ Support!Init /\ Config!Init

\* Staff acknowledge the first incident only: that the second one is told apart from
\* an open one changes nothing but its label.
AlertStep ==
  /\ component = "alerts" /\ Next /\ UNCHANGED <<component, supportVars, configVars>>
  /\ \A a \in Alerts : alert'[a].status = "acknowledged" => a = 1

SupportStep ==
  component = "support cases" /\ Support!Next /\ UNCHANGED <<component, vars, configVars>>

ConfigStep ==
  component = "configuration" /\ Config!Next /\ UNCHANGED <<component, vars, supportVars>>

BackOfficeNext == AlertStep \/ SupportStep \/ ConfigStep

\* Fairness is that of the alert engine: nothing obliges staff or merchants.
BackOfficeSpec == BackOfficeInit /\ [][BackOfficeNext]_allVars /\ Fairness

-----------------------------------------------------------------------------
\* Two staff decisions taken on the same reading of a support case never add up
\* to a change the workflow forbids, and nothing is said on a closed case, also by
\* an author who read it while it was open (support-cases.service.ts).
CaseRulesKept == Support!CaseRulesKept

\* The limits in force keep the ceiling above safety balance and headroom, whatever
\* was approved in whichever order and copied to groups; pending or rejected values
\* never come into force; and the version of the defaults counts the approvals,
\* none applied twice (configuration.service.ts).
ConfigurationSafe == Config!ConfigurationSafe
=============================================================================
