------------------------------ MODULE MCPayouts ------------------------------
(* Small instances of Payouts.  Every SIM is on a handset of its own; the    *)
(* first payment's SMS agrees with every transfer, so two payouts to the     *)
(* same receiver look alike to the matcher.                                  *)
EXTENDS Payouts

CONSTANTS d1, d2, s1, s2, t1, t2, x1, x2

MCDeviceOf == [s \in Sims |-> IF s = s1 THEN d1 ELSE d2]
MCDescribes == [x \in Payments |-> IF x = x1 THEN Transfers ELSE Transfers \ {t1}]

\* Two payouts compete for the first SIM, with one attempt each; the handset's binding
\* moves while it has the first one's job, in behaviours without a retry.
TwoPayouts ==
  /\ unbound = {} \/ (unbound = {<<t1, 1>>} /\ \A j \in Jobs : retries[j] + retrying[j] = 0)
  /\ \A t \in Transfers : attempts[t] <= 1 /\ sim[t] # s2
  /\ \A x \in Payments : receipt[x] # s2
  /\ d2 \in online /\ s2 \in active

\* The first payout alone has two attempts, on two SIMs.
TwoAttempts ==
  /\ status[t2] = "none"
  /\ receipt[x2] = NoSim /\ \A t \in Transfers : txid[t] # x2

\* The bound of the run: every behaviour that stays in one of the two.
MCNext == Next /\ (TwoPayouts \/ TwoAttempts)'
MCSpec == Init /\ [][MCNext]_vars /\ SweepFairness
=============================================================================
