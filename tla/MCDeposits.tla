----------------------------- MODULE MCDeposits -----------------------------
(* Small instances of Deposits.  d1 and d2 are intents of two customers with  *)
(* the same amount and phone suffix, d3 is a later intent of the customer of  *)
(* d1 with an amount within the tolerance of the others, and dt is a test     *)
(* intent.  Every payment fits every live intent.                             *)
EXTENDS Deposits

CONSTANTS d1, d2, d3, dt, x1, x2

MCCustomerOf == [d \in Deposits |-> IF d = dt THEN "c0" ELSE IF d = d2 THEN "c2" ELSE "c1"]
MCLikeness == [d \in Deposits |-> IF d = d3 THEN "a2" ELSE "a1"]
MCAgrees == [x \in Payments |-> Deposits \ TestMode]

\* All intents and one payment, of which staff decide nothing.
ManyIntents == paid[x2] = NoSim /\ checked = {}

\* Two intents and two payments, with two staff credits at once.
ManyPayments == status[d1] = "none" /\ status[dt] = "none"

\* The bound of the run: every behaviour that stays in one of the two.
MCNext == Next /\ (ManyIntents \/ ManyPayments)'
MCSpec == Init /\ [][MCNext]_vars /\ TimeFairness
=============================================================================
