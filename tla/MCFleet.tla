------------------------------- MODULE MCFleet -------------------------------
(* Small instances of Fleet: a device with its SIMs, or two records that share a handset. *)
EXTENDS Fleet, TLC
CONSTANTS d1, d2, d3, s1, s2
MCHome == [s \in Sims |-> d1]
Symmetry == Permutations(Sims) \cup Permutations({d2, d3})

\* The device with the SIMs, qualified once, with two codes.
OneDevice ==
  /\ status[d2] = "none" /\ status[d3] = "none"
  /\ \A c \in Codes : c <= 2 \/ code[c].device = None

\* Two records without SIMs and without a qualification, neither retired.
TwoRecords ==
  /\ status[d1] = "none" /\ CodesOf(d1) = {}
  /\ \A d \in Devices : runs[d] = <<>> /\ ~retired[d]

\* The bound of the run: every behaviour that stays in one of the two.
MCNext == Next /\ (OneDevice \/ TwoRecords)'
MCSpec == Init /\ [][MCNext]_vars
=============================================================================
