------------------------------ MODULE MCHandset ------------------------------
(* Small instances of Handset.  The first two jobs are two attempts of one   *)
(* operation, the third is of another, all on one SIM; jobs and tokens may   *)
(* arrive in any order and any number of times.                              *)
EXTENDS Handset

CONSTANTS j1, j2, j3, o1, o2, s1, h1, h2

\* A second screen was handled before the handler of the first one was done.
VARIABLE overlapped

MCOpOf == [j \in Jobs |-> IF j \in {j1, j2} THEN o1 ELSE o2]
MCSimOf == [j \in Jobs |-> s1]

\* The second attempt has a newer token than the first; a redelivery may raise a token.
MCEnvelopes == (Jobs \X (1..2)) \ {<<j2, 1>>}

\* Two screens are being handled.
Overlap == \E g, h \in Handlers : g # h /\ handler[g].pc # "idle" /\ handler[h].pc # "idle"

WatchedInit == Init /\ overlapped = FALSE
WatchedNext == Next /\ overlapped' = (overlapped \/ Overlap')
WatchedSpec == WatchedInit /\ [][WatchedNext]_<<vars, overlapped>>

\* The bound of the run: the second operation does not arrive when screens overlap.
Bounded ==
  \/ handler[h2].pc = "idle" /\ ~overlapped
  \/ \A j \in Jobs \ {j1, j2} : jobStatus[j] = "none"

MCNext == WatchedNext /\ Bounded'
MCSpec == WatchedInit /\ [][MCNext]_<<vars, overlapped>> /\ WF_vars(SessionLost)

\* As long as every screen is handled before the next one appears, the agent
\* reports a failure or a cancellation after PIN_SUBMITTED only on the provider's
\* word, through crashes, recovery, redelivery and expiry; for overlapping
\* screens see the violation of AmbiguityIsUnknown.
AloneAmbiguityIsUnknown == ~overlapped => AmbiguityIsUnknown
=============================================================================
