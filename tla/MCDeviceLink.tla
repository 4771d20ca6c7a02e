---------------------------- MODULE MCDeviceLink ----------------------------
(* Small instances of DeviceLink: a payout m1 and a balance query.           *)
EXTENDS DeviceLink

CONSTANT m1

\* The query is never leased: it waits, or expires in the queue.
NoQuery == \A j \in BalanceJobs : j # active /\ job[j].state \in {"queued", "failed"} /\ record[j].status = "none"
NoQueryRetry == \A j \in BalanceJobs : job[j].fence = 1
NoRetry == \A j \in Jobs : job[j].fence = 1
OneConnection == connection = IF connected THEN 1 ELSE 0

\* The payout is retried; or one of its events cannot be read back; or a balance
\* query shares the spool over a connection that holds.
Bounded ==
  \/ NoQuery /\ NoQueryRetry /\ corrupt = {}
  \/ NoQuery /\ NoRetry
  \/ NoRetry /\ corrupt = {} /\ OneConnection

MCNext == Next /\ Bounded'
MCSpec == Init /\ [][MCNext]_vars /\ LinkFairness
=============================================================================
