---- MODULE MCTriggers ----
(***************************************************************************)
(* Instances of Triggers for TLC.                                          *)
(***************************************************************************)
EXTENDS Triggers

\* The default, and the two kinds of events, one by pattern and one by name.
MCFilters == {{}, {"s3:ObjectCreated:*"}, {"s3:ObjectRemoved:Delete"}}
\* A shard whose records come in one page or in two, and of which the first
\* does not decode, and a shard that delays its polls.
Long == CHOOSE s \in Shard : TRUE
MCMaxRecords == [s \in Shard |-> IF s = Long THEN 2 ELSE 1]
MCMalformed == [s \in Shard |-> IF s = Long THEN {1} ELSE {}]
====
