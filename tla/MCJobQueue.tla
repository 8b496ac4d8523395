----------------------------- MODULE MCJobQueue -----------------------------
(* Instances of JobQueue for TLC. *)
EXTENDS JobQueue

\* j1 and j2 share a dedupe key and differ in priority; j3 has no key, a kind
\* only w1 serves, and a single attempt.
MCkind == [j \in Jobs |-> IF j = "j3" THEN "distill" ELSE "index"]
MCpriority == [j \in Jobs |-> IF j = "j2" THEN 1 ELSE 0]
MCmax_attempts == [j \in Jobs |-> IF j = "j1" THEN 2 ELSE 1]
MCdedupe_key == [j \in Jobs |-> IF j = "j3" THEN NoKey ELSE "k"]
MCServes == [w1 |-> {"index", "distill"}, w2 |-> {"index"}]
=============================================================================
