---------------------------- MODULE MCExecution ----------------------------
\* Two requests at a time, two idempotency keys and two analyses whose
\* strategies meet on one task.
EXTENDS Execution, TLC

CONSTANTS h1, h2, k1, k2, a1, a2, t1, t2, w1, d0, d1, d2

\* a1 moves a worker and shifts t1 once the move is confirmed; a2 shifts t1 for
\* the weather, without prerequisites, and then t2.
MCPlan ==
    a1 :> << [type |-> "transfer", target |-> w1, body |-> d0],
             [type |-> "date_shift", target |-> t1, body |-> d1] >> @@
    a2 :> << [type |-> "weather_shift", target |-> t1, body |-> d2],
             [type |-> "schedule_shift", target |-> t2, body |-> d1] >>

\* One analysis only, for the run where requests outlive their lease.
MCPlanOne == a1 :> MCPlan[a1]

\* Two owners, each with a strategy that moves the same worker.
MCPlanTransfers ==
    a1 :> << [type |-> "transfer", target |-> w1, body |-> d0],
             [type |-> "date_shift", target |-> t1, body |-> d1] >> @@
    a2 :> << [type |-> "transfer", target |-> w1, body |-> d0] >>

Perms == Permutations({h1, h2}) \cup Permutations({k1, k2})
=============================================================================
