---------------------------- MODULE MCProcesses ----------------------------
(***************************************************************************)
(* Processes that work on one thing: workers on a job, requests of two       *)
(* servers on a session, or threads on a pool.  One of the three runs, the   *)
(* others stay as they began.                                                *)
(***************************************************************************)
EXTENDS AnalysisJobs, SessionRefresh, SimulationPool, TLC

CONSTANTS w1, w2, j1, c1, k1, r1, r2, r3, s1, s2

Anywhere ==
    {"relayLease", "relayEnqueue", "relayFailed", "relayDispatched", "relayEnd", "load", "claim",
     "start", "authenticate", "authorize", "analyse", "lookup", "report", "read", "publishing",
     "publish", "unwind", "settle", "release", "ack", "saveGet", "savePut"}
\* A request in one process and two in another.
MCHome == r1 :> s1 @@ r2 :> s2 @@ r3 :> s2
Perms == Permutations({w1, w2}) \cup Permutations({r2, r3})

VARIABLE part

MCInit == part \in {"jobs", "session", "pool"} /\ Init /\ SessionInit /\ PoolInit
MCNext == /\ part' = part
          /\ \/ part = "jobs" /\ Next /\ UNCHANGED <<sessionVars, poolVars>>
             \/ part = "session" /\ SessionNext /\ UNCHANGED <<vars, poolVars>>
             \/ part = "pool" /\ PoolNext /\ UNCHANGED <<vars, sessionVars>>
MCSpec == MCInit /\ [][MCNext]_<<part, vars, sessionVars, poolVars>>

ASSUME SessionsAreConstant == SessionConstants
ASSUME PoolsAreConstant == PoolConstants
=============================================================================
