--------------------------- MODULE MCAnalysisJobs ---------------------------
\* One or two workers, jobs and clients; one idempotency key, so that two jobs
\* are two jobs of the same key.
EXTENDS AnalysisJobs, TLC

CONSTANTS w1, w2, j1, j2, c1, c2, k1

RelayPoints == {"relayLease", "relayEnqueue", "relayFailed", "relayDispatched", "relayEnd"}
Anywhere == RelayPoints \cup
    {"load", "claim", "start", "authenticate", "authorize", "analyse", "lookup", "report",
     "read", "publishing", "publish", "unwind", "settle", "release", "ack", "saveGet", "savePut"}

Perms == Permutations(Worker) \cup Permutations(Job) \cup Permutations(Client)
=============================================================================
