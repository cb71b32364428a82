----------------------------- MODULE MCWorkers -----------------------------
(***************************************************************************)
(* What must happen in the end, of three components that run beside each     *)
(* other: the jobs and their relay, the daily schedule, the refresh of a     *)
(* session.  One of them runs at a time; the others stay as they began.      *)
(***************************************************************************)
EXTENDS DailySchedule, TLC

CONSTANTS p1, p2, r1, r2, s1, s2, z0, z2, j1, j2, j3, c1, c2, w1, k1,
          NoJob, NoKey, NoToken, NoOne

MCOffset == z0 :> 0 @@ z2 :> 2
MCHome == r1 :> s1 @@ r2 :> s2
MCHomeOne == r1 :> s1 @@ r2 :> s1

VARIABLES part,
          job, outbox, published, enqueuing, arq, tries, jobLease, run, jobCounts,
          row, vault, newest, revoked, expired, mutex, holder, lapsed, req, sent, rotations,
          calls

jobVars == <<job, outbox, published, enqueuing, arq, tries, jobLease, run, jobCounts>>
sessionVars == <<row, vault, newest, revoked, expired, mutex, holder, lapsed, req, sent,
                 rotations, calls>>
allVars == <<part, vars, jobVars, sessionVars>>

\* Two clients with one key, a worker that may die while it relays.
J == INSTANCE AnalysisJobs WITH
    Client <- {c1, c2}, Worker <- {w1}, Job <- {j1, j2}, Key <- {k1},
    MaxJobAttempts <- 2, MaxTries <- 3,
    CrashPoints <- {"relayLease", "relayEnqueue", "relayFailed", "relayDispatched", "relayEnd"},
    MaxCrashes <- 1, MaxOutages <- 2, MaxTimeouts <- 0, MaxStalls <- 0, MaxOverruns <- 0,
    MaxFaults <- 2, MaxTroubles <- 2, lease <- jobLease, counters <- jobCounts

\* Two requests, in two processes and in one.
S == INSTANCE SessionRefresh WITH
    Request <- {r1, r2}, Server <- {s1, s2}, Home <- MCHome, MaxToken <- 2, MaxLostCalls <- 1,
    MaxWaits <- 1, MaxRequests <- 2, MaxServerDeaths <- 1, MaxRefreshTroubles <- 1
S1 == INSTANCE SessionRefresh WITH
    Request <- {r1, r2}, Server <- {s1}, Home <- MCHomeOne, MaxToken <- 2, MaxLostCalls <- 1,
    MaxWaits <- 1, MaxRequests <- 2, MaxServerDeaths <- 1, MaxRefreshTroubles <- 1

InJobs(A) == part = "jobs" /\ A /\ UNCHANGED <<part, vars, sessionVars>>
InDaily(A) == part = "daily" /\ A /\ UNCHANGED <<part, jobVars, sessionVars>>
InSession(A) == part = "session" /\ A /\ UNCHANGED <<part, vars, jobVars>>
InProcess(A) == part = "process" /\ A /\ UNCHANGED <<part, vars, jobVars>>

MCInit == part \in {"jobs", "daily", "session", "process"} /\ Init /\ J!Init
          /\ IF part = "process" THEN S1!SessionInit ELSE S!SessionInit
MCNext == InJobs(J!Next) \/ InDaily(Next) \/ InSession(S!SessionNext) \/ InProcess(S1!SessionNext)

\* The fairness of each module.  A condition that covers several parts is one of
\* each: no other part is ever enabled.  One process dies, so one lease is orphaned.
FirstStep == InJobs(J!WorkerStep(w1)) \/ InDaily(PassStep(p1)) \/ InSession(S!RequestStep(r1))
             \/ InProcess(S1!RequestStep(r1))
SecondStep == InDaily(PassStep(p2)) \/ InSession(S!RequestStep(r2)) \/ InProcess(S1!RequestStep(r2))
Lapse == \/ InJobs(\E n \in J!LeaseName : J!LapseOrphan(n))
         \/ InDaily(\E d \in Dates : LapseOrphan(d))
         \/ InSession(S!LapseRefresh)
         \/ InProcess(S1!LapseRefresh)
MCFairness ==
    /\ WF_allVars(FirstStep) /\ WF_allVars(SecondStep) /\ WF_allVars(Lapse)
    /\ \A j \in {j1, j2} : /\ SF_allVars(InJobs(J!RelayPick(w1, j)))
                           /\ SF_allVars(InJobs(J!Deliver(w1, j)))
                           /\ WF_allVars(InJobs(~J!Delivered(j) /\ J!Redeliver(j)))

MCSpec == MCInit /\ [][MCNext]_allVars /\ MCFairness

\* The n-th job, date and request; those of the parts that do not run stay closed.
Left(n) == \/ J!Open(<<j1, j2>>[n])
           \/ Missed(n - 1)
           \/ S!Unanswered(<<r1, r2>>[n])

\* What was asked for is done in the end: every job that was committed ends, a date
\* that is due gets its job, no request waits for ever for another one's refresh;
\* whoever dies, whichever call fails and however often Redis is down.
NothingIsLeft == \A n \in {1, 2} : Left(n) ~> ~Left(n)
=============================================================================
