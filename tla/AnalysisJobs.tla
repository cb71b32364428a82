---------------------------- MODULE AnalysisJobs ----------------------------
(***************************************************************************)
(* Durable analysis jobs (workers/service.py, workers/worker.py) and the     *)
(* part of services/portfolio.py that publishes their result.  A client      *)
(* commits a job and an outbox row; a worker's relay hands the job to ARQ;   *)
(* ARQ delivers it, more than once if a delivery dies; run_analysis_job      *)
(* takes the job's lease, runs the analysis under the organization's         *)
(* "portfolio_analysis" lease and records how it ended.  A worker process    *)
(* does one thing at a time (max_jobs = 1 counts cron functions too).        *)
(*                                                                         *)
(* Every save_job is two transactions, a read (SaveGet) and a write of what  *)
(* was read with the changes put over it (SavePut).  Stage, progress and     *)
(* error texts are left out; a save of these alone is a save of no change,   *)
(* which still writes the fields it read.  knowledge_import jobs, which run  *)
(* without the portfolio lease, are not part of this module.                 *)
(***************************************************************************)
EXTENDS Naturals, FiniteSets, Holders

CONSTANTS Client,      \* requests and scheduler passes that call enqueue_analysis
          Worker,      \* ARQ worker processes
          Job,         \* ids uuid4 may return
          Key,         \* idempotency keys
          NoJob, NoKey,
          MaxJobAttempts,  \* MAX_JOB_ATTEMPTS (3)
          MaxTries,        \* deliveries ARQ makes of one job (5)
          CrashPoints,     \* bound: the points at which a worker may die
          MaxCrashes,      \* bound: worker deaths
          MaxOutages,      \* bound: enqueue calls that fail on Redis
          MaxTimeouts,     \* bound: deliveries cancelled by job_timeout or a shutdown
          MaxStalls,       \* bound: leases that lapse under a worker that is alive
          MaxOverruns,     \* bound: in-progress keys that expire under a live worker
          MaxFaults,       \* bound: transient failures of an analysis
          MaxTroubles      \* bound: all of these together

ASSUME JobConstants == /\ MaxJobAttempts \in Nat \ {0} /\ MaxTries \in Nat \ {0}
                       /\ NoJob \notin Job /\ NoKey \notin Key
                       /\ {Free, Orphan} \cap Worker = {} /\ Free # Orphan

VARIABLES job,         \* the job records
          outbox,      \* the outbox rows' status
          published,   \* analyses in the store, by the key they were run with
          enqueuing,   \* the key a client found no job for, to be inserted
          arq,         \* Redis: absent, queued, running or done, per job
          tries,       \* deliveries so far
          lease,       \* LeaseTable
          run,         \* what each worker does, see NotRunning
          counters     \* how often each bounded event has happened

storeVars == <<job, outbox, published>>
queueVars == <<arq, tries>>
vars == <<storeVars, enqueuing, queueVars, lease, run, counters>>

-----------------------------------------------------------------------------
JobLease(j) == <<"job", j>>
OutboxLease(j) == <<"outbox", j>>
Portfolio == <<"portfolio", NoJob>>
LeaseName == {JobLease(j) : j \in Job} \cup {OutboxLease(j) : j \in Job} \cup {Portfolio}

L == INSTANCE LeaseTable WITH Process <- Worker, Name <- LeaseName

Terminal == {"completed", "needs_inputs", "failed", "expired"}
Status == {"queued", "running", "retrying"} \cup Terminal

JobRecord == [key : Key, status : Status, attempts : 0..MaxTries,
              dispatch : {"pending", "dispatched"}]

ASSUME NoJobIsNoRecord == NoJob \notin [key : Key, status : Status, attempts : Nat,
                                        dispatch : {"pending", "dispatched"}]

NoChange == <<>>

\* The locals of a worker: the record save_job read (mem), the changes it puts
\* over it and where it continues; the attempt run_analysis_job counted; the
\* lease_lost event; how the analysis ended; what ARQ is told.
NotRunning == [pc |-> "idle", job |-> NoJob, mem |-> NoJob, change |-> NoChange,
               after |-> "idle", attempt |-> 0, lost |-> FALSE, outcome |-> "none",
               ack |-> "done"]

At(w, p) == run[w].pc = p
Goto(w, p) == run' = [run EXCEPT ![w].pc = p]
MyJob(w) == run[w].job
\* The bounded events: each has a bound, and so have all of them together.
Troubles == counters.crash + counters.outage + counters.timeout + counters.stall
            + counters.overrun + counters.fault
Count(what, bound) ==
    /\ counters[what] < bound /\ Troubles < MaxTroubles
    /\ counters' = [counters EXCEPT ![what] = @ + 1]

\* From taking the job's lease to releasing it, and the saves in between.
HasClaim(w) == \/ run[w].pc \in {"start", "authenticate", "authorize", "analyse", "lookup",
                                 "report", "read", "publishing", "publish", "unwind",
                                 "settle", "release"}
               \/ run[w].pc \in {"saveGet", "savePut"} /\ run[w].after # "relayEnd"
Delivering(w) == HasClaim(w) \/ run[w].pc \in {"load", "claim", "ack"}

TypeOK ==
    /\ job \in [Job -> JobRecord \cup {NoJob}]
    /\ outbox \in [Job -> {"none", "pending", "retrying", "dispatched"}]
    /\ published \in [Key -> Nat]
    /\ enqueuing \in [Client -> Key \cup {NoKey}]
    /\ arq \in [Job -> {"absent", "queued", "running", "done"}]
    /\ tries \in [Job -> 0..MaxTries]
    /\ L!TableTypeOK
    /\ \A w \in Worker : /\ run[w].job \in Job \cup {NoJob}
                         /\ run[w].mem \in JobRecord \cup {NoJob}
                         /\ run[w].attempt \in 0..MaxTries

Init ==
    /\ job = [j \in Job |-> NoJob]
    /\ outbox = [j \in Job |-> "none"]
    /\ published = [k \in Key |-> 0]
    /\ enqueuing = [c \in Client |-> NoKey]
    /\ arq = [j \in Job |-> "absent"]
    /\ tries = [j \in Job |-> 0]
    /\ L!TableInit
    /\ run = [w \in Worker |-> NotRunning]
    /\ counters = [crash |-> 0, outage |-> 0, timeout |-> 0, stall |-> 0, overrun |-> 0,
                   fault |-> 0]

-----------------------------------------------------------------------------
\* enqueue_analysis: look for a job with the key, then insert job and outbox
\* row in one transaction.  A job that is found is returned as it is.
EnqueueLook(c, k) ==
    /\ enqueuing[c] = NoKey
    /\ \A j \in Job : job[j] # NoJob => job[j].key # k
    /\ enqueuing' = [enqueuing EXCEPT ![c] = k]
    /\ UNCHANGED <<storeVars, queueVars, lease, run, counters>>

EnqueueInsert(c, j) ==
    /\ enqueuing[c] # NoKey
    /\ job[j] = NoJob
    /\ job' = [job EXCEPT ![j] = [key |-> enqueuing[c], status |-> "queued",
                                  attempts |-> 0, dispatch |-> "pending"]]
    /\ outbox' = [outbox EXCEPT ![j] = "pending"]
    /\ enqueuing' = [enqueuing EXCEPT ![c] = NoKey]
    /\ UNCHANGED <<published, queueVars, lease, run, counters>>

-----------------------------------------------------------------------------
\* save_job(r, **c): read the record, put the changes over it, write it; the
\* worker goes on at p with what it wrote.
Saving(r, c, p) == [r EXCEPT !.change = c, !.after = p, !.pc = "saveGet"]
Save(w, c, p) == run' = [run EXCEPT ![w] = Saving(@, c, p)]

SaveGet(w) ==
    /\ At(w, "saveGet")
    /\ run' = [run EXCEPT ![w].mem = job[MyJob(w)], ![w].pc = "savePut"]
    /\ UNCHANGED <<storeVars, enqueuing, queueVars, lease, counters>>

Merged(r) == [f \in DOMAIN r.mem |-> IF f \in DOMAIN r.change THEN r.change[f] ELSE r.mem[f]]

\* The saves of report_phase do not update run_analysis_job's own variable.
SavePut(w) ==
    /\ At(w, "savePut")
    /\ job' = [job EXCEPT ![MyJob(w)] = Merged(run[w])]
    /\ run' = [run EXCEPT ![w].pc = run[w].after, ![w].mem = NoJob, ![w].change = NoChange,
                          ![w].attempt = IF run[w].after \in {"read", "publish"} THEN @
                                         ELSE Merged(run[w]).attempts]
    /\ UNCHANGED <<outbox, published, enqueuing, queueVars, lease, counters>>

-----------------------------------------------------------------------------
\* Mutation of Waiting: only rows that were never tried are relayed.
WaitingFirstTime(j) == outbox[j] = "pending"

Waiting(j) == outbox[j] \in {"pending", "retrying"}

\* relay_outbox, for one row: the row is read before its lease is taken.
RelayPick(w, j) ==
    /\ At(w, "idle")
    /\ Waiting(j)
    /\ run' = [run EXCEPT ![w].job = j, ![w].pc = "relayLease"]
    /\ UNCHANGED <<storeVars, enqueuing, queueVars, lease, counters>>

RelayLease(w) ==
    /\ At(w, "relayLease")
    /\ \/ L!Acquire(w, OutboxLease(MyJob(w))) /\ Goto(w, "relayEnqueue")
       \/ /\ ~L!CanAcquire(OutboxLease(MyJob(w)))
          /\ run' = [run EXCEPT ![w] = NotRunning]
          /\ UNCHANGED lease
    /\ UNCHANGED <<storeVars, enqueuing, queueVars, counters>>

\* enqueue_job with a deterministic _job_id: ARQ refuses an id that is queued,
\* in progress or has a kept result.
ArqEnqueue(j) == arq' = [arq EXCEPT ![j] = IF @ = "absent" THEN "queued" ELSE @]

\* Mutation of RelayEnqueue: what the call raises is not caught as a failure.
RelaySwallows(w) ==
    /\ At(w, "relayEnqueue")
    /\ \/ ArqEnqueue(MyJob(w)) /\ UNCHANGED counters
       \/ Count("outage", MaxOutages) /\ UNCHANGED arq
    /\ Goto(w, "relayDispatched")
    /\ UNCHANGED <<storeVars, enqueuing, tries, lease>>

RelayEnqueue(w) ==
    /\ At(w, "relayEnqueue")
    /\ \/ ArqEnqueue(MyJob(w)) /\ Goto(w, "relayDispatched") /\ UNCHANGED counters
       \/ Count("outage", MaxOutages) /\ Goto(w, "relayFailed") /\ UNCHANGED arq
    /\ UNCHANGED <<storeVars, enqueuing, tries, lease>>

RelayFailed(w) ==
    /\ At(w, "relayFailed")
    /\ outbox' = [outbox EXCEPT ![MyJob(w)] = "retrying"]
    /\ Goto(w, "relayEnd")
    /\ UNCHANGED <<job, published, enqueuing, queueVars, lease, counters>>

\* The first get_record only asks whether the job exists, which it does.
RelayDispatched(w) ==
    /\ At(w, "relayDispatched")
    /\ outbox' = [outbox EXCEPT ![MyJob(w)] = "dispatched"]
    /\ Save(w, [dispatch |-> "dispatched"], "relayEnd")
    /\ UNCHANGED <<job, published, enqueuing, queueVars, lease, counters>>

RelayEnd(w) ==
    /\ At(w, "relayEnd")
    /\ L!Release(w, OutboxLease(MyJob(w)))
    /\ run' = [run EXCEPT ![w] = NotRunning]
    /\ UNCHANGED <<storeVars, enqueuing, queueVars, counters>>

Relay(w) == \/ \E j \in Job : RelayPick(w, j)
            \/ RelayLease(w) \/ RelayEnqueue(w) \/ RelayFailed(w)
            \/ RelayDispatched(w) \/ RelayEnd(w)

-----------------------------------------------------------------------------
TriesLeft(j) == tries[j] < MaxTries

\* ARQ hands a queued job to an idle worker, or drops it after its last try.
Deliver(w, j) ==
    /\ At(w, "idle")
    /\ arq[j] = "queued"
    /\ IF TriesLeft(j)
       THEN /\ arq' = [arq EXCEPT ![j] = "running"]
            /\ tries' = [tries EXCEPT ![j] = @ + 1]
            /\ run' = [run EXCEPT ![w].job = j, ![w].pc = "load"]
       ELSE /\ arq' = [arq EXCEPT ![j] = "done"]
            /\ UNCHANGED <<tries, run>>
    /\ UNCHANGED <<storeVars, enqueuing, lease, counters>>

\* run_analysis_job before its try block.
Load(w) ==
    /\ At(w, "load")
    /\ Goto(w, IF job[MyJob(w)].status \in Terminal THEN "ack" ELSE "claim")
    /\ UNCHANGED <<storeVars, enqueuing, queueVars, lease, counters>>

Claim(w) ==
    /\ At(w, "claim")
    /\ \/ L!Acquire(w, JobLease(MyJob(w))) /\ Goto(w, "start")
       \/ ~L!CanAcquire(JobLease(MyJob(w))) /\ Goto(w, "ack") /\ UNCHANGED lease
    /\ UNCHANGED <<storeVars, enqueuing, queueVars, counters>>

\* Mutation of AlreadyEnded: the record is not read again under the lease.
NeverEnded(w) == FALSE

AlreadyEnded(w) == job[MyJob(w)].status \in Terminal

Start(w) ==
    /\ At(w, "start")
    /\ IF AlreadyEnded(w)
       THEN Goto(w, "release")
       ELSE Save(w, [status |-> "running", attempts |-> job[MyJob(w)].attempts + 1],
                 "authenticate")
    /\ UNCHANGED <<storeVars, enqueuing, queueVars, lease, counters>>

\* How the job ends; the except clauses of run_analysis_job.
End(w, status) == Save(w, [status |-> status], "release")

\* except JobLeaseLost: nothing is saved, ARQ is asked to deliver again.
LeaseLost(w) == run' = [run EXCEPT ![w].ack = "retry", ![w].pc = "release"]

\* Mutation of RetryOrFail: the attempt that failed is counted a second time.
RetryCountsAgain(w) ==
    IF run[w].attempt < MaxJobAttempts
    THEN run' = [run EXCEPT ![w] = Saving([@ EXCEPT !.ack = "retry"],
                            [status |-> "retrying", attempts |-> job[MyJob(w)].attempts + 1],
                            "release")]
    ELSE End(w, "failed")

RetryOrFail(w) ==
    IF run[w].attempt < MaxJobAttempts
    THEN run' = [run EXCEPT ![w] = Saving([@ EXCEPT !.ack = "retry"],
                                          [status |-> "retrying"], "release")]
    ELSE End(w, "failed")

\* No session, or auth.current: a fresh session, a refusal, or an exception.
Authenticate(w) ==
    /\ At(w, "authenticate")
    /\ \/ Save(w, NoChange, "authorize") /\ UNCHANGED counters
       \/ \E s \in {"expired", "failed"} : End(w, s) /\ UNCHANGED counters
       \/ Count("fault", MaxFaults) /\ RetryOrFail(w)
    /\ UNCHANGED <<storeVars, enqueuing, queueVars, lease>>

Authorize(w) ==
    /\ At(w, "authorize")
    /\ \/ End(w, "failed")
       \/ IF run[w].lost THEN LeaseLost(w) ELSE Save(w, NoChange, "analyse")
    /\ UNCHANGED <<storeVars, enqueuing, queueVars, lease, counters>>

\* Leave run_analysis: its `finally` first, then run_analysis_job's handlers.
Finish(w, outcome) == run' = [run EXCEPT ![w].outcome = outcome, ![w].pc = "unwind"]

\* run_analysis: HTTPException 409 when another analysis of the organization runs.
Analyse(w) ==
    /\ At(w, "analyse")
    /\ \/ L!Acquire(w, Portfolio) /\ Goto(w, "lookup")
       \/ /\ ~L!CanAcquire(Portfolio)
          /\ run' = [run EXCEPT ![w].outcome = "failed", ![w].pc = "settle"]
          /\ UNCHANGED lease
    /\ UNCHANGED <<storeVars, enqueuing, queueVars, counters>>

IsPublished(k) == published[k] > 0
MyKey(w) == job[MyJob(w)].key

Lookup(w) ==
    /\ At(w, "lookup")
    /\ IF IsPublished(MyKey(w)) THEN Finish(w, "completed") ELSE Goto(w, "report")
    /\ UNCHANGED <<storeVars, enqueuing, queueVars, lease, counters>>

\* report_phase, at the first and at the last of the milestones.
Report(w) ==
    /\ run[w].pc \in {"report", "publishing"}
    /\ IF run[w].lost \/ job[MyJob(w)].status # "running"
       THEN Finish(w, "lost")
       ELSE Save(w, NoChange, IF At(w, "report") THEN "read" ELSE "publish")
    /\ UNCHANGED <<storeVars, enqueuing, queueVars, lease, counters>>

\* Read Timecue, simulate: missing inputs, a rejection (4xx, size, time limit),
\* an upstream 401 or 403, or any other exception.
Read(w) ==
    /\ At(w, "read")
    /\ \/ Goto(w, "publishing") /\ UNCHANGED counters
       \/ \E o \in {"needs_inputs", "failed", "expired"} : Finish(w, o) /\ UNCHANGED counters
       \/ Count("fault", MaxFaults) /\ Finish(w, "fault")
    /\ UNCHANGED <<storeVars, enqueuing, queueVars, lease>>

StoreAnalysis(k) == published' = [published EXCEPT ![k] = IF IsPublished(k) THEN @ ELSE @ + 1]

\* create_analysis, one transaction; what follows it in run_analysis may raise.
Publish(w) ==
    /\ At(w, "publish")
    /\ StoreAnalysis(MyKey(w))
    /\ \/ Finish(w, "completed") /\ UNCHANGED counters
       \/ Count("fault", MaxFaults) /\ Finish(w, "fault")
    /\ UNCHANGED <<job, outbox, enqueuing, queueVars, lease>>

Unwind(w) ==
    /\ At(w, "unwind")
    /\ L!Release(w, Portfolio)
    /\ Goto(w, "settle")
    /\ UNCHANGED <<storeVars, enqueuing, queueVars, counters>>

TerminalStatus(outcome) == outcome

Settle(w) ==
    /\ At(w, "settle")
    /\ CASE run[w].outcome = "lost" -> LeaseLost(w)
         [] run[w].outcome = "fault" -> RetryOrFail(w)
         [] run[w].outcome \in {"failed", "expired"} -> End(w, run[w].outcome)
         [] OTHER -> IF run[w].lost THEN LeaseLost(w)
                     ELSE End(w, TerminalStatus(run[w].outcome))
    /\ UNCHANGED <<storeVars, enqueuing, queueVars, lease, counters>>

\* CancelledError at an await: _run_bounded waits for the thread, no handler
\* catches it.  ARQ drops a job that timed out and requeues one that a
\* shutdown cancelled.
Cancelled(w) ==
    /\ run[w].pc \in {"authorize", "settle"}
    /\ Count("timeout", MaxTimeouts)
    /\ \E ack \in {"done", "retry"} :
           run' = [run EXCEPT ![w].ack = ack, ![w].pc = "release"]
    /\ UNCHANGED <<storeVars, enqueuing, queueVars, lease>>

Release(w) ==
    /\ At(w, "release")
    /\ L!Release(w, JobLease(MyJob(w)))
    /\ Goto(w, "ack")
    /\ UNCHANGED <<storeVars, enqueuing, queueVars, counters>>

Ack(w) ==
    /\ At(w, "ack")
    /\ arq' = [arq EXCEPT ![MyJob(w)] = IF run[w].ack = "retry" THEN "queued" ELSE "done"]
    /\ run' = [run EXCEPT ![w] = NotRunning]
    /\ UNCHANGED <<storeVars, enqueuing, tries, lease, counters>>

RunJob(w) == \/ \E j \in Job : Deliver(w, j)
             \/ Load(w) \/ Claim(w) \/ Start(w) \/ Authenticate(w) \/ Authorize(w)
             \/ Analyse(w) \/ Lookup(w) \/ Report(w) \/ Read(w) \/ Publish(w)
             \/ Unwind(w) \/ Settle(w) \/ Release(w) \/ Ack(w)

-----------------------------------------------------------------------------
\* _renew_job_lease, which runs beside the job until its `finally`.
RenewTask(w) ==
    /\ HasClaim(w) /\ ~At(w, "release") /\ ~run[w].lost
    /\ IF L!Holds(w, JobLease(MyJob(w)))
       THEN L!Renew(w, JobLease(MyJob(w))) /\ UNCHANGED run
       ELSE run' = [run EXCEPT ![w].lost = TRUE] /\ UNCHANGED lease
    /\ UNCHANGED <<storeVars, enqueuing, queueVars, counters>>

\* A worker process dies (or is killed after its grace period) and restarts.
Crash(w) ==
    /\ run[w].pc \in CrashPoints
    /\ Count("crash", MaxCrashes)
    /\ L!Abandon(w)
    /\ run' = [run EXCEPT ![w] = NotRunning]
    /\ UNCHANGED <<storeVars, enqueuing, queueVars>>

\* The in-progress key of a delivery expires (job_timeout plus 10 seconds): its
\* worker died, or it is alive and waits for a thread it cannot cancel.
Delivered(j) == \E w \in Worker : MyJob(w) = j /\ Delivering(w)

Redeliver(j) ==
    /\ arq[j] = "running"
    /\ arq' = [arq EXCEPT ![j] = "queued"]
    /\ \/ ~Delivered(j) /\ UNCHANGED counters
       \/ Delivered(j) /\ Count("overrun", MaxOverruns)
    /\ UNCHANGED <<storeVars, enqueuing, tries, lease, run>>

\* A lease nobody will renew lapses; one of a live worker may, when the worker
\* stalls or (outbox, portfolio) when it never renews.
LapseOrphan(n) ==
    /\ lease[n].holder = Orphan
    /\ L!Lapse(n)
    /\ UNCHANGED <<storeVars, enqueuing, queueVars, run, counters>>

LapseLive(n) ==
    /\ lease[n].holder \in Worker
    /\ L!Lapse(n)
    /\ Count("stall", MaxStalls)
    /\ UNCHANGED <<storeVars, enqueuing, queueVars, run>>

Next ==
    \/ \E c \in Client, k \in Key : EnqueueLook(c, k)
    \/ \E c \in Client, j \in Job : EnqueueInsert(c, j)
    \/ \E w \in Worker : \/ Relay(w) \/ RunJob(w) \/ SaveGet(w) \/ SavePut(w)
                         \/ RenewTask(w) \/ Cancelled(w) \/ Crash(w)
    \/ \E j \in Job : Redeliver(j)
    \/ \E n \in LeaseName : LapseOrphan(n) \/ LapseLive(n)

Spec == Init /\ [][Next]_vars

\* A worker process keeps working: ARQ polls its queue, the relay runs every 10
\* seconds, and what was started goes on.  Leases and in-progress keys of dead
\* workers expire.  Nothing is assumed of clients or of failures.
WorkerStep(w) == RunJob(w) \/ SaveGet(w) \/ SavePut(w) \/ Relay(w)
Fairness == /\ \A w \in Worker : /\ WF_vars(WorkerStep(w))
                                 /\ \A j \in Job : /\ SF_vars(RelayPick(w, j))
                                                   /\ SF_vars(Deliver(w, j))
            /\ \A j \in Job : WF_vars(~Delivered(j) /\ Redeliver(j))
            /\ \A n \in LeaseName : WF_vars(LapseOrphan(n))
FairSpec == Spec /\ Fairness

-----------------------------------------------------------------------------
\* While live leases do not lapse, one worker at a time works on a job, also
\* when ARQ delivers it again to another worker while the first still runs.
OneRunner == counters.stall = 0 =>
    \A v, w \in Worker : HasClaim(v) /\ HasClaim(w) /\ MyJob(v) = MyJob(w) => v = w

\* However often and by whatever job an analysis is run, and also when two
\* workers believe they hold its lease, one is published per idempotency key.
PublishedOnce == \A k \in Key : published[k] <= 1

\* One worker at a time works on a job, and one analysis comes of it though two workers
\* may believe they hold its lease.
WorkIsDoneOnce == OneRunner /\ PublishedOnce

\* The outbox closes the gap between the database and Redis: a row is marked
\* dispatched only when ARQ has, or has had, the job, through crashes, outages
\* and two relays that work on one row.
DispatchedIsQueued == \A j \in Job : outbox[j] = "dispatched" => arq[j] # "absent"

\* While live leases do not lapse, no worker that runs a job changes how it
\* ended: a terminal status is only ever overwritten by the relay.
WorkersKeepTheEnd == [][\A j \in Job :
    /\ counters.stall = 0
    /\ job[j] # NoJob /\ job[j].status \in Terminal /\ job'[j].status # job[j].status
    => \E w \in Worker : MyJob(w) = j /\ run[w].after = "relayEnd"]_job

\* Every lease of the jobs behaves like a BoundedLease, whatever the workers do.
LeaseRows == L!Rows

\* A job that was committed and has not ended.  With one worker process, and deaths
\* only while it relays, none stays open: no outage, transient failure or lost enqueue
\* keeps it so (MCWorkers).
Open(j) == job[j] # NoJob /\ job[j].status \notin Terminal

-----------------------------------------------------------------------------
\* The docstring of run_analysis_job: "The lease also lets a later retry recover
\* a job left in running after a worker process terminated."
RunningIsRecovered == \A j \in Job :
    (job[j] # NoJob /\ job[j].status = "running") ~>
    (job[j] # NoJob /\ job[j].status # "running")

\* The docstring of save_job: "Persist a status transition while retaining the
\* durable job envelope."  A transition to an end persists.
EndPersists == [][\A j \in Job :
    job[j] # NoJob /\ job[j].status \in Terminal => job'[j].status = job[j].status]_job
=============================================================================
