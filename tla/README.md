# IntelliQ verification project

TLA+ models of the IntelliQ backend (`apps/api/src/app`), the TLC runs that
check them on small instances and the TLAPS proofs that hold for every value of
the constants. Everything is translated from the Python source; paths below are
relative to `apps/api/src/app/`.

## The system

IntelliQ is a FastAPI service, an ARQ worker and a React frontend on top of
Timecue, an external construction planning system. It reads an organization's
portfolio from Timecue, simulates it, proposes strategies, and lets an owner
approve one. PostgreSQL holds all durable state, mostly as JSON records of one
table keyed by (organization, kind, id); Redis only dispatches jobs. API
processes and workers share nothing else, so mutual exclusion is a database
row: a lease with a token and a time.

| Component | State it keeps | Operations | Hard behaviour | What makes it correct |
|---|---|---|---|---|
| Leases (`persistence/store.py`) | one row per lease name | acquire, renew, release | stalled and dead holders, takeover | a holder that renews in time is alone; a lost token stays lost |
| Execution workflow (`api/v4_routes.py`, `services/execution.py`) | execution records with step states | review, apply, reconcile, complete, cancel | lost and late answers of Timecue, crashes between save and PATCH, overlapping approvals | what reached Timecue is in a record; settled steps stay settled; prerequisites first; approvals do not overlap |
| Analysis jobs (`workers/service.py`, `workers/worker.py`) | job and outbox records, ARQ queue | enqueue, relay, run, retry, renew | at-least-once delivery, lease loss, crash, timeout, lost updates | a terminal job is final; one runner publishes; every job ends |
| Daily schedule (`workers/scheduler.py`, settings) | schedule record | dispatch, save settings | several workers, stale read before the lease | once per local date; settings survive |
| Portfolio analysis (`services/portfolio.py`) | analyses, frozen inputs | run_analysis, create_analysis | concurrent decisions during a run | an approval matches what the analysis saw |
| Sessions (`api/auth_service.py`, `integrations/token_vault.py`) | session record, encrypted token pair | login, current, refresh, logout | rotating refresh cookie used by several processes | a refresh cookie is used once; logout is final |
| Import (`services/imports.py`) | batch ledger with receipts | preview, commit, resume | crash or lost answer after a create, partial failure | receipts are true; only faults make a row twice; cycles are found |
| Planning overlay (`persistence/store.py`, `services/knowledge.py`, `services/imports.py`) | planning inputs with a version | put, merge, project a claim | version check, replay | no update is lost |
| Knowledge (`services/knowledge.py`, `services/knowledge_jobs.py`) | documents, claims, objects | ingest, review, project, delete | review racing a newer upload | a superseded claim never becomes active |
| Evidence signals (`api/routes.py`, `intelligence/*`) | signals | ingest, review | review racing re-ingestion | a reviewed signal is kept |
| Decisions, checkpoints, calibration (`api/routes.py`, `decisions/*`) | decisions, observations, calibration versions | decide, check, calibrate | concurrent outcomes | versions are consecutive, an observation counts once |
| Simulation executor (`services/simulation_executor.py`) | one process pool | run, replace, shut down | timeouts of several threads, broken pool | one pool in use, no child works for a caller that is gone |
| Simulation engine (`simulation/engine.py`) | none (pure) | simulate, evaluate strategies | calendars, capacity, dependencies | no worker twice at one time, no task before its predecessors |
| Context providers (`integrations/context.py`, `services/context_freshness.py`) | caches | weather, routes, work windows | stale caches, partial answers, failing providers | values are recent or marked, never better than what is known; a comparison with the analysis misses nothing that matters |
| Timecue adapter (`integrations/timecue.py`, `integrations/fixture.py`) | none | snapshot, GET, PATCH | 401 and one retry | sanitized, complete snapshots |
| Explanations, evidence extraction, embeddings | none or derived | model calls | provider failures | outputs are grounded in their inputs |
| Frontend (`apps/frontend`) | view state | none that is durable | - | - |

Interactions: a settings record triggers the scheduler, which enqueues a job;
the job runs the portfolio analysis in a worker; the analysis freezes the
planning version, the calibration version and a revision of all executions;
review and apply refuse an analysis whose frozen revisions are no longer
current; an applied execution changes Timecue, which the next analysis reads;
imports and confirmed claims change the planning version; a calibrated outcome
of a confirmed transfer changes the calibration version.

## Modules

```
Holders             the names of a lease row nobody alive has, for all modules with leases
BoundedLease        what one lease promises
  ^ implemented by  Lease          row, tokens and clock of acquire/renew/release
  ^ used by         Execution, SessionRefresh            (one lease name each)
  ^ row of          LeaseTable     a table of names, used by AnalysisJobs, DailySchedule,
                                   ImportCommit, Knowledge, Decisions
PlanningOverlay     the versioned planning row
  ^ used by         ImportCommit (merge, and the manager's form), Knowledge (projection)
Sums                sums over finite sets, of Schedule, StrategyChoice and ImportFile
Schedule            one sample, hour by hour
  ^ extended by     Recovery       which actions are proposed and composed
CandidateSearch     which of them are searched and evaluated
  ^ with Recovery   RecoveryCandidates   what makes candidates sound
StrategyChoice, PlanningInput                      the rest of the engine
ExternalContext     weather and travel times of a plan
SimulationPool      the process the engine runs in
ImportFile, ImportPreview                          from bytes to rows to a plan
Signals, Decisions
MCProcesses         AnalysisJobs, SessionRefresh, SimulationPool: safety of concurrent
                    processes and threads
MCWorkers           AnalysisJobs, DailySchedule, SessionRefresh: liveness
Records             Lease, ImportCommit, Knowledge, Signals, Decisions: what the rows of the
                    database promise together
MCRecords           instances of Records, with ImportFile and ImportPreview
MCEngine            the engine and ExternalContext
```

`MC<Name>` gives constants their values and declares symmetry; `<Module>_proofs`
holds the TLAPS proofs of a module, `Records_proofs` those of `Lease`, `ImportCommit`,
`Knowledge`, `Signals`, `Decisions` and `Records`, `Processes_proofs` those of
`AnalysisJobs`, `SessionRefresh` and `SimulationPool`, `Engine_proofs` those of `Schedule`, `Recovery`,
`PlanningInput` and `ExternalContext`, `Choice_proofs` those of `StrategyChoice` and `Import_proofs` those of `ImportFile` and `ImportPreview`; the
sums that these three speak of (`Sums`) have their lemmas in `Sums_proofs`. `MCProcesses`, `MCWorkers`, `MCRecords` and `MCEngine` run
several modules side by side: a variable `part`, chosen at the start, says which one
moves, and the others stay at one value, so a run is the union of its parts and not
their product. The properties name the part they are of. Each definition that models
code is listed with its lines in PROJECT.json ("map"). Operators headed "Mutation of X"
are plausible bugs of X; each property is known to fail when one of them takes X's
place.

### BoundedLease, LeaseTable, Lease

`Store.acquire_lease`, `renew_lease` and `release_lease` are each one SQL statement
on one row, so each is one action. `Lease` has the row (`token`, `stamp`), each
process's token and a clock: an acquisition inserts the row or overwrites one
older than `Seconds`; a renewal and a release match the token; a renewal that
matches nothing changes nothing, and the process goes on believing in its token.
`Crash` forgets a token without touching the row. `stamp[p]`, when p last acquired
or renewed, is history for the properties.

`BoundedLease` forgets tokens and time: a holder and whether its time is over.
A lapsed lease is still held until somebody takes it over, renewal by the
holder revives it, and its old holder is not told. This is the interface the other
modules are built on, so that what they assume of a lease is what the SQL does.

### Execution

The four handlers of `api/v4_routes.py` (apply, reconcile, complete, cancel) with
`_continue_execution`, `_review` and the helpers of `services/execution.py`.

- A step is one database transaction or one Timecue call; requests interleave
  between steps, and a request may die between any two (`Crash`).
- `pc[h]` names the place in the handler; `req[h]` its arguments and locals:
  `mem` the in-memory execution, `at` the loop's step, `write` whether this pass
  may PATCH, `exit` how the loop body is left (next iteration, `break`, exception).
- `record[k]` is the stored execution under the hash of idempotency key k. Every
  save replaces the whole record with the working copy, and drops the execution
  revision analyses were computed from (`current`).
- `dates[t]` is what Timecue answers for the planned dates of task t. A PATCH
  arrives and answers, arrives and its answer is lost, does not arrive, or is given
  up and arrives later (`inflight`, `Arrive`).
- `base[a]` is what analysis a froze: the dates and `context`, the version of
  planning inputs and calibration. `before` of a step is the frozen date.
- `Leave` stands for each HTTP error raised before a save; which of them it is does
  not matter to the state, so `Review`, `Recheck` and `CompleteLoad` may leave
  whether or not the check passes (missing permission, a failing snapshot read).

Abstractions: the review reads the store, the versions and the Timecue snapshot
in one step (in the code the snapshot read comes first and takes seconds; the
lease excludes other requests meanwhile, and an edit by another user in that
window has the same effect as one just after the review). The snapshot
is reduced to task dates. `began`, `writer` and `late` are history variables that
no handler reads.

Most properties are conditional on `InTime`: no lease has lapsed under a request that
is alive. Requests may die at any point and leases of the dead lapse; what `InTime`
excludes is a request slower than 180 seconds between renewals. What happens
then is the subject of `execution_allocation`.

### AnalysisJobs

`enqueue_analysis` and `save_job` (`workers/service.py`), the outbox relay,
`run_analysis_job` and its lease renewal (`workers/worker.py`), and of
`services/portfolio.py` the portfolio lease, the milestones and `create_analysis`.

- `save_job` is two transactions, and so two actions: `SaveGet` reads the record,
  `SavePut` writes what was read with the changes over it. Saves of stage and
  progress alone change nothing of the model's record but still write back what
  they read, which is where a stale read does harm. Of the milestones
  `report_phase` saves, the first and the last are kept.
- `run[w]` is the process: where it is, the job, the record it read, the
  attempt it counted, the lost-lease event, the outcome and what ARQ will be told.
- ARQ is external: `arq[j]` is absent, queued, running or done; a delivery that ends
  acknowledges or asks for another; one whose in-progress key expires is
  delivered again (`Redeliver`), also while its worker is alive and stuck
  (`overrun`). `Cancelled` is `job_timeout` or a shutdown.
- A worker process does one thing at a time: `max_jobs` is 1 and ARQ counts cron
  functions as jobs. The renewal task runs beside the job.
- The relay handles one row per pass here; a pass over several rows is several
  passes, each row having its own lease.

Left out: the text of stages and errors, the branch for an unknown topic (no
writer produces one), knowledge_import jobs, the reconcile job, session
authentication (its three outcomes are kept).

### DailySchedule

`dispatch_due_schedules` (`workers/scheduler.py`), `save_settings`
(`api/v4_routes.py`) and the end of `run_analysis`, which writes the session into
the same record. Passes read the record before their lease and write the copy
after the enqueue; settings overwrite all of it; an analysis reads and writes in two
transactions. Time is ticks and a zone an offset, so the local date is a quotient
and 05:50 a remainder; daylight saving and `nextRunAt`, which is only displayed, are
left out. So is a pass that outlives its lease of 300 seconds: it reads and writes a record and
enqueues a job, and only leases of dead passes lapse here.

### SessionRefresh

`AuthService.current`, `refresh`, `_refresh_unlocked`, `logout`,
`_acquire_refresh_lease` and `_token_rotated` (`api/auth_service.py`), the vault's
generation (`integrations/token_vault.py`), and of the Timecue client the calls they
make. A token stands for the pair of cookies of one rotation: Timecue accepts its access
cookie until it expires and only the newest pair's refresh cookie. Timecue's side
is external and modelled from how the client uses it. The process-local lock and
the lease are separate steps; a process that dies loses its requests and its lock
and leaves the lease behind.

A live refresh's lease does not lapse here: it covers at most four Timecue calls of
10 seconds each, and the term is 180 seconds. Left out: login, registration and
email verification, which create a session and touch no other, and the fixture mode,
which has no tokens.

### ImportFile, ImportPreview

`services/imports.py` up to the preview. `ImportFile` reads file by file, sheet by sheet and
row by row, with the limit on rows as a constant: headers that are missing or repeated,
formulas, rows that are too long or blank, and the errors that make a batch need
correction. `reading` is the place of the loops of `preview_import`, `_parse_xlsx` and `_parse_csv`
with the rows, tables and errors they have collected; a file or sheet that is refused is one step (`OpenFile`,
`OpenSheet`), and the row after which the loop breaks is the first beyond the limit (`ReadRow`).
A cell has the kind the file's reader gives it (text, number, date, boolean, array formula) and
its text. `JsonCell` is `_json_cell`: what JSON has no type for becomes text, and a text longer than
16,000 characters is replaced by its first ones (`FirstChars`, a map of the long texts of an
instance). A row is read if it has a text or a number (`HasText`); dates, booleans and array
formulas alone do not fill one. `ReadyIsWhole` names what a ready file may lack: such rows, cells right of
the last header and the characters that were cut.

`ImportPreview` takes rows whose cells are keys, sets of keys, numbers or the token
of what is wrong with them: required cells, duplicates, references, matching of
members, explicit Timecue ids, and `_mark_planning_cycles`, a depth-first search over a
dictionary with one row per task. `search` is what that function has in hand: the keys its
loop has yet to visit, the path of the calls of `visit` that are open, what the loop of each
has left, what was visited and what was marked; a step is one call of `visit` or its end, and
the loops take keys in any order, as those over sets do. Its second half is
`merge_confirmed_planning` of an import that was wholly applied. The search is compared with
what a cycle is: tasks that all wait for one of them (`HasCycle`), and a task that what it waits
for comes back to (`OnACycle`).

A row's identity in receipts and mappings is its `RowKey`, of which `_key_part` keeps letters, digits
and a few marks only: `KeyPart` maps the keys of an instance to their parts, and two keys may have
one. Rows that share a row key share a receipt and a mapping (`Sharing`). Between the preview
and the merge, `CommitSheet` commits the upload without a fault (`ImportCommit` has the faults):
projects, then tasks, then the assignments of one task after another, each skipped if the receipt it
shares is final, so that a row may end without an id. The merge
keeps of tasks with one id the last one (`OverlayTask`) and of transfers with one row key the last one. `ReadyPreviewsMerge`
says what blocks the merge of an upload that was wholly applied: a transfer of a worker without
a profile, or a row without an id that shares its row key with a row of another key.

### ImportCommit, PlanningOverlay

A batch is one JSON record; a committer works on a copy in memory and saves the whole
copy after each row. `cm[c]` is that copy with the place in the loop; a step is one
transaction or one Timecue call. Timecue is external: a sequence of records with the
row they came from, their parent and whether they have a worker; a create may be lost
before or after it had its effect, and a readback may not show it. The lease of 180
seconds may run out under a commit. After the rows planning is read, merged and saved
through `PlanningOverlay`, whose version check and write are two steps, since
`save_planning` compares in Python after a plain SELECT; a manager's form does the same
with or without a version. Left out: team assignments, the preview hash, rows whose different keys
share a row key (they are in `ImportPreview`), and several assignments of one task: the code sends one
PUT for all of them and rewrites their receipts together, here a task has one.

### Knowledge, Signals

`Knowledge` has uploads of one source. An ingestion lists the documents, retires the
older ones, retires their claims, attaches the new claim and saves the document, in
that order and in separate transactions; the job may be delivered again. A review, a
projection and a deletion work on a claim they read earlier; a projection goes through
`PlanningOverlay` under its lease. `Signals` has one worklog with revisions, the route
and the job that turn it into signals (with ids of their own), reviews and the notes
published from signals, which a manager may delete. Claims are about one task, among whose notes the code looks for the
earlier one, and the job of a snapshot, whose id the code also makes from the tasks, the text and the
provider, has the same of these throughout. Extraction itself is left out.

### Decisions

`create_decision` with its look-up, its check of the analysis and the unique index; the
observation route and the outcome route with the calibration they make, versions being
unique; checkpoints and the evidence they cite. A mean is a fraction, so that versions can be compared with the observations
they came from without rounding.

### Schedule, Recovery, CandidateSearch, RecoveryCandidates, StrategyChoice, PlanningInput

`simulation/engine.py`. `Schedule` checks an action against planning data
(`_prepare_action`) and then runs one sample (`_run_sample`): per slot the ready tasks in
priority order, each with the first able workers; shifts, overtime, transfers with travel
and setup, reservations, weather, material and date gates. A slot is a few ticks, so
that windows begin and end inside it. `Recovery` generates the actions of the six
families, bundles and composes them, and runs the result; a bundle's transfers are a set
that `InOrder` puts in the order of the search. `CandidateSearch` has the
limits: families interleaved, bundles by size, projects in turn, duplicates dropped. Each of
these is an order in which a finite set is listed (`Listed`): the turns of an interleaving, the
combinations of a size, the places that are kept; so it is defined without recursion.
`RecoveryCandidates` puts the two together for the property that is about both.
`StrategyChoice` takes any finishes, including samples that do not finish, and has
outcomes, guardrails, material improvement, ranking and roles. `PlanningInput` is
`_parse_input`, with `_validate_task_graph` step by step. Numbers are integers: effort in
ticks, means as sums over equally many samples. Left out: drawing the samples,
floating point, progress, explanations of rejections, a task without effort that finishes at its earliest
start although that is after the horizon, the evaluation order in which a project's strategies are
listed once they are chosen, and the ids of explicit candidates, which may coincide with generated ones
(`EvaluatedOnce` claims unique ids only without them).

### ExternalContext

`integrations/context.py` and `services/context_freshness.py`. A thread takes the time,
then looks up one key after the other (the located projects' forecasts in any order, then
the matrix of the projects of its transfers) in the cache of its process, asks the provider, tries again,
and falls back on an expired value or the error; other threads do the same in between.
At the end the rules of the tasks, the travel times, the statuses and the revision are
computed as the code does, from hours that have a field or not, legs that are known or
not, and rules with or without conditions. The first enrichment is saved, later ones are
approvals that compare. A hash is what it is computed from. A provider is external and
answers anything of `Forecasts` and `Matrices` or fails. Left out: units, time stamps, the
parsing of coordinates and answers, warnings, the wording of conflicts.

### SimulationPool

`services/simulation_executor.py`: threads of one process that share a pool of one child.
Taking the pool, submitting, waiting, taking it away under the lock, terminating the
children and shutting down are separate steps. The pool itself is modelled from
`concurrent.futures` of Python 3.12 (the image's): a child that starts with the first
work, futures that can be cancelled until they run, a pool that breaks when its child
dies. Left out: the direct path, the progress pipe, and the shutdown that waits, which
nothing calls.

## Runs

Sizes are distinct states.

| Run | Instance | What it shows |
|---|---|---|
| `execution` | 2 requests, 2 keys, 2 analyses on 2 tasks (one moves a worker first), 3 dates, any 2 of: an edit, a crash, a PATCH that arrives late (3.0M) | requests are serialized; what Timecue shows is in a record; no two live executions on one target; prerequisites first; no second PATCH without a readback; settled steps stay |
| `execution_live` | 1 plan, 2 requests, one of: a crash, a lapse, a context change; fairness (225k) | requests end and the lease can be taken again; approvals stale at the request's start are not written further, whether or not the lease holds |
| `execution_allocation` | 2 transfers of one worker, one lapse | a violation, see findings |
| `processes` | jobs: 1 job, 2 workers, 2 attempts, 2 tries, any 2 of: crash anywhere, Redis outage, cancellation, 2 stalls, redelivery under a live worker, transient failure; session: 3 requests in 2 processes, 3 token pairs, one of: outage, wait that gives up, death; pool: 3 threads, the lifespan, 2 pools, any 2 of: deadline, exception, death of the child (1.9M) | attempts stay within ARQ's tries; one runner and one analysis per key; dispatched means queued; workers do not overwrite an end; each lease row is a `BoundedLease`; a refresh cookie is sent once; one rotation per refusal; the vault has the newest pair; one pool in use, no child for a caller that is gone |
| `workers_live` | jobs: 2 clients, 2 jobs with one key, 1 worker, 3 tries, any 2 of: death in the relay, 2 outages, 2 failures; daily: 2 passes, zones 0 and +2 of 4 ticks a day, 6 ticks, a settings request, an analysis, a crash; session: 2 requests in 2 processes and in one, one of: outage, wait that gives up, death; fairness (208k) | every committed job ends, a date that is due gets its job, no request waits for ever; one job per local date, and a marked date has its job |
| `jobs_recover`, `jobs_relay` | 1 job | violations, see findings |
| `session_logout` | refresh and sign-out | a violation, see findings |
| `records` | lease: 3 processes, term 2, clock to 7, 4 grants; import: a project, a task and an assignment, 2 committers, 1 batch with 3 commits and 1 fault or 2 and 2, or 2 batches with 1 fault and 2 commits; planning: 1 commit, 2 forms, 1 fault; files of up to 4 rows, a limit of 3, cells of five kinds, texts that are cut and formulas among them; previews of every graph on 3 tasks, searched in every order, of each deviation of a row, and of keys that share a row key; knowledge: 2 uploads, 3 ids, 2 requests, 1 death; signals: 2 revisions, 2 refreshes, 1 reviewer, 1 death; decisions: 2 requests, 1 key, 2 analyses; calibration: 3 observations, 2 requests | the lease implements `BoundedLease`, alone and lost for good; receipts are true and each record of a row is accounted for, at most one a commit and, while no lease ran out, one an upload and one a fault; planning has only what was read back, and edits survive; cycles are found and ready previews merge; ready files are whole but for what is named; a change is projected once; a key has one decision; versions of the calibration form a chain; what was settled stays (1.0M) |
| `engine` | 2 projects, 3 tasks, 2 workers, 2 days of 3 slots of 2 ticks; searches of 2 projects with up to 3 parts in bundles of 2; 2 candidates and 2 samples; requests with one deviation each; context: 3 threads of 2 processes and 1 project, 2 threads one by one and 2 projects, 2 hours, 2 metrics, 2 instants, 3 forecasts, 2 matrices | no worker twice at one time; hours are real and paid; gates kept; what is published harms nobody; candidates are allowed, shared out and tried once; a request is accepted exactly when it should be; weather and travel are recent or marked, and an approval finds fresh what it would simulate alike (300k) |
| `import_duplicates`, `knowledge_current` | the parts `import` and `knowledge` of `records` | violations, see findings |

### Why the bounds are enough

The protocols have no quorum and no count that a third actor changes: a conflict is
between the one who has the lease, or read the record, and one who had it, wants it or
acts without it. Two requests or workers give every such pair; the lease itself and
the session, where a third can meet the two others' leftovers, are checked with
three. In `execution` the two plans share a task and differ in a manual
prerequisite, so overlap, blocking, drift by another execution and independence all
happen; three dates distinguish before, after and somebody else's. `MaxTries` and
`MaxJobAttempts` are smaller than the code's 5 and 3 where the question does not
depend on them, and the code's own values in the two violation runs. The bounds
`Max*` limit how often the environment interferes, not what the code does, and
`MaxTroubles` or `MaxFaults` limits their sum, so that each run covers all combinations
of one or two different troubles instead of many repetitions of one.
The daily schedule crosses midnight in both zones, at different ticks, so a date begins,
becomes due and ends in each, and the settings can move the zone back over midnight.

The commit has one row of each supported kind, each the parent of the next, which is
every dependency the code knows; two batches are two uploads of the same rows. Graphs on
three tasks have every kind of cycle (a loop, two, three, one that hangs off a path).
The engine's instances have slots that shifts, overtime, transfers and reservations cut
in the middle, more work than hours, tasks of two projects that compete for a worker, and
limits small enough that they cut. The context's two instants are a value's time to live, so a value is current, expired and
replaced; with two projects the threads take turns, since what they can do to each other
is in the instance with one. The pool has two timeouts on one pool with a third thread on
its successor.

Actors are symmetric where no constant tells them
apart; symmetry is used in runs without liveness only.

`CHECK_DEADLOCK FALSE` is set where the system may really stop: tokens, ids, clock
ticks and requests of a run are finite, and a system whose jobs have ended and whose
requests have returned is idle.

### Fairness

- `Execution`: a request in progress proceeds (WF), since each await has a timeout;
  the lease of a dead request lapses with time (WF). Nothing is assumed of new
  requests, of Timecue's answers or of late PATCHes.
- `AnalysisJobs`: a worker keeps working (WF). Relay rows and queued jobs are picked
  in the order of their time, so none is passed over for ever: strong fairness of
  `RelayPick` and `Deliver`, because a worker that is busy disables both.
  In-progress keys of dead deliveries and leases of dead workers expire (WF).
  Nothing is assumed of clients.
- `DailySchedule`: the cron runs every minute and a pass goes on (WF), leases of
  dead passes lapse (WF). The clock is not fair: a date may last for ever, but the
  promise is only made while it lasts.
- `SessionRefresh`: requests run on (WF), leases of the dead lapse (WF). Waiters
  poll for 15 seconds; the requests of a run are finite, so a waiter is not
  overtaken for ever.

`MCWorkers` states these for its parts. A condition there may be the disjunction of
one action from each part: as only one part ever moves, that is the condition on
its action and nothing more.

The import, the knowledge, the signals, the decisions, the engine, its context and its pool have safety only:
their requests end when their code does, and nobody waits for anybody in them.

## Proofs

TLAPS checks these for every value of the constants (any number of processes,
requests, keys, analyses, tasks and steps; any bounds).

`Records_proofs`, on the lease, from `LeaseConstants` (Seconds and the bounds are naturals; the null
values are distinct from tokens, rows and processes). `OneCurrentHolder` alone is
not inductive: nothing would keep a stalled holder's old token from being the
row's, or a stamp from being in the future. `IInv` adds that the row's token and all
held ones were issued, that held tokens differ, that a process with the row has
the row's stamp and that a row taken over left its old holder's stamp behind by
more than the term (`CurrentHolderHasRow`). From it follow `LeaseTypes`,
`HolderIsAlone`, `HolderKeepsRow`, `LostTokensStayLost` and, step by step,
`LeaseRefinesBoundedLease`, so what the larger modules assume is proved of the SQL.

`Execution_proofs`, from `ExecutionConstants` (plans are non-empty sequences of known action
types whose API actions name tasks; null values are distinct from what they stand
beside: `Nobody` is no pair of a key and a number).

- `RequestsAreSerialized`: the invariant `SInv` says that a request's pc is a known
  point (`Points`) and that, in time, a request that is not idle is the holder
  of the lease (`Exclusive`). Dead requests leave an orphan that lapses, which does
  not count as a lapse under a live request.
- `ExecutionTypes`: `TypeOK` alone is not inductive, since a save stores the working
  copy under the request's key. `TInv` adds, per label, what the locals are
  there (`LocalsOf`): past the point where the working copy was made, `mem` is an
  execution of one analysis with a status per step, the key is a key, and the loop
  index is a step at those labels where the loop body runs.
- The properties of the records go by *kinds of step*. The twenty actions of a handler
  do seven things to the working copy, the store and Timecue: leave, load, draft, turn
  a step, go on, save, send (`Quits` .. `Patches`). Each action is shown to be one of them, and everything after it has seven cases and the
  environment's. Three invariants are proved on top of `SInv` and `TInv`:
  `LInv`, without the lease, that every record and every working copy is sound by itself
  (manual steps are never sent, a step that may have been sent had its prerequisites);
  `AInv`, in time, that the store traces what Timecue shows (`Books`) and that the one
  request at work knows it (`Knows`): its copy follows the stored record, it remembers
  its own writes, and it does not come to a PATCH for a step Timecue already shows.
  `Books` needs `Knows` because a save replaces the whole record with the copy, and
  `Knows` needs `Books` when a copy is loaded. `SettledForGood`, `WritesRecorded`,
  `PrerequisitesComeFirst`, `LiveExecutionsAreApart` and `NoBlindRetries` follow.
- `StaleNotWritten` does not have `InTime` and so cannot use any of `AInv`. A request
  that passes `renew_lease` still has the lease it took when it began, so
  no other request began since, although its own term may have lapsed: nothing that an
  execution or a request uses was published after it began (`HolderIsLatest`). An
  analysis whose context is at most as new as the request and, by the check of the
  planning context, at least as new, is as new (`Fresh` at `mark` and `patch`).

On the jobs (`Processes_proofs`), from `JobConstants` (positive bounds, the null values are distinct, a
worker is neither free nor an orphan) and `NoJobIsNoRecord`. Every step of a worker but the two
transactions of a save is `Quiet`: it leaves the records of jobs alone, and which lease it
takes, keeps or drops fits the point it comes to. The steps of clients, ARQ, time
and the two transactions are the other cases.

- `DispatchedIsQueuedAlways`: from `TInv` (types, and that a job in somebody's hands is
  stored) and that ARQ has the job of a relay that is about to mark its row (`DInv`).
- `JobsWorkedOnce`: while nobody stalls, only leases of dead workers lapse, and who
  runs or relays a job has its lease, also between the two transactions of a save
  (`CInv`). That one analysis is published per key needs no lease.
- `EndsKeptByWorkers`: a runner writes back a status it read, so what it has read
  must still be open (`KInv`). That fails of a relay, which may have read a job that
  then ends; the property excepts it, but the invariant cannot: a relay that read an
  ended job must put the same end back, or a runner would find a job open that it
  ended (`ReadIsCurrent`).
- `JobsAreTyped`: `TypeOK` is not inductive, since each delivery that starts adds one to
  `attempts`, and a save writes back a record that was read before others wrote. `AInv` gives each
  attempt a delivery of its own: neither a record nor what a save has in its hands counts
  more than `spent`, the tries of the job without the deliveries that may still count one
  (`Upcoming`). `spent` never falls, so an old copy fits as well as a new one.
- `LeasesAreBounded`: every row of the job and outbox leases takes only steps of
  `BoundedLease`.

`DailySchedule_proofs`, from `ScheduleConstants` (a day and a zone are numbers of ticks,
the null values are distinct).

- `OneJobADate`, `MarkedDatesWereQueued`, `ScheduleTypes`: a pass between `TakeLease`
  and `ReleaseLease` has the lease of its date (`PassesHold`), so what it saw in the queue
  is still so when it inserts (`Looked`). `lastRunDate` is copied around by settings and
  analyses, so the invariant says of every copy in the hands of anybody what the
  property says of the record (`Marked`).

`Processes_proofs`, on the sessions, from `SessionConstants` (each request has a process, at least one
pair, null values distinct), an assumption of the theorems. `RefreshedAtMostOnce` is
`CookiesSentOnce` and `RotatedOnceAlways` together.

- `CookiesSentOnce`, `VaultStaysNewest`: a request between taking the lease and
  releasing it holds it (`Leased`), so one request at a time exchanges or stores; while
  no process dies, the vault then has the newest pair, which was not sent, or nothing
  (`Unsent`). Sign-outs and failures clear the vault at any time, which the invariant
  allows.
- `RotatedOnceAlways`, deaths or not: a cookie that is about to be exchanged is the one
  that was refused (`Compared`, from the comparison under the lease), and a rotation is of
  the newest cookie, which becomes an old one by it (`Unrotated`).
- The process-local lock is not used: the lease alone is enough for these properties, and
  the lock saves the requests of one process from polling.

On the import, from `ImportConstants` (the rows have each key once and a parent of the right
kind before them, the null values are nobody and no upload, committers are no managers), an
assumption of the theorems. Each action of a committer is one kind of step (`Starts`, `Loads`,
`Leaves`, `Works`, `Saves`, `End`) and only the properties of that kind are used after that.

- `AppliedIsThere`: a copy in memory, of any age and of any committer, has only receipts that
  were true when it was made, and Timecue never loses a record (`DataInv`). No lease is
  needed.
- `RecordsAccounted`: the records a row has, with the commits that have yet to reach it, are
  no more than the commits there were (`CommitsInv`). While no lease ran out one committer
  works at a time (`Alone`) on a copy that differs from the saved batch in the row at hand
  only (`LeaseInv`), so that a record nobody knows of has a fault (`CountInv`). An earlier
  form of the property, that faults bound the surplus also when leases run out, was not
  inductive because it was false: with a third commit one lapse costs several records, since
  the copy that is saved last takes back every receipt of the other. `CommitAccounted`
  is the two together.
- `PlanningReadBack`, `EditsLast`: the version of the planning row tells its content as long
  as no two saves overlapped (`PlanInv`), so a merge adds to what it read only what its
  batch had read back and has saved (`KnownInv`).

On the signals, from `SignalsConstants` (positive bounds): `SettledLast` and `DeletionLasts`
follow from `SignalsInv`, by which whoever is about to store a signal or a note has read it
in a state that the tally still names.

On the knowledge, from `KnowledgeConstants` (`Missing` is no document, claim or key), an
assumption of the theorems. The actions of a request are shown to be one kind of step
(`RequestSteps`: the request goes to another sane state, `Edits` the claims and `Projects`),
those of a worker another (`Ingested`).

- `ProjectedOnceAlways`: neither the lease nor the look for an earlier note is enough by
  itself, for the lease may lapse between that look and the write. What is: the planning
  row was not written since it was read if the version is still the same, and then it has
  no note with the draft's key (`NotesTrusted`); the version only tells that as long as no two
  saves overlapped (`plan.clean`). `NothingIsLost` follows from the same part.
- `OnlyReadersRevive`: a copy that is written over a claim was read active, or is saved
  inactive (`Sane`); a worker attaches its claim to an id that no claim had
  (`IdInv`, over deliveries that start again with another id).
- `KnowledgeTyped`: the version of a new document is 1 more than a maximum over the documents,
  which is a number only if there is one: `DocNewest` says that some document has the
  highest version. That holds because a save never replaces a document (`DocIds`: an
  ingestion that has not saved has an id that no document and no other ingestion has) and
  a deletion keeps the version. No bound on the number of documents is used.

On the decisions, from `DecisionsConstants` (hours and the prior's strength are naturals), an
assumption of the theorems. A request `Measures` (rows of observations and versions) or
`Decides` (rows of decisions, answers); rows are only added (`RowsGrown`).

- `OneDecisionAKey`, `VerdictsHaveEvidence`, `OneOutcomeATransfer`: from the unique index and
  the checks of the transactions, and from what a request between two transactions still
  knows (`CallFits`).
  `DecisionsFounded` is the first two together.
- `VersionsCountObservations`: a prior counts as many observations as its version says
  (`SoundPrior`), so a version that is not taken is the next one and its prior is the
  latest, however long ago it was read; no two requests calibrate with one observation
  (`OwnObs`). The lease of the outcome route is not used.
- `CalibrationIsChain`: that a mean is the mean of all samples so far speaks of a sum over
  the versions. Such a sum cannot be proved about by induction over its length here, but the
  steps of the system do that induction: `MeanInv` says that the equations of a running sum
  have a solution, and that every solution fits the mean of every version; a step that adds
  a version extends the solution by one sample, and `update_setup_hours` the mean
  (`UpdatedIsMean`). `Total` of the property is one such solution.

On `Records`: `RecordsTyped` and `SettledRecordsStay` put the parts together.

On the pool (`Processes_proofs`), from `PoolConstants` (the bounds are naturals, the
lifespan is no thread, `None` no number), an assumption of the theorem.

- `PoolIsOursAlways`: that whoever takes a pool away is about to shut it (`Abandoned`)
  is preserved by each step, but that no child computes for an ended call is not: a
  thread may leave a pool while others have work in it. `PInv` adds that a future
  exists from its submission on and with it the child (`Submitted`), that it breaks with
  the child (`BrokenIsDead`), and that who shuts a pool, and so every pool that is shut,
  has ended its child (`ShutterKilled`, `ShutIsDead`): whoever terminates a pool it
  submitted to finds the child started. That fails of the lifespan, which may
  take a pool before the first submission: `Dead` names that one exception.

`Engine_proofs`, on the hours, from `ScheduleConstants`, an assumption of the theorems: slots
divide the day and days the horizon, workers are finitely many, and plans have the shape
that scheduling reads (`IsPlan`: crews with `minCrew` at most `maxCrew`, predecessors that
are tasks of the plan, local times within a day; `PlanningInput` is what makes a plan so).

- `OneCrewForAWorker`: within an hour whoever is placed is busy until the next one
  (`Current` of `SInv`), and an hour before is over.
- `GatesAreKept`: what was ready when the hour began must still be ready when its turn
  comes, since the code asks once, before it orders the tasks. It is, because a placement changes
  only the end of the task it places, and what a waiting task waits for has ended, and an ended task is
  not placed again (`StillReady`). That a crew is as large as the task allows is about
  `Lowest`, the first n of a set of ids, whose size needs an induction. In its place
  stands a smallest counterexample: of the finitely many ids that have at least n below them one
  is the least (`SmallestSet`, `LeastNumber`, `LowestSize`).
- An accepted plan does not change any more, and nothing is worked before (`Quiet`,
  `EarlyStep`); the proposals, transfers and compositions of `Recovery` all come to
  it by one of those early steps.

- `HoursAreAlwaysReal` also needs a shape of what may be lent (`RecoveryConstants`), so
  that a generated bundle laid over a plan makes a plan again (`ComposedIs`). `HInv` says
  that each hour worked is booked (`Booked`): it has the capacity its worker has for its
  task in that slot, not nothing, and names overtime and transfers as they are. As the
  plan stays, a booking stays true (`BookedStays`). The rest is about sets of instants.
  What two intervals have in common is as long as the instants in both are many
  (`OverlapIs`); so regular ticks lie in a shift (`RegularIs`), an accepted transfer lies in
  shifts, hour by hour with a shorter one at its end (`AwayOnShift`), and overtime lies in
  what is permitted. Hours of one worker are disjoint, so those that lie within a time
  are together no longer than it (`PackedTicks`): within the overtime of the action and so
  within the limit, and within the productive part of a transfer. What is used in an hour is
  below what was available, worker by worker (`SumInto`). The effort is in the invariant
  itself (`EffortCounted`): what a crew adds to the work done is what is taken off
  (`OutputCounts`). That sums over finite sets can be split, compared, renamed and counted
  is proved by a smallest counterexample again (`Sums_proofs`).
  `TransferCosts` had been too strong: it gave every hour that touches a transfer to it.
  An hour that two transfers of a worker touch, the end of one and the beginning of the
  next, belongs to the first in the action's list, and the other gets nothing of it. The run
  had missed that, since each pair of transfers it tried was refused for another reason;
  now some pairs are accepted, and the property says whose hour it is.

- `GeneratedIsAlwaysAllowed`: what the generators propose can be accepted, for every request as
  `_parse_input` lets it in (`IsParsed`: a task that is planned ends after it starts, nobody is lent to where
  they are). No step comes back to the generators (`Asked`), so they see a plan as it was
  read; the rest is one lemma a family.
- `CandidatesAreAlwaysSound`: this, and what is searched of it, for any number of projects and
  families and all limits, from `SearchConstants` (the lists of a case are lists, its order has every
  project that is searched, the limits are positive). A set that is ordered is
  listed completely, once each and in its order (`ListedIs`): the number of an element, one
  more than the elements before it, is an injection of the set into as many numbers, so none is left
  out. That the turns of an interleaving and the combinations of one size are ordered is `InTurnIs` and
  `SoonerIs`. What is kept of a list (`KeptAre`) are first uses of a signature, and before one
  that is kept no signature is missing, wherever the limit cuts. So what is n-th in one search
  and evaluated has the first n - 1 of every other one before it in turn, hence kept, hence in
  the queue before it or a proposal that does the same (`SharedIs`); and the turns of the
  sizes begin with a single action and the first pair that fits, whose signatures differ
  (`PairIsSecond`). The invariant only says that what was searched and queued is what
  the operators say, and that what is evaluated is the begin of the queue (`SearchInv`).
  The property had asked for a combined plan second even where one candidate at most is kept:
  now it says that the limits must allow two, of actions and of candidates.

On what a request must be, from `InputConstants` (requests are records of the shape of the
code's models, with natural ids), an assumption of the theorem.

- `DecisionIsAlwaysRight`: that what is accepted has an order of its tasks, and that what
  is refused within the search has none, speaks of *every* order, where the code has only a stack. The
  invariant says that every order which suits the tasks descends along the path
  (`Path`), so a task that is met on the path refutes all of them (`CycleFound`);
  and that the visited tasks have an order already (`Ranked`), to which a
  task that is left is added at its end (`LeaveStep`), for all it waits for was
  visited. No induction on the graph is needed: the steps of the search do it. The
  other stages are `Passed`: each part that was looked at is as it must be.
  An earlier form of the property said that a transfer is accepted without a travel
  time only when no assumption fits it. The proof did not go through: the first assumption that fits
  may leave the time out itself, and the action then has none. The property says so now,
  and the run has such a request.

On the context of a plan, from `ContextConstants` (times to live are positive, what a plan
and its rules say of capacities are percentages, and no value is `Nothing`), an assumption
of the theorem.

- `ContextIsAlwaysHonest`: `ContextInv` says that a cache entry was at the provider no
  earlier than the moment it is dated from, which a thread takes at its beginning
  (`Cached`); that an enrichment has answers for a part of the keys and looks for the rest,
  and that what it calls current was true recently (`RunOk`); and that some thread ended
  with the analysis that is saved (`Ends`). What is computed at the end are lemmas on the
  operators: a merged capacity is a percentage no greater than either (`MergedIs`), each
  hour of it has all the fields its rules ask for (`ProfileIs`), an overall `available`
  leaves nothing out (`AvailableIsWhole`). That the payload from after enrichment leads to the same verdict as the one
  from before needs that the same answers change it no further (`MergedTwice`,
  `EnrichedAgain`), and that with other answers both are refused, since the answers are
  part of the revision (`SameVerdict`).
  Two parts of the property were stated too strongly and the proof did not go through: that
  every leg of a transfer is known when the overall status is `available`, and that a fresh approval has the same state
  of each project unless their aggregate is `partial`. Both are among the divergences of
  the next section, the property has their exceptions, and the run has a plan for the first.

`Choice_proofs`, from `ChoiceConstants` (projects are finitely many, a finish that is known
is a day up to the horizon, costs and targets are numbers), an assumption of the theorems.

- `ChoiceIsFromRuns`: the invariant (`ChoiceInv`) keeps each candidate with the outcomes of its own
  finishes and the verdict of the guardrails on them, and what is published with the
  choice among all of them.
- `ChoiceIsAlwaysSound`: a choice is only defined if there is a first candidate and one of
  every rank. Keys are numbers compared from the left, which is an order (`KeyAsym`, `KeyTrans`),
  and no two are alike, since each ends with the candidate (`KeyTotal`); that finitely many have a
  first one and ranks without gaps is proved by smallest counterexamples (`KeyBest`, `KeyRank`).
  That a key is made of numbers at all is where samples that do not finish come in: a
  metric of them is never the sum over values that are not known (`WeightedIs`,
  `ExposureIs`, `SafeKeyIs`). Nobody loses time because what is late, unfinished and on time
  adds up to all samples (`Counted`), so that `Worse`, which never asks who is on time, still decides it
  (`NotWorse`). The first is the best of all, and not only of those left when equal
  outcomes were dropped, because the signature by which they are dropped fixes the part of the
  key that speaks of outcomes, the samples that are unknown included (`SameHeadline`), and
  the key begins with it (`HeadlineIs`).

`Import_proofs`, from `FileConstants` (the limit is a natural, a blank cell is neither a formula nor too
long, the first characters of a text are a formula only if it is one, uploads are sequences of files,
and a CSV file has one table of texts), an assumption of the theorems.

- `ReadingIsFaithful`: `ReadyIsWhole` says nothing before the last step, and that step only
  counts. `ReaderInv` says what holds on the way: while there is no error, every sheet that was
  passed (`Passed`) has a table, and there are as many tables as those; the rows in hand are those
  with a text or a number of the rows so far, each at the place its number among these gives
  (`WholeTo`), and no cell of them is a formula. The limit is the exception on which the proof turns:
  a sheet may be cut, but then the rows of the file are already beyond the limit, and as no step makes
  them fewer (`CountNext`), the count at the end refuses the upload.
- `ReadyIsAlwaysWhole`: from it, and from what `_row_from_values` does with headers that
  are no error: each has a column of its own (`OneColumnEach`), so no cell under a header is
  overwritten by another one (`CellsAreKept`), and the conversion keeps a cell's text or its first
  characters (`JsonCellKeeps`). A workbook's row is searched for formulas before its cells are
  converted and a CSV row after, and both are enough (`FormulasAreFound`): the conversion makes a formula of nothing,
  since what JSON has no type for is no text that starts like one.

On the preview and the merge, from `PreviewConstants` (an upload is a list of rows, an id that
Timecue gives is one), an assumption of the theorem.

- `PreviewIsAlwaysRight`: the invariant (`PreviewInv`) says of the search (`Walked`) that the
  path follows the graph, that what a marked task waits for comes back to it, and, as long as
  nothing is marked, that what was visited leads to nothing else and has no cycle (`Closed`). A task
  that is met on the path closes one: the first of the tasks behind it that would be out of a set
  with all that follows does not exist (`MarkedAreOnCycle`). A task that is left adds
  none, for all it waits for was visited and cannot wait for it (`LeaveWalked`). So the
  search ends with every task visited (`SearchEnds`), and neither its order nor an induction
  over the graph matters. What is merged is related back to the rows: a preview that was ready has each
  task once with its project, and after a commit that was wholly applied each row whose row key no
  earlier row has has an id (`Named`, `CommitNames`). Of rows that share one, the keys differ, for a repeated key is an error
  (`SharingDiffers`), so what is missing is a worker's profile or the id of a row the property names (`OnlyWorkersBlock`). A
  cycle of merged tasks is, unless one of the holes is met, a cycle of planning rows, of
  which one would have been marked (`MergedPlanIsOrdered`).

Only model-checked: the liveness properties (`RequestsEnd`, `NothingIsLeft`), which are out of the
prover's reach. Every invariant and every action property of a passing run is proved.

## Where the code and its documents disagree

Six runs end in a counterexample; PROJECT.json quotes the lines.

1. `execution_allocation`: apply does not renew its lease during the review, which
   reads a whole Timecue snapshot, and saves a new execution without asking whether
   it still has the lease. Two owners can then move one worker, which
   docs/implementation-plan-v4.md:479 excludes.
2. `jobs_recover`: a redelivery comes 610 seconds after the start and the dead
   worker's lease lives 660 seconds after its last renewal; the redelivery is refused, returns
   normally, and the job stays `running`.
3. `jobs_relay`: the relay's `save_job` reads before and writes after a worker's
   terminal save and undoes it.
4. `session_logout`: a refresh stores its cookies between logout's two clean-up
   transactions, and they stay in the vault of a session that is gone.

5. `import_duplicates`: creates are POSTs without an idempotency key. When the answer is
   lost the receipt says failed, and a resumed commit sends the row again; so does one
   after a death between the POST and the save.
6. `knowledge_current`: two uploads of one source that are ingested at once do not see each
   other, since a document is saved after the older ones were retired; both stay current.

Met while modelling, and also violated in these models when stated, but without a
run of their own:

- cancel (api/v4_routes.py:605) refuses uncertain steps so that only unperformed work
  is cancelled (docstring, 592); a PATCH that was given up, read back as not there and
  then cancelled can still arrive.
- cancel of an execution that is finished sets its status from `applied` to
  `partially_applied` (api/v4_routes.py:612).
- docs/deployment.md:72 says that the job lease is released after the terminal write;
  `run_analysis_job` releases it in a `finally`, also when that write failed.
- two requests with one idempotency key may both find no job and insert one each
  (workers/service.py:46); the run key still keeps it to one published analysis.
- the end of every analysis makes its user's session the schedule's
  (services/portfolio.py:580), while docs/implementation-plan-v4.md:559 has the owner
  designate it in the settings.
- a commit whose lease ran out goes on, and its last save can take receipts away that
  another commit had saved (services/imports.py:382 takes the lease and renews it never).
- a planning merge that meets another version marks the batch `needs_reconciliation`
  and is not tried again by a resumed commit (services/imports.py:534).
- a transfer row that also names a task takes the place of the task's row in the search
  for cycles, and the prerequisites of the task sheet are not searched
  (services/imports.py:1266).
- a cell of more than 16,000 characters loses the rest without an error or a warning
  (services/imports.py:1984), and a workbook row of dates, booleans or array formulas alone is taken for a
  blank one (1041, 2383), so that what is ready to commit may lack it.
- the external keys "A 1" and "A-1" pass the search for duplicates and have one row key
  (services/imports.py:1937). The second row finds the receipt of the first final, is never created (1357) and
  has no id, so the merge of an upload that was wholly applied is refused (611, 650). Assignments
  of two tasks whose keys collide share a receipt too: the second is never sent if the first was applied, and counts as applied. Of transfers
  with one row key the last replaces the others in the overlay.
- a replay takes the latest calibration whose own observation was known at its clock
  (api/routes.py:1158); when an observation is recorded after one that was known later, the
  mean of that version counts the later one too, and the replay sees what was not known.
- a review saves over a claim or a signal that was superseded after it was read
  (services/knowledge.py:581, persistence/store.py:577).
- the loser of two decisions with one key gets the winner's decision, also when it asked
  for another strategy (api/routes.py:473); the look-up before would have refused it.

- context_freshness.py says (line 4) that the read boundary is run again at approval and
  its revision compared; nothing in the source calls it, and `_review` of
  api/v4_routes.py does not look at the analysis's weather revision. Its line 72 says that
  the writer stores the payload after enrichment only; services/portfolio.py:563 stores
  both, and the enriched one also has the proposed candidates, with which the fallback
  would never match.
- a forecast that became stale goes unnoticed by that comparison while another project
  makes the aggregate `partial`, or when another's stopped being stale: the revision leaves
  out the states of single projects, and `_new_degradation` compares the aggregate
  (`ApprovedIsSame` has the exception).
- a confirmed transfer to a place without coordinates leaves only a warning behind when the
  matrix of two other places is whole: the routing status, and with it the overall one, is then
  `available` (integrations/context.py:632), while the docstring of `enrich_context` has
  missing input remain a typed limitation (`DegradedIsShown` speaks of located places).
- a rule condition on a metric that is not known is dropped (integrations/context.py:1209),
  and the other conditions of the rule decide alone.
- a child that dies while nobody waits leaves its broken pool in place: submit raises
  outside of the `try` (services/simulation_executor.py:61), so neither this call nor a later
  one discards the pool, and the process simulates nothing until it is started again.
- a pool that the lifespan terminates before its first work, and that gets work before it
  is shut, keeps its child: `_terminate_executor` reads the children of the pool, which has
  forgotten them (`NobodyComputesForNoOne` has the exception).

## What is not modelled

Of the components marked not_modelled in PROJECT.json, language model calls,
embeddings, wording and layout, object storage, migrations, wiring and the frontend's
view state keep no durable protocol state of their own, or what matters about them is
numerical or textual; readiness is a list of conditions
on one snapshot. Of the simulation engine, sampling and floating point stay out. Of the
modelled components, PROJECT.json says in each note what is left out.

## Plan

Nothing that a run checks is left to prove but liveness. What would come next is breadth: the
parts of the components that are modelled in part, in the order of the table above.
