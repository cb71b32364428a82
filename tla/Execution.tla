----------------------------- MODULE Execution -----------------------------
(***************************************************************************)
(* Owner-approved execution of a strategy (api/v4_routes.py): apply,         *)
(* reconcile, complete and cancel, each a request handler that takes the      *)
(* organization's "execution" lease, works on an in-memory copy of the        *)
(* execution record, reads and writes Timecue over the network and saves the  *)
(* whole record at fixed points.  Every database transaction and every        *)
(* Timecue call is a step of its own, so requests interleave between them,     *)
(* and a request can die, or outlive its lease, between any two of them.      *)
(***************************************************************************)
EXTENDS Integers, Sequences, FiniteSets, Holders

CONSTANTS
    Handler,       \* request handlers that run at the same time
    Key,           \* idempotency keys; an execution's id is the key's hash
    Analysis,      \* completed analyses, each with the strategy an owner may approve
    Task,          \* Timecue tasks whose planned dates executions change
    Worker,        \* workers that transfers move
    Date,          \* values of a task's planned dates
    FirstDate,     \* the value every task starts with
    Plan,          \* Plan[a]: the actions of a's strategy, a sequence
    NoRecord,      \* no execution is stored under the key
    Unpublished,   \* the analysis does not exist yet
    Nobody,        \* the task's dates were not written by an execution
    MaxEdits,      \* bound: changes by other Timecue users
    MaxContext,    \* bound: changes of planning inputs or calibration
    MaxCrashes,    \* bound: requests that die
    MaxLapses,     \* bound: leases that lapse under a request that is still alive
    MaxGivenUp,    \* bound: PATCHes given up that may still arrive later
    MaxTroubles    \* bound: all of these together

\* services/execution.py and _review: what an action's type decides.
DateShiftTypes == {"date_shift", "planned_date_shift", "planned_dates",
                   "schedule_change", "schedule_shift"}
ManualPrerequisiteTypes == {"material", "material_ready", "material_response",
                            "material_shift", "move_worker", "transfer", "weather",
                            "weather_reschedule", "weather_response", "weather_shift",
                            "worker_transfer"}
ApiTypes == {"date_shift", "schedule_shift", "weather_shift", "material_shift"}

Steps(a) == 1 .. Len(Plan[a])
IsApi(a, i) == Plan[a][i].type \in ApiTypes
ApiSteps(a) == {i \in Steps(a) : IsApi(a, i)}

\* step_dependencies: a date shift waits for every manual prerequisite of the
\* bundle; a weather or material shift written by the API waits for nothing.
DependsOn(a, i) ==
    IF Plan[a][i].type \in DateShiftTypes
    THEN {j \in Steps(a) : /\ Plan[a][j].type \in ManualPrerequisiteTypes
                           /\ ~IsApi(a, j)}
    ELSE {}

\* The workers and tasks the strategy's actions name.
Requested(a) == {Plan[a][i].target : i \in Steps(a)}
DatedTasks(a) == {Plan[a][i].target : i \in ApiSteps(a)}

StepStatus == {"pending", "blocked", "applying", "needs_reconciliation",
               "applied", "confirmed", "failed", "cancelled"}
Live == {"pending", "blocked", "applying", "needs_reconciliation"}
Done == {"applied", "confirmed"}
Settled == {"applied", "confirmed", "failed", "cancelled"}
ExecutionStatus == {"applying", "applied", "partially_applied",
                    "needs_reconciliation", "cancelled"}

RecordOf(a) == [analysis : {a}, status : ExecutionStatus, step : [Steps(a) -> StepStatus]]
Record == UNION {RecordOf(a) : a \in Analysis}

ASSUME ExecutionConstants ==
    /\ Free \notin Handler /\ Orphan \notin Handler /\ Free # Orphan
    /\ FirstDate \in Date
    /\ NoRecord \notin Record
    /\ Nobody \notin Key \X Nat
    /\ Plan \in [Analysis -> Seq([type : DateShiftTypes \cup ManualPrerequisiteTypes,
                                   target : Task \cup Worker, body : Date])]
    /\ \A a \in Analysis : Plan[a] # <<>> /\ DatedTasks(a) \subseteq Task
    /\ {MaxEdits, MaxContext, MaxCrashes, MaxLapses, MaxGivenUp, MaxTroubles} \subseteq Nat

VARIABLES
    holder, lapsed,  \* the "execution" lease
    base,            \* base[a]: the dates and the context analysis a was computed from
    current,         \* analyses whose executionRevision is still the store's
    record,          \* record[k]: the stored execution
    dates,           \* dates[t]: what Timecue answers for task t
    writer,          \* writer[t]: the step whose PATCH wrote dates[t], or Nobody
    inflight,        \* PATCHes given up by the client that may still arrive
    late,            \* PATCHes that arrived after they were given up
    context,         \* version of planning inputs and calibration
    pc,              \* pc[h]: where request h is
    req,             \* req[h]: its arguments and local variables
    edits, crashes, lapses, givenUp

leaseVars == <<holder, lapsed>>
worldVars == <<dates, writer, inflight, late>>
counters == <<edits, crashes, lapses, givenUp>>
vars == <<holder, lapsed, base, current, record, dates, writer, inflight, late, context,
          pc, req, edits, crashes, lapses, givenUp>>

L == INSTANCE BoundedLease WITH Process <- Handler

-----------------------------------------------------------------------------
\* Helpers on execution records.
NewRecord(a) == [analysis |-> a, status |-> "applying",
                 step |-> [i \in Steps(a) |-> "pending"]]

SomeStep(r, statuses) == \E i \in DOMAIN r.step : r.step[i] \in statuses
AllSteps(r, statuses) == \A i \in DOMAIN r.step : r.step[i] \in statuses

\* Mutation of Aggregate: a status the records do not have.
AggregateFailed(r) == IF SomeStep(r, {"failed"}) THEN "failed" ELSE "partially_applied"

\* The status _continue_execution ends with.
Aggregate(r) ==
    CASE AllSteps(r, {"cancelled"}) -> "cancelled"
      [] SomeStep(r, {"needs_reconciliation", "applying"}) -> "needs_reconciliation"
      [] AllSteps(r, Done) -> "applied"
      [] OTHER -> "partially_applied"

CompleteIds(r) == {i \in DOMAIN r.step : r.step[i] \in Done}

\* Mutation of Conflicts: uncertain steps are not looked at.
ConflictsPendingOnly(a) ==
    {k \in Key : /\ record[k] # NoRecord
                 /\ \E i \in DOMAIN record[k].step :
                        /\ record[k].step[i] \in {"pending", "blocked"}
                        /\ Plan[record[k].analysis][i].target \in Requested(a)}

\* Executions other requests left with unresolved steps on the same targets.
Conflicts(a) ==
    {k \in Key : /\ record[k] # NoRecord
                 /\ \E i \in DOMAIN record[k].step :
                        /\ record[k].step[i] \in Live
                        /\ Plan[record[k].analysis][i].target \in Requested(a)}

\* _source_invariant: everything in the snapshot but the dates the bundle sets.
SourceUnchanged(a) == \A t \in Task \ DatedTasks(a) : dates[t] = base[a].dates[t]

\* The snapshot's sourceRevision: everything in it.
RevisionUnchanged(a) == dates = base[a].dates

\* Mutation of PlanningUnchanged: the versions are compared the wrong way.
PlanningNotOlder(a) == context >= base[a].context

PlanningUnchanged(a) == context = base[a].context

\* One more of the bounded events may happen.
Spare == edits + context + crashes + lapses + givenUp < MaxTroubles

\* save_record: the whole in-memory record replaces the stored one, and the
\* execution revision that analyses were computed from is no longer the store's.
Save(h, r) == /\ record' = [record EXCEPT ![req[h].key] = r]
              /\ current' = {}

-----------------------------------------------------------------------------
\* Local control.  `began`, the context when the request came in, is history:
\* no handler reads it.
NoRequest == [op |-> "none", key |-> NoRecord, arg |-> NoRecord, mem |-> NoRecord,
              at |-> 0, write |-> FALSE, exit |-> "next", same |-> FALSE, began |-> 0]

Goto(h, label) == pc' = [pc EXCEPT ![h] = label]
At(h, label) == pc[h] = label

Mem(h) == req[h].mem
Step(h) == req[h].at
StepState(h) == Mem(h).step[Step(h)]
Target(h) == Plan[Mem(h).analysis][Step(h)].target
Body(h) == Plan[Mem(h).analysis][Step(h)].body
Before(h) == base[Mem(h).analysis].dates[Target(h)]

\* step.update(status=...) on the working copy, and how the loop body is left.
Mark(h, status, exit) ==
    req' = [req EXCEPT ![h].mem.step[Step(h)] = status, ![h].exit = exit]

\* Enter _continue_execution with working copy r.
Enter(h, r, write) ==
    /\ req' = [req EXCEPT ![h].mem = r, ![h].at = 1, ![h].write = write]
    /\ Goto(h, "step")

\* Leave the handler (HTTPException or return): only the `finally` is left.
Leave(h) == Goto(h, "release") /\ UNCHANGED req

-----------------------------------------------------------------------------
\* The request takes the lease or is refused with 409 (no state change).
Begin(h, op, k, arg) ==
    /\ At(h, "idle")
    /\ L!Acquire(h)
    /\ req' = [req EXCEPT ![h] = [NoRequest EXCEPT !.op = op, !.key = k, !.arg = arg,
                                                     !.began = context]]
    /\ Goto(h, op)
    /\ UNCHANGED <<base, current, record, worldVars, context, counters>>

BeginApply(h) == \E k \in Key, a \in Analysis :
    base[a] # Unpublished /\ Begin(h, "apply", k, a)
BeginReconcile(h) == \E k \in Key : Begin(h, "reconcile", k, NoRecord)
BeginComplete(h) == \E k \in Key :
    /\ record[k] # NoRecord
    /\ \E i \in DOMAIN record[k].step : Begin(h, "complete", k, i)
BeginCancel(h) == \E k \in Key : Begin(h, "cancel", k, NoRecord)

Begins(h) == BeginApply(h) \/ BeginReconcile(h) \/ BeginComplete(h) \/ BeginCancel(h)

Quiet == UNCHANGED <<holder, lapsed, base, current, record, dates, writer, inflight,
                     late, context, edits, crashes, lapses, givenUp>>

\* apply, first half: the idempotency key, or the review of a new approval.
ApplyExisting(h) ==
    LET r == record[req[h].key] IN
    /\ At(h, "apply")
    /\ r # NoRecord
    /\ IF /\ r.analysis = req[h].arg
          /\ \E i \in ApiSteps(r.analysis) :
                 r.step[i] \in {"applying", "needs_reconciliation"}
       THEN Enter(h, r, FALSE)
       ELSE Leave(h)
    /\ Quiet

\* _review succeeds and its hash is the one the owner approved: the store's
\* executions, the snapshot and the versions are read in one step here, and
\* each API step's `before` is what the analysis was computed from.
ReviewPasses(a) ==
    /\ a \in current
    /\ \A k \in Key : record[k] # NoRecord => record[k].analysis # a
    /\ RevisionUnchanged(a)
    /\ PlanningUnchanged(a)
    /\ Conflicts(a) = {}

Review(h) ==
    /\ At(h, "apply")
    /\ record[req[h].key] = NoRecord
    /\ \/ /\ ReviewPasses(req[h].arg)
          /\ req' = [req EXCEPT ![h].mem = NewRecord(req[h].arg)]
          /\ Goto(h, "create")
       \/ Leave(h)
    /\ Quiet

Create(h) ==
    /\ At(h, "create")
    /\ Save(h, Mem(h))
    /\ Enter(h, Mem(h), TRUE)
    /\ UNCHANGED <<leaseVars, base, worldVars, context, counters>>

-----------------------------------------------------------------------------
\* _continue_execution: one loop iteration per step of the bundle.
InLoop(h) == At(h, "step") /\ Step(h) \in DOMAIN Mem(h).step

\* Mutation of Passed: a cancelled step is taken up again.
PassedUnlessCancelled(h) == \/ ~IsApi(Mem(h).analysis, Step(h))
                            \/ StepState(h) \in {"applied", "failed"}

Passed(h) == \/ ~IsApi(Mem(h).analysis, Step(h))
             \/ StepState(h) \in {"applied", "cancelled", "failed"}

\* Mutation of DependenciesMet: a prerequisite only must not have failed.
DependenciesNotFailed(h) ==
    \A j \in DependsOn(Mem(h).analysis, Step(h)) :
        Mem(h).step[j] \notin {"failed", "cancelled"}

DependenciesMet(h) == DependsOn(Mem(h).analysis, Step(h)) \subseteq CompleteIds(Mem(h))

SkipStep(h) ==
    /\ InLoop(h)
    /\ Passed(h)
    /\ req' = [req EXCEPT ![h].at = @ + 1]
    /\ Quiet /\ UNCHANGED pc

\* The session lost its permission: raised outside the `try`, nothing is saved.
Forbidden(h) ==
    /\ InLoop(h)
    /\ ~Passed(h)
    /\ Leave(h)
    /\ Quiet

BlockStep(h) ==
    /\ InLoop(h)
    /\ ~Passed(h)
    /\ ~DependenciesMet(h)
    /\ req' = [req EXCEPT ![h].mem.step[Step(h)] = "blocked", ![h].at = @ + 1]
    /\ Quiet /\ UNCHANGED pc

\* A Timecue call that fails: an UpstreamIntegrationError makes the step
\* uncertain and stops the loop; an AuthenticationFailure from the token
\* refresh is not caught, the `finally` saves the copy as it is.
CallFails(h) == \/ Mark(h, "needs_reconciliation", "break")
                \/ req' = [req EXCEPT ![h].exit = "raise"]

\* Mutation of AlreadyThere: the readback of an earlier write is skipped.
NeverThere(h) == FALSE

AlreadyThere(h) == dates[Target(h)] = Body(h)
Drifted(h) == dates[Target(h)] \notin {Body(h), Before(h)}

\* GET before the write: already there, changed by somebody, not to be written
\* in this pass, or to be written.
ReadCurrent(h) ==
    /\ InLoop(h)
    /\ ~Passed(h)
    /\ DependenciesMet(h)
    /\ \/ CallFails(h) /\ Goto(h, "save")
       \/ /\ AlreadyThere(h)
          /\ Mark(h, "applied", "next") /\ Goto(h, "save")
       \/ /\ Drifted(h)
          /\ Mark(h, "failed", "break") /\ Goto(h, "save")
       \/ /\ ~AlreadyThere(h) /\ ~Drifted(h)
          /\ IF req[h].write
             THEN Goto(h, "renew") /\ UNCHANGED req
             ELSE Mark(h, "pending", "next") /\ Goto(h, "save")
    /\ Quiet

RenewOrLose(h) ==
    /\ At(h, "renew")
    /\ IF holder = h
       THEN /\ L!Renew(h)
            /\ req' = [req EXCEPT ![h].mem.step[Step(h)] = "applying"]
            /\ Goto(h, "mark")
       ELSE /\ req' = [req EXCEPT ![h].exit = "raise"]
            /\ Goto(h, "save")
            /\ UNCHANGED leaseVars
    /\ UNCHANGED <<base, current, record, worldVars, context, counters>>

\* Mutation of MarkApplying: the PATCH is sent before the mark is durable.
MarkInMemoryOnly(h) ==
    /\ At(h, "mark")
    /\ Goto(h, "patch")
    /\ Quiet /\ UNCHANGED req

MarkApplying(h) ==
    /\ At(h, "mark")
    /\ Save(h, Mem(h))
    /\ Goto(h, "patch")
    /\ UNCHANGED <<leaseVars, base, worldVars, context, req, counters>>

ThisStep(h) == <<req[h].key, Step(h)>>
ThisPatch(h) == [step |-> ThisStep(h), target |-> Target(h), body |-> Body(h)]

Write(t, d, step) == /\ dates' = [dates EXCEPT ![t] = d]
                     /\ writer' = [writer EXCEPT ![t] = step]

\* PATCH: it arrives and answers, arrives and the answer is lost, does not
\* arrive (or is refused), or is given up by the client and arrives later.
Patch(h) ==
    /\ At(h, "patch")
    /\ \/ /\ Write(Target(h), Body(h), ThisStep(h))
          /\ Goto(h, "readback")
          /\ UNCHANGED <<inflight, late, req, givenUp>>
       \/ /\ Write(Target(h), Body(h), ThisStep(h))
          /\ CallFails(h)
          /\ Goto(h, "save")
          /\ UNCHANGED <<inflight, late, givenUp>>
       \/ /\ CallFails(h)
          /\ Goto(h, "save")
          /\ UNCHANGED <<worldVars, givenUp>>
       \/ /\ givenUp < MaxGivenUp /\ Spare
          /\ givenUp' = givenUp + 1
          /\ inflight' = inflight \cup {ThisPatch(h)}
          /\ CallFails(h)
          /\ Goto(h, "save")
          /\ UNCHANGED <<dates, writer, late>>
    /\ UNCHANGED <<leaseVars, base, current, record, context, edits, crashes, lapses>>

Readback(h) ==
    /\ At(h, "readback")
    /\ \/ CallFails(h)
       \/ /\ dates[Target(h)] = Body(h)
          /\ Mark(h, "applied", "next")
       \/ /\ dates[Target(h)] # Body(h)
          /\ Mark(h, "needs_reconciliation", "break")
    /\ Goto(h, "save")
    /\ Quiet

\* The loop body's `finally`: the whole copy is saved whether or not the lease
\* is still this request's, then the loop goes on, stops, or the error is raised.
SaveStep(h) ==
    /\ At(h, "save")
    /\ Save(h, Mem(h))
    /\ \/ /\ req[h].exit = "next"
          /\ req' = [req EXCEPT ![h].at = @ + 1]
          /\ Goto(h, "step")
       \/ /\ req[h].exit = "break"
          /\ req' = [req EXCEPT ![h].exit = "next"]
          /\ Goto(h, "finish")
       \/ /\ req[h].exit = "raise"
          /\ Leave(h)
    /\ UNCHANGED <<leaseVars, base, worldVars, context, counters>>

\* Mutation of AfterLoop: reconcile starts over after its second pass.
AlwaysRecheck(h) == IF req[h].op = "reconcile" THEN "recheck" ELSE "release"

AfterLoop(h) == IF req[h].op = "reconcile" /\ ~req[h].write THEN "recheck" ELSE "release"

\* After the loop: the execution's status, saved; reconcile's first pass goes
\* on to its checks, everything else returns.
Finish(h) ==
    LET done == [Mem(h) EXCEPT !.status = Aggregate(Mem(h))] IN
    /\ At(h, "finish") \/ (At(h, "step") /\ Step(h) \notin DOMAIN Mem(h).step)
    /\ Save(h, done)
    /\ req' = [req EXCEPT ![h].mem = done]
    /\ Goto(h, AfterLoop(h))
    /\ UNCHANGED <<leaseVars, base, worldVars, context, counters>>

-----------------------------------------------------------------------------
\* reconcile: read back without writing, check the context, then write.
ReconcileLoad(h) ==
    LET r == record[req[h].key] IN
    /\ At(h, "reconcile")
    /\ IF r = NoRecord THEN Leave(h) ELSE Enter(h, r, FALSE)
    /\ Quiet

Recheck(h) ==
    /\ At(h, "recheck")
    /\ \/ /\ SourceUnchanged(Mem(h).analysis)
          /\ PlanningUnchanged(Mem(h).analysis)
          /\ Enter(h, Mem(h), TRUE)
       \/ Leave(h)
    /\ Quiet

\* complete: a manual step is confirmed against the snapshot read here; the
\* check of the source before the API steps resume uses the same snapshot.
CompleteLoad(h) ==
    LET r == record[req[h].key]
        i == req[h].arg
        confirmed == [r EXCEPT !.step[i] = "confirmed"] IN
    /\ At(h, "complete")
    /\ \/ /\ r # NoRecord
          /\ i \in DOMAIN r.step
          /\ ~IsApi(r.analysis, i)
          /\ r.step[i] = "pending"
          /\ SomeStep(r, {"applied"}) \/ RevisionUnchanged(r.analysis)
          /\ req' = [req EXCEPT
                ![h].mem = IF AllSteps(confirmed, Done)
                           THEN [confirmed EXCEPT !.status = "applied"]
                           ELSE confirmed,
                ![h].same = SourceUnchanged(r.analysis)]
          /\ Goto(h, "confirm")
       \/ Leave(h)
    /\ Quiet

Confirm(h) ==
    /\ At(h, "confirm")
    /\ Save(h, Mem(h))
    /\ Goto(h, IF \E i \in ApiSteps(Mem(h).analysis) : Mem(h).step[i] \in {"pending", "blocked"}
               THEN "resume" ELSE "release")
    /\ UNCHANGED <<leaseVars, base, worldVars, context, req, counters>>

\* Context that changed is reported in the record's message, which is saved.
Resume(h) ==
    /\ At(h, "resume")
    /\ IF req[h].same /\ PlanningUnchanged(Mem(h).analysis)
       THEN Enter(h, Mem(h), TRUE) /\ UNCHANGED <<record, current>>
       ELSE Save(h, Mem(h)) /\ Leave(h)
    /\ UNCHANGED <<leaseVars, base, worldVars, context, counters>>

\* cancel: refused while a write is uncertain.
CancelLoad(h) ==
    LET r == record[req[h].key] IN
    /\ At(h, "cancel")
    /\ IF r = NoRecord \/ SomeStep(r, {"applying", "needs_reconciliation"})
       THEN Leave(h)
       ELSE /\ req' = [req EXCEPT ![h].mem =
                  [r EXCEPT !.step = [i \in DOMAIN r.step |->
                                         IF r.step[i] \in {"pending", "blocked"}
                                         THEN "cancelled" ELSE r.step[i]],
                            !.status = IF SomeStep(r, Done)
                                       THEN "partially_applied" ELSE "cancelled"]]
            /\ Goto(h, "cancelled")
    /\ Quiet

SaveCancelled(h) ==
    /\ At(h, "cancelled")
    /\ Save(h, Mem(h))
    /\ Leave(h)
    /\ UNCHANGED <<leaseVars, base, worldVars, context, counters>>

\* Every handler's `finally`.
End(h) ==
    /\ At(h, "release")
    /\ L!Release(h)
    /\ req' = [req EXCEPT ![h] = NoRequest]
    /\ Goto(h, "idle")
    /\ UNCHANGED <<base, current, record, worldVars, context, counters>>

-----------------------------------------------------------------------------
\* Everything that is not a request.

\* A finished analysis freezes what Timecue, planning and calibration say and
\* the execution revision (services/portfolio.py).
Publish(a) ==
    /\ base[a] = Unpublished
    /\ base' = [base EXCEPT ![a] = [dates |-> dates, context |-> context]]
    /\ current' = current \cup {a}
    /\ UNCHANGED <<leaseVars, record, worldVars, context, pc, req, counters>>

\* Somebody else changes a task's dates in Timecue.
Edit(t) ==
    /\ edits < MaxEdits /\ Spare
    /\ edits' = edits + 1
    /\ \E d \in Date \ {dates[t]} : Write(t, d, Nobody)
    /\ UNCHANGED <<leaseVars, base, current, record, inflight, late, context, pc, req,
                   crashes, lapses, givenUp>>

\* Planning inputs are saved or a calibration is recorded.
ChangeContext ==
    /\ context < MaxContext /\ Spare
    /\ context' = context + 1
    /\ UNCHANGED <<leaseVars, base, current, record, worldVars, pc, req, counters>>

\* A PATCH the client gave up is carried out by Timecue after all.
Arrive(patch) ==
    /\ patch \in inflight
    /\ inflight' = inflight \ {patch}
    /\ late' = late \cup {patch.step}
    /\ Write(patch.target, patch.body, patch.step)
    /\ UNCHANGED <<leaseVars, base, current, record, context, pc, req, counters>>

\* The process of a request dies: its local state and its token are gone.
Crash(h) ==
    /\ ~At(h, "idle")
    /\ crashes < MaxCrashes /\ Spare
    /\ crashes' = crashes + 1
    /\ L!Abandon(h)
    /\ req' = [req EXCEPT ![h] = NoRequest]
    /\ Goto(h, "idle")
    /\ UNCHANGED <<base, current, record, worldVars, context, edits, lapses, givenUp>>

\* 180 seconds pass: always for an orphaned lease, at most MaxLapses times
\* under a request that is still at work.
LapseOrphan ==
    /\ holder = Orphan /\ ~lapsed
    /\ L!Lapse
    /\ UNCHANGED <<base, current, record, worldVars, context, pc, req, counters>>

LapseLive ==
    /\ holder \in Handler /\ ~lapsed
    /\ lapses < MaxLapses /\ Spare
    /\ lapses' = lapses + 1
    /\ L!Lapse
    /\ UNCHANGED <<base, current, record, worldVars, context, pc, req, edits, crashes, givenUp>>

-----------------------------------------------------------------------------
Init ==
    /\ L!LeaseInit
    /\ base = [a \in Analysis |-> Unpublished]
    /\ current = {}
    /\ record = [k \in Key |-> NoRecord]
    /\ dates = [t \in Task |-> FirstDate]
    /\ writer = [t \in Task |-> Nobody]
    /\ inflight = {} /\ late = {}
    /\ context = 0
    /\ pc = [h \in Handler |-> "idle"]
    /\ req = [h \in Handler |-> NoRequest]
    /\ edits = 0 /\ crashes = 0 /\ lapses = 0 /\ givenUp = 0

Loop(h) == \/ SkipStep(h) \/ Forbidden(h) \/ BlockStep(h) \/ ReadCurrent(h)
           \/ RenewOrLose(h) \/ MarkApplying(h) \/ Patch(h) \/ Readback(h)
           \/ SaveStep(h) \/ Finish(h)

Proceed(h) == \/ ApplyExisting(h) \/ Review(h) \/ Create(h)
              \/ Loop(h)
              \/ ReconcileLoad(h) \/ Recheck(h)
              \/ CompleteLoad(h) \/ Confirm(h) \/ Resume(h)
              \/ CancelLoad(h) \/ SaveCancelled(h)
              \/ End(h)

Environment == \/ \E a \in Analysis : Publish(a)
               \/ \E t \in Task : Edit(t)
               \/ ChangeContext
               \/ \E patch \in inflight : Arrive(patch)
               \/ LapseOrphan \/ LapseLive

Next == \/ \E h \in Handler : Begins(h) \/ Proceed(h) \/ Crash(h)
        \/ Environment

Spec == Init /\ [][Next]_vars

\* A running request keeps running, and time passes a lease nobody holds.
FairSpec == Spec /\ (\A h \in Handler : WF_vars(Proceed(h))) /\ WF_vars(LapseOrphan)

-----------------------------------------------------------------------------
Labels == {"idle", "apply", "create", "step", "renew", "mark", "patch", "readback",
           "save", "finish", "reconcile", "recheck", "complete", "confirm", "resume",
           "cancel", "cancelled", "release"}

RequestType ==
    [op : {"none", "apply", "reconcile", "complete", "cancel"},
     key : Key \cup {NoRecord}, arg : Analysis \cup Nat \cup {NoRecord},
     mem : Record \cup {NoRecord}, at : Nat, write : BOOLEAN,
     exit : {"next", "break", "raise"}, same : BOOLEAN, began : Nat]

TypeOK ==
    /\ L!LeaseTypeOK
    /\ base \in [Analysis -> [dates : [Task -> Date], context : Nat] \cup {Unpublished}]
    /\ current \subseteq Analysis
    /\ record \in [Key -> Record \cup {NoRecord}]
    /\ dates \in [Task -> Date]
    /\ writer \in [Task -> (Key \X Nat) \cup {Nobody}]
    /\ inflight \subseteq [step : Key \X Nat, target : Task, body : Date]
    /\ late \subseteq Key \X Nat
    /\ context \in Nat
    /\ pc \in [Handler -> Labels]
    /\ req \in [Handler -> RequestType]
    /\ {edits, crashes, lapses, givenUp} \subseteq Nat

-----------------------------------------------------------------------------
\* Safety.  While InTime, no lease has lapsed under a request that is alive;
\* requests may die anywhere, answers may be lost and others may edit Timecue.

InTime == lapses = 0

Stored == {k \in Key : record[k] # NoRecord}
TargetOf(k, i) == Plan[record[k].analysis][i].target

\* At most one request of the organization is between acquire_lease and
\* release_lease (apply, reconcile, complete, cancel).
Serialized == InTime => \A g, h \in Handler : pc[g] # "idle" /\ pc[h] # "idle" => g = h

\* Whatever an execution wrote to Timecue, and nobody overwrote, its record
\* knows of: the step is applied or still marked uncertain, so cancel refuses it
\* and reconcile looks for it.  Also after a request died at any point; only a
\* PATCH that arrives after it was given up may find its step settled.
WritesAreRecorded ==
    InTime => \A t \in Task : writer[t] \notin {Nobody} \cup late =>
        LET k == writer[t][1] IN
        /\ k \in Stored
        /\ record[k].step[writer[t][2]] \in {"applying", "needs_reconciliation", "applied"}

\* Timecue never shows a date shift whose manual prerequisites (a transfer, a
\* delivery) the owner has not confirmed, whichever request resumed the step and
\* however late its PATCH arrived.
PrerequisitesFirst ==
    InTime => \A t \in Task : writer[t] # Nobody =>
        LET r == record[writer[t][1]] IN
        \A j \in DependsOn(r.analysis, writer[t][2]) : r.step[j] = "confirmed"

\* Two executions never both have unresolved steps on one worker or task.
OneLiveExecutionPerTarget ==
    InTime => \A k, l \in Stored : k # l =>
        \A i \in DOMAIN record[k].step, j \in DOMAIN record[l].step :
            ~ /\ TargetOf(k, i) = TargetOf(l, j)
              /\ record[k].step[i] \in Live
              /\ record[l].step[j] \in Live

\* An applied, confirmed, failed or cancelled step keeps that state for good: no
\* retry, resumption or save of an old copy takes it back.
SettledStaySettled ==
    \A k \in Stored : \A i \in DOMAIN record[k].step :
        record[k].step[i] \in Settled => record'[k].step[i] = record[k].step[i]
StepsStaySettled == [][InTime => SettledStaySettled]_vars

\* A PATCH is never sent for a step whose earlier PATCH Timecue still shows:
\* every resumption reads back first.
Sends(h) == pc[h] = "patch" /\ pc'[h] \in {"readback", "save"}
NoBlindRetry ==
    [][InTime => \A h \in Handler :
          Sends(h) /\ ThisStep(h) \notin late => writer[Target(h)] # ThisStep(h)]_vars

\* An approval whose planning inputs or calibration had moved on when the request
\* came in is not written any further, by a reconcile or by a completed manual
\* step; whether or not the request still has its lease.
StaleApprovalsDoNotWrite ==
    [][\A h \in Handler :
          Sends(h) => req[h].began = base[Mem(h).analysis].context]_vars

\* Every request ends, and the lease can be taken again and again.
RequestsEnd == /\ \A h \in Handler : pc[h] # "idle" ~> pc[h] = "idle"
               /\ []<>L!CanAcquire

-----------------------------------------------------------------------------
\* What the documents promise, also when a lease has lapsed.

\* docs/implementation-plan-v4.md: concurrent owners cannot independently
\* allocate the same worker from the same base revision.
NoIndependentAllocation ==
    \A k, l \in Stored : k # l =>
        \A i \in DOMAIN record[k].step, j \in DOMAIN record[l].step :
            ~ /\ TargetOf(k, i) = TargetOf(l, j)
              /\ TargetOf(k, i) \in Worker
              /\ record[k].step[i] \in Live
              /\ record[l].step[j] \in Live
=============================================================================
