-------------------------- MODULE Execution_proofs --------------------------
(***************************************************************************)
(* Proofs about Execution, for any number of requests, keys, analyses and    *)
(* tasks: type correctness, that requests which stay within their lease are  *)
(* alone, what the steps of the handlers do to records, and what follows for *)
(* what they write.                                                          *)
(***************************************************************************)
EXTENDS Execution, TLAPS

\* While InTime, a request between acquire_lease and release_lease has the row,
\* and only a row nobody has the token of is over its time.
Exclusive ==
    InTime => /\ lapsed => holder \notin Handler
              /\ \A h \in Handler : pc[h] # "idle" => holder = h

Points == /\ pc \in [Handler -> Labels]
          /\ lapses \in Nat

SInv == Points /\ Exclusive

-----------------------------------------------------------------------------
\* A request's step that leaves the lease alone and does not begin or end it.
Inside(h) == /\ pc[h] # "idle"
             /\ UNCHANGED <<holder, lapsed, lapses>>
             /\ \E l \in Labels : pc' = [pc EXCEPT ![h] = l]

\* Such a step keeps the invariant.
LEMMA InsideKeeps ==
  ASSUME SInv, NEW h \in Handler, Inside(h) PROVE SInv'
BY ExecutionConstants DEF SInv, Points, Exclusive, Inside, InTime

\* Every step of the loop is one, but for the renewal of the lease, ...
LEMMA LoopIsInside ==
  ASSUME Points, NEW h \in Handler, Loop(h), ~RenewOrLose(h) PROVE Inside(h)
<1> USE DEF Points, Inside, Quiet, Leave, Goto, At, InLoop, Save, counters, leaseVars, Labels, Mark
<1>1. CASE SkipStep(h)
  BY <1>1 DEF SkipStep
<1>2. CASE Forbidden(h)
  BY <1>2 DEF Forbidden
<1>3. CASE BlockStep(h)
  BY <1>3 DEF BlockStep
<1>4. CASE ReadCurrent(h)
  BY <1>4 DEF ReadCurrent
<1>5. CASE MarkApplying(h)
  BY <1>5 DEF MarkApplying
<1>6. CASE Patch(h)
  BY <1>6 DEF Patch
<1>7. CASE Readback(h)
  BY <1>7 DEF Readback
<1>8. CASE SaveStep(h)
  BY <1>8 DEF SaveStep
<1>9. CASE Finish(h)
  BY <1>9 DEF Finish, AfterLoop
<1> QED
  BY <1>1, <1>2, <1>3, <1>4, <1>5, <1>6, <1>7, <1>8, <1>9 DEF Loop

\* ... and so is every other step of a handler but the last.
LEMMA OtherIsInside ==
  ASSUME Points, NEW h \in Handler, Proceed(h), ~Loop(h), ~End(h) PROVE Inside(h)
<1> USE DEF Points, Inside, Quiet, Leave, Goto, At, Enter, Save, counters, leaseVars, Labels
<1>1. CASE ApplyExisting(h)
  BY <1>1 DEF ApplyExisting
<1>2. CASE Review(h)
  BY <1>2 DEF Review
<1>3. CASE Create(h)
  BY <1>3 DEF Create
<1>4. CASE ReconcileLoad(h)
  BY <1>4 DEF ReconcileLoad
<1>5. CASE Recheck(h)
  BY <1>5 DEF Recheck
<1>6. CASE CompleteLoad(h)
  BY <1>6 DEF CompleteLoad
<1>7. CASE Confirm(h)
  BY <1>7 DEF Confirm
<1>8. CASE Resume(h)
  BY <1>8 DEF Resume
<1>9. CASE CancelLoad(h)
  BY <1>9 DEF CancelLoad
<1>10. CASE SaveCancelled(h)
  BY <1>10 DEF SaveCancelled
<1> QED
  BY <1>1, <1>2, <1>3, <1>4, <1>5, <1>6, <1>7, <1>8, <1>9, <1>10 DEF Proceed

\* Renewing and releasing keep the invariant: a row is only deleted by its holder.
LEMMA LeaseStepsKeep ==
  ASSUME SInv, NEW h \in Handler, RenewOrLose(h) \/ End(h) PROVE SInv'
<1> USE ExecutionConstants
        DEF SInv, Points, Exclusive, InTime, At, Goto, counters, Labels, L!Renew, L!Release,
            leaseVars, L!leaseVars
<1>1. CASE RenewOrLose(h)
  BY <1>1 DEF RenewOrLose
<1>2. CASE End(h)
  BY <1>2 DEF End
<1> QED
  BY <1>1, <1>2

\* Nobody is between acquire and release when the row is free or over its time.
LEMMA BeginsKeep ==
  ASSUME SInv, NEW h \in Handler, NEW op \in {"apply", "reconcile", "complete", "cancel"},
         NEW k, NEW arg, Begin(h, op, k, arg)
  PROVE SInv'
BY ExecutionConstants
DEF Begin, SInv, Points, Exclusive, InTime, At, Goto, counters, Labels, L!Acquire, L!CanAcquire

\* A request that dies is no longer between the two; its row becomes an orphan.
LEMMA CrashKeeps ==
  ASSUME SInv, NEW h \in Handler, Crash(h) PROVE SInv'
BY ExecutionConstants
DEF Crash, SInv, Points, Exclusive, InTime, At, Goto, Labels, L!Abandon

\* Nothing else touches the row, but time.
LEMMA EnvironmentKeeps ==
  ASSUME SInv, Environment PROVE SInv'
<1> USE ExecutionConstants
        DEF SInv, Points, Exclusive, InTime, leaseVars, counters, Quiet, L!Lapse
<1>1. ASSUME NEW a \in Analysis, Publish(a) PROVE SInv'
  BY <1>1 DEF Publish
<1>2. ASSUME NEW t \in Task, Edit(t) PROVE SInv'
  BY <1>2 DEF Edit
<1>3. CASE ChangeContext
  BY <1>3 DEF ChangeContext
<1>4. ASSUME NEW patch \in inflight, Arrive(patch) PROVE SInv'
  BY <1>4 DEF Arrive
<1>5. CASE LapseOrphan
  BY <1>5 DEF LapseOrphan
<1>6. CASE LapseLive
  BY <1>6 DEF LapseLive
<1> QED
  BY <1>1, <1>2, <1>3, <1>4, <1>5, <1>6 DEF Environment

\* The invariant holds at the start, ...
LEMMA InitSInv == Init => SInv
BY ExecutionConstants DEF Init, SInv, Points, Exclusive, L!LeaseInit, Labels

\* ... every step keeps it, ...
LEMMA NextSInv == SInv /\ [Next]_vars => SInv'
<1> SUFFICES ASSUME SInv, [Next]_vars PROVE SInv'
  OBVIOUS
<1>1. CASE UNCHANGED vars
  BY <1>1 DEF vars, SInv, Points, Exclusive, InTime
<1>2. ASSUME NEW h \in Handler, Begins(h) PROVE SInv'
  BY <1>2, BeginsKeep DEF Begins, BeginApply, BeginReconcile, BeginComplete, BeginCancel
<1>3. ASSUME NEW h \in Handler, Proceed(h) PROVE SInv'
  <2>1. CASE RenewOrLose(h) \/ End(h)
    BY <2>1, LeaseStepsKeep
  <2>2. CASE Loop(h) /\ ~RenewOrLose(h)
    BY <2>2, LoopIsInside, InsideKeeps DEF SInv
  <2>3. CASE ~Loop(h) /\ ~End(h)
    BY <1>3, <2>3, OtherIsInside, InsideKeeps DEF SInv
  <2> QED
    BY <2>1, <2>2, <2>3
<1>4. ASSUME NEW h \in Handler, Crash(h) PROVE SInv'
  BY <1>4, CrashKeeps
<1>5. CASE Environment
  BY <1>5, EnvironmentKeeps
<1> QED
  BY <1>1, <1>2, <1>3, <1>4, <1>5 DEF Next

\* ... so it always holds.
LEMMA AlwaysSInv == Spec => []SInv
<1>1. SInv /\ [Next]_vars => SInv'
  BY NextSInv
<1> QED
  BY InitSInv, <1>1, PTL DEF Spec

\* Requests that stay within their lease are alone between acquire_lease and
\* release_lease, whatever dies, and whatever happens in Timecue.
THEOREM RequestsAreSerialized == Spec => []Serialized
<1>1. SInv => Serialized
  BY DEF SInv, Exclusive, Serialized
<1> QED
  BY <1>1, AlwaysSInv, PTL

-----------------------------------------------------------------------------
\* Type correctness.  What records and their copies look like, first: the set of
\* all records is a union over the analyses, so every change of a record is shown
\* once, here, to give a record again.

\* The parts of a record are typed by its own analysis.
LEMMA RecordShape ==
  ASSUME NEW r \in Record
  PROVE  /\ r.analysis \in Analysis
         /\ r.status \in ExecutionStatus
         /\ r.step \in [Steps(r.analysis) -> StepStatus]
         /\ r = [analysis |-> r.analysis, status |-> r.status, step |-> r.step]
<1>1. PICK a \in Analysis : r \in RecordOf(a)
  BY DEF Record
<1> QED
  BY <1>1 DEF RecordOf

\* Three typed parts make a record.
LEMMA MadeRecord ==
  ASSUME NEW a \in Analysis, NEW s \in ExecutionStatus, NEW st \in [Steps(a) -> StepStatus]
  PROVE  [analysis |-> a, status |-> s, step |-> st] \in Record
BY DEF Record, RecordOf

\* A record with another status for step i.
WithStep(r, i, s) == [r EXCEPT !.step[i] = s]

\* Marking one of its steps keeps a record a record of the same analysis.
LEMMA RecordMarked ==
  ASSUME NEW r \in Record, NEW i \in Steps(r.analysis), NEW s \in StepStatus
  PROVE  /\ WithStep(r, i, s) \in Record
         /\ WithStep(r, i, s).analysis = r.analysis
         /\ WithStep(r, i, s).step = [r.step EXCEPT ![i] = s]
<1>1. WithStep(r, i, s) =
        [analysis |-> r.analysis, status |-> r.status, step |-> [r.step EXCEPT ![i] = s]]
  BY RecordShape DEF WithStep
<1>2. [r.step EXCEPT ![i] = s] \in [Steps(r.analysis) -> StepStatus]
  BY RecordShape
<1> QED
  BY <1>1, <1>2, RecordShape, MadeRecord

\* So does a new status.
LEMMA RecordStatus ==
  ASSUME NEW r \in Record, NEW s \in ExecutionStatus
  PROVE  /\ [r EXCEPT !.status = s] \in Record
         /\ [r EXCEPT !.status = s].analysis = r.analysis
         /\ [r EXCEPT !.status = s].step = r.step
<1>1. [r EXCEPT !.status = s] =
        [analysis |-> r.analysis, status |-> s, step |-> r.step]
  BY RecordShape
<1> QED
  BY <1>1, RecordShape, MadeRecord

\* An element of a sequence, and its index.
LEMMA ElementTyped ==
  ASSUME NEW S, NEW s \in Seq(S), NEW i \in 1 .. Len(s) PROVE s[i] \in S /\ i \in Nat
OBVIOUS

\* A step the API writes is a change of the planned dates of a task.
LEMMA PlanTyped ==
  ASSUME NEW a \in Analysis, NEW i \in Steps(a)
  PROVE  /\ i \in Nat
         /\ Plan[a][i].body \in Date
         /\ IsApi(a, i) => Plan[a][i].target \in Task
<1>1. Plan[a] \in Seq([type : DateShiftTypes \cup ManualPrerequisiteTypes,
                       target : Task \cup Worker, body : Date])
  BY ExecutionConstants
<1>2. i \in 1 .. Len(Plan[a])
  BY DEF Steps
<1>3. Plan[a][i] \in [type : DateShiftTypes \cup ManualPrerequisiteTypes,
                       target : Task \cup Worker, body : Date]
  BY <1>1, <1>2, ElementTyped, Zenon
<1>4. i \in Nat
  BY <1>1, <1>2, ElementTyped, Zenon
<1>5. IsApi(a, i) => Plan[a][i].target \in DatedTasks(a)
  BY DEF DatedTasks, ApiSteps
<1> QED
  BY <1>3, <1>4, <1>5, ExecutionConstants

-----------------------------------------------------------------------------
\* The invariant: the stored state is typed (World), and a request's locals are
\* as the label it is at needs them (Requests).  TypeOK alone is not inductive:
\* that the copy a request saves is a record, and that the step it is at is one
\* of the copy's, depends on where the request is.

\* The labels at which a request's working copy is in use, and those at which it
\* is at work on one of the copy's API steps.
CopyLabels == {"create", "step", "renew", "mark", "patch", "readback", "save", "finish",
               "recheck", "confirm", "resume", "cancelled"}
StepLabels == {"renew", "mark", "patch", "readback", "save"}

LocalsOf(l, r) ==
    /\ l # "idle" => r.key \in Key
    /\ l = "apply" => r.arg \in Analysis
    /\ l \in CopyLabels => r.mem \in Record
    /\ l \in StepLabels => /\ r.at \in Steps(r.mem.analysis)
                           /\ IsApi(r.mem.analysis, r.at)

Requests == /\ pc \in [Handler -> Labels]
            /\ req \in [Handler -> RequestType]
            /\ \A h \in Handler : LocalsOf(pc[h], req[h])

World == /\ L!LeaseTypeOK
         /\ base \in [Analysis -> [dates : [Task -> Date], context : Nat] \cup {Unpublished}]
         /\ current \subseteq Analysis
         /\ record \in [Key -> Record \cup {NoRecord}]
         /\ dates \in [Task -> Date]
         /\ writer \in [Task -> (Key \X Nat) \cup {Nobody}]
         /\ inflight \subseteq [step : Key \X Nat, target : Task, body : Date]
         /\ late \subseteq Key \X Nat
         /\ context \in Nat
         /\ {edits, crashes, lapses, givenUp} \subseteq Nat

TInv == World /\ Requests

\* Only request h moved.
Moved(h) == /\ \E l \in Labels : pc' = [pc EXCEPT ![h] = l]
            /\ \E r \in RequestType : req' = [req EXCEPT ![h] = r]
            /\ LocalsOf(pc'[h], req'[h])

\* A step of one request leaves the others as they were.
LEMMA MovedKeeps ==
  ASSUME Requests, NEW h \in Handler, Moved(h) PROVE Requests'
<1>1. /\ pc' \in [Handler -> Labels]
      /\ req' \in [Handler -> RequestType]
  BY DEF Requests, Moved
<1>2. ASSUME NEW g \in Handler PROVE LocalsOf(pc'[g], req'[g])
  <2>1. CASE g = h
    BY <2>1 DEF Moved
  <2>2. CASE g # h
    <3>1. pc'[g] = pc[g] /\ req'[g] = req[g]
      BY <2>2 DEF Moved, Requests
    <3> QED
      BY <3>1 DEF Requests
  <2> QED
    BY <2>1, <2>2
<1> QED
  BY <1>1, <1>2 DEF Requests, LocalsOf, CopyLabels, StepLabels

\* The locals of h with a new status for the step at work.
Marked(h, s, e, n) ==
    [req[h] EXCEPT !.mem = WithStep(Mem(h), Step(h), s), !.exit = e, !.at = n]

\* The locals with a newly marked step are locals of a request.
LEMMA MarkTyped ==
  ASSUME Requests, NEW h \in Handler, Mem(h) \in Record,
         Step(h) \in Steps(Mem(h).analysis),
         NEW s \in StepStatus, NEW e \in {"next", "break", "raise"}, NEW n \in Nat
  PROVE  /\ Marked(h, s, e, n) \in RequestType
         /\ Marked(h, s, e, n).mem \in Record
         /\ Marked(h, s, e, n).mem.analysis = Mem(h).analysis
         /\ Marked(h, s, e, n).at = n
         /\ Marked(h, s, e, n).key = req[h].key
<1>1. req[h] \in RequestType
  BY DEF Requests
<1> DEFINE m == WithStep(Mem(h), Step(h), s)
<1>2. m \in Record /\ m.analysis = Mem(h).analysis
  BY RecordMarked
<1>3. Marked(h, s, e, n) = [req[h] EXCEPT !.mem = m, !.exit = e, !.at = n]
  BY DEF Marked
<1> HIDE DEF m
<1> QED
  BY <1>1, <1>2, <1>3 DEF RequestType

\* A step that only moves a request leaves the stored state typed.
LEMMA QuietKeeps == ASSUME World, Quiet PROVE World'
BY DEF World, Quiet, L!LeaseTypeOK

\* At a label of the loop the locals of h are as they should be.
LEMMA Here ==
  ASSUME Requests, NEW h \in Handler
  PROVE  /\ req[h] \in RequestType /\ pc[h] \in Labels
         /\ pc[h] \in CopyLabels =>
              /\ Mem(h) \in Record /\ Mem(h).analysis \in Analysis
              /\ Mem(h).step \in [Steps(Mem(h).analysis) -> StepStatus]
              /\ DOMAIN Mem(h).step = Steps(Mem(h).analysis)
         /\ pc[h] \in StepLabels =>
              /\ Step(h) \in Steps(Mem(h).analysis)
              /\ IsApi(Mem(h).analysis, Step(h))
              /\ Target(h) \in Task /\ Body(h) \in Date
              /\ ThisStep(h) \in Key \X Nat
         /\ pc[h] # "idle" => req[h].key \in Key
<1>1. req[h] \in RequestType /\ pc[h] \in Labels /\ LocalsOf(pc[h], req[h])
  BY DEF Requests
<1>2. pc[h] \in CopyLabels =>
              /\ Mem(h) \in Record /\ Mem(h).analysis \in Analysis
              /\ Mem(h).step \in [Steps(Mem(h).analysis) -> StepStatus]
              /\ DOMAIN Mem(h).step = Steps(Mem(h).analysis)
  BY <1>1, RecordShape DEF LocalsOf, Mem
<1>3. pc[h] # "idle" => req[h].key \in Key
  BY <1>1 DEF LocalsOf
<1>4. ASSUME pc[h] \in StepLabels
      PROVE  /\ Step(h) \in Steps(Mem(h).analysis)
             /\ IsApi(Mem(h).analysis, Step(h))
             /\ Target(h) \in Task /\ Body(h) \in Date
             /\ ThisStep(h) \in Key \X Nat
  <2>1. Step(h) \in Steps(Mem(h).analysis) /\ IsApi(Mem(h).analysis, Step(h))
    BY <1>1, <1>4 DEF LocalsOf, Step, Mem
  <2>2. Mem(h).analysis \in Analysis /\ req[h].key \in Key
    BY <1>2, <1>3, <1>4 DEF StepLabels, CopyLabels
  <2> QED
    BY <2>1, <2>2, PlanTyped DEF Target, Body, ThisStep
<1> QED
  BY <1>1, <1>2, <1>3, <1>4

\* Saving a record leaves the stored state typed.
LEMMA SaveTyped ==
  ASSUME World, NEW h \in Handler, req[h].key \in Key, NEW r \in Record, Save(h, r),
         UNCHANGED <<leaseVars, base, worldVars, context, counters>>
  PROVE  World'
BY DEF World, Save, L!LeaseTypeOK, leaseVars, worldVars, counters

\* The working copy of an execution in the loop, with a new status for its step.
LEMMA MarkMoves ==
  ASSUME Requests, NEW h \in Handler, pc[h] \in CopyLabels,
         Step(h) \in Steps(Mem(h).analysis), IsApi(Mem(h).analysis, Step(h)),
         NEW s \in StepStatus, NEW e \in {"next", "break", "raise"},
         Mark(h, s, e), NEW l \in Labels, l # "apply", Goto(h, l)
  PROVE  Moved(h)
<1> DEFINE q == Marked(h, s, e, req[h].at)
<1>1. req[h] \in RequestType /\ Mem(h) \in Record /\ pc[h] # "idle" /\ req[h].key \in Key
  BY Here DEF CopyLabels
<1>2. req[h].at \in Nat
  BY <1>1 DEF RequestType
<1>3. /\ q \in RequestType
      /\ q.mem \in Record
      /\ q.mem.analysis = Mem(h).analysis
      /\ q.at = req[h].at /\ q.key = req[h].key
  BY <1>1, <1>2, MarkTyped, Zenon
<1>4. req' = [req EXCEPT ![h] = q]
  BY <1>1 DEF Mark, Marked, WithStep, Mem, Step, Requests, RequestType
<1> HIDE DEF q
<1>5. pc' = [pc EXCEPT ![h] = l]
  BY DEF Goto
<1>6. pc'[h] = l /\ req'[h] = q
  BY <1>4, <1>5 DEF Requests
<1>7. LocalsOf(l, q)
  BY <1>1, <1>3 DEF LocalsOf, Step
<1> QED
  BY <1>3, <1>4, <1>5, <1>6, <1>7 DEF Moved

\* Locals that keep their key and their copy, whatever else changes in them.
LEMMA GoMoves ==
  ASSUME Requests, NEW h \in Handler, pc[h] # "idle",
         NEW q \in RequestType, q.key = req[h].key, q.mem = req[h].mem,
         req' = [req EXCEPT ![h] = q],
         NEW l \in Labels, l # "apply", Goto(h, l),
         l \in CopyLabels => pc[h] \in CopyLabels,
         l \in StepLabels => q.at \in Steps(q.mem.analysis) /\ IsApi(q.mem.analysis, q.at)
  PROVE  Moved(h)
<1>1. pc' = [pc EXCEPT ![h] = l] /\ pc'[h] = l /\ req'[h] = q
  BY DEF Goto, Requests
<1>2. LocalsOf(l, q)
  BY Here DEF LocalsOf, Mem
<1> QED
  BY <1>1, <1>2 DEF Moved

\* Leaving the handler is a step of this request alone.
LEMMA LeaveMoves ==
  ASSUME Requests, NEW h \in Handler, pc[h] # "idle", Leave(h) PROVE Moved(h)
<1>1. req' = [req EXCEPT ![h] = req[h]]
  BY DEF Leave, Requests
<1> QED
  BY <1>1, Here, GoMoves DEF Leave, Labels, CopyLabels, StepLabels

\* So is a Timecue call that fails.
LEMMA CallFailsMoves ==
  ASSUME Requests, NEW h \in Handler, pc[h] \in CopyLabels,
         Step(h) \in Steps(Mem(h).analysis), IsApi(Mem(h).analysis, Step(h)),
         CallFails(h), Goto(h, "save")
  PROVE  Moved(h)
<1>1. CASE Mark(h, "needs_reconciliation", "break")
  BY <1>1, MarkMoves DEF Labels, StepStatus
<1>2. CASE req' = [req EXCEPT ![h].exit = "raise"]
  <2> DEFINE q == [req[h] EXCEPT !.exit = "raise"]
  <2>1. req[h] \in RequestType
    BY Here
  <2>2. q \in RequestType /\ q.key = req[h].key /\ q.mem = req[h].mem /\ q.at = req[h].at
    BY <2>1 DEF RequestType
  <2>3. req' = [req EXCEPT ![h] = q]
    BY <1>2
  <2> HIDE DEF q
  <2> QED
    BY <2>2, <2>3, GoMoves DEF Labels, CopyLabels, Step, Mem
<1> QED
  BY <1>1, <1>2 DEF CallFails

-----------------------------------------------------------------------------
\* One lemma per action: the loop of _continue_execution, ...

LEMMA SkipStepTyped == ASSUME TInv, NEW h \in Handler, SkipStep(h) PROVE TInv'
<1> USE DEF TInv
<1>1. World'
  BY QuietKeeps DEF SkipStep
<1> DEFINE q == [req[h] EXCEPT !.at = req[h].at + 1]
<1>2. req[h] \in RequestType /\ pc[h] = "step"
  BY Here DEF SkipStep, InLoop, At
<1>3. q \in RequestType /\ q.key = req[h].key /\ q.mem = req[h].mem
  BY <1>2 DEF RequestType
<1>4. req' = [req EXCEPT ![h] = q]
  BY DEF SkipStep
<1>5. Goto(h, "step")
  BY <1>2 DEF SkipStep, Goto, Requests
<1> HIDE DEF q
<1>6. Moved(h)
  BY <1>2, <1>3, <1>4, <1>5, GoMoves DEF Labels, CopyLabels, StepLabels
<1> QED
  BY <1>1, <1>6, MovedKeeps

LEMMA ForbiddenTyped == ASSUME TInv, NEW h \in Handler, Forbidden(h) PROVE TInv'
BY QuietKeeps, LeaveMoves, MovedKeeps DEF TInv, Forbidden, InLoop, At

LEMMA BlockStepTyped == ASSUME TInv, NEW h \in Handler, BlockStep(h) PROVE TInv'
<1> USE DEF TInv
<1>1. World'
  BY QuietKeeps DEF BlockStep
<1>2. /\ pc[h] = "step" /\ Mem(h) \in Record /\ req[h] \in RequestType
      /\ Step(h) \in Steps(Mem(h).analysis) /\ req[h].key \in Key
  BY Here DEF BlockStep, InLoop, At, CopyLabels
<1>3. req[h].at + 1 \in Nat /\ req[h].exit \in {"next", "break", "raise"}
  BY <1>2 DEF RequestType
<1> DEFINE q == Marked(h, "blocked", req[h].exit, req[h].at + 1)
<1>4. q \in RequestType /\ q.mem \in Record /\ q.key \in Key
  BY <1>2, <1>3, MarkTyped DEF StepStatus
<1>5. req' = [req EXCEPT ![h] = q]
  BY <1>2 DEF BlockStep, Marked, WithStep, Mem, Step, Requests, RequestType
<1> HIDE DEF q
<1>6. pc' = [pc EXCEPT ![h] = "step"] /\ pc'[h] = "step" /\ req'[h] = q
  BY <1>2, <1>5 DEF BlockStep, Requests
<1>7. Moved(h)
  BY <1>4, <1>5, <1>6 DEF Moved, Labels, LocalsOf, StepLabels
<1> QED
  BY <1>1, <1>7, MovedKeeps

LEMMA ReadCurrentTyped == ASSUME TInv, NEW h \in Handler, ReadCurrent(h) PROVE TInv'
<1> USE DEF TInv
<1>1. World'
  BY QuietKeeps DEF ReadCurrent
<1>2. /\ pc[h] = "step" /\ pc[h] \in CopyLabels
      /\ Step(h) \in Steps(Mem(h).analysis) /\ IsApi(Mem(h).analysis, Step(h))
  BY Here DEF ReadCurrent, InLoop, At, CopyLabels, Passed
<1>3. ASSUME CallFails(h), Goto(h, "save") PROVE Moved(h)
  BY <1>2, <1>3, CallFailsMoves
<1>4. ASSUME NEW s \in StepStatus, NEW e \in {"next", "break"}, Mark(h, s, e), Goto(h, "save")
      PROVE  Moved(h)
  BY <1>2, <1>4, MarkMoves DEF Labels
<1>5. ASSUME Goto(h, "renew"), UNCHANGED req PROVE Moved(h)
  <2>1. req' = [req EXCEPT ![h] = req[h]]
    BY <1>5 DEF Requests
  <2> QED
    BY <1>2, <1>5, <2>1, Here, GoMoves DEF Labels, CopyLabels, Step, Mem
<1>6. Moved(h)
  BY <1>3, <1>4, <1>5 DEF ReadCurrent, StepStatus
<1> QED
  BY <1>1, <1>6, MovedKeeps

LEMMA RenewOrLoseTyped == ASSUME TInv, NEW h \in Handler, RenewOrLose(h) PROVE TInv'
<1> USE DEF TInv
<1>1. World'
  BY DEF RenewOrLose, World, L!Renew, L!LeaseTypeOK, leaseVars, worldVars, counters
<1>2. /\ pc[h] = "renew" /\ pc[h] \in CopyLabels /\ req[h] \in RequestType
      /\ Step(h) \in Steps(Mem(h).analysis) /\ IsApi(Mem(h).analysis, Step(h))
  BY Here DEF RenewOrLose, At, CopyLabels, StepLabels
<1>3. CASE req' = [req EXCEPT ![h].mem.step[Step(h)] = "applying"] /\ Goto(h, "mark")
  <2>1. Mark(h, "applying", req[h].exit)
    BY <1>2, <1>3 DEF Mark, Requests, RequestType
  <2>2. req[h].exit \in {"next", "break", "raise"}
    BY <1>2 DEF RequestType
  <2>3. Moved(h)
    BY <1>2, <1>3, <2>1, <2>2, MarkMoves DEF Labels, StepStatus
  <2> QED
    BY <1>1, <2>3, MovedKeeps
<1>4. CASE req' = [req EXCEPT ![h].exit = "raise"] /\ Goto(h, "save")
  BY <1>1, <1>2, <1>4, CallFailsMoves, MovedKeeps DEF CallFails
<1> QED
  BY <1>3, <1>4 DEF RenewOrLose

LEMMA MarkApplyingTyped == ASSUME TInv, NEW h \in Handler, MarkApplying(h) PROVE TInv'
<1> USE DEF TInv
<1>1. pc[h] = "mark" /\ Mem(h) \in Record /\ req[h].key \in Key /\ req[h] \in RequestType
      /\ Step(h) \in Steps(Mem(h).analysis) /\ IsApi(Mem(h).analysis, Step(h))
  BY Here DEF MarkApplying, At, CopyLabels, StepLabels
<1>2. World'
  BY <1>1, SaveTyped DEF MarkApplying
<1>3. req' = [req EXCEPT ![h] = req[h]]
  BY DEF MarkApplying, Requests
<1>4. Moved(h)
  BY <1>1, <1>3, GoMoves DEF MarkApplying, Labels, CopyLabels, Step, Mem
<1> QED
  BY <1>2, <1>4, MovedKeeps

LEMMA PatchTyped == ASSUME TInv, NEW h \in Handler, Patch(h) PROVE TInv'
<1> USE DEF TInv
<1>1. /\ pc[h] = "patch" /\ pc[h] \in CopyLabels /\ req[h] \in RequestType
      /\ Step(h) \in Steps(Mem(h).analysis) /\ IsApi(Mem(h).analysis, Step(h))
      /\ Target(h) \in Task /\ Body(h) \in Date /\ ThisStep(h) \in Key \X Nat
  BY Here DEF Patch, At, CopyLabels, StepLabels
<1>2. World'
  <2>1. ThisPatch(h) \in [step : Key \X Nat, target : Task, body : Date]
    BY <1>1 DEF ThisPatch
  <2>2. dates' \in [Task -> Date]
    BY <1>1 DEF Patch, Write, World, worldVars
  <2>3. writer' \in [Task -> (Key \X Nat) \cup {Nobody}]
    BY <1>1 DEF Patch, Write, World, worldVars
  <2>4. inflight' \subseteq [step : Key \X Nat, target : Task, body : Date]
    BY <2>1 DEF Patch, World, worldVars
  <2>5. late' \subseteq Key \X Nat /\ givenUp' \in Nat
    BY DEF Patch, World, worldVars
  <2> QED
    BY <2>2, <2>3, <2>4, <2>5 DEF Patch, World, L!LeaseTypeOK, leaseVars
<1>3. CASE CallFails(h) /\ Goto(h, "save")
  BY <1>1, <1>2, <1>3, CallFailsMoves, MovedKeeps
<1>4. CASE Goto(h, "readback") /\ UNCHANGED req
  <2>1. req' = [req EXCEPT ![h] = req[h]]
    BY <1>4 DEF Requests
  <2>2. Moved(h)
    BY <1>1, <1>4, <2>1, GoMoves DEF Labels, CopyLabels, Step, Mem
  <2> QED
    BY <1>2, <2>2, MovedKeeps
<1> QED
  BY <1>3, <1>4 DEF Patch

LEMMA ReadbackTyped == ASSUME TInv, NEW h \in Handler, Readback(h) PROVE TInv'
<1> USE DEF TInv
<1>1. World'
  BY QuietKeeps DEF Readback
<1>2. /\ pc[h] = "readback" /\ pc[h] \in CopyLabels
      /\ Step(h) \in Steps(Mem(h).analysis) /\ IsApi(Mem(h).analysis, Step(h))
  BY Here DEF Readback, At, CopyLabels, StepLabels
<1>3. ASSUME CallFails(h) PROVE Moved(h)
  BY <1>2, <1>3, CallFailsMoves DEF Readback
<1>4. ASSUME NEW s \in StepStatus, NEW e \in {"next", "break"}, Mark(h, s, e)
      PROVE  Moved(h)
  BY <1>2, <1>4, MarkMoves DEF Labels, Readback
<1>5. Moved(h)
  BY <1>3, <1>4 DEF Readback, StepStatus
<1> QED
  BY <1>1, <1>5, MovedKeeps

LEMMA SaveStepTyped == ASSUME TInv, NEW h \in Handler, SaveStep(h) PROVE TInv'
<1> USE DEF TInv
<1>1. pc[h] = "save" /\ Mem(h) \in Record /\ req[h].key \in Key /\ req[h] \in RequestType
  BY Here DEF SaveStep, At, CopyLabels, StepLabels
<1>2. World'
  BY <1>1, SaveTyped DEF SaveStep
<1>3. CASE req' = [req EXCEPT ![h].at = @ + 1] /\ Goto(h, "step")
  <2> DEFINE q == [req[h] EXCEPT !.at = req[h].at + 1]
  <2>1. q \in RequestType /\ q.key = req[h].key /\ q.mem = req[h].mem /\ req' = [req EXCEPT ![h] = q]
    BY <1>1, <1>3 DEF RequestType
  <2> HIDE DEF q
  <2> QED
    BY <1>1, <1>2, <1>3, <2>1, GoMoves, MovedKeeps DEF Labels, CopyLabels, StepLabels
<1>4. CASE req' = [req EXCEPT ![h].exit = "next"] /\ Goto(h, "finish")
  <2> DEFINE q == [req[h] EXCEPT !.exit = "next"]
  <2>1. q \in RequestType /\ q.key = req[h].key /\ q.mem = req[h].mem /\ req' = [req EXCEPT ![h] = q]
    BY <1>1, <1>4 DEF RequestType
  <2> HIDE DEF q
  <2> QED
    BY <1>1, <1>2, <1>4, <2>1, GoMoves, MovedKeeps DEF Labels, CopyLabels, StepLabels
<1>5. CASE Leave(h)
  BY <1>1, <1>2, <1>5, LeaveMoves, MovedKeeps
<1> QED
  BY <1>3, <1>4, <1>5 DEF SaveStep

\* The status after the loop is one of the five.
LEMMA AggregateTyped ==
  ASSUME NEW r \in Record PROVE Aggregate(r) \in ExecutionStatus
BY DEF Aggregate, ExecutionStatus

LEMMA FinishTyped == ASSUME TInv, NEW h \in Handler, Finish(h) PROVE TInv'
<1> USE DEF TInv
<1> DEFINE done == [Mem(h) EXCEPT !.status = Aggregate(Mem(h))]
           q == [req[h] EXCEPT !.mem = done]
<1>1. /\ pc[h] \in {"finish", "step"} /\ Mem(h) \in Record
      /\ req[h].key \in Key /\ req[h] \in RequestType
  BY Here DEF Finish, At, CopyLabels
<1>2. done \in Record
  BY <1>1, AggregateTyped, RecordStatus
<1>3. World'
  BY <1>1, <1>2, SaveTyped DEF Finish
<1>4. q \in RequestType /\ q.key = req[h].key /\ q.mem = done
  BY <1>1, <1>2 DEF RequestType
<1>5. req' = [req EXCEPT ![h] = q]
  BY DEF Finish
<1> HIDE DEF q, done
<1>6. pc' = [pc EXCEPT ![h] = AfterLoop(h)] /\ AfterLoop(h) \in {"recheck", "release"}
  BY DEF Finish, Goto, AfterLoop
<1>7. LocalsOf(pc'[h], req'[h])
  BY <1>1, <1>2, <1>4, <1>5, <1>6 DEF LocalsOf, StepLabels, Requests
<1>8. Moved(h)
  BY <1>4, <1>5, <1>6, <1>7 DEF Moved, Labels
<1> QED
  BY <1>3, <1>8, MovedKeeps

-----------------------------------------------------------------------------
\* ... the other halves of the four handlers, ...

\* Entering the loop with a record.
LEMMA EnterMoves ==
  ASSUME Requests, NEW h \in Handler, pc[h] # "idle",
         NEW r \in Record, NEW w \in BOOLEAN, Enter(h, r, w)
  PROVE  Moved(h)
<1> DEFINE q == [req[h] EXCEPT !.mem = r, !.at = 1, !.write = w]
<1>1. req[h] \in RequestType /\ req[h].key \in Key
  BY Here
<1>2. q \in RequestType /\ q.key = req[h].key /\ q.mem = r
  BY <1>1 DEF RequestType
<1>3. req' = [req EXCEPT ![h] = q]
  BY DEF Enter
<1> HIDE DEF q
<1>4. pc' = [pc EXCEPT ![h] = "step"] /\ pc'[h] = "step" /\ req'[h] = q
  BY <1>3 DEF Enter, Goto, Requests
<1> QED
  BY <1>1, <1>2, <1>3, <1>4 DEF Moved, Labels, LocalsOf, StepLabels

\* Going to a label where the new copy is in use.
LEMMA CopyMoves ==
  ASSUME Requests, NEW h \in Handler, pc[h] # "idle",
         NEW r \in Record, NEW q \in RequestType, q.key = req[h].key, q.mem = r,
         req' = [req EXCEPT ![h] = q],
         NEW l \in CopyLabels \ StepLabels, Goto(h, l)
  PROVE  Moved(h)
<1>1. req[h].key \in Key
  BY Here
<1>2. pc' = [pc EXCEPT ![h] = l] /\ pc'[h] = l /\ req'[h] = q
  BY DEF Goto, Requests
<1> QED
  BY <1>1, <1>2 DEF Moved, LocalsOf, Labels, CopyLabels

\* The stored record of h's key, if there is one.
LEMMA StoredTyped ==
  ASSUME TInv, NEW h \in Handler, pc[h] # "idle", record[req[h].key] # NoRecord
  PROVE  record[req[h].key] \in Record
BY Here DEF TInv, World

LEMMA ApplyExistingTyped == ASSUME TInv, NEW h \in Handler, ApplyExisting(h) PROVE TInv'
<1>1. World' /\ Requests /\ pc[h] # "idle"
  BY QuietKeeps DEF ApplyExisting, TInv, At
<1>2. record[req[h].key] \in Record
  BY <1>1, StoredTyped DEF ApplyExisting
<1>3. Moved(h)
  BY <1>1, <1>2, EnterMoves, LeaveMoves DEF ApplyExisting
<1> QED
  BY <1>1, <1>3, MovedKeeps DEF TInv

\* A new execution is a record.
LEMMA NewRecordTyped == ASSUME NEW a \in Analysis PROVE NewRecord(a) \in Record
<1>1. [i \in Steps(a) |-> "pending"] \in [Steps(a) -> StepStatus]
  BY DEF StepStatus
<1> QED
  BY <1>1, MadeRecord DEF NewRecord, ExecutionStatus

LEMMA ReviewTyped == ASSUME TInv, NEW h \in Handler, Review(h) PROVE TInv'
<1>1. World' /\ Requests /\ pc[h] = "apply"
  BY QuietKeeps DEF Review, TInv, At
<1> DEFINE q == [req[h] EXCEPT !.mem = NewRecord(req[h].arg)]
<1>2. req[h] \in RequestType /\ NewRecord(req[h].arg) \in Record
  BY <1>1, Here, NewRecordTyped DEF Requests, LocalsOf
<1>3. q \in RequestType /\ q.key = req[h].key /\ q.mem = NewRecord(req[h].arg)
  BY <1>2 DEF RequestType
<1>4. ASSUME req' = [req EXCEPT ![h].mem = NewRecord(req[h].arg)], Goto(h, "create")
      PROVE  Moved(h)
  <2>1. req' = [req EXCEPT ![h] = q]
    BY <1>4
  <2> HIDE DEF q
  <2> QED
    BY <1>1, <1>2, <1>3, <1>4, <2>1, CopyMoves DEF CopyLabels, StepLabels
<1>5. Moved(h)
  BY <1>1, <1>4, LeaveMoves DEF Review
<1> QED
  BY <1>1, <1>5, MovedKeeps DEF TInv

LEMMA CreateTyped == ASSUME TInv, NEW h \in Handler, Create(h) PROVE TInv'
<1>1. Requests /\ World /\ pc[h] # "idle" /\ Mem(h) \in Record /\ req[h].key \in Key
  BY Here DEF Create, TInv, At, CopyLabels
<1>2. World'
  BY <1>1, SaveTyped DEF Create
<1>3. Moved(h)
  BY <1>1, EnterMoves DEF Create
<1> QED
  BY <1>1, <1>2, <1>3, MovedKeeps DEF TInv

LEMMA ReconcileLoadTyped == ASSUME TInv, NEW h \in Handler, ReconcileLoad(h) PROVE TInv'
<1>1. World' /\ Requests /\ pc[h] # "idle"
  BY QuietKeeps DEF ReconcileLoad, TInv, At
<1>2. Moved(h)
  BY <1>1, StoredTyped, EnterMoves, LeaveMoves DEF ReconcileLoad
<1> QED
  BY <1>1, <1>2, MovedKeeps DEF TInv

LEMMA RecheckTyped == ASSUME TInv, NEW h \in Handler, Recheck(h) PROVE TInv'
<1>1. World' /\ Requests /\ pc[h] # "idle" /\ Mem(h) \in Record
  BY QuietKeeps, Here DEF Recheck, TInv, At, CopyLabels
<1>2. Moved(h)
  BY <1>1, EnterMoves, LeaveMoves DEF Recheck
<1> QED
  BY <1>1, <1>2, MovedKeeps DEF TInv

LEMMA ConfirmTyped == ASSUME TInv, NEW h \in Handler, Confirm(h) PROVE TInv'
<1>1. /\ Requests /\ World /\ pc[h] = "confirm" /\ pc[h] \in CopyLabels
      /\ Mem(h) \in Record /\ req[h].key \in Key /\ req[h] \in RequestType
  BY Here DEF Confirm, TInv, At, CopyLabels
<1>2. World'
  BY <1>1, SaveTyped DEF Confirm
<1>3. req' = [req EXCEPT ![h] = req[h]]
  BY <1>1 DEF Confirm, Requests
<1>4. Moved(h)
  BY <1>1, <1>3, GoMoves DEF Confirm, Labels, CopyLabels, StepLabels
<1> QED
  BY <1>1, <1>2, <1>4, MovedKeeps DEF TInv

LEMMA ResumeTyped == ASSUME TInv, NEW h \in Handler, Resume(h) PROVE TInv'
<1>1. Requests /\ World /\ pc[h] # "idle" /\ Mem(h) \in Record /\ req[h].key \in Key
  BY Here DEF Resume, TInv, At, CopyLabels
<1>2. World'
  <2>1. CASE Save(h, Mem(h))
    BY <1>1, <2>1, SaveTyped DEF Resume
  <2>2. CASE UNCHANGED <<record, current>>
    BY <1>1, <2>2 DEF Resume, World, leaseVars, worldVars, counters, L!LeaseTypeOK
  <2> QED
    BY <2>1, <2>2 DEF Resume
<1>3. Moved(h)
  BY <1>1, EnterMoves, LeaveMoves DEF Resume
<1> QED
  BY <1>1, <1>2, <1>3, MovedKeeps DEF TInv

LEMMA SaveCancelledTyped == ASSUME TInv, NEW h \in Handler, SaveCancelled(h) PROVE TInv'
<1>1. Requests /\ World /\ pc[h] # "idle" /\ Mem(h) \in Record /\ req[h].key \in Key
  BY Here DEF SaveCancelled, TInv, At, CopyLabels
<1>2. World'
  BY <1>1, SaveTyped DEF SaveCancelled
<1>3. Moved(h)
  BY <1>1, LeaveMoves DEF SaveCancelled
<1> QED
  BY <1>1, <1>2, <1>3, MovedKeeps DEF TInv

LEMMA CompleteLoadTyped == ASSUME TInv, NEW h \in Handler, CompleteLoad(h) PROVE TInv'
<1>1. World' /\ Requests /\ pc[h] = "complete"
  BY QuietKeeps DEF CompleteLoad, TInv, At
<1>2. CASE Leave(h)
  BY <1>1, <1>2, LeaveMoves, MovedKeeps DEF TInv
<1>3. CASE ~Leave(h)
  <2> DEFINE r == record[req[h].key]
             i == req[h].arg
             confirmed == WithStep(r, i, "confirmed")
             copy == IF AllSteps(confirmed, Done)
                     THEN [confirmed EXCEPT !.status = "applied"] ELSE confirmed
             q == [req[h] EXCEPT !.mem = copy, !.same = SourceUnchanged(r.analysis)]
  <2>1. /\ r # NoRecord /\ i \in DOMAIN r.step
        /\ req' = [req EXCEPT ![h].mem = copy, ![h].same = SourceUnchanged(r.analysis)]
        /\ Goto(h, "confirm")
    BY <1>3 DEF CompleteLoad, WithStep
  <2>2. r \in Record
    BY <1>1, <2>1, StoredTyped
  <2>3. i \in Steps(r.analysis)
    BY <2>1, <2>2, RecordShape
  <2>4. confirmed \in Record
    BY <2>2, <2>3, RecordMarked DEF StepStatus
  <2> HIDE DEF confirmed
  <2>5. copy \in Record
    BY <2>4, RecordStatus DEF ExecutionStatus
  <2>6. req' = [req EXCEPT ![h] = q]
    BY <2>1
  <2>7. SourceUnchanged(r.analysis) \in BOOLEAN
    BY DEF SourceUnchanged
  <2> HIDE DEF copy, r
  <2>8. q \in RequestType /\ q.key = req[h].key /\ q.mem = copy
    BY <1>1, <2>5, <2>7, Here DEF RequestType
  <2> HIDE DEF q
  <2>9. Moved(h)
    BY <1>1, <2>1, <2>5, <2>6, <2>8, CopyMoves DEF CopyLabels, StepLabels
  <2> QED
    BY <1>1, <2>9, MovedKeeps DEF TInv
<1> QED
  BY <1>2, <1>3

\* So do new steps with a new status, as cancel writes them.
LEMMA RecordReplaced ==
  ASSUME NEW r \in Record, NEW s \in ExecutionStatus,
         NEW st \in [Steps(r.analysis) -> StepStatus]
  PROVE  [r EXCEPT !.step = st, !.status = s] \in Record
<1>1. PICK a \in Analysis : r \in RecordOf(a)
  BY DEF Record
<1>2. [r EXCEPT !.step = st, !.status = s] \in RecordOf(a)
  BY <1>1 DEF RecordOf
<1> QED
  BY <1>2 DEF Record

LEMMA CancelLoadTyped == ASSUME TInv, NEW h \in Handler, CancelLoad(h) PROVE TInv'
<1>1. World' /\ Requests /\ pc[h] = "cancel"
  BY QuietKeeps DEF CancelLoad, TInv, At
<1>2. CASE Leave(h)
  BY <1>1, <1>2, LeaveMoves, MovedKeeps DEF TInv
<1>3. CASE ~Leave(h)
  <2> DEFINE r == record[req[h].key]
             steps == [i \in DOMAIN r.step |-> IF r.step[i] \in {"pending", "blocked"}
                                               THEN "cancelled" ELSE r.step[i]]
             status == IF SomeStep(r, Done) THEN "partially_applied" ELSE "cancelled"
             copy == [r EXCEPT !.step = steps, !.status = status]
             q == [req[h] EXCEPT !.mem = copy]
  <2>1. /\ r # NoRecord
        /\ req' = [req EXCEPT ![h].mem = copy]
        /\ Goto(h, "cancelled")
    BY <1>3 DEF CancelLoad
  <2>2. r \in Record
    BY <1>1, <2>1, StoredTyped
  <2>3. steps \in [Steps(r.analysis) -> StepStatus]
    BY <2>2, RecordShape DEF StepStatus
  <2>4. status \in ExecutionStatus
    BY DEF ExecutionStatus
  <2> HIDE DEF steps, status
  <2>6. copy \in Record
    BY <2>2, <2>3, <2>4, RecordReplaced
  <2>7. req' = [req EXCEPT ![h] = q]
    BY <2>1
  <2> HIDE DEF copy
  <2>8. q \in RequestType /\ q.key = req[h].key /\ q.mem = copy
    BY <1>1, <2>6, Here DEF RequestType
  <2> HIDE DEF q
  <2>9. Moved(h)
    BY <1>1, <2>1, <2>6, <2>7, <2>8, CopyMoves DEF CopyLabels, StepLabels
  <2> QED
    BY <1>1, <2>9, MovedKeeps DEF TInv
<1> QED
  BY <1>2, <1>3

\* What a request that is not running has for locals.
LEMMA NoRequestTyped == NoRequest \in RequestType
BY DEF NoRequest, RequestType

\* A request that goes back to where it waits for the next one.
LEMMA GoneMoves ==
  ASSUME Requests, NEW h \in Handler, req' = [req EXCEPT ![h] = NoRequest], Goto(h, "idle")
  PROVE  Moved(h)
<1>1. pc' = [pc EXCEPT ![h] = "idle"] /\ pc'[h] = "idle" /\ req'[h] = NoRequest
  BY DEF Goto, Requests
<1> QED
  BY <1>1, NoRequestTyped DEF Moved, LocalsOf, Labels, CopyLabels, StepLabels

LEMMA EndTyped == ASSUME TInv, NEW h \in Handler, End(h) PROVE TInv'
<1>1. World'
  BY DEF End, TInv, World, L!Release, L!LeaseTypeOK, L!leaseVars, worldVars, counters
<1>2. Requests'
  BY GoneMoves, MovedKeeps DEF End, TInv
<1> QED
  BY <1>1, <1>2 DEF TInv

LEMMA CrashTyped == ASSUME TInv, NEW h \in Handler, Crash(h) PROVE TInv'
<1>1. World'
  BY DEF Crash, TInv, World, L!Abandon, L!LeaseTypeOK, worldVars, counters
<1>2. Requests'
  BY GoneMoves, MovedKeeps DEF Crash, TInv
<1> QED
  BY <1>1, <1>2 DEF TInv

LEMMA BeginTyped ==
  ASSUME TInv, NEW h \in Handler, NEW op \in {"apply", "reconcile", "complete", "cancel"},
         NEW k \in Key, NEW arg \in Analysis \cup Nat \cup {NoRecord},
         op = "apply" => arg \in Analysis, Begin(h, op, k, arg)
  PROVE  TInv'
<1>1. World'
  BY DEF Begin, TInv, World, L!Acquire, L!LeaseTypeOK, worldVars, counters
<1> DEFINE q == [NoRequest EXCEPT !.op = op, !.key = k, !.arg = arg, !.began = context]
<1>2. q \in RequestType /\ q.key = k /\ q.arg = arg
  BY DEF NoRequest, RequestType, TInv, World
<1>3. req' = [req EXCEPT ![h] = q]
  BY DEF Begin
<1> HIDE DEF q
<1>4. pc' = [pc EXCEPT ![h] = op] /\ pc'[h] = op /\ req'[h] = q
  BY <1>3 DEF Begin, Goto, TInv, Requests
<1>5. Moved(h)
  BY <1>2, <1>3, <1>4 DEF Moved, LocalsOf, Labels, CopyLabels, StepLabels
<1> QED
  BY <1>1, <1>5, MovedKeeps DEF TInv

LEMMA BeginsTyped == ASSUME TInv, NEW h \in Handler, Begins(h) PROVE TInv'
<1>1. CASE BeginApply(h)
  BY <1>1, BeginTyped DEF BeginApply
<1>2. CASE BeginReconcile(h)
  BY <1>2, BeginTyped DEF BeginReconcile
<1>3. CASE BeginCancel(h)
  BY <1>3, BeginTyped DEF BeginCancel
<1>4. CASE BeginComplete(h)
  <2>1. PICK k \in Key : record[k] # NoRecord
                         /\ \E i \in DOMAIN record[k].step : Begin(h, "complete", k, i)
    BY <1>4 DEF BeginComplete
  <2>2. PICK i \in DOMAIN record[k].step : Begin(h, "complete", k, i)
    BY <2>1
  <2>3. record[k] \in Record
    BY <2>1 DEF TInv, World
  <2>4. i \in Steps(record[k].analysis) /\ record[k].analysis \in Analysis
    BY <2>3, RecordShape
  <2>5. i \in Nat
    BY <2>4, PlanTyped
  <2> QED
    BY <2>2, <2>5, BeginTyped
<1> QED
  BY <1>1, <1>2, <1>3, <1>4 DEF Begins

\* ... and what other people, time and Timecue do.
LEMMA EnvironmentTyped == ASSUME TInv, Environment PROVE TInv'
<1> USE DEF TInv, leaseVars, worldVars, counters
<1>1. ASSUME UNCHANGED <<pc, req>> PROVE Requests'
  BY <1>1 DEF Requests, LocalsOf, CopyLabels, StepLabels
<1>2. ASSUME NEW a \in Analysis, Publish(a) PROVE TInv'
  <2>1. base' \in [Analysis -> [dates : [Task -> Date], context : Nat] \cup {Unpublished}]
    BY <1>2 DEF Publish, World
  <2>2. current' \subseteq Analysis
    BY <1>2 DEF Publish, World
  <2> QED
    BY <1>1, <1>2, <2>1, <2>2 DEF Publish, World, L!LeaseTypeOK
<1>3. ASSUME NEW t \in Task, Edit(t) PROVE TInv'
  BY <1>1, <1>3 DEF Edit, Write, World, L!LeaseTypeOK
<1>4. CASE ChangeContext
  BY <1>1, <1>4 DEF ChangeContext, World, L!LeaseTypeOK
<1>5. ASSUME NEW patch \in inflight, Arrive(patch) PROVE TInv'
  <2>1. patch \in [step : Key \X Nat, target : Task, body : Date]
    BY <1>5 DEF World
  <2>2. /\ patch.step \in Key \X Nat /\ patch.target \in Task /\ patch.body \in Date
    BY <2>1
  <2>3. dates' \in [Task -> Date] /\ writer' \in [Task -> (Key \X Nat) \cup {Nobody}]
    BY <1>5, <2>2 DEF Arrive, Write, World
  <2>4. /\ inflight' \subseteq [step : Key \X Nat, target : Task, body : Date]
        /\ late' \subseteq Key \X Nat
    BY <1>5, <2>2 DEF Arrive, World
  <2> QED
    BY <1>1, <1>5, <2>3, <2>4 DEF Arrive, World, L!LeaseTypeOK
<1>6. CASE LapseOrphan
  BY <1>1, <1>6 DEF LapseOrphan, World, L!LeaseTypeOK, L!Lapse
<1>7. CASE LapseLive
  BY <1>1, <1>7 DEF LapseLive, World, L!LeaseTypeOK, L!Lapse
<1> QED
  BY <1>2, <1>3, <1>4, <1>5, <1>6, <1>7 DEF Environment

LEMMA LoopTyped == ASSUME TInv, NEW h \in Handler, Loop(h) PROVE TInv'
BY SkipStepTyped, ForbiddenTyped, BlockStepTyped, ReadCurrentTyped, RenewOrLoseTyped,
   MarkApplyingTyped, PatchTyped, ReadbackTyped, SaveStepTyped, FinishTyped DEF Loop

LEMMA ProceedTyped == ASSUME TInv, NEW h \in Handler, Proceed(h) PROVE TInv'
BY LoopTyped, ApplyExistingTyped, ReviewTyped, CreateTyped, ReconcileLoadTyped,
   RecheckTyped, CompleteLoadTyped, ConfirmTyped, ResumeTyped, CancelLoadTyped,
   SaveCancelledTyped, EndTyped DEF Proceed

\* TInv is inductive: it holds at the start, ...
LEMMA InitTInv == Init => TInv
<1> SUFFICES ASSUME Init PROVE TInv
  OBVIOUS
<1>1. World
  <2>1. /\ L!LeaseTypeOK
        /\ dates \in [Task -> Date]
        /\ writer \in [Task -> (Key \X Nat) \cup {Nobody}]
    BY ExecutionConstants DEF Init, L!LeaseInit, L!LeaseTypeOK
  <2>2. /\ base \in [Analysis -> [dates : [Task -> Date], context : Nat] \cup {Unpublished}]
        /\ record \in [Key -> Record \cup {NoRecord}]
        /\ current = {} /\ inflight = {} /\ late = {}
    BY DEF Init
  <2>3. context \in Nat /\ {edits, crashes, lapses, givenUp} \subseteq Nat
    BY DEF Init
  <2> QED
    BY <2>1, <2>2, <2>3, Zenon DEF World
<1>2. Requests
  BY NoRequestTyped DEF Init, Requests, LocalsOf, Labels, CopyLabels, StepLabels
<1> QED
  BY <1>1, <1>2 DEF TInv

\* ... every step keeps it, ...
LEMMA NextTInv == TInv /\ [Next]_vars => TInv'
<1>1. ASSUME TInv, Next PROVE TInv'
  BY <1>1, BeginsTyped, ProceedTyped, CrashTyped, EnvironmentTyped DEF Next
<1>2. ASSUME TInv, UNCHANGED vars PROVE TInv'
  <2>1. World'
    BY <1>2 DEF vars, TInv, World, L!LeaseTypeOK
  <2>2. Requests'
    BY <1>2 DEF vars, TInv, Requests, LocalsOf, CopyLabels, StepLabels
  <2> QED
    BY <2>1, <2>2 DEF TInv
<1> QED
  BY <1>1, <1>2

\* ... so it always holds.
LEMMA TInvHolds == Spec => []TInv
BY InitTInv, NextTInv, PTL DEF Spec

\* Every variable keeps its type: whichever request saves whichever copy, what is
\* stored is an execution of its analysis with a status for each of its steps.
THEOREM ExecutionTypes == Spec => []TypeOK
<1>1. TInv => TypeOK
  BY DEF TInv, World, Requests, TypeOK
<1> QED
  BY <1>1, TInvHolds, PTL

-----------------------------------------------------------------------------
(***************************************************************************)
(* What the steps of an execution's handlers do.  The twenty actions of a    *)
(* handler do seven things to their working copy, the store and Timecue;     *)
(* each action is shown here to do one of the seven, so that the proofs of    *)
(* what executions write go by those.  Before them, the lemmas about records *)
(* that both need.                                                           *)
(***************************************************************************)

Sent == {"applying", "needs_reconciliation", "applied"}
Manual == {"pending", "confirmed", "cancelled"}

DepsConfirmed(r, i) == \A j \in DependsOn(r.analysis, i) : r.step[j] = "confirmed"

\* A record alone: a manual step waits for the owner, a step the API writes does not, and
\* one that may have been written had its prerequisites.
Sound(r) ==
    \A i \in Steps(r.analysis) :
        /\ ~IsApi(r.analysis, i) => r.step[i] \in Manual
        /\ IsApi(r.analysis, i) => r.step[i] # "confirmed"
        /\ r.step[i] \in Sent => DepsConfirmed(r, i)

\* A working copy and what it was taken from: what is settled stays.
Follows(s, r) ==
    /\ r.analysis = s.analysis
    /\ \A i \in Steps(s.analysis) : s.step[i] \in Settled => r.step[i] = s.step[i]


\* What a step waits for is a step of the same strategy that the owner confirms.
LEMMA DependsOnManual ==
  ASSUME NEW a, NEW i, NEW j \in DependsOn(a, i) PROVE j \in Steps(a) /\ ~IsApi(a, j)
BY DEF DependsOn

\* What is not settled is live.
LEMMA LiveOrSettled ==
  /\ StepStatus = Live \cup Settled
  /\ Live \cap Settled = {}
BY DEF StepStatus, Live, Settled

\* A prerequisite that is complete was confirmed: the API does not write it.
LEMMA CompleteIsConfirmed ==
  ASSUME NEW r \in Record, Sound(r), NEW i,
         DependsOn(r.analysis, i) \subseteq CompleteIds(r)
  PROVE  DepsConfirmed(r, i)
<1> SUFFICES ASSUME NEW j \in DependsOn(r.analysis, i) PROVE r.step[j] = "confirmed"
  BY DEF DepsConfirmed
<1>1. j \in Steps(r.analysis) /\ ~IsApi(r.analysis, j)
  BY DependsOnManual
<1>2. r.step[j] \in Done
  BY DEF CompleteIds
<1>3. r.step[j] \in Manual
  BY <1>1 DEF Sound
<1> QED
  BY <1>2, <1>3 DEF Done, Manual

\* ... and one that is confirmed is complete.
LEMMA ConfirmedIsComplete ==
  ASSUME NEW r \in Record, NEW i, DepsConfirmed(r, i)
  PROVE  DependsOn(r.analysis, i) \subseteq CompleteIds(r)
<1> SUFFICES ASSUME NEW j \in DependsOn(r.analysis, i) PROVE j \in CompleteIds(r)
  OBVIOUS
<1>1. j \in DOMAIN r.step
  BY DependsOnManual, RecordShape
<1> QED
  BY <1>1 DEF DepsConfirmed, CompleteIds, Done

\* Marking a step the API writes leaves a sound record sound, when what it waits for is
\* confirmed before it may have been written.
LEMMA SoundMarked ==
  ASSUME NEW m \in Record, Sound(m), NEW i \in Steps(m.analysis), IsApi(m.analysis, i),
         NEW s \in StepStatus \ {"confirmed"}, s \in Sent => DepsConfirmed(m, i)
  PROVE  Sound(WithStep(m, i, s))
<1> DEFINE w == WithStep(m, i, s)
<1>1. w.analysis = m.analysis /\ w.step = [m.step EXCEPT ![i] = s]
  BY RecordMarked
<1>2. m.step \in [Steps(m.analysis) -> StepStatus]
  BY RecordShape
<1> HIDE DEF w
<1>3. ASSUME NEW j \in Steps(m.analysis), DepsConfirmed(m, j) PROVE DepsConfirmed(w, j)
  <2> SUFFICES ASSUME NEW d \in DependsOn(w.analysis, j) PROVE w.step[d] = "confirmed"
    BY DEF DepsConfirmed
  <2>1. d \in Steps(m.analysis) /\ d # i
    BY <1>1, DependsOnManual
  <2> QED
    BY <1>1, <1>2, <1>3, <2>1 DEF DepsConfirmed
<1>4. ASSUME NEW j \in Steps(w.analysis)
      PROVE  /\ ~IsApi(w.analysis, j) => w.step[j] \in Manual
             /\ IsApi(w.analysis, j) => w.step[j] # "confirmed"
             /\ w.step[j] \in Sent => DepsConfirmed(w, j)
  <2>1. CASE j = i
    BY <1>1, <1>2, <1>3, <2>1
  <2>2. CASE j # i
    BY <1>1, <1>2, <1>3, <2>2 DEF Sound
  <2> QED
    BY <2>1, <2>2
<1>5. Sound(w)
  BY <1>4 DEF Sound
<1> QED
  BY <1>5 DEF w

\* A copy follows its record as long as only unsettled steps are marked.
LEMMA FollowsMarked ==
  ASSUME NEW r \in Record, NEW m \in Record, Follows(r, m),
         NEW i \in Steps(m.analysis), NEW s \in StepStatus, m.step[i] \notin Settled
  PROVE  Follows(r, WithStep(m, i, s))
<1>1. /\ WithStep(m, i, s).analysis = m.analysis
      /\ WithStep(m, i, s).step = [m.step EXCEPT ![i] = s]
  BY RecordMarked
<1>2. m.step \in [Steps(m.analysis) -> StepStatus]
  BY RecordShape
<1> QED
  BY <1>1, <1>2 DEF Follows

\* What was confirmed in the record is confirmed in what follows it.
LEMMA FollowsConfirmed ==
  ASSUME NEW r \in Record, NEW m \in Record, Follows(r, m), NEW i, DepsConfirmed(r, i)
  PROVE  DepsConfirmed(m, i)
<1> SUFFICES ASSUME NEW j \in DependsOn(m.analysis, i) PROVE m.step[j] = "confirmed"
  BY DEF DepsConfirmed
<1>1. j \in Steps(r.analysis) /\ r.step[j] = "confirmed"
  BY DependsOnManual DEF Follows, DepsConfirmed
<1> QED
  BY <1>1 DEF Follows, Settled

\* A new execution waits for everything.
LEMMA NewRecordSound ==
  ASSUME NEW a \in Analysis PROVE Sound(NewRecord(a)) /\ NewRecord(a).analysis = a
BY DEF Sound, NewRecord, Manual, Sent

-----------------------------------------------------------------------------
\* The seven things.

MyRecord(h) == record[req[h].key]

\* Of the requests only h moves, with the key it came with; who has the lease stays.
Mine(h) ==
    /\ \A g \in Handler \ {h} : pc'[g] = pc[g] /\ req'[g] = req[g]
    /\ req'[h].key = req[h].key /\ req'[h].began = req[h].began
    /\ UNCHANGED <<holder, lapses, base, context>>

\* The seven things a step of request h may do to its copy, the store and Timecue,
\* each with the labels it does them at.
Inner(h) == Mine(h) /\ UNCHANGED <<record, dates, writer, inflight, late>>

\* It leaves the handler.
Quits(h) == Inner(h) /\ pc[h] # "idle" /\ pc'[h] = "release"

\* It takes a copy of the stored record, in which nothing settled or sent is different.
Loads(h) ==
    /\ Inner(h)
    /\ pc[h] \in {"apply", "reconcile", "complete", "cancel"}
    /\ MyRecord(h) # NoRecord
    /\ Follows(MyRecord(h), Mem(h)')
    /\ Mem(h)' \in Record
    /\ Sound(MyRecord(h)) => Sound(Mem(h)')
    /\ \A i \in Steps(MyRecord(h).analysis) :
          IsApi(MyRecord(h).analysis, i) /\ MyRecord(h).step[i] \in Sent => Mem(h)'.step[i] \in Sent
    /\ \/ pc'[h] = "step" /\ req'[h].write = FALSE
       \/ pc'[h] \in {"confirm", "cancelled"}

\* It drafts a new execution.
Drafts(h) ==
    /\ Inner(h)
    /\ pc[h] = "apply" /\ pc'[h] = "create"
    /\ MyRecord(h) = NoRecord
    /\ ReviewPasses(req[h].arg)
    /\ Mem(h)' = NewRecord(req[h].arg)

\* It is at a step that has neither been applied nor given up.
Open(h) == /\ Step(h) \in Steps(Mem(h).analysis) /\ IsApi(Mem(h).analysis, Step(h))
           /\ StepState(h) \notin {"applied", "cancelled", "failed"}

\* It turns the step it is at.
Turns(h, s) ==
    /\ Inner(h)
    /\ Mem(h)' = WithStep(Mem(h), Step(h), s)
    /\ req'[h].write = req[h].write
    /\ \/ /\ pc[h] = "step" /\ pc'[h] = "step"
          /\ Open(h) /\ ~DependenciesMet(h) /\ s = "blocked"
       \/ /\ pc[h] = "step" /\ pc'[h] = "save"
          /\ Open(h) /\ DependenciesMet(h)
          /\ s \in {"needs_reconciliation", "applied", "failed", "pending"}
          /\ s \in {"failed", "pending"} => ~AlreadyThere(h)
       \/ /\ pc[h] = "renew" /\ pc'[h] = "mark"
          /\ holder = h /\ s = "applying" /\ Step(h)' = Step(h)
       \/ /\ pc[h] = "readback" /\ pc'[h] = "save"
          /\ s \in {"needs_reconciliation", "applied"}

\* It goes on with the copy it has.
Goes(h) ==
    /\ Inner(h)
    /\ Mem(h)' = Mem(h)
    /\ \/ pc[h] = "step" /\ pc'[h] = "step" /\ req'[h].write = req[h].write
       \/ /\ pc[h] = "step" /\ pc'[h] = "renew" /\ req[h].write
          /\ Open(h) /\ DependenciesMet(h) /\ ~AlreadyThere(h) /\ Step(h)' = Step(h)
       \/ /\ pc[h] \in {"step", "renew", "readback"} /\ pc'[h] = "save"
          /\ req'[h].write = req[h].write
       \/ /\ pc[h] \in {"recheck", "resume"} /\ pc'[h] = "step"
          /\ PlanningUnchanged(Mem(h).analysis)

\* It saves its copy, with the same steps.
Saves(h) ==
    /\ Mine(h)
    /\ UNCHANGED <<dates, writer, inflight, late>>
    /\ record' = [record EXCEPT ![req[h].key] = Mem(h)']
    /\ Mem(h)' \in Record
    /\ Mem(h)'.analysis = Mem(h).analysis /\ Mem(h)'.step = Mem(h).step
    /\ \/ pc[h] = "create" /\ pc'[h] = "step"
       \/ pc[h] = "mark" /\ pc'[h] = "patch" /\ Step(h)' = Step(h)
       \/ pc[h] = "save" /\ pc'[h] = "step" /\ req'[h].write = req[h].write
       \/ /\ pc[h] \in {"step", "save", "finish", "confirm", "resume", "cancelled"}
          /\ pc'[h] \in {"finish", "recheck", "resume", "release"}

\* It sends a PATCH, which is carried out, lost, or given up to arrive later.
Patches(h) ==
    /\ Mine(h) /\ UNCHANGED record
    /\ pc[h] = "patch" /\ req'[h].write = req[h].write
    /\ \/ /\ pc'[h] = "readback"
          /\ Mem(h)' = Mem(h) /\ Step(h)' = Step(h)
          /\ Write(Target(h), Body(h), ThisStep(h)) /\ UNCHANGED <<inflight, late>>
       \/ /\ pc'[h] = "save"
          /\ Mem(h)' \in {Mem(h), WithStep(Mem(h), Step(h), "needs_reconciliation")}
          /\ \/ Write(Target(h), Body(h), ThisStep(h)) /\ UNCHANGED <<inflight, late>>
             \/ UNCHANGED <<dates, writer, inflight, late>>
             \/ /\ inflight' = inflight \cup {ThisPatch(h)}
                /\ UNCHANGED <<dates, writer, late>>

Moves(h) == \/ Quits(h) \/ Loads(h) \/ Drafts(h) \/ (\E s \in StepStatus : Turns(h, s))
            \/ Goes(h) \/ Saves(h) \/ Patches(h)

-----------------------------------------------------------------------------
\* What the handlers' own assignments do.

\* Only h is written in pc and req.
LEMMA OnlyMine ==
  ASSUME Requests, NEW h \in Handler, NEW l, Goto(h, l),
         NEW q, q.key = req[h].key, q.began = req[h].began, req' = [req EXCEPT ![h] = q],
         UNCHANGED <<holder, lapses, base, context>>
  PROVE  Mine(h) /\ pc'[h] = l /\ req'[h] = q
BY DEF Requests, Goto, Mine

\* Mark turns the step, and nothing else of what the other steps read.
LEMMA MarkTurns ==
  ASSUME Requests, NEW h \in Handler, pc[h] \in CopyLabels,
         Step(h) \in Steps(Mem(h).analysis),
         NEW s \in StepStatus, NEW e \in {"next", "break", "raise"},
         Mark(h, s, e), NEW l, Goto(h, l), UNCHANGED <<holder, lapses, base, context>>
  PROVE  /\ Mine(h) /\ pc'[h] = l
         /\ Mem(h)' = WithStep(Mem(h), Step(h), s)
         /\ req'[h].write = req[h].write /\ Step(h)' = Step(h)
<1> DEFINE q == Marked(h, s, e, req[h].at)
<1>1. req[h] \in RequestType /\ Mem(h) \in Record
  BY Here
<1>2. /\ q.key = req[h].key /\ q.began = req[h].began /\ q.write = req[h].write
      /\ q.mem = WithStep(Mem(h), Step(h), s) /\ q.at = req[h].at
  BY <1>1 DEF Marked, RequestType
<1>3. req' = [req EXCEPT ![h] = q]
  BY <1>1 DEF Mark, Marked, WithStep, Mem, Step, Requests, RequestType
<1> HIDE DEF q
<1>4. Mine(h) /\ pc'[h] = l /\ req'[h] = q
  BY <1>2, <1>3, OnlyMine
<1> QED
  BY <1>2, <1>4 DEF Mem, Step

\* So it is with a call that fails.
LEMMA CallFailsTurns ==
  ASSUME Requests, NEW h \in Handler, pc[h] \in CopyLabels,
         Step(h) \in Steps(Mem(h).analysis),
         CallFails(h), NEW l, Goto(h, l), UNCHANGED <<holder, lapses, base, context>>
  PROVE  /\ Mine(h) /\ pc'[h] = l
         /\ Mem(h)' \in {Mem(h), WithStep(Mem(h), Step(h), "needs_reconciliation")}
         /\ req'[h].write = req[h].write /\ Step(h)' = Step(h)
<1>1. CASE Mark(h, "needs_reconciliation", "break")
  BY <1>1, MarkTurns DEF StepStatus
<1>2. CASE req' = [req EXCEPT ![h].exit = "raise"]
  <2> DEFINE q == [req[h] EXCEPT !.exit = "raise"]
  <2>1. req[h] \in RequestType
    BY Here
  <2>2. /\ q.key = req[h].key /\ q.began = req[h].began /\ q.write = req[h].write
        /\ q.mem = req[h].mem /\ q.at = req[h].at
    BY <2>1 DEF RequestType
  <2>3. req' = [req EXCEPT ![h] = q]
    BY <1>2
  <2> HIDE DEF q
  <2>4. Mine(h) /\ pc'[h] = l /\ req'[h] = q
    BY <2>2, <2>3, OnlyMine
  <2> QED
    BY <2>2, <2>4 DEF Mem, Step
<1> QED
  BY <1>1, <1>2 DEF CallFails

\* Entering the loop.
LEMMA EnterTakes ==
  ASSUME Requests, NEW h \in Handler, NEW r, NEW w, Enter(h, r, w),
         UNCHANGED <<holder, lapses, base, context>>
  PROVE  Mine(h) /\ pc'[h] = "step" /\ Mem(h)' = r /\ req'[h].write = w
<1> DEFINE q == [req[h] EXCEPT !.mem = r, !.at = 1, !.write = w]
<1>1. req[h] \in RequestType
  BY Here
<1>2. q.key = req[h].key /\ q.began = req[h].began /\ q.mem = r /\ q.write = w
  BY <1>1 DEF RequestType
<1>3. req' = [req EXCEPT ![h] = q]
  BY DEF Enter
<1> HIDE DEF q
<1>4. Mine(h) /\ pc'[h] = "step" /\ req'[h] = q
  BY <1>2, <1>3, OnlyMine DEF Enter
<1> QED
  BY <1>2, <1>4 DEF Mem

\* Going on without a change of the locals.
LEMMA GotoKeeps ==
  ASSUME Requests, NEW h \in Handler, NEW l, Goto(h, l), UNCHANGED req,
         UNCHANGED <<holder, lapses, base, context>>
  PROVE  /\ Mine(h) /\ pc'[h] = l
         /\ Mem(h)' = Mem(h) /\ Step(h)' = Step(h) /\ req'[h].write = req[h].write
BY DEF Requests, Goto, Mine, Mem, Step

\* Leaving the handler.
LEMMA LeaveQuits ==
  ASSUME Requests, NEW h \in Handler, pc[h] # "idle", Leave(h), Quiet PROVE Quits(h)
BY GotoKeeps DEF Leave, Quiet, Quits, Inner

-----------------------------------------------------------------------------
\* Each action does one of them.

\* apply of a key that is stored takes the stored record, or leaves.
LEMMA ApplyExistingMoves ==
  ASSUME TInv, NEW h \in Handler, ApplyExisting(h) PROVE Moves(h)
<1>1. Requests /\ pc[h] # "idle"
  BY DEF TInv, ApplyExisting, At
<1>2. CASE Enter(h, MyRecord(h), FALSE)
  <2>1. MyRecord(h) \in Record
    BY <1>1, StoredTyped DEF ApplyExisting, MyRecord
  <2>2. Mine(h) /\ pc'[h] = "step" /\ Mem(h)' = MyRecord(h) /\ req'[h].write = FALSE
    BY <1>1, <1>2, EnterTakes DEF ApplyExisting, Quiet
  <2>3. Loads(h)
    BY <2>1, <2>2 DEF Loads, Inner, Follows, ApplyExisting, At, Quiet, MyRecord
  <2> QED
    BY <2>3 DEF Moves
<1>3. CASE Leave(h)
  BY <1>1, <1>3, LeaveQuits DEF ApplyExisting, Moves
<1> QED
  BY <1>2, <1>3 DEF ApplyExisting, MyRecord

\* So does reconcile.
LEMMA ReconcileLoadMoves ==
  ASSUME TInv, NEW h \in Handler, ReconcileLoad(h) PROVE Moves(h)
<1>1. Requests /\ pc[h] # "idle"
  BY DEF TInv, ReconcileLoad, At
<1>2. CASE MyRecord(h) # NoRecord /\ Enter(h, MyRecord(h), FALSE)
  <2>1. MyRecord(h) \in Record
    BY <1>1, <1>2, StoredTyped DEF MyRecord
  <2>2. Mine(h) /\ pc'[h] = "step" /\ Mem(h)' = MyRecord(h) /\ req'[h].write = FALSE
    BY <1>1, <1>2, EnterTakes DEF ReconcileLoad, Quiet
  <2>3. Loads(h)
    BY <1>2, <2>1, <2>2 DEF Loads, Inner, Follows, ReconcileLoad, At, Quiet
  <2> QED
    BY <2>3 DEF Moves
<1>3. CASE Leave(h)
  BY <1>1, <1>3, LeaveQuits DEF ReconcileLoad, Moves
<1> QED
  BY <1>2, <1>3 DEF ReconcileLoad, MyRecord

\* A review that passes drafts the execution.
LEMMA ReviewMoves ==
  ASSUME TInv, NEW h \in Handler, Review(h) PROVE Moves(h)
<1>1. Requests /\ pc[h] = "apply"
  BY DEF TInv, Review, At
<1>2. CASE Leave(h)
  BY <1>1, <1>2, LeaveQuits DEF Review, Moves
<1>3. CASE ~Leave(h)
  <2> DEFINE q == [req[h] EXCEPT !.mem = NewRecord(req[h].arg)]
  <2>1. req[h] \in RequestType
    BY <1>1, Here
  <2>2. q.key = req[h].key /\ q.began = req[h].began /\ q.mem = NewRecord(req[h].arg)
    BY <2>1 DEF RequestType
  <2>3. req' = [req EXCEPT ![h] = q]
    BY <1>3 DEF Review
  <2> HIDE DEF q
  <2>4. Mine(h) /\ pc'[h] = "create" /\ req'[h] = q
    BY <1>1, <1>3, <2>2, <2>3, OnlyMine DEF Review, Quiet
  <2>5. Drafts(h)
    BY <1>1, <1>3, <2>2, <2>4 DEF Drafts, Inner, Review, Quiet, Mem, MyRecord
  <2> QED
    BY <2>5 DEF Moves
<1> QED
  BY <1>2, <1>3

\* The first save of an execution.
LEMMA CreateMoves ==
  ASSUME TInv, NEW h \in Handler, Create(h) PROVE Moves(h)
<1>1. Requests /\ pc[h] = "create" /\ Mem(h) \in Record
  BY Here DEF TInv, Create, At, CopyLabels
<1>2. Mine(h) /\ pc'[h] = "step" /\ Mem(h)' = Mem(h)
  BY <1>1, EnterTakes DEF Create, leaseVars, counters
<1>3. Saves(h)
  BY <1>1, <1>2 DEF Saves, Create, Save, worldVars
<1> QED
  BY <1>3 DEF Moves

\* A step that is passed over.
LEMMA SkipStepMoves ==
  ASSUME TInv, NEW h \in Handler, SkipStep(h) PROVE Moves(h)
<1> DEFINE q == [req[h] EXCEPT !.at = req[h].at + 1]
<1>1. Requests /\ req[h] \in RequestType /\ pc[h] = "step"
  BY Here DEF TInv, SkipStep, InLoop, At
<1>2. /\ q.key = req[h].key /\ q.began = req[h].began
      /\ q.mem = req[h].mem /\ q.write = req[h].write
  BY <1>1 DEF RequestType
<1>3. req' = [req EXCEPT ![h] = q] /\ Goto(h, "step")
  BY <1>1 DEF SkipStep, Goto, Requests
<1> HIDE DEF q
<1>4. Mine(h) /\ pc'[h] = "step" /\ req'[h] = q
  BY <1>1, <1>2, <1>3, OnlyMine DEF SkipStep, Quiet
<1>5. Goes(h)
  BY <1>1, <1>2, <1>4 DEF Goes, Inner, SkipStep, Quiet, Mem
<1> QED
  BY <1>5 DEF Moves

\* A session without the permission.
LEMMA ForbiddenMoves ==
  ASSUME TInv, NEW h \in Handler, Forbidden(h) PROVE Moves(h)
BY LeaveQuits DEF TInv, Forbidden, InLoop, At, Moves

\* In the loop, a step that is not passed over is open.
LEMMA LoopOpen ==
  ASSUME TInv, NEW h \in Handler, InLoop(h), ~Passed(h)
  PROVE  /\ Requests /\ pc[h] = "step" /\ pc[h] \in CopyLabels
         /\ Step(h) \in Steps(Mem(h).analysis) /\ Open(h)
         /\ Mem(h) \in Record /\ req[h] \in RequestType
BY Here DEF TInv, InLoop, At, CopyLabels, Passed, Open

\* A step whose prerequisites are open.
LEMMA BlockStepMoves ==
  ASSUME TInv, NEW h \in Handler, BlockStep(h) PROVE Moves(h)
<1>1. /\ Requests /\ pc[h] = "step" /\ Open(h) /\ Mem(h) \in Record /\ req[h] \in RequestType
  BY LoopOpen DEF BlockStep
<1> DEFINE q == Marked(h, "blocked", req[h].exit, req[h].at + 1)
<1>2. /\ q.key = req[h].key /\ q.began = req[h].began /\ q.write = req[h].write
      /\ q.mem = WithStep(Mem(h), Step(h), "blocked")
  BY <1>1 DEF Marked, RequestType
<1>3. req' = [req EXCEPT ![h] = q]
  BY <1>1 DEF BlockStep, Marked, WithStep, Mem, Step, Requests, RequestType
<1> HIDE DEF q
<1>4. Goto(h, "step")
  BY <1>1 DEF BlockStep, Goto, Requests
<1>5. Mine(h) /\ pc'[h] = "step" /\ req'[h] = q
  BY <1>1, <1>2, <1>3, <1>4, OnlyMine DEF BlockStep, Quiet
<1>6. Turns(h, "blocked")
  BY <1>1, <1>2, <1>5 DEF Turns, Inner, BlockStep, Quiet, Mem
<1> QED
  BY <1>6 DEF Moves, StepStatus

\* The read before a write turns the step, goes on to write it, or fails.
LEMMA ReadCurrentMoves ==
  ASSUME TInv, NEW h \in Handler, ReadCurrent(h) PROVE Moves(h)
<1>1. /\ Requests /\ pc[h] = "step" /\ pc[h] \in CopyLabels
      /\ Step(h) \in Steps(Mem(h).analysis) /\ Open(h) /\ req[h] \in RequestType
      /\ DependenciesMet(h)
  BY LoopOpen DEF ReadCurrent
<1>2. /\ UNCHANGED <<holder, lapses, base, context>>
      /\ UNCHANGED <<record, dates, writer, inflight, late>>
  BY DEF ReadCurrent, Quiet
<1>3. ASSUME CallFails(h), Goto(h, "save") PROVE Moves(h)
  <2>1. /\ Mine(h) /\ pc'[h] = "save"
        /\ Mem(h)' \in {Mem(h), WithStep(Mem(h), Step(h), "needs_reconciliation")}
        /\ req'[h].write = req[h].write
    BY <1>1, <1>2, <1>3, CallFailsTurns
  <2>2. Goes(h) \/ Turns(h, "needs_reconciliation")
    BY <1>1, <1>2, <2>1 DEF Goes, Turns, Inner
  <2> QED
    BY <2>2 DEF Moves, StepStatus
<1>4. ASSUME NEW s \in {"applied", "failed", "pending"}, s # "applied" => ~AlreadyThere(h),
             NEW e \in {"next", "break"}, Mark(h, s, e), Goto(h, "save")
      PROVE  Moves(h)
  <2>1. s \in StepStatus
    BY DEF StepStatus
  <2>2. /\ Mine(h) /\ pc'[h] = "save"
        /\ Mem(h)' = WithStep(Mem(h), Step(h), s)
        /\ req'[h].write = req[h].write
    BY <1>1, <1>2, <1>4, <2>1, MarkTurns
  <2>3. Turns(h, s)
    BY <1>1, <1>2, <1>4, <2>2 DEF Turns, Inner
  <2> QED
    BY <2>1, <2>3 DEF Moves
<1>5. ASSUME ~AlreadyThere(h), req[h].write, Goto(h, "renew"), UNCHANGED req PROVE Moves(h)
  <2>1. /\ Mine(h) /\ pc'[h] = "renew"
        /\ Mem(h)' = Mem(h) /\ Step(h)' = Step(h)
    BY <1>1, <1>2, <1>5, GotoKeeps
  <2>2. Goes(h)
    BY <1>1, <1>2, <1>5, <2>1 DEF Goes, Inner
  <2> QED
    BY <2>2 DEF Moves
<1>6. CASE AlreadyThere(h) /\ Mark(h, "applied", "next") /\ Goto(h, "save")
  BY <1>4, <1>6
<1>7. CASE Drifted(h) /\ Mark(h, "failed", "break") /\ Goto(h, "save")
  BY <1>4, <1>7 DEF Drifted, AlreadyThere
<1>8. CASE ~AlreadyThere(h) /\ Mark(h, "pending", "next") /\ Goto(h, "save")
  BY <1>4, <1>8
<1> QED
  BY <1>3, <1>5, <1>6, <1>7, <1>8 DEF ReadCurrent

\* The renewal goes on with the step, or finds the lease taken.
LEMMA RenewOrLoseMoves ==
  ASSUME TInv, NEW h \in Handler, RenewOrLose(h) PROVE Moves(h)
<1>1. /\ Requests /\ pc[h] = "renew" /\ pc[h] \in CopyLabels /\ req[h] \in RequestType
      /\ Step(h) \in Steps(Mem(h).analysis)
  BY Here DEF TInv, RenewOrLose, At, CopyLabels, StepLabels
<1>2. /\ UNCHANGED <<holder, lapses, base, context>>
      /\ UNCHANGED <<record, dates, writer, inflight, late>>
  BY DEF RenewOrLose, L!Renew, leaseVars, worldVars, counters
<1>3. CASE holder = h /\ req' = [req EXCEPT ![h].mem.step[Step(h)] = "applying"] /\ Goto(h, "mark")
  <2>1. Mark(h, "applying", req[h].exit)
    BY <1>1, <1>3 DEF Mark, Requests, RequestType
  <2>2. req[h].exit \in {"next", "break", "raise"} /\ "applying" \in StepStatus
    BY <1>1 DEF RequestType, StepStatus
  <2>3. /\ Mine(h) /\ pc'[h] = "mark"
        /\ Mem(h)' = WithStep(Mem(h), Step(h), "applying")
        /\ req'[h].write = req[h].write /\ Step(h)' = Step(h)
    BY <1>1, <1>2, <1>3, <2>1, <2>2, MarkTurns
  <2>4. Turns(h, "applying")
    BY <1>1, <1>2, <1>3, <2>3 DEF Turns, Inner
  <2> QED
    BY <2>2, <2>4 DEF Moves
<1>4. CASE req' = [req EXCEPT ![h].exit = "raise"] /\ Goto(h, "save")
  <2> DEFINE q == [req[h] EXCEPT !.exit = "raise"]
  <2>1. /\ q.key = req[h].key /\ q.began = req[h].began
        /\ q.mem = req[h].mem /\ q.write = req[h].write
    BY <1>1 DEF RequestType
  <2>2. req' = [req EXCEPT ![h] = q]
    BY <1>4
  <2> HIDE DEF q
  <2>3. Mine(h) /\ pc'[h] = "save" /\ req'[h] = q
    BY <1>1, <1>2, <1>4, <2>1, <2>2, OnlyMine
  <2>4. Goes(h)
    BY <1>1, <1>2, <2>1, <2>3 DEF Goes, Inner, Mem
  <2> QED
    BY <2>4 DEF Moves
<1> QED
  BY <1>3, <1>4 DEF RenewOrLose

\* The mark is saved before the PATCH.
LEMMA MarkApplyingMoves ==
  ASSUME TInv, NEW h \in Handler, MarkApplying(h) PROVE Moves(h)
<1>1. Requests /\ pc[h] = "mark" /\ Mem(h) \in Record
  BY Here DEF TInv, MarkApplying, At, CopyLabels
<1>2. /\ Mine(h) /\ pc'[h] = "patch" /\ Mem(h)' = Mem(h) /\ Step(h)' = Step(h)
  BY <1>1, GotoKeeps DEF MarkApplying, leaseVars, counters
<1>3. Saves(h)
  BY <1>1, <1>2 DEF Saves, MarkApplying, Save, worldVars
<1> QED
  BY <1>3 DEF Moves

\* The PATCH.
LEMMA PatchMoves ==
  ASSUME TInv, NEW h \in Handler, Patch(h) PROVE Moves(h)
<1>1. /\ Requests /\ pc[h] = "patch" /\ pc[h] \in CopyLabels
      /\ Step(h) \in Steps(Mem(h).analysis)
  BY Here DEF TInv, Patch, At, CopyLabels, StepLabels
<1>2. UNCHANGED <<holder, lapses, base, context>> /\ UNCHANGED record
  BY DEF Patch, leaseVars
<1>3. ASSUME CallFails(h), Goto(h, "save")
      PROVE  /\ Mine(h) /\ pc'[h] = "save"
             /\ Mem(h)' \in {Mem(h), WithStep(Mem(h), Step(h), "needs_reconciliation")}
             /\ req'[h].write = req[h].write
  BY <1>1, <1>2, <1>3, CallFailsTurns
<1>4. ASSUME Goto(h, "readback"), UNCHANGED req
      PROVE  /\ Mine(h) /\ pc'[h] = "readback" /\ Mem(h)' = Mem(h) /\ Step(h)' = Step(h)
             /\ req'[h].write = req[h].write
  BY <1>1, <1>2, <1>4, GotoKeeps
<1>5. Patches(h)
  BY <1>1, <1>2, <1>3, <1>4 DEF Patches, Patch, worldVars
<1> QED
  BY <1>5 DEF Moves

\* The read after it.
LEMMA ReadbackMoves ==
  ASSUME TInv, NEW h \in Handler, Readback(h) PROVE Moves(h)
<1>1. /\ Requests /\ pc[h] = "readback" /\ pc[h] \in CopyLabels
      /\ Step(h) \in Steps(Mem(h).analysis) /\ Goto(h, "save")
  BY Here DEF TInv, Readback, At, CopyLabels, StepLabels
<1>2. /\ UNCHANGED <<holder, lapses, base, context>>
      /\ UNCHANGED <<record, dates, writer, inflight, late>>
  BY DEF Readback, Quiet
<1>3. CASE CallFails(h)
  <2>1. /\ Mine(h) /\ pc'[h] = "save"
        /\ Mem(h)' \in {Mem(h), WithStep(Mem(h), Step(h), "needs_reconciliation")}
        /\ req'[h].write = req[h].write
    BY <1>1, <1>2, <1>3, CallFailsTurns
  <2>2. Goes(h) \/ Turns(h, "needs_reconciliation")
    BY <1>1, <1>2, <2>1 DEF Goes, Turns, Inner
  <2> QED
    BY <2>2 DEF Moves, StepStatus
<1>4. ASSUME NEW s \in {"applied", "needs_reconciliation"}, NEW e \in {"next", "break"}, Mark(h, s, e)
      PROVE  Moves(h)
  <2>1. s \in StepStatus
    BY DEF StepStatus
  <2>2. /\ Mine(h) /\ pc'[h] = "save"
        /\ Mem(h)' = WithStep(Mem(h), Step(h), s)
        /\ req'[h].write = req[h].write
    BY <1>1, <1>2, <1>4, <2>1, MarkTurns
  <2>3. Turns(h, s)
    BY <1>1, <1>2, <1>4, <2>2 DEF Turns, Inner
  <2> QED
    BY <2>1, <2>3 DEF Moves
<1> QED
  BY <1>3, <1>4 DEF Readback

\* The loop body's `finally`.
LEMMA SaveStepMoves ==
  ASSUME TInv, NEW h \in Handler, SaveStep(h) PROVE Moves(h)
<1>1. Requests /\ pc[h] = "save" /\ Mem(h) \in Record /\ req[h] \in RequestType
  BY Here DEF TInv, SaveStep, At, CopyLabels
<1>2. UNCHANGED <<holder, lapses, base, context>> /\ UNCHANGED <<dates, writer, inflight, late>>
  BY DEF SaveStep, leaseVars, worldVars, counters
<1>3. ASSUME NEW q, q.key = req[h].key, q.began = req[h].began,
             q.mem = req[h].mem, q.write = req[h].write, req' = [req EXCEPT ![h] = q],
             NEW l \in {"step", "finish"}, Goto(h, l)
      PROVE  Saves(h)
  <2>1. Mine(h) /\ pc'[h] = l /\ req'[h] = q
    BY <1>1, <1>2, <1>3, OnlyMine
  <2> QED
    BY <1>1, <1>2, <1>3, <2>1 DEF Saves, SaveStep, Save, Mem
<1>4. CASE req' = [req EXCEPT ![h].at = @ + 1] /\ Goto(h, "step")
  <2> DEFINE q == [req[h] EXCEPT !.at = req[h].at + 1]
  <2>1. /\ q.key = req[h].key /\ q.began = req[h].began /\ q.mem = req[h].mem
        /\ q.write = req[h].write /\ req' = [req EXCEPT ![h] = q]
    BY <1>1, <1>4 DEF RequestType
  <2> HIDE DEF q
  <2> QED
    BY <1>3, <1>4, <2>1 DEF Moves
<1>5. CASE req' = [req EXCEPT ![h].exit = "next"] /\ Goto(h, "finish")
  <2> DEFINE q == [req[h] EXCEPT !.exit = "next"]
  <2>1. /\ q.key = req[h].key /\ q.began = req[h].began /\ q.mem = req[h].mem
        /\ q.write = req[h].write /\ req' = [req EXCEPT ![h] = q]
    BY <1>1, <1>5 DEF RequestType
  <2> HIDE DEF q
  <2> QED
    BY <1>3, <1>5, <2>1 DEF Moves
<1>6. CASE Leave(h)
  <2>1. Mine(h) /\ pc'[h] = "release" /\ Mem(h)' = Mem(h)
    BY <1>1, <1>2, <1>6, GotoKeeps DEF Leave
  <2>2. Saves(h)
    BY <1>1, <1>2, <2>1 DEF Saves, SaveStep, Save
  <2> QED
    BY <2>2 DEF Moves
<1> QED
  BY <1>4, <1>5, <1>6 DEF SaveStep

\* The status after the loop.
LEMMA FinishMoves ==
  ASSUME TInv, NEW h \in Handler, Finish(h) PROVE Moves(h)
<1> DEFINE done == [Mem(h) EXCEPT !.status = Aggregate(Mem(h))]
           q == [req[h] EXCEPT !.mem = done]
<1>1. Requests /\ pc[h] \in {"finish", "step"} /\ Mem(h) \in Record /\ req[h] \in RequestType
  BY Here DEF TInv, Finish, At, CopyLabels
<1>2. done \in Record /\ done.analysis = Mem(h).analysis /\ done.step = Mem(h).step
  BY <1>1, AggregateTyped, RecordStatus
<1>3. record' = [record EXCEPT ![req[h].key] = done] /\ req' = [req EXCEPT ![h] = q]
  BY DEF Finish, Save
<1> HIDE DEF done
<1>4. q.key = req[h].key /\ q.began = req[h].began /\ q.mem = done
  BY <1>1 DEF RequestType
<1> HIDE DEF q
<1>5. Mine(h) /\ pc'[h] = AfterLoop(h) /\ req'[h] = q
  BY <1>1, <1>3, <1>4, OnlyMine DEF Finish, leaseVars, counters
<1>6. Saves(h)
  BY <1>1, <1>2, <1>3, <1>4, <1>5 DEF Saves, Finish, AfterLoop, worldVars, Mem
<1> QED
  BY <1>6 DEF Moves

\* reconcile's check of the context before it writes.
LEMMA RecheckMoves ==
  ASSUME TInv, NEW h \in Handler, Recheck(h) PROVE Moves(h)
<1>1. Requests /\ pc[h] = "recheck"
  BY DEF TInv, Recheck, At
<1>2. CASE PlanningUnchanged(Mem(h).analysis) /\ Enter(h, Mem(h), TRUE)
  <2>1. Mine(h) /\ pc'[h] = "step" /\ Mem(h)' = Mem(h)
    BY <1>1, <1>2, EnterTakes DEF Recheck, Quiet
  <2>2. Goes(h)
    BY <1>1, <1>2, <2>1 DEF Goes, Inner, Recheck, Quiet
  <2> QED
    BY <2>2 DEF Moves
<1>3. CASE Leave(h)
  BY <1>1, <1>3, LeaveQuits DEF Recheck, Moves
<1> QED
  BY <1>2, <1>3 DEF Recheck

\* complete saves the confirmed step, ...
LEMMA ConfirmMoves ==
  ASSUME TInv, NEW h \in Handler, Confirm(h) PROVE Moves(h)
<1>1. Requests /\ pc[h] = "confirm" /\ Mem(h) \in Record
  BY Here DEF TInv, Confirm, At, CopyLabels
<1>2. PICK l \in {"resume", "release"} : Goto(h, l)
  BY DEF Confirm
<1>3. Mine(h) /\ pc'[h] = l /\ Mem(h)' = Mem(h)
  BY <1>1, <1>2, GotoKeeps DEF Confirm, leaseVars, counters
<1>4. Saves(h)
  BY <1>1, <1>3 DEF Saves, Confirm, Save, worldVars
<1> QED
  BY <1>4 DEF Moves

\* ... and goes on with the API steps when the context is unchanged.
LEMMA ResumeMoves ==
  ASSUME TInv, NEW h \in Handler, Resume(h) PROVE Moves(h)
<1>1. Requests /\ pc[h] = "resume" /\ Mem(h) \in Record
  BY Here DEF TInv, Resume, At, CopyLabels
<1>2. CASE /\ PlanningUnchanged(Mem(h).analysis)
           /\ Enter(h, Mem(h), TRUE) /\ UNCHANGED <<record, current>>
  <2>1. Mine(h) /\ pc'[h] = "step" /\ Mem(h)' = Mem(h)
    BY <1>1, <1>2, EnterTakes DEF Resume, leaseVars, counters
  <2>2. Goes(h)
    BY <1>1, <1>2, <2>1 DEF Goes, Inner, Resume, worldVars
  <2> QED
    BY <2>2 DEF Moves
<1>3. CASE Save(h, Mem(h)) /\ Leave(h)
  <2>1. Mine(h) /\ pc'[h] = "release" /\ Mem(h)' = Mem(h)
    BY <1>1, <1>3, GotoKeeps DEF Leave, Resume, leaseVars, counters
  <2>2. Saves(h)
    BY <1>1, <1>3, <2>1 DEF Saves, Resume, Save, worldVars
  <2> QED
    BY <2>2 DEF Moves
<1> QED
  BY <1>2, <1>3 DEF Resume

\* cancel saves what it cancelled.
LEMMA SaveCancelledMoves ==
  ASSUME TInv, NEW h \in Handler, SaveCancelled(h) PROVE Moves(h)
<1>1. Requests /\ pc[h] = "cancelled" /\ Mem(h) \in Record
  BY Here DEF TInv, SaveCancelled, At, CopyLabels
<1>2. Mine(h) /\ pc'[h] = "release" /\ Mem(h)' = Mem(h)
  BY <1>1, GotoKeeps DEF Leave, SaveCancelled, leaseVars, counters
<1>3. Saves(h)
  BY <1>1, <1>2 DEF Saves, SaveCancelled, Save, worldVars
<1> QED
  BY <1>3 DEF Moves

\* Confirming a manual step leaves a sound record sound.
LEMMA SoundConfirmed ==
  ASSUME NEW m \in Record, Sound(m), NEW i \in Steps(m.analysis), ~IsApi(m.analysis, i)
  PROVE  Sound(WithStep(m, i, "confirmed"))
<1> DEFINE w == WithStep(m, i, "confirmed")
<1>1. w.analysis = m.analysis /\ w.step = [m.step EXCEPT ![i] = "confirmed"]
  BY RecordMarked DEF StepStatus
<1>2. m.step \in [Steps(m.analysis) -> StepStatus]
  BY RecordShape
<1> HIDE DEF w
<1>3. ASSUME NEW j \in Steps(m.analysis), DepsConfirmed(m, j) PROVE DepsConfirmed(w, j)
  <2> SUFFICES ASSUME NEW d \in DependsOn(w.analysis, j) PROVE w.step[d] = "confirmed"
    BY DEF DepsConfirmed
  <2>1. d \in Steps(m.analysis)
    BY <1>1, DependsOnManual
  <2> QED
    BY <1>1, <1>2, <1>3, <2>1 DEF DepsConfirmed
<1>4. Sound(w)
  BY <1>1, <1>2, <1>3 DEF Sound, Manual, Sent
<1> QED
  BY <1>4 DEF w

\* complete takes the stored record with one manual step confirmed: the step was pending.
LEMMA CompleteLoadMoves ==
  ASSUME TInv, NEW h \in Handler, CompleteLoad(h) PROVE Moves(h)
<1>1. Requests /\ pc[h] = "complete" /\ req[h] \in RequestType
  BY Here DEF TInv, CompleteLoad, At
<1>2. CASE Leave(h)
  BY <1>1, <1>2, LeaveQuits DEF CompleteLoad, Moves
<1>3. CASE ~Leave(h)
  <2> DEFINE r == MyRecord(h)
             i == req[h].arg
             confirmed == WithStep(r, i, "confirmed")
             copy == IF AllSteps(confirmed, Done)
                     THEN [confirmed EXCEPT !.status = "applied"] ELSE confirmed
             q == [req[h] EXCEPT !.mem = copy, !.same = SourceUnchanged(r.analysis)]
  <2>1. /\ r # NoRecord /\ i \in DOMAIN r.step
        /\ ~IsApi(r.analysis, i) /\ r.step[i] = "pending"
        /\ req' = [req EXCEPT ![h].mem = copy, ![h].same = SourceUnchanged(r.analysis)]
        /\ Goto(h, "confirm")
    BY <1>3 DEF CompleteLoad, WithStep, MyRecord
  <2>2. r \in Record
    BY <1>1, <2>1, StoredTyped DEF MyRecord
  <2>3. i \in Steps(r.analysis) /\ r.step \in [Steps(r.analysis) -> StepStatus]
    BY <2>1, <2>2, RecordShape
  <2>4. /\ confirmed \in Record /\ confirmed.analysis = r.analysis
        /\ confirmed.step = [r.step EXCEPT ![i] = "confirmed"]
    BY <2>2, <2>3, RecordMarked DEF StepStatus
  <2>5. Sound(r) => Sound(confirmed)
    BY <2>1, <2>2, <2>3, SoundConfirmed
  <2>6. req' = [req EXCEPT ![h] = q]
    BY <2>1
  <2> HIDE DEF confirmed
  <2>7. copy \in Record /\ copy.analysis = r.analysis /\ copy.step = confirmed.step
    BY <2>4, RecordStatus DEF ExecutionStatus
  <2>8. Sound(r) => Sound(copy)
    BY <2>4, <2>5, <2>7 DEF Sound, DepsConfirmed
  <2> HIDE DEF copy
  <2>9. q.key = req[h].key /\ q.began = req[h].began /\ q.mem = copy
    BY <1>1 DEF RequestType
  <2> HIDE DEF q
  <2>10. Mine(h) /\ pc'[h] = "confirm" /\ req'[h] = q
    BY <1>1, <2>1, <2>6, <2>9, OnlyMine DEF CompleteLoad, Quiet
  <2>11. Follows(r, copy)
    BY <2>1, <2>3, <2>4, <2>7 DEF Follows, Settled
  <2>12. ASSUME NEW j \in Steps(r.analysis), r.step[j] \in Sent PROVE copy.step[j] \in Sent
    BY <2>1, <2>3, <2>4, <2>7, <2>12 DEF Sent
  <2>13. Mem(h)' = copy
    BY <2>9, <2>10 DEF Mem
  <2> HIDE DEF r
  <2>14. Inner(h)
    BY <2>10 DEF Inner, CompleteLoad, Quiet
  <2>15. Loads(h)
    BY <1>1, <2>1, <2>7, <2>8, <2>10, <2>11, <2>12, <2>13, <2>14 DEF Loads, r
  <2> QED
    BY <2>15 DEF Moves
<1> QED
  BY <1>2, <1>3

\* cancel takes the stored record with every step that has not begun cancelled: no step
\* is uncertain.
LEMMA CancelLoadMoves ==
  ASSUME TInv, NEW h \in Handler, CancelLoad(h) PROVE Moves(h)
<1>1. Requests /\ pc[h] = "cancel" /\ req[h] \in RequestType
  BY Here DEF TInv, CancelLoad, At
<1>2. CASE Leave(h)
  BY <1>1, <1>2, LeaveQuits DEF CancelLoad, Moves
<1>3. CASE ~Leave(h)
  <2> DEFINE r == MyRecord(h)
             steps == [i \in DOMAIN r.step |-> IF r.step[i] \in {"pending", "blocked"}
                                               THEN "cancelled" ELSE r.step[i]]
             status == IF SomeStep(r, Done) THEN "partially_applied" ELSE "cancelled"
             copy == [r EXCEPT !.step = steps, !.status = status]
             q == [req[h] EXCEPT !.mem = copy]
  <2>1. /\ r # NoRecord
        /\ ~SomeStep(r, {"applying", "needs_reconciliation"})
        /\ req' = [req EXCEPT ![h].mem = copy]
        /\ Goto(h, "cancelled")
    BY <1>3 DEF CancelLoad, MyRecord
  <2>2. r \in Record
    BY <1>1, <2>1, StoredTyped DEF MyRecord
  <2>3. r.step \in [Steps(r.analysis) -> StepStatus]
    BY <2>2, RecordShape
  <2>4. steps \in [Steps(r.analysis) -> StepStatus]
    BY <2>3 DEF StepStatus
  <2>5. \A i \in Steps(r.analysis) :
           /\ r.step[i] \notin {"applying", "needs_reconciliation"}
           /\ steps[i] = IF r.step[i] \in {"pending", "blocked"} THEN "cancelled" ELSE r.step[i]
    BY <2>1, <2>3 DEF SomeStep
  <2>6. status \in ExecutionStatus
    BY DEF ExecutionStatus
  <2> HIDE DEF steps, status
  <2>7. copy \in Record
    BY <2>2, <2>4, <2>6, RecordReplaced
  <2>8. copy.analysis = r.analysis /\ copy.step = steps
    BY <2>2, RecordShape
  <2>9. req' = [req EXCEPT ![h] = q]
    BY <2>1
  <2> HIDE DEF copy
  <2>10. q.key = req[h].key /\ q.began = req[h].began /\ q.mem = copy
    BY <1>1 DEF RequestType
  <2> HIDE DEF q
  <2>11. Mine(h) /\ pc'[h] = "cancelled" /\ req'[h] = q
    BY <1>1, <2>1, <2>9, <2>10, OnlyMine DEF CancelLoad, Quiet
  <2>12. Follows(r, copy)
    BY <2>5, <2>8 DEF Follows, Settled
  <2>13. Sound(r) => Sound(copy)
    <3> SUFFICES ASSUME Sound(r) PROVE Sound(copy)
      OBVIOUS
    <3>1. ASSUME NEW j, DepsConfirmed(r, j) PROVE DepsConfirmed(copy, j)
      <4> SUFFICES ASSUME NEW d \in DependsOn(copy.analysis, j) PROVE copy.step[d] = "confirmed"
        BY DEF DepsConfirmed
      <4>1. d \in Steps(r.analysis) /\ r.step[d] = "confirmed"
        BY <2>8, <3>1, DependsOnManual DEF DepsConfirmed
      <4> QED
        BY <2>5, <2>8, <4>1
    <3>2. ASSUME NEW j \in Steps(copy.analysis)
          PROVE  /\ ~IsApi(copy.analysis, j) => copy.step[j] \in Manual
                 /\ IsApi(copy.analysis, j) => copy.step[j] # "confirmed"
                 /\ copy.step[j] \in Sent => DepsConfirmed(copy, j)
      <4>1. /\ ~IsApi(r.analysis, j) => r.step[j] \in Manual
            /\ IsApi(r.analysis, j) => r.step[j] # "confirmed"
            /\ r.step[j] \in Sent => DepsConfirmed(r, j)
        BY <2>8, <3>2 DEF Sound
      <4> QED
        BY <2>5, <2>8, <3>1, <3>2, <4>1 DEF Manual, Sent
    <3> QED
      BY <3>2 DEF Sound
  <2>14. ASSUME NEW j \in Steps(r.analysis), r.step[j] \in Sent PROVE copy.step[j] \in Sent
    BY <2>5, <2>8, <2>14 DEF Sent
  <2>15. Mem(h)' = copy
    BY <2>10, <2>11 DEF Mem
  <2> HIDE DEF r
  <2>16. Inner(h)
    BY <2>11 DEF Inner, CancelLoad, Quiet
  <2>17. Loads(h)
    BY <1>1, <2>1, <2>7, <2>11, <2>12, <2>13, <2>14, <2>15, <2>16 DEF Loads, r
  <2> QED
    BY <2>17 DEF Moves
<1> QED
  BY <1>2, <1>3

\* Every step of a handler but the last is one of the seven.
LEMMA ProceedMoves ==
  ASSUME TInv, NEW h \in Handler, Proceed(h), ~End(h) PROVE Moves(h)
BY ApplyExistingMoves, ReviewMoves, CreateMoves, SkipStepMoves, ForbiddenMoves,
   BlockStepMoves, ReadCurrentMoves, RenewOrLoseMoves, MarkApplyingMoves, PatchMoves,
   ReadbackMoves, SaveStepMoves, FinishMoves, ReconcileLoadMoves, RecheckMoves,
   CompleteLoadMoves, ConfirmMoves, ResumeMoves, CancelLoadMoves, SaveCancelledMoves
DEF Proceed, Loop

-----------------------------------------------------------------------------
(***************************************************************************)
(* What executions write, for any number of requests, keys, analyses, tasks  *)
(* and steps, with crashes, lost answers, late PATCHes and edits by others:  *)
(* while requests stay within their lease, settled steps stay settled, every *)
(* write is recorded and had its prerequisites, no PATCH is repeated blindly *)
(* and no two live executions share a target; and stale approvals are not    *)
(* written, whether or not requests stay within it.                          *)
(***************************************************************************)
-----------------------------------------------------------------------------
\* The records by themselves, whoever has the lease.

\* A request's own copy.
SoundCopy(h) ==
    /\ pc[h] \in CopyLabels => Sound(Mem(h))
    /\ pc[h] = "renew" => StepState(h) \notin Settled /\ DepsConfirmed(Mem(h), Step(h))
    /\ pc[h] \in {"mark", "patch", "readback"} => StepState(h) = "applying"

\* Sound: what is stored, and what the requests have in their hands.
LInv == /\ \A k \in Stored : Sound(record[k])
        /\ \A h \in Handler : SoundCopy(h)

\* Only the analysis and the steps of a record matter.
LEMMA SoundSame ==
  ASSUME NEW r, NEW m, Sound(r), m.analysis = r.analysis, m.step = r.step PROVE Sound(m)
BY DEF Sound, DepsConfirmed

\* What an open step knows.
LEMMA OpenKnows ==
  ASSUME TInv, NEW h \in Handler, SoundCopy(h), pc[h] = "step", Open(h)
  PROVE  /\ Mem(h) \in Record /\ Sound(Mem(h))
         /\ StepState(h) \notin Settled
         /\ DependenciesMet(h) => DepsConfirmed(Mem(h), Step(h))
<1>1. Mem(h) \in Record /\ Sound(Mem(h))
  BY Here DEF TInv, SoundCopy, CopyLabels
<1>2. StepState(h) \notin Settled
  BY <1>1 DEF Open, Sound, StepState, Settled
<1>3. DependenciesMet(h) => DepsConfirmed(Mem(h), Step(h))
  BY <1>1, CompleteIsConfirmed DEF DependenciesMet
<1> QED
  BY <1>1, <1>2, <1>3

\* A turned step keeps a sound copy sound.
LEMMA TurnsSound ==
  ASSUME TInv, NEW h \in Handler, SoundCopy(h), NEW s \in StepStatus, Turns(h, s)
  PROVE  /\ Mem(h) \in Record /\ Step(h) \in Steps(Mem(h).analysis)
         /\ IsApi(Mem(h).analysis, Step(h)) /\ StepState(h) \notin Settled
         /\ Sound(Mem(h)')
<1>1. pc[h] \in {"step", "renew", "readback"} /\ Mem(h) \in Record /\ Sound(Mem(h))
  BY Here DEF TInv, SoundCopy, CopyLabels, Turns
<1>2. Step(h) \in Steps(Mem(h).analysis) /\ IsApi(Mem(h).analysis, Step(h))
  BY <1>1, Here DEF TInv, StepLabels, Turns, Open
<1>3. s # "confirmed" /\ (s \in Sent => DepsConfirmed(Mem(h), Step(h)))
  <2>1. CASE pc[h] = "step"
    BY <2>1, OpenKnows DEF Turns, Sent
  <2>2. CASE pc[h] = "renew"
    BY <2>2 DEF Turns, SoundCopy
  <2>3. CASE pc[h] = "readback"
    BY <1>1, <1>2, <2>3 DEF Turns, SoundCopy, Sound, Sent, StepState
  <2> QED
    BY <1>1, <2>1, <2>2, <2>3
<1>4. StepState(h) \notin Settled
  <2>1. CASE pc[h] = "step"
    BY <2>1, OpenKnows DEF Turns
  <2>2. CASE pc[h] \in {"renew", "readback"}
    BY <2>2 DEF SoundCopy, Settled
  <2> QED
    BY <1>1, <2>1, <2>2
<1>5. Sound(WithStep(Mem(h), Step(h), s))
  BY <1>1, <1>2, <1>3, SoundMarked
<1> QED
  BY <1>1, <1>2, <1>4, <1>5 DEF Turns

\* Whatever a request does, its copy is sound afterwards, ...
LEMMA MovesSoundCopy ==
  ASSUME TInv, LInv, NEW h \in Handler, Moves(h) PROVE SoundCopy(h)'
<1>0. SoundCopy(h)
  BY DEF LInv
<1>1. CASE Quits(h)
  BY <1>1 DEF Quits, SoundCopy, CopyLabels
<1>2. CASE Loads(h)
  <2>1. Sound(MyRecord(h)) => Sound(Mem(h)')
    BY <1>2 DEF Loads
  <2>2. MyRecord(h) # NoRecord /\ pc'[h] \in {"step", "confirm", "cancelled"}
    BY <1>2 DEF Loads
  <2>3. req[h].key \in Key
    BY <1>2, Here DEF TInv, Loads
  <2>4. Sound(MyRecord(h))
    BY <2>2, <2>3 DEF LInv, Stored, MyRecord
  <2> QED
    BY <2>1, <2>2, <2>4 DEF SoundCopy
<1>3. CASE Drafts(h)
  <2>1. req[h].arg \in Analysis
    BY <1>3 DEF Drafts, TInv, Requests, LocalsOf
  <2> QED
    BY <1>3, <2>1, NewRecordSound DEF Drafts, SoundCopy
<1>4. ASSUME NEW s \in StepStatus, Turns(h, s) PROVE SoundCopy(h)'
  <2>1. Sound(Mem(h)') /\ Mem(h) \in Record /\ Step(h) \in Steps(Mem(h).analysis)
    BY <1>0, <1>4, TurnsSound
  <2>2. CASE pc'[h] \in {"step", "save"}
    BY <2>1, <2>2 DEF SoundCopy
  <2>3. CASE pc'[h] = "mark"
    <3>1. Mem(h)' = WithStep(Mem(h), Step(h), "applying") /\ Step(h)' = Step(h)
      BY <1>4, <2>3 DEF Turns
    <3>2. "applying" \in StepStatus /\ Mem(h).step \in [Steps(Mem(h).analysis) -> StepStatus]
      BY <2>1, RecordShape DEF StepStatus
    <3>3. WithStep(Mem(h), Step(h), "applying").step = [Mem(h).step EXCEPT ![Step(h)] = "applying"]
      BY <2>1, <3>2, RecordMarked
    <3>4. Mem(h)'.step[Step(h)] = "applying"
      BY <2>1, <3>1, <3>2, <3>3
    <3>5. StepState(h)' = "applying"
      BY <3>1, <3>4 DEF StepState
    <3> QED
      BY <2>1, <2>3, <3>5 DEF SoundCopy
  <2> QED
    BY <1>4, <2>2, <2>3 DEF Turns
<1>5. CASE Goes(h)
  <2>1. Sound(Mem(h)) /\ Mem(h)' = Mem(h)
    BY <1>0, <1>5 DEF Goes, SoundCopy, CopyLabels
  <2>2. CASE pc'[h] \in {"step", "save"}
    BY <2>1, <2>2 DEF SoundCopy
  <2>3. CASE pc'[h] = "renew"
    BY <1>0, <1>5, <2>1, <2>3, OpenKnows DEF SoundCopy, Goes, StepState
  <2> QED
    BY <1>5, <2>2, <2>3 DEF Goes
<1>6. CASE Saves(h)
  <2>1. Sound(Mem(h))
    BY <1>0, <1>6 DEF Saves, SoundCopy, CopyLabels
  <2>2. Sound(Mem(h)')
    BY <1>6, <2>1, SoundSame DEF Saves
  <2>3. CASE pc[h] = "mark" /\ pc'[h] = "patch"
    BY <1>0, <1>6, <2>2, <2>3 DEF SoundCopy, Saves, StepState
  <2>4. CASE pc'[h] \notin {"renew", "mark", "patch", "readback"}
    BY <2>2, <2>4 DEF SoundCopy
  <2> QED
    BY <1>6, <2>3, <2>4 DEF Saves
<1>7. CASE Patches(h)
  <2>1. /\ pc[h] = "patch" /\ Mem(h) \in Record /\ Step(h) \in Steps(Mem(h).analysis)
        /\ IsApi(Mem(h).analysis, Step(h)) /\ Sound(Mem(h)) /\ StepState(h) = "applying"
    BY <1>0, <1>7, Here DEF Patches, TInv, SoundCopy, CopyLabels, StepLabels
  <2>2. CASE pc'[h] = "readback"
    BY <1>7, <2>1, <2>2 DEF Patches, SoundCopy, StepState
  <2>3. CASE pc'[h] = "save"
    <3>1. Sound(WithStep(Mem(h), Step(h), "needs_reconciliation"))
      BY <2>1, SoundMarked DEF Sound, StepState, Sent, StepStatus
    <3> QED
      BY <1>7, <2>1, <2>3, <3>1 DEF Patches, SoundCopy
  <2> QED
    BY <1>7, <2>2, <2>3 DEF Patches
<1> QED
  BY <1>1, <1>2, <1>3, <1>4, <1>5, <1>6, <1>7 DEF Moves

\* ... and so is what is stored.
LEMMA MovesLInv ==
  ASSUME TInv, LInv, NEW h \in Handler, Moves(h) PROVE LInv'
<1>1. \A g \in Handler : SoundCopy(g)'
  <2>1. ASSUME NEW g \in Handler \ {h} PROVE SoundCopy(g)'
    <3>1. Mine(h)
      BY DEF Moves, Quits, Loads, Drafts, Turns, Goes, Saves, Patches, Inner
    <3>2. pc'[g] = pc[g] /\ req'[g] = req[g]
      BY <3>1 DEF Mine
    <3>3. SoundCopy(g)
      BY DEF LInv
    <3> QED
      BY <3>2, <3>3 DEF SoundCopy, StepState, Mem, Step
  <2> QED
    BY <2>1, MovesSoundCopy
<1>2. ASSUME NEW k \in Stored' PROVE Sound(record'[k])
  <2>1. CASE Saves(h)
    <3>1. Sound(Mem(h)) /\ req[h].key \in Key
      BY <2>1, Here DEF LInv, Saves, SoundCopy, CopyLabels, TInv
    <3>2. Sound(Mem(h)')
      BY <2>1, <3>1, SoundSame DEF Saves
    <3>3. record' = [record EXCEPT ![req[h].key] = Mem(h)']
      BY <2>1 DEF Saves
    <3> QED
      BY <3>2, <3>3 DEF LInv, Stored, TInv, World
  <2>2. CASE ~Saves(h)
    <3>1. record' = record
      BY <2>2 DEF Moves, Quits, Loads, Drafts, Turns, Goes, Patches, Inner
    <3> QED
      BY <3>1 DEF LInv, Stored
  <2> QED
    BY <2>1, <2>2
<1> QED
  BY <1>1, <1>2 DEF LInv

\* A step that leaves the records alone, and requests where they are or at the start or
\* end of a handler.
LEMMA StillLInv ==
  ASSUME LInv, UNCHANGED record,
         \A h \in Handler : \/ pc'[h] = pc[h] /\ req'[h] = req[h]
                            \/ pc'[h] \notin CopyLabels
  PROVE  LInv'
<1>1. ASSUME NEW g \in Handler PROVE SoundCopy(g)'
  <2>1. SoundCopy(g)
    BY DEF LInv
  <2>2. CASE pc'[g] = pc[g] /\ req'[g] = req[g]
    BY <2>1, <2>2 DEF SoundCopy, StepState, Mem, Step
  <2>3. CASE pc'[g] \notin CopyLabels
    BY <2>3 DEF SoundCopy, CopyLabels
  <2> QED
    BY <2>2, <2>3
<1> QED
  BY <1>1 DEF LInv, Stored

\* The first and the last step of a request, and its death, do neither touch a record
\* nor leave a copy in use.
LEMMA EdgeSteps ==
  ASSUME TInv, NEW h \in Handler, Begins(h) \/ End(h) \/ Crash(h)
  PROVE  /\ UNCHANGED <<record, dates, writer, inflight, late, base, context, lapses>>
         /\ \A g \in Handler \ {h} : pc'[g] = pc[g] /\ req'[g] = req[g]
         /\ pc'[h] \notin CopyLabels
<1> USE DEF TInv, Requests, Goto, worldVars, counters, CopyLabels
<1>1. CASE End(h)
  BY <1>1 DEF End
<1>2. CASE Crash(h)
  BY <1>2 DEF Crash
<1>3. ASSUME NEW op \in {"apply", "reconcile", "complete", "cancel"}, NEW k, NEW arg,
             Begin(h, op, k, arg)
      PROVE  /\ UNCHANGED <<record, dates, writer, inflight, late, base, context, lapses>>
             /\ \A g \in Handler \ {h} : pc'[g] = pc[g] /\ req'[g] = req[g]
             /\ pc'[h] \notin CopyLabels
  BY <1>3 DEF Begin
<1> QED
  BY <1>1, <1>2, <1>3 DEF Begins, BeginApply, BeginReconcile, BeginComplete, BeginCancel

\* Nothing else touches a record or a request.
LEMMA EnvironmentLeaves ==
  ASSUME Environment PROVE UNCHANGED <<record, pc, req>>
BY DEF Environment, Publish, Edit, ChangeContext, Arrive, LapseOrphan, LapseLive

\* Stored records and copies are sound after every step of anybody.
LEMMA NextLInv == TInv /\ LInv /\ [Next]_vars => LInv'
<1> SUFFICES ASSUME TInv, LInv, [Next]_vars PROVE LInv'
  OBVIOUS
<1>1. ASSUME NEW h \in Handler, Proceed(h), ~End(h) PROVE LInv'
  BY <1>1, ProceedMoves, MovesLInv
<1>2. ASSUME NEW h \in Handler, Begins(h) \/ End(h) \/ Crash(h) PROVE LInv'
  BY <1>2, EdgeSteps, StillLInv
<1>3. CASE Environment
  BY <1>3, EnvironmentLeaves, StillLInv
<1>4. CASE UNCHANGED vars
  BY <1>4, StillLInv DEF vars
<1> QED
  BY <1>1, <1>2, <1>3, <1>4 DEF Next

-----------------------------------------------------------------------------
\* The store and Timecue, and what the one request at work knows of them, while requests
\* stay within their lease.

\* What a request that is alone knows of the store.
Synced(h) ==
    /\ pc[h] \in CopyLabels \ {"create"} => MyRecord(h) # NoRecord /\ Follows(MyRecord(h), Mem(h))
    /\ pc[h] = "create" => /\ MyRecord(h) = NoRecord /\ Mem(h) = NewRecord(Mem(h).analysis)
                           /\ Conflicts(Mem(h).analysis) = {}
    /\ pc[h] \in {"patch", "readback"} => MyRecord(h).step[Step(h)] = "applying"

\* It knows of each of its writes, ...
Remembers(h) ==
    pc[h] \in CopyLabels => \A t \in Task :
          writer[t] \notin {Nobody} \cup late /\ writer[t][1] = req[h].key
              => Mem(h).step[writer[t][2]] \in Sent
\* ... and sends no PATCH for a step while Timecue shows one of it.
FirstWrite(h) ==
    pc[h] \in {"renew", "mark", "patch"} /\ ThisStep(h) \notin late
              => writer[Target(h)] # ThisStep(h)

\* What a request knows.
Knows(h) == Synced(h) /\ Remembers(h) /\ FirstWrite(h)

\* A PATCH that was carried out, or may be: it is that of a step of a stored execution
\* whose prerequisites are confirmed.
Traced(s, t, d) ==
    /\ s[1] \in Stored
    /\ LET r == record[s[1]] IN
       /\ s[2] \in Steps(r.analysis) /\ IsApi(r.analysis, s[2])
       /\ Plan[r.analysis][s[2]].target = t /\ Plan[r.analysis][s[2]].body = d
       /\ DepsConfirmed(r, s[2])

\* Everything Timecue shows of an execution, or may, is traced to it, ...
Written ==
    /\ \A t \in Task : writer[t] # Nobody => Traced(writer[t], t, dates[t])
    /\ \A p \in inflight : Traced(p.step, p.target, p.body)

\* ... and marked there, unless it came late.
Recorded ==
    \A t \in Task : writer[t] \notin {Nobody} \cup late =>
        record[writer[t][1]].step[writer[t][2]] \in Sent

\* No unresolved steps of two executions on one target.
Apart(k, l) ==
    \A i \in Steps(record[k].analysis), j \in Steps(record[l].analysis) :
        TargetOf(k, i) = TargetOf(l, j) =>
            record[k].step[i] \notin Live \/ record[l].step[j] \notin Live
AllApart == \A k, l \in Stored : k # l => Apart(k, l)

\* What the store says of Timecue.
Books == Written /\ Recorded /\ AllApart

\* All of it.
AInv == InTime => Books /\ \A h \in Handler : Knows(h)

-----------------------------------------------------------------------------
\* What Timecue shows is written by a step of an execution.
LEMMA WriterPair ==
  ASSUME TInv, NEW t \in Task, writer[t] # Nobody
  PROVE  writer[t][1] \in Key /\ writer[t][2] \in Nat /\ writer[t] = <<writer[t][1], writer[t][2]>>
<1>1. writer[t] \in Key \X Nat
  BY DEF TInv, World
<1> QED
  BY <1>1

\* A write of one of the request's own steps.
LEMMA OwnWrite ==
  ASSUME TInv, Written, NEW h \in Handler, pc[h] \in CopyLabels \ {"create"}, Synced(h),
         NEW t \in Task, writer[t] # Nobody, writer[t][1] = req[h].key
  PROVE  /\ writer[t][2] \in Steps(Mem(h).analysis)
         /\ Plan[Mem(h).analysis][writer[t][2]].target = t
         /\ Plan[Mem(h).analysis][writer[t][2]].body = dates[t]
<1>1. Traced(writer[t], t, dates[t])
  BY DEF Written
<1>2. Mem(h).analysis = MyRecord(h).analysis
  BY DEF Synced, Follows
<1> QED
  BY <1>1, <1>2 DEF Traced, MyRecord

\* The record of a request's key is a record.
LEMMA MyRecordTyped ==
  ASSUME TInv, NEW h \in Handler, pc[h] # "idle", MyRecord(h) # NoRecord
  PROVE  MyRecord(h) \in Record /\ req[h].key \in Key /\ req[h].key \in Stored
BY StoredTyped, Here DEF MyRecord, Stored, TInv

\* A record is not the lack of one.
LEMMA RecordIsRecord == ASSUME NEW r \in Record PROVE r # NoRecord
BY ExecutionConstants

\* A copy stays in step with the store.
LEMMA MovesSynced ==
  ASSUME TInv, TInv', LInv, NEW h \in Handler, Synced(h), Moves(h) PROVE Synced(h)'
<1>0. SoundCopy(h)
  BY DEF LInv
<1>1. CASE Quits(h)
  BY <1>1 DEF Quits, Synced, CopyLabels
<1>2. CASE Loads(h)
  BY <1>2 DEF Loads, Synced, Inner, Mine, MyRecord
<1>3. CASE Drafts(h)
  <2>1. req[h].arg \in Analysis
    BY <1>3 DEF Drafts, TInv, Requests, LocalsOf
  <2>2. Mem(h)' = NewRecord(req[h].arg) /\ Mem(h)'.analysis = req[h].arg
    BY <1>3, <2>1, NewRecordSound DEF Drafts
  <2>3. UNCHANGED record /\ Conflicts(req[h].arg) = {} /\ MyRecord(h) = NoRecord
        /\ pc'[h] = "create" /\ req'[h].key = req[h].key
    BY <1>3 DEF Drafts, ReviewPasses, Inner, Mine
  <2>4. (Conflicts(Mem(h).analysis))' = {}
    BY <2>2, <2>3 DEF Conflicts
  <2> QED
    BY <2>2, <2>3, <2>4 DEF Synced, MyRecord
<1>4. ASSUME NEW s \in StepStatus, Turns(h, s) PROVE Synced(h)'
  <2>1. /\ Mem(h) \in Record /\ Step(h) \in Steps(Mem(h).analysis) /\ StepState(h) \notin Settled
    BY <1>0, <1>4, TurnsSound
  <2>2. MyRecord(h) # NoRecord /\ Follows(MyRecord(h), Mem(h)) /\ pc[h] # "idle"
    BY <1>4 DEF Turns, Synced, CopyLabels
  <2>3. MyRecord(h) \in Record
    BY <2>2, MyRecordTyped
  <2>4. Follows(MyRecord(h), WithStep(Mem(h), Step(h), s))
    BY <2>1, <2>2, <2>3, FollowsMarked DEF StepState
  <2>5. MyRecord(h)' = MyRecord(h) /\ Mem(h)' = WithStep(Mem(h), Step(h), s)
        /\ pc'[h] \in {"step", "save", "mark"}
    BY <1>4 DEF Turns, Inner, Mine, MyRecord
  <2> QED
    BY <2>2, <2>4, <2>5 DEF Synced
<1>5. CASE Goes(h)
  <2>1. MyRecord(h)' = MyRecord(h) /\ Mem(h)' = Mem(h)
    BY <1>5 DEF Goes, Inner, Mine, MyRecord
  <2> QED
    BY <1>5, <2>1 DEF Goes, Synced, CopyLabels
<1>6. CASE Saves(h)
  <2>1. Mem(h)' \in Record /\ req[h].key \in Key
    BY <1>6, Here DEF Saves, TInv
  <2>2. MyRecord(h)' = Mem(h)'
    BY <1>6, <2>1 DEF Saves, Mine, MyRecord, TInv, World
  <2>3. MyRecord(h)' # NoRecord /\ Follows(MyRecord(h)', Mem(h)')
    BY <2>1, <2>2, RecordIsRecord DEF Follows
  <2>4. CASE pc'[h] = "patch"
    <3>1. Mem(h)'.step[Step(h)'] = "applying"
      BY <1>0, <1>6, <2>4 DEF Saves, SoundCopy, StepState
    <3> QED
      BY <2>2, <2>3, <2>4, <3>1 DEF Synced
  <2>5. CASE pc'[h] \notin {"patch", "create", "readback"}
    BY <2>3, <2>5 DEF Synced
  <2> QED
    BY <1>6, <2>4, <2>5 DEF Saves
<1>7. CASE Patches(h)
  <2>1. /\ pc[h] = "patch" /\ Mem(h) \in Record /\ Step(h) \in Steps(Mem(h).analysis)
        /\ StepState(h) = "applying"
    BY <1>0, <1>7, Here DEF Patches, TInv, SoundCopy, CopyLabels, StepLabels
  <2>2. MyRecord(h)' = MyRecord(h) /\ MyRecord(h) # NoRecord /\ Follows(MyRecord(h), Mem(h))
        /\ MyRecord(h).step[Step(h)] = "applying"
    BY <1>7, <2>1 DEF Patches, Mine, MyRecord, Synced, CopyLabels
  <2>3. Follows(MyRecord(h), WithStep(Mem(h), Step(h), "needs_reconciliation"))
    BY <2>1, <2>2, MyRecordTyped, FollowsMarked DEF StepState, Settled, StepStatus
  <2>4. CASE pc'[h] = "readback"
    BY <1>7, <2>2, <2>4 DEF Patches, Synced
  <2>5. CASE pc'[h] = "save"
    BY <1>7, <2>2, <2>3, <2>5 DEF Patches, Synced
  <2> QED
    BY <1>7, <2>4, <2>5 DEF Patches
<1> QED
  BY <1>1, <1>2, <1>3, <1>4, <1>5, <1>6, <1>7 DEF Moves

\* A step Timecue shows a write of is never turned back: the read before a write, and
\* what it waits for, agree with what was written.
LEMMA TurnsRemembers ==
  ASSUME TInv, LInv, Written, NEW h \in Handler, Synced(h), Remembers(h),
         NEW s \in StepStatus, Turns(h, s),
         NEW t \in Task, writer[t] \notin {Nobody} \cup late, writer[t][1] = req[h].key
  PROVE  Mem(h)'.step[writer[t][2]] \in Sent
<1>0. SoundCopy(h)
  BY DEF LInv
<1> DEFINE w == writer[t][2]
<1>1. pc[h] \in CopyLabels \ {"create"}
  BY DEF Turns, CopyLabels
<1>2. /\ Mem(h) \in Record /\ Step(h) \in Steps(Mem(h).analysis)
      /\ IsApi(Mem(h).analysis, Step(h))
  BY <1>0, TurnsSound
<1>3. /\ w \in Steps(Mem(h).analysis) /\ Mem(h).step[w] \in Sent
      /\ Plan[Mem(h).analysis][w].target = t /\ Plan[Mem(h).analysis][w].body = dates[t]
  BY <1>1, OwnWrite DEF Remembers
<1>4. Mem(h)'.step = [Mem(h).step EXCEPT ![Step(h)] = s]
      /\ Mem(h).step \in [Steps(Mem(h).analysis) -> StepStatus]
  BY <1>2, RecordMarked, RecordShape DEF Turns
<1> HIDE DEF w
<1>5. CASE w # Step(h)
  BY <1>3, <1>4, <1>5 DEF w
<1>6. CASE w = Step(h)
  <2>1. AlreadyThere(h)
    BY <1>3, <1>6 DEF AlreadyThere, Target, Body
  <2>2. Sound(Mem(h))
    BY <1>0, <1>1 DEF SoundCopy
  <2>3. DepsConfirmed(Mem(h), Step(h))
    BY <1>2, <1>3, <1>6, <2>2 DEF Sound
  <2>4. DependenciesMet(h)
    BY <1>2, <2>3, ConfirmedIsComplete DEF DependenciesMet
  <2>5. s \in Sent
    BY <2>1, <2>4 DEF Turns, Sent
  <2> QED
    BY <1>2, <1>4, <1>6, <2>5 DEF w
<1> QED
  BY <1>5, <1>6

\* A request goes on knowing of each of its writes.
LEMMA MovesRemembers ==
  ASSUME TInv, LInv, Written, Recorded, NEW h \in Handler, Synced(h), Remembers(h), Moves(h)
  PROVE  Remembers(h)'
<1>0. SoundCopy(h)
  BY DEF LInv
<1>1. CASE Quits(h)
  BY <1>1 DEF Quits, Remembers, CopyLabels
<1>2. CASE Loads(h)
  <2> SUFFICES ASSUME NEW t \in Task, writer[t] \notin {Nobody} \cup late, writer[t][1] = req[h].key
               PROVE  Mem(h)'.step[writer[t][2]] \in Sent
    BY <1>2 DEF Remembers, Loads, Inner, Mine
  <2>1. Traced(writer[t], t, dates[t]) /\ MyRecord(h).step[writer[t][2]] \in Sent
    BY DEF Written, Recorded, MyRecord
  <2> QED
    BY <1>2, <2>1 DEF Traced, Loads, MyRecord
<1>3. CASE Drafts(h)
  <2> SUFFICES ASSUME NEW t \in Task, writer[t] \notin {Nobody} \cup late, writer[t][1] = req[h].key
               PROVE  FALSE
    BY <1>3 DEF Remembers, Drafts, Inner, Mine
  <2>1. Traced(writer[t], t, dates[t])
    BY DEF Written
  <2> QED
    BY <1>3, <2>1 DEF Traced, Drafts, Stored, MyRecord
<1>4. ASSUME NEW s \in StepStatus, Turns(h, s) PROVE Remembers(h)'
  <2> SUFFICES ASSUME NEW t \in Task, writer[t] \notin {Nobody} \cup late, writer[t][1] = req[h].key
               PROVE  Mem(h)'.step[writer[t][2]] \in Sent
    BY <1>4 DEF Remembers, Turns, Inner, Mine
  <2> QED
    BY <1>4, TurnsRemembers
<1>5. CASE Goes(h)
  BY <1>5 DEF Goes, Inner, Mine, Remembers, CopyLabels
<1>6. CASE Saves(h)
  BY <1>6 DEF Saves, Mine, Remembers, CopyLabels
<1>7. CASE Patches(h)
  <2>1. /\ pc[h] = "patch" /\ pc[h] \in CopyLabels /\ Mem(h) \in Record
        /\ Step(h) \in Steps(Mem(h).analysis)
        /\ Mem(h).step[Step(h)] = "applying" /\ Target(h) \in Task
    BY <1>0, <1>7, Here DEF Patches, TInv, SoundCopy, CopyLabels, StepLabels, StepState
  <2>2. Mem(h).step \in [Steps(Mem(h).analysis) -> StepStatus]
    BY <2>1, RecordShape
  <2> SUFFICES ASSUME NEW t \in Task, writer'[t] \notin {Nobody} \cup late', writer'[t][1] = req[h].key
               PROVE  Mem(h)'.step[writer'[t][2]] \in Sent
    BY <1>7 DEF Remembers, Patches, Mine
  <2> DEFINE w == writer'[t][2]
  <2>3. w \in Steps(Mem(h).analysis) /\ Mem(h).step[w] \in Sent
    <3>1. CASE writer'[t] = writer[t] /\ late' = late
      BY <2>1, <3>1, OwnWrite DEF Remembers
    <3>2. CASE writer'[t] = ThisStep(h)
      BY <2>1, <3>2 DEF ThisStep, Sent
    <3> QED
      BY <1>7, <2>1, <3>1, <3>2 DEF Patches, Write, TInv, World
  <2> HIDE DEF w
  <2>4. CASE Mem(h)' = Mem(h)
    BY <2>3, <2>4 DEF w
  <2>5. CASE Mem(h)' = WithStep(Mem(h), Step(h), "needs_reconciliation")
    <3>1. "needs_reconciliation" \in StepStatus
      BY DEF StepStatus
    <3>2. WithStep(Mem(h), Step(h), "needs_reconciliation").step =
            [Mem(h).step EXCEPT ![Step(h)] = "needs_reconciliation"]
      BY <2>1, <3>1, RecordMarked
    <3> QED
      BY <2>2, <2>3, <2>5, <3>2 DEF Sent, w
  <2> QED
    BY <1>7, <2>4, <2>5 DEF Patches
<1> QED
  BY <1>1, <1>2, <1>3, <1>4, <1>5, <1>6, <1>7 DEF Moves

\* A PATCH is only prepared when Timecue does not show the step already.
LEMMA MovesFirstWrite ==
  ASSUME TInv, LInv, Written, NEW h \in Handler, Synced(h), FirstWrite(h), Moves(h)
  PROVE  FirstWrite(h)'
<1>0. SoundCopy(h)
  BY DEF LInv
<1>1. CASE pc'[h] \notin {"renew", "mark", "patch"}
  BY <1>1 DEF FirstWrite
<1>2. CASE pc'[h] = "renew"
  <2>1. Goes(h) /\ pc[h] = "step" /\ ~AlreadyThere(h) /\ Step(h)' = Step(h) /\ Mem(h)' = Mem(h)
        /\ Open(h)
    BY <1>2 DEF Moves, Quits, Loads, Drafts, Turns, Goes, Saves, Patches
  <2>2. Mem(h) \in Record /\ Mem(h).analysis \in Analysis
    BY <2>1, Here DEF TInv, CopyLabels
  <2>3. Target(h) \in Task /\ Step(h) \in Nat /\ req[h].key \in Key
    BY <2>1, <2>2, PlanTyped, Here DEF Open, Target, TInv
  <2>4. ThisStep(h) # Nobody
    BY <2>3, ExecutionConstants DEF ThisStep
  <2>5. writer[Target(h)] # ThisStep(h)
    <3> SUFFICES ASSUME writer[Target(h)] = ThisStep(h) PROVE FALSE
      OBVIOUS
    <3>1. Plan[Mem(h).analysis][Step(h)].body = dates[Target(h)]
      <4>1. writer[Target(h)][1] = req[h].key /\ writer[Target(h)][2] = Step(h)
        BY DEF ThisStep
      <4> QED
        BY <2>1, <2>3, <2>4, <4>1, OwnWrite DEF CopyLabels
    <3> QED
      BY <2>1, <3>1 DEF AlreadyThere, Body
  <2>6. ThisStep(h)' = ThisStep(h) /\ Target(h)' = Target(h) /\ writer' = writer
    BY <2>1 DEF Goes, Inner, Mine, ThisStep, Target
  <2> QED
    BY <2>5, <2>6 DEF FirstWrite
<1>3. CASE pc'[h] = "mark"
  <2>1. PICK s \in StepStatus : Turns(h, s) /\ pc[h] = "renew" /\ Step(h)' = Step(h)
    BY <1>3 DEF Moves, Quits, Loads, Drafts, Turns, Goes, Saves, Patches
  <2>2. Mem(h)'.analysis = Mem(h).analysis
    <3>1. Mem(h) \in Record /\ Step(h) \in Steps(Mem(h).analysis)
      BY <1>0, <2>1, TurnsSound
    <3>2. WithStep(Mem(h), Step(h), s).analysis = Mem(h).analysis
      BY <3>1, RecordMarked
    <3> QED
      BY <2>1, <3>2 DEF Turns
  <2>3. ThisStep(h)' = ThisStep(h) /\ Target(h)' = Target(h) /\ writer' = writer /\ late' = late
    BY <2>1, <2>2 DEF Turns, Inner, Mine, ThisStep, Target
  <2> QED
    BY <2>1, <2>3 DEF FirstWrite
<1>4. CASE pc'[h] = "patch"
  <2>1. Saves(h) /\ pc[h] = "mark" /\ Step(h)' = Step(h)
    BY <1>4 DEF Moves, Quits, Loads, Drafts, Turns, Goes, Saves, Patches
  <2>3. ThisStep(h)' = ThisStep(h) /\ Target(h)' = Target(h) /\ writer' = writer /\ late' = late
    BY <2>1 DEF Saves, Mine, ThisStep, Target
  <2> QED
    BY <2>1, <2>3 DEF FirstWrite
<1> QED
  BY <1>1, <1>2, <1>3, <1>4

\* A save puts in the store what follows it: another execution only when there was none.
LEMMA SavesFollow ==
  ASSUME TInv, NEW h \in Handler, Synced(h), Saves(h)
  PROVE  /\ req[h].key \in Key /\ Mem(h) \in Record /\ Mem(h)' \in Record
         /\ \A k \in Key : record'[k] = IF k = req[h].key THEN Mem(h)' ELSE record[k]
         /\ Stored' = Stored \cup {req[h].key}
         /\ \/ pc[h] # "create" /\ req[h].key \in Stored /\ MyRecord(h) \in Record
               /\ Follows(MyRecord(h), Mem(h)')
            \/ pc[h] = "create" /\ req[h].key \notin Stored
<1>1. req[h].key \in Key /\ Mem(h) \in Record /\ Mem(h)' \in Record /\ pc[h] # "idle"
  BY Here DEF Saves, TInv, CopyLabels
<1>2. \A k \in Key : record'[k] = IF k = req[h].key THEN Mem(h)' ELSE record[k]
  BY <1>1 DEF Saves, TInv, World
<1>3. Mem(h)' # NoRecord
  BY <1>1, RecordIsRecord
<1>4. Stored' = Stored \cup {req[h].key}
  BY <1>1, <1>2, <1>3 DEF Stored
<1>5. CASE pc[h] # "create"
  <2>1. MyRecord(h) # NoRecord /\ Follows(MyRecord(h), Mem(h))
    BY <1>5 DEF Saves, Synced, CopyLabels
  <2>2. Follows(MyRecord(h), Mem(h)')
    BY <2>1 DEF Follows, Saves
  <2> QED
    BY <1>1, <1>2, <1>4, <1>5, <2>1, <2>2, MyRecordTyped
<1>6. CASE pc[h] = "create"
  BY <1>1, <1>2, <1>4, <1>6 DEF Synced, Stored, MyRecord
<1> QED
  BY <1>5, <1>6

\* So what was written stays traced to a stored step, ...
LEMMA SavesTraced ==
  ASSUME TInv, NEW h \in Handler, Synced(h), Saves(h),
         NEW s, NEW t, NEW d, Traced(s, t, d)
  PROVE  Traced(s, t, d)'
<1>1. s[1] \in Stored /\ s[1] \in Key /\ s[1] \in Stored'
  BY SavesFollow DEF Traced, Stored
<1>2. CASE s[1] # req[h].key
  <2>1. record'[s[1]] = record[s[1]]
    BY <1>1, <1>2, SavesFollow
  <2> QED
    BY <1>1, <2>1 DEF Traced
<1>3. CASE s[1] = req[h].key
  <2>1. /\ MyRecord(h) \in Record /\ Mem(h)' \in Record /\ Follows(MyRecord(h), Mem(h)')
        /\ record'[s[1]] = Mem(h)' /\ record[s[1]] = MyRecord(h)
    BY <1>1, <1>3, SavesFollow DEF MyRecord
  <2>2. DepsConfirmed(Mem(h)', s[2])
    BY <2>1, FollowsConfirmed DEF Traced
  <2> QED
    BY <1>1, <2>1, <2>2 DEF Traced, Follows
<1> QED
  BY <1>2, <1>3

\* ... and no two live executions meet on a target: a new one was looked up in the
\* conflicts, and what is settled does not come to life again.
LEMMA SavesApart ==
  ASSUME TInv, NEW h \in Handler, Synced(h), Saves(h), AllApart PROVE AllApart'
<1> DEFINE key == req[h].key
<1>1. /\ key \in Key /\ Mem(h) \in Record /\ Mem(h)' \in Record
      /\ \A k \in Key : record'[k] = IF k = key THEN Mem(h)' ELSE record[k]
      /\ Stored' = Stored \cup {key}
  BY SavesFollow
<1>2. ASSUME NEW l \in Stored, l # key, NEW i \in Steps(Mem(h)'.analysis),
             NEW j \in Steps(record[l].analysis),
             Plan[Mem(h)'.analysis][i].target = TargetOf(l, j),
             Mem(h)'.step[i] \in Live, record[l].step[j] \in Live
      PROVE  FALSE
  <2>1. CASE pc[h] # "create"
    <3>1. key \in Stored /\ MyRecord(h) \in Record /\ Follows(MyRecord(h), Mem(h)')
      BY <2>1, SavesFollow
    <3>2. i \in Steps(MyRecord(h).analysis) /\ TargetOf(key, i) = TargetOf(l, j)
      BY <1>2, <3>1 DEF Follows, TargetOf, MyRecord
    <3>3. MyRecord(h).step[i] \in StepStatus
      BY <3>1, <3>2, RecordShape
    <3>4. MyRecord(h).step[i] \in Live
      BY <1>2, <3>1, <3>2, <3>3, LiveOrSettled DEF Follows
    <3>5. Apart(key, l)
      BY <1>2, <3>1 DEF AllApart
    <3> QED
      BY <1>2, <3>2, <3>4, <3>5 DEF Apart, MyRecord
  <2>2. CASE pc[h] = "create"
    <3>1. Conflicts(Mem(h).analysis) = {}
      BY <2>2 DEF Synced
    <3>2. Mem(h)'.analysis = Mem(h).analysis
      BY DEF Saves
    <3>3. Plan[record[l].analysis][j].target \in Requested(Mem(h).analysis)
      BY <1>2, <3>2 DEF Requested, TargetOf
    <3>4. l \in Key /\ record[l] # NoRecord /\ record[l] \in Record
      BY DEF Stored, TInv, World
    <3>5. j \in DOMAIN record[l].step
      BY <3>4, RecordShape
    <3>6. l \in Conflicts(Mem(h).analysis)
      BY <1>2, <3>3, <3>4, <3>5 DEF Conflicts
    <3> QED
      BY <3>1, <3>6
  <2> QED
    BY <2>1, <2>2
<1> HIDE DEF key
<1>3. ASSUME NEW k \in Stored', NEW l \in Stored', k # l PROVE Apart(k, l)'
  <2> SUFFICES ASSUME NEW i \in Steps(record'[k].analysis), NEW j \in Steps(record'[l].analysis),
                      TargetOf(k, i)' = TargetOf(l, j)',
                      record'[k].step[i] \in Live, record'[l].step[j] \in Live
               PROVE  FALSE
    BY DEF Apart
  <2>1. k \in Key /\ l \in Key
    BY DEF Stored
  <2>2. CASE k = key
    <3>1. l \in Stored /\ record'[l] = record[l] /\ record'[k] = Mem(h)'
      BY <1>1, <1>3, <2>1, <2>2
    <3> QED
      BY <1>2, <1>3, <2>2, <3>1 DEF TargetOf
  <2>3. CASE l = key
    <3>1. k \in Stored /\ record'[k] = record[k] /\ record'[l] = Mem(h)'
      BY <1>1, <1>3, <2>1, <2>3
    <3> QED
      BY <1>2, <1>3, <2>3, <3>1 DEF TargetOf
  <2>4. CASE k # key /\ l # key
    <3>1. k \in Stored /\ l \in Stored /\ record'[k] = record[k] /\ record'[l] = record[l]
      BY <1>1, <2>1, <2>4
    <3>2. Apart(k, l)
      BY <1>3, <3>1 DEF AllApart
    <3> QED
      BY <3>1, <3>2 DEF Apart, TargetOf
  <2> QED
    BY <2>2, <2>3, <2>4
<1> QED
  BY <1>3 DEF AllApart

\* What the books say depends on the records and on Timecue only.
LEMMA BooksSame ==
  ASSUME Books, UNCHANGED <<record, dates, writer, inflight, late>> PROVE Books'
BY DEF Books, Written, Recorded, AllApart, Apart, Traced, Stored, TargetOf

\* A save keeps the books: the copy knows of every write.
LEMMA SavesBooks ==
  ASSUME TInv, NEW h \in Handler, Synced(h), Remembers(h), Saves(h), Books PROVE Books'
<1>1. UNCHANGED <<dates, writer, inflight, late>>
  BY DEF Saves
<1>2. Written'
  BY <1>1, SavesTraced DEF Books, Written
<1>3. ASSUME NEW t \in Task, writer'[t] \notin {Nobody} \cup late'
      PROVE  record'[writer'[t][1]].step[writer'[t][2]] \in Sent
  <2>1. /\ writer[t] \notin {Nobody} \cup late /\ writer'[t] = writer[t]
        /\ record[writer[t][1]].step[writer[t][2]] \in Sent
    BY <1>1, <1>3 DEF Books, Recorded
  <2>2. writer[t][1] \in Key
    BY <2>1, WriterPair
  <2>3. CASE writer[t][1] = req[h].key
    <3>1. Mem(h).step[writer[t][2]] \in Sent
      BY <2>1, <2>3 DEF Remembers, Saves, CopyLabels
    <3>2. record'[writer[t][1]].step = Mem(h).step
      BY <2>2, <2>3, SavesFollow DEF Saves
    <3> QED
      BY <2>1, <3>1, <3>2
  <2>4. CASE writer[t][1] # req[h].key
    BY <2>1, <2>2, <2>4, SavesFollow
  <2> QED
    BY <2>3, <2>4
<1>4. Recorded'
  BY <1>3 DEF Recorded
<1>5. AllApart'
  BY SavesApart DEF Books
<1> QED
  BY <1>2, <1>4, <1>5 DEF Books

\* A PATCH is the step's that the stored record has marked.
LEMMA PatchTraced ==
  ASSUME TInv, LInv, NEW h \in Handler, Synced(h), pc[h] = "patch"
  PROVE  /\ Traced(ThisStep(h), Target(h), Body(h))
         /\ record[req[h].key].step[Step(h)] = "applying"
<1>1. /\ MyRecord(h) # NoRecord /\ Follows(MyRecord(h), Mem(h))
      /\ MyRecord(h).step[Step(h)] = "applying"
      /\ Step(h) \in Steps(Mem(h).analysis) /\ IsApi(Mem(h).analysis, Step(h))
  BY Here DEF Synced, CopyLabels, TInv, StepLabels
<1>2. req[h].key \in Stored /\ MyRecord(h) \in Record
  BY <1>1, MyRecordTyped
<1>3. DepsConfirmed(MyRecord(h), Step(h))
  BY <1>1, <1>2 DEF LInv, Sound, Sent, MyRecord, Follows
<1> QED
  BY <1>1, <1>2, <1>3 DEF Traced, ThisStep, Target, Body, MyRecord, Follows

\* So does a PATCH: its step is stored as being applied.
LEMMA PatchesBooks ==
  ASSUME TInv, LInv, NEW h \in Handler, Synced(h), Patches(h), Books PROVE Books'
<1>1. /\ Traced(ThisStep(h), Target(h), Body(h))
      /\ record[req[h].key].step[Step(h)] = "applying"
  BY PatchTraced DEF Patches
<1>2. UNCHANGED record /\ Target(h) \in Task
  BY Here DEF Patches, TInv, StepLabels
<1>3. AllApart'
  BY <1>2 DEF Books, AllApart, Apart, Stored, TargetOf
<1>4. Written /\ Recorded
  BY DEF Books
<1>5. CASE Write(Target(h), Body(h), ThisStep(h)) /\ UNCHANGED <<inflight, late>>
  <2>1. ASSUME NEW t \in Task
        PROVE  IF t = Target(h)
               THEN writer'[t] = ThisStep(h) /\ dates'[t] = Body(h)
               ELSE writer'[t] = writer[t] /\ dates'[t] = dates[t]
    BY <1>5 DEF Write, TInv, World
  <2>2. ASSUME NEW t \in Task, writer'[t] # Nobody PROVE Traced(writer[t], t, dates[t])'
    <3>1. Traced(writer'[t], t, dates'[t])
      BY <1>1, <1>4, <2>1, <2>2 DEF Written
    <3> QED
      BY <1>2, <3>1 DEF Traced, Stored
  <2>3. ASSUME NEW p \in inflight' PROVE Traced(p.step, p.target, p.body)'
    BY <1>2, <1>4, <1>5 DEF Written, Traced, Stored
  <2>4. Written'
    BY <2>2, <2>3 DEF Written
  <2>5. Recorded'
    BY <1>1, <1>2, <1>4, <1>5, <2>1 DEF Recorded, ThisStep, Sent
  <2> QED
    BY <1>3, <2>4, <2>5 DEF Books
<1>6. CASE UNCHANGED <<dates, writer, inflight, late>>
  BY <1>2, <1>6, BooksSame
<1>7. CASE inflight' = inflight \cup {ThisPatch(h)} /\ UNCHANGED <<dates, writer, late>>
  <2>1. ASSUME NEW t \in Task, writer'[t] # Nobody PROVE Traced(writer[t], t, dates[t])'
    BY <1>2, <1>4, <1>7, <2>1 DEF Written, Traced, Stored
  <2>2. ASSUME NEW p \in inflight' PROVE Traced(p.step, p.target, p.body)'
    <3>1. Traced(p.step, p.target, p.body)
      BY <1>1, <1>4, <1>7 DEF Written, ThisPatch
    <3> QED
      BY <1>2, <3>1 DEF Traced, Stored
  <2>3. Written'
    BY <2>1, <2>2 DEF Written
  <2>4. Recorded'
    BY <1>2, <1>4, <1>7 DEF Recorded
  <2> QED
    BY <1>3, <2>3, <2>4 DEF Books
<1> QED
  BY <1>5, <1>6, <1>7 DEF Patches

\* A step of the one request at work keeps the books.
LEMMA MovesBooks ==
  ASSUME TInv, LInv, NEW h \in Handler, Knows(h), Moves(h), Books PROVE Books'
<1>1. CASE Saves(h)
  BY <1>1, SavesBooks DEF Knows
<1>2. CASE Patches(h)
  BY <1>2, PatchesBooks DEF Knows
<1>3. CASE ~Saves(h) /\ ~Patches(h)
  BY <1>3, BooksSame DEF Moves, Quits, Loads, Drafts, Turns, Goes, Inner
<1> QED
  BY <1>1, <1>2, <1>3

-----------------------------------------------------------------------------
\* A request that stays where it is knows as much as before.
LEMMA KnowsSame ==
  ASSUME NEW h, Knows(h), pc'[h] = pc[h], req'[h] = req[h], UNCHANGED <<record, writer, late>>
  PROVE  Knows(h)'
BY DEF Knows, Synced, Remembers, FirstWrite, MyRecord, Mem, Step, ThisStep, Target, Conflicts

\* A step of the one request at work keeps the books and what it knows of them.
LEMMA ProceedAInv ==
  ASSUME SInv, TInv, TInv', LInv, AInv, NEW h \in Handler, Proceed(h), ~End(h) PROVE AInv'
<1>1. Moves(h)
  BY ProceedMoves
<1>2. pc[h] # "idle" /\ Mine(h)
  BY <1>1 DEF Moves, Quits, Loads, Drafts, Turns, Goes, Saves, Patches, Inner
<1> SUFFICES ASSUME InTime' PROVE Books' /\ \A g \in Handler : Knows(g)'
  BY DEF AInv
<1>3. InTime /\ Books /\ Knows(h)
  BY <1>2 DEF AInv, InTime, Mine
<1>4. Books'
  BY <1>1, <1>3, MovesBooks
<1>5. Knows(h)'
  BY <1>1, <1>3, MovesSynced, MovesRemembers, MovesFirstWrite DEF Knows, Books
<1>6. ASSUME NEW g \in Handler \ {h} PROVE Knows(g)'
  <2>1. pc[g] = "idle"
    BY <1>2, <1>3 DEF SInv, Exclusive
  <2>2. pc'[g] = "idle"
    BY <1>2, <2>1 DEF Mine
  <2> QED
    BY <2>2 DEF CopyLabels, Knows, Synced, Remembers, FirstWrite
<1> QED
  BY <1>4, <1>5, <1>6

\* A request that begins, ends or dies has no copy.
LEMMA EdgeAInv ==
  ASSUME TInv, AInv, NEW h \in Handler, Begins(h) \/ End(h) \/ Crash(h) PROVE AInv'
<1>1. /\ UNCHANGED <<record, dates, writer, inflight, late, base, context, lapses>>
      /\ \A g \in Handler \ {h} : pc'[g] = pc[g] /\ req'[g] = req[g]
      /\ pc'[h] \notin CopyLabels
  BY EdgeSteps
<1> SUFFICES ASSUME InTime' PROVE Books' /\ \A g \in Handler : Knows(g)'
  BY DEF AInv
<1>2. Books /\ \A g \in Handler : Knows(g)
  BY <1>1 DEF AInv, InTime
<1>3. Books'
  BY <1>1, <1>2, BooksSame
<1>4. ASSUME NEW g \in Handler \ {h} PROVE Knows(g)'
  BY <1>1, <1>2, KnowsSame
<1>5. Knows(h)'
  BY <1>1 DEF Knows, Synced, Remembers, FirstWrite, CopyLabels
<1> QED
  BY <1>3, <1>4, <1>5

\* Somebody else's change takes a task's dates away from the execution that wrote them.
LEMMA EditAInv ==
  ASSUME TInv, AInv, NEW t \in Task, Edit(t) PROVE AInv'
<1>1. /\ UNCHANGED <<record, inflight, late, pc, req, lapses>>
      /\ \A u \in Task : IF u = t THEN writer'[u] = Nobody
                         ELSE writer'[u] = writer[u] /\ dates'[u] = dates[u]
  BY DEF Edit, Write, TInv, World
<1> SUFFICES ASSUME InTime' PROVE Books' /\ \A g \in Handler : Knows(g)'
  BY DEF AInv
<1>2. Books /\ \A g \in Handler : Knows(g)
  BY <1>1 DEF AInv, InTime
<1>3. Written'
  <2>1. ASSUME NEW u \in Task, writer'[u] # Nobody PROVE Traced(writer[u], u, dates[u])'
    <3>1. Traced(writer'[u], u, dates'[u])
      BY <1>1, <1>2, <2>1 DEF Books, Written
    <3> QED
      BY <1>1, <3>1 DEF Traced, Stored
  <2>2. ASSUME NEW p \in inflight' PROVE Traced(p.step, p.target, p.body)'
    BY <1>1, <1>2 DEF Books, Written, Traced, Stored
  <2> QED
    BY <2>1, <2>2 DEF Written
<1>4. Recorded'
  BY <1>1, <1>2 DEF Books, Recorded
<1>5. AllApart'
  BY <1>1, <1>2 DEF Books, AllApart, Apart, Stored, TargetOf
<1>6. ASSUME NEW g \in Handler PROVE Knows(g)'
  <2>1. Synced(g)'
    BY <1>1, <1>2 DEF Knows, Synced, MyRecord, Mem, Step, Conflicts
  <2>2. Remembers(g)'
    BY <1>1, <1>2 DEF Knows, Remembers, Mem
  <2>3. FirstWrite(g)'
    <3> SUFFICES ASSUME pc[g] \in {"renew", "mark", "patch"}, ThisStep(g) \notin late
                 PROVE  writer'[Target(g)] # ThisStep(g)
      BY <1>1 DEF FirstWrite, ThisStep, Target, Mem, Step
    <3>1. ThisStep(g) \in Key \X Nat /\ Target(g) \in Task
      BY Here DEF TInv, StepLabels
    <3>2. ThisStep(g) # Nobody
      BY <3>1, ExecutionConstants
    <3> QED
      BY <1>1, <1>2, <3>1, <3>2 DEF Knows, FirstWrite
  <2> QED
    BY <2>1, <2>2, <2>3 DEF Knows
<1> QED
  BY <1>3, <1>4, <1>5, <1>6 DEF Books

\* A PATCH that arrives late was traced while it was in flight, and is known to be late.
LEMMA ArriveAInv ==
  ASSUME TInv, AInv, NEW p \in inflight, Arrive(p) PROVE AInv'
<1>1. /\ UNCHANGED <<record, pc, req, lapses>>
      /\ inflight' = inflight \ {p} /\ late' = late \cup {p.step}
      /\ \A u \in Task : IF u = p.target THEN writer'[u] = p.step /\ dates'[u] = p.body
                         ELSE writer'[u] = writer[u] /\ dates'[u] = dates[u]
  BY DEF Arrive, Write, TInv, World, counters
<1> SUFFICES ASSUME InTime' PROVE Books' /\ \A g \in Handler : Knows(g)'
  BY DEF AInv
<1>2. Books /\ \A g \in Handler : Knows(g)
  BY <1>1 DEF AInv, InTime
<1>3. Written'
  <2>1. ASSUME NEW u \in Task, writer'[u] # Nobody PROVE Traced(writer[u], u, dates[u])'
    <3>1. Traced(writer'[u], u, dates'[u])
      BY <1>1, <1>2, <2>1 DEF Books, Written
    <3> QED
      BY <1>1, <3>1 DEF Traced, Stored
  <2>2. ASSUME NEW q \in inflight' PROVE Traced(q.step, q.target, q.body)'
    <3>1. Traced(q.step, q.target, q.body)
      BY <1>1, <1>2 DEF Books, Written
    <3> QED
      BY <1>1, <3>1 DEF Traced, Stored
  <2> QED
    BY <2>1, <2>2 DEF Written
<1>4. Recorded'
  BY <1>1, <1>2 DEF Books, Recorded
<1>5. AllApart'
  BY <1>1, <1>2 DEF Books, AllApart, Apart, Stored, TargetOf
<1>6. ASSUME NEW g \in Handler PROVE Knows(g)'
  <2>1. Synced(g)'
    BY <1>1, <1>2 DEF Knows, Synced, MyRecord, Mem, Step, Conflicts
  <2>2. Remembers(g)'
    BY <1>1, <1>2 DEF Knows, Remembers, Mem
  <2>3. FirstWrite(g)'
    <3> SUFFICES ASSUME pc[g] \in {"renew", "mark", "patch"}, ThisStep(g) \notin late'
                 PROVE  writer'[Target(g)] # ThisStep(g)
      BY <1>1 DEF FirstWrite, ThisStep, Target, Mem, Step
    <3>1. Target(g) \in Task
      BY Here DEF TInv, StepLabels
    <3> QED
      BY <1>1, <1>2, <3>1 DEF Knows, FirstWrite
  <2> QED
    BY <2>1, <2>2, <2>3 DEF Knows
<1> QED
  BY <1>3, <1>4, <1>5, <1>6 DEF Books

\* What changes neither a record nor Timecue.
LEMMA StillAInv ==
  ASSUME AInv, UNCHANGED <<record, dates, writer, inflight, late, pc, req>>,
         InTime' => InTime
  PROVE  AInv'
<1> SUFFICES ASSUME InTime' PROVE Books' /\ \A g \in Handler : Knows(g)'
  BY DEF AInv
<1>1. Books /\ \A g \in Handler : Knows(g)
  BY DEF AInv
<1> QED
  BY <1>1, BooksSame, KnowsSame

\* What others do keeps the books; a lease that lapses under its holder ends InTime.
LEMMA EnvironmentAInv ==
  ASSUME TInv, AInv, Environment PROVE AInv'
<1> USE DEF worldVars, counters, leaseVars, InTime
<1>1. ASSUME NEW a \in Analysis, Publish(a) PROVE AInv'
  BY <1>1, StillAInv DEF Publish
<1>2. ASSUME NEW t \in Task, Edit(t) PROVE AInv'
  BY <1>2, EditAInv
<1>3. CASE ChangeContext
  BY <1>3, StillAInv DEF ChangeContext
<1>4. ASSUME NEW p \in inflight, Arrive(p) PROVE AInv'
  BY <1>4, ArriveAInv
<1>5. CASE LapseOrphan
  BY <1>5, StillAInv DEF LapseOrphan
<1>6. CASE LapseLive
  <2>1. lapses \in Nat /\ lapses' = lapses + 1
    BY <1>6 DEF LapseLive, TInv, World
  <2> QED
    BY <2>1 DEF AInv
<1> QED
  BY <1>1, <1>2, <1>3, <1>4, <1>5, <1>6 DEF Environment

-----------------------------------------------------------------------------
\* The invariant: each part needs the ones before it.
RInv == SInv /\ TInv /\ LInv /\ AInv

\* The invariant holds at the start, ...
LEMMA InitRInv == Init => RInv
<1> SUFFICES ASSUME Init PROVE RInv
  OBVIOUS
<1>1. Stored = {} /\ \A h \in Handler : pc[h] = "idle"
  BY DEF Init, Stored
<1>2. LInv
  BY <1>1 DEF LInv, SoundCopy, CopyLabels
<1>3. Books
  BY <1>1 DEF Init, Books, Written, Recorded, AllApart
<1>4. \A h \in Handler : Knows(h)
  BY <1>1 DEF Knows, Synced, Remembers, FirstWrite, CopyLabels
<1> QED
  BY <1>2, <1>3, <1>4, InitSInv, InitTInv DEF RInv, AInv

\* ... every step keeps it, ...
LEMMA NextRInv == RInv /\ [Next]_vars => RInv'
<1> SUFFICES ASSUME RInv, [Next]_vars PROVE RInv'
  OBVIOUS
<1>1. SInv' /\ TInv' /\ LInv'
  BY NextSInv, NextTInv, NextLInv DEF RInv
<1> USE DEF RInv
<1>2. ASSUME NEW h \in Handler, Proceed(h), ~End(h) PROVE AInv'
  BY <1>1, <1>2, ProceedAInv
<1>3. ASSUME NEW h \in Handler, Begins(h) \/ End(h) \/ Crash(h) PROVE AInv'
  BY <1>3, EdgeAInv
<1>4. ASSUME Environment PROVE AInv'
  BY <1>4, EnvironmentAInv
<1>5. ASSUME UNCHANGED vars PROVE AInv'
  BY <1>5, StillAInv DEF vars, InTime
<1>6. AInv'
  BY <1>2, <1>3, <1>4, <1>5 DEF Next
<1> QED
  BY <1>1, <1>6

\* ... so it always holds.
LEMMA AlwaysRInv == Spec => []RInv
BY InitRInv, NextRInv, PTL DEF Spec

-----------------------------------------------------------------------------
\* Whatever an execution wrote to Timecue, and nobody overwrote, its record knows of
\* (the save before each PATCH and the `finally` after it in _continue_execution).
THEOREM WritesRecorded == Spec => []WritesAreRecorded
<1>1. RInv => WritesAreRecorded
  <2> SUFFICES ASSUME RInv, InTime, NEW t \in Task, writer[t] \notin {Nobody} \cup late
               PROVE  /\ writer[t][1] \in Stored
                      /\ record[writer[t][1]].step[writer[t][2]] \in
                            {"applying", "needs_reconciliation", "applied"}
    BY DEF WritesAreRecorded
  <2>1. Traced(writer[t], t, dates[t])
    BY DEF RInv, AInv, Books, Written
  <2>2. record[writer[t][1]].step[writer[t][2]] \in Sent
    BY DEF RInv, AInv, Books, Recorded
  <2> QED
    BY <2>1, <2>2 DEF Traced, Sent
<1> QED
  BY <1>1, AlwaysRInv, PTL

\* Timecue never shows a date shift whose manual prerequisites are not confirmed
\* (step_dependencies, whichever request resumed the step, however late its PATCH).
THEOREM PrerequisitesComeFirst == Spec => []PrerequisitesFirst
<1>1. RInv => PrerequisitesFirst
  <2> SUFFICES ASSUME RInv, InTime, NEW t \in Task, writer[t] # Nobody,
                      NEW j \in DependsOn(record[writer[t][1]].analysis, writer[t][2])
               PROVE  record[writer[t][1]].step[j] = "confirmed"
    BY DEF PrerequisitesFirst
  <2>1. Traced(writer[t], t, dates[t])
    BY DEF RInv, AInv, Books, Written
  <2> QED
    BY <2>1 DEF Traced, DepsConfirmed
<1> QED
  BY <1>1, AlwaysRInv, PTL

\* No two executions have unresolved steps on one worker or task (the conflicts that
\* _review looks up, and the lease that keeps the look-up true until the save).
THEOREM LiveExecutionsAreApart == Spec => []OneLiveExecutionPerTarget
<1>1. RInv => OneLiveExecutionPerTarget
  <2> SUFFICES ASSUME RInv, InTime, NEW k \in Stored, NEW l \in Stored, k # l,
                      NEW i \in DOMAIN record[k].step, NEW j \in DOMAIN record[l].step,
                      TargetOf(k, i) = TargetOf(l, j)
               PROVE  record[k].step[i] \notin Live \/ record[l].step[j] \notin Live
    BY DEF OneLiveExecutionPerTarget
  <2>1. Apart(k, l)
    BY DEF RInv, AInv, Books, AllApart
  <2>2. record[k] \in Record /\ record[l] \in Record
    BY DEF RInv, TInv, World, Stored
  <2>3. i \in Steps(record[k].analysis) /\ j \in Steps(record[l].analysis)
    BY <2>2, RecordShape
  <2> QED
    BY <2>1, <2>3 DEF Apart
<1> QED
  BY <1>1, AlwaysRInv, PTL

\* A save of what follows the record keeps what is settled.
LEMMA NextSettled ==
  ASSUME RInv, [Next]_vars, InTime PROVE SettledStaySettled
<1> SUFFICES ASSUME NEW k \in Stored, NEW i \in DOMAIN record[k].step,
                    record[k].step[i] \in Settled
             PROVE  record'[k].step[i] = record[k].step[i]
  BY DEF SettledStaySettled
<1>1. CASE record' = record
  BY <1>1
<1>2. ASSUME NEW h \in Handler, Proceed(h), ~End(h) PROVE record'[k].step[i] = record[k].step[i]
  <2>1. Moves(h)
    BY <1>2, ProceedMoves DEF RInv
  <2>2. CASE Saves(h)
    <3>1. Synced(h) /\ k \in Key /\ TInv
      BY DEF RInv, AInv, Knows, Stored
    <3>2. CASE k = req[h].key
      <4>1. /\ MyRecord(h) \in Record /\ Follows(MyRecord(h), Mem(h)')
            /\ record'[k] = Mem(h)' /\ record[k] = MyRecord(h)
        BY <2>2, <3>1, <3>2, SavesFollow DEF MyRecord
      <4>2. i \in Steps(MyRecord(h).analysis)
        BY <4>1, RecordShape
      <4> QED
        BY <4>1, <4>2 DEF Follows
    <3>3. CASE k # req[h].key
      BY <2>2, <3>1, <3>3, SavesFollow
    <3> QED
      BY <3>2, <3>3
  <2>3. CASE ~Saves(h)
    BY <2>1, <2>3 DEF Moves, Quits, Loads, Drafts, Turns, Goes, Patches, Inner
  <2> QED
    BY <2>2, <2>3
<1>3. ASSUME NEW h \in Handler, Begins(h) \/ End(h) \/ Crash(h) PROVE record' = record
  BY <1>3, EdgeSteps DEF RInv
<1>4. CASE Environment
  BY <1>1, <1>4, EnvironmentLeaves
<1>5. CASE UNCHANGED vars
  BY <1>1, <1>5 DEF vars
<1> QED
  BY <1>1, <1>2, <1>3, <1>4, <1>5 DEF Next

\* An applied, confirmed, failed or cancelled step keeps that state: no save of a copy
\* takes it back.
THEOREM SettledForGood == Spec => StepsStaySettled
<1>1. RInv /\ [Next]_vars => [InTime => SettledStaySettled]_vars
  BY NextSettled
<1> QED
  BY <1>1, AlwaysRInv, PTL DEF Spec, StepsStaySettled

\* No PATCH is sent for a step whose earlier PATCH Timecue still shows (the read before
\* each write, in every resumption).
THEOREM NoBlindRetries == Spec => NoBlindRetry
<1>1. RInv => (InTime => \A h \in Handler :
          Sends(h) /\ ThisStep(h) \notin late => writer[Target(h)] # ThisStep(h))
  BY DEF RInv, AInv, Knows, FirstWrite, Sends
<1>2. RInv /\ [Next]_vars => [InTime => \A h \in Handler :
          Sends(h) /\ ThisStep(h) \notin late => writer[Target(h)] # ThisStep(h)]_vars
  BY <1>1
<1> QED
  BY <1>2, AlwaysRInv, PTL DEF Spec, NoBlindRetry

-----------------------------------------------------------------------------
\* Stale approvals.  The lease is not needed to be unbroken here: a request that renews it
\* finds it was not taken since it began.

\* The analysis exists; the context it was computed from.
Published(a) == base[a] # Unpublished
Ctx(a) == base[a].context

\* The analyses that executions and requests are at work on.
InUse == {record[k].analysis : k \in Stored}
         \cup {req[h].arg : h \in {g \in Handler : pc[g] = "apply"}}
         \cup {Mem(h).analysis : h \in {g \in Handler : pc[g] \in CopyLabels}}

\* A request that will write was checked against a context no older than its beginning;
\* one that has renewed its lease since, against exactly that.
Fresh(h) ==
    /\ pc[h] # "idle" => req[h].began <= context
    /\ pc[h] \in {"create", "renew", "readback"} => Ctx(Mem(h).analysis) >= req[h].began
    /\ pc[h] \in {"step", "save"} /\ req[h].write => Ctx(Mem(h).analysis) >= req[h].began
    /\ pc[h] \in {"mark", "patch"} => Ctx(Mem(h).analysis) = req[h].began

\* Whoever has the lease began after every analysis in use was published.
HolderIsLatest ==
    \A h \in Handler : holder = h =>
        pc[h] # "idle" /\ \A a \in InUse : Ctx(a) <= req[h].began

\* Nothing in use is newer than the request that has the lease.
DInv == /\ \A a \in Analysis : Published(a) => Ctx(a) <= context
        /\ \A a \in InUse : a \in Analysis /\ Published(a)
        /\ \A h \in Handler : Fresh(h)
        /\ HolderIsLatest

\* A published analysis has a context.
LEMMA PublishedCtx ==
  ASSUME TInv, NEW a \in Analysis, Published(a) PROVE Ctx(a) \in Nat
<1>1. base[a] \in [dates : [Task -> Date], context : Nat]
  BY DEF TInv, World, Published
<1> QED
  BY <1>1 DEF Ctx

\* A step takes no analysis up that was not in use.
LEMMA MovesInUse ==
  ASSUME TInv, LInv, NEW h \in Handler, Moves(h)
  PROVE  /\ Mine(h) /\ pc[h] # "idle" /\ pc'[h] # "idle"
         /\ pc[h] \in CopyLabels /\ pc'[h] \in CopyLabels =>
               Mem(h)'.analysis = Mem(h).analysis
         /\ InUse' \subseteq InUse
<1>1. Mine(h) /\ pc[h] # "idle" /\ pc'[h] # "idle" /\ pc'[h] # "apply"
  BY DEF Moves, Quits, Loads, Drafts, Turns, Goes, Saves, Patches, Inner
<1>2. ASSUME pc[h] \in CopyLabels, pc'[h] \in CopyLabels PROVE Mem(h)'.analysis = Mem(h).analysis
  <2>1. ASSUME NEW s \in StepStatus, Turns(h, s) PROVE Mem(h)'.analysis = Mem(h).analysis
    <3>1. Mem(h) \in Record /\ Step(h) \in Steps(Mem(h).analysis)
      BY <2>1, TurnsSound DEF LInv
    <3>2. WithStep(Mem(h), Step(h), s).analysis = Mem(h).analysis
      BY <3>1, RecordMarked
    <3> QED
      BY <2>1, <3>2 DEF Turns
  <2>2. ASSUME Patches(h) PROVE Mem(h)'.analysis = Mem(h).analysis
    <3>1. Mem(h) \in Record /\ Step(h) \in Steps(Mem(h).analysis)
      BY <2>2, Here DEF TInv, Patches, CopyLabels, StepLabels
    <3>2. "needs_reconciliation" \in StepStatus
      BY DEF StepStatus
    <3>3. WithStep(Mem(h), Step(h), "needs_reconciliation").analysis = Mem(h).analysis
      BY <3>1, <3>2, RecordMarked
    <3> QED
      BY <2>2, <3>3 DEF Patches
  <2> QED
    BY <1>2, <2>1, <2>2 DEF Moves, Quits, Loads, Drafts, Goes, Saves, CopyLabels
<1>3. ASSUME pc'[h] \in CopyLabels PROVE Mem(h)'.analysis \in InUse
  <2>1. CASE pc[h] \in CopyLabels
    BY <1>2, <1>3, <2>1 DEF InUse
  <2>2. CASE Loads(h)
    <3>1. MyRecord(h) # NoRecord
      BY <2>2 DEF Loads
    <3>2. req[h].key \in Stored
      BY <1>1, <3>1, MyRecordTyped
    <3> QED
      BY <2>2, <3>2 DEF Loads, Follows, InUse, MyRecord
  <2>3. CASE Drafts(h)
    <3>1. req[h].arg \in Analysis
      BY <2>3 DEF Drafts, TInv, Requests, LocalsOf
    <3> QED
      BY <2>3, <3>1, NewRecordSound DEF Drafts, InUse
  <2> QED
    BY <1>3, <2>1, <2>2, <2>3 DEF Moves, Quits, Turns, Goes, Saves, Patches, CopyLabels
<1>4. ASSUME NEW k \in Stored' PROVE record'[k].analysis \in InUse
  <2>1. CASE Saves(h)
    <3>1. Mem(h).analysis \in InUse /\ Mem(h)'.analysis = Mem(h).analysis
      BY <2>1 DEF Saves, InUse, CopyLabels
    <3>2. k \in Key /\ (record'[k] = Mem(h)' \/ record'[k] = record[k])
      BY <2>1 DEF Saves, Stored, TInv, World
    <3> QED
      BY <3>1, <3>2 DEF InUse, Stored
  <2>2. CASE ~Saves(h)
    <3>1. record' = record
      BY <2>2 DEF Moves, Quits, Loads, Drafts, Turns, Goes, Patches, Inner
    <3> QED
      BY <3>1 DEF InUse, Stored
  <2> QED
    BY <2>1, <2>2
<1>5. ASSUME NEW g \in Handler
      PROVE  /\ pc'[g] = "apply" => req'[g].arg \in InUse
             /\ pc'[g] \in CopyLabels => Mem(g)'.analysis \in InUse
  <2>1. CASE g = h
    BY <1>1, <1>3, <2>1
  <2>2. CASE g # h
    <3>1. pc'[g] = pc[g] /\ req'[g] = req[g]
      BY <1>1, <2>2 DEF Mine
    <3> QED
      BY <3>1 DEF InUse, Mem
  <2> QED
    BY <2>1, <2>2
<1>6. InUse' \subseteq InUse
  <2> SUFFICES ASSUME NEW a \in InUse' PROVE a \in InUse
    OBVIOUS
  <2>1. \/ \E k \in Stored' : a = record'[k].analysis
        \/ \E g \in Handler : pc'[g] = "apply" /\ a = req'[g].arg
        \/ \E g \in Handler : pc'[g] \in CopyLabels /\ a = Mem(g)'.analysis
    BY DEF InUse, CopyLabels
  <2> QED
    BY <1>4, <1>5, <2>1
<1> QED
  BY <1>1, <1>2, <1>6

\* What the labels of the lease and of the context have to do with each other: the
\* renewal finds the request's lease unbroken, so nothing newer than its beginning is in
\* use; and the check of the context found nothing older.
LEMMA MovesFresh ==
  ASSUME TInv, LInv, DInv, NEW h \in Handler, Moves(h) PROVE Fresh(h)'
<1>1. /\ Mine(h) /\ pc[h] # "idle"
      /\ pc[h] \in CopyLabels /\ pc'[h] \in CopyLabels =>
            Mem(h)'.analysis = Mem(h).analysis
  BY MovesInUse
<1>2. Fresh(h) /\ req[h].began <= context
  BY <1>1 DEF DInv, Fresh
<1>3. req[h].began \in Nat /\ context \in Nat
  BY Here DEF TInv, World, RequestType
<1>4. req'[h].began = req[h].began /\ context' = context /\ base' = base
  BY <1>1 DEF Mine
<1> DEFINE a == Mem(h).analysis
<1>5. req'[h].began <= context'
  BY <1>2, <1>4
<1>6. CASE Quits(h)
  BY <1>5, <1>6 DEF Quits, Fresh
<1>7. CASE Loads(h)
  BY <1>5, <1>7 DEF Loads, Fresh
<1>8. CASE Drafts(h)
  <2>1. req[h].arg \in Analysis
    BY <1>8 DEF Drafts, TInv, Requests, LocalsOf
  <2>2. Mem(h)'.analysis = req[h].arg /\ context = Ctx(req[h].arg)
    BY <1>8, <2>1, NewRecordSound DEF Drafts, ReviewPasses, PlanningUnchanged, Ctx
  <2> QED
    BY <1>2, <1>4, <1>5, <1>8, <2>2 DEF Drafts, Fresh, Ctx
<1>9. CASE ~Quits(h) /\ ~Loads(h) /\ ~Drafts(h)
  <2>1. pc[h] \in CopyLabels
    BY <1>9 DEF Moves, Turns, Goes, Saves, Patches, CopyLabels
  <2>2. a \in Analysis /\ Published(a) /\ Ctx(a) \in Nat /\ a \in InUse
    BY <2>1, PublishedCtx DEF DInv, InUse
  <2>3. pc'[h] \in CopyLabels => Mem(h)'.analysis = a
    BY <1>1, <2>1
  <2>5. CASE Goes(h)
    BY <1>2, <1>3, <1>4, <1>5, <2>2, <2>3, <2>5 DEF Goes, Fresh, Ctx, PlanningUnchanged, CopyLabels
  <2>6. CASE Saves(h)
    BY <1>2, <1>3, <1>4, <1>5, <2>2, <2>3, <2>6 DEF Saves, Fresh, Ctx, CopyLabels
  <2>7. CASE Patches(h)
    BY <1>2, <1>3, <1>4, <1>5, <2>2, <2>3, <2>7 DEF Patches, Fresh, Ctx, CopyLabels
  <2>8. ASSUME NEW s \in StepStatus, Turns(h, s) PROVE Fresh(h)'
    <3>1. CASE pc'[h] = "mark"
      <4>1. holder = h /\ pc[h] = "renew"
        BY <2>8, <3>1 DEF Turns
      <4>2. Ctx(a) <= req[h].began /\ Ctx(a) >= req[h].began
        BY <1>2, <2>2, <4>1 DEF DInv, HolderIsLatest, Fresh
      <4>3. Ctx(Mem(h).analysis)' = req'[h].began
        BY <1>3, <1>4, <2>2, <2>3, <3>1, <4>2 DEF Ctx, CopyLabels
      <4> QED
        BY <1>5, <3>1, <4>3 DEF Fresh
    <3>2. CASE pc'[h] # "mark"
      BY <1>2, <1>3, <1>4, <1>5, <2>2, <2>3, <2>8, <3>2 DEF Turns, Fresh, Ctx, CopyLabels
    <3> QED
      BY <3>1, <3>2
  <2> QED
    BY <1>9, <2>5, <2>6, <2>7, <2>8 DEF Moves
<1> QED
  BY <1>6, <1>7, <1>8, <1>9

\* A request whose locals, and whose analysis, stay as they are stays as fresh as it was.
LEMMA FreshSame ==
  ASSUME NEW g, Fresh(g), pc'[g] = pc[g], req'[g] = req[g], req[g].began \in Nat,
         context \in Nat, context' \in Nat, context <= context',
         pc[g] \in CopyLabels => base'[Mem(g).analysis] = base[Mem(g).analysis]
  PROVE  Fresh(g)'
BY DEF Fresh, Ctx, Mem, CopyLabels

\* A step of a handler keeps the invariant, ...
LEMMA MovesDInv ==
  ASSUME TInv, LInv, DInv, NEW h \in Handler, Moves(h) PROVE DInv'
<1>1. Mine(h) /\ pc[h] # "idle" /\ pc'[h] # "idle" /\ InUse' \subseteq InUse
  BY MovesInUse
<1>2. UNCHANGED <<base, context, holder>> /\ req'[h].began = req[h].began
      /\ \A g \in Handler \ {h} : pc'[g] = pc[g] /\ req'[g] = req[g]
  BY <1>1 DEF Mine
<1>3. ASSUME NEW g \in Handler PROVE Fresh(g)'
  <2>1. context \in Nat /\ req[g].began \in Nat
    BY Here DEF TInv, World, RequestType
  <2>2. CASE g # h
    BY <1>2, <2>1, <2>2, FreshSame DEF DInv
  <2> QED
    BY <2>2, MovesFresh
<1>4. HolderIsLatest'
  BY <1>1, <1>2 DEF DInv, HolderIsLatest, Ctx
<1>5. \A a \in InUse' : a \in Analysis /\ Published(a)'
  BY <1>1, <1>2 DEF DInv, Published
<1>6. \A a \in Analysis : Published(a)' => Ctx(a)' <= context'
  BY <1>2 DEF DInv, Published, Ctx
<1> QED
  BY <1>3, <1>4, <1>5, <1>6 DEF DInv

\* Steps after which no copy and no argument is in use that was not before.
LEMMA SameInUse ==
  ASSUME UNCHANGED record,
         \A g \in Handler : \/ pc'[g] = pc[g] /\ req'[g] = req[g]
                            \/ pc'[g] \notin CopyLabels \cup {"apply"}
  PROVE  InUse' \subseteq InUse
<1> SUFFICES ASSUME NEW a \in InUse' PROVE a \in InUse
  OBVIOUS
<1>1. \/ \E k \in Stored' : a = record'[k].analysis
      \/ \E g \in Handler : pc'[g] = "apply" /\ a = req'[g].arg
      \/ \E g \in Handler : pc'[g] \in CopyLabels /\ a = Mem(g)'.analysis
  BY DEF InUse, CopyLabels
<1> QED
  BY <1>1 DEF InUse, Stored, Mem

\* A request that ends or dies gives up the lease it had.
LEMMA GoneDInv ==
  ASSUME TInv, DInv, NEW h \in Handler, End(h) \/ Crash(h) PROVE DInv'
<1>1. /\ UNCHANGED <<record, base, context>>
      /\ \A g \in Handler \ {h} : pc'[g] = pc[g] /\ req'[g] = req[g]
  BY EdgeSteps
<1>2. pc'[h] = "idle"
  BY DEF End, Crash, Goto, TInv, Requests
<1>3. InUse' \subseteq InUse
  BY <1>1, <1>2, SameInUse DEF CopyLabels
<1>4. holder' # h /\ (holder' = holder \/ holder' \notin Handler)
  BY ExecutionConstants DEF End, Crash, L!Release, L!Abandon, L!leaseVars
<1>5. ASSUME NEW g \in Handler PROVE Fresh(g)'
  <2>1. context \in Nat /\ req[g].began \in Nat
    BY Here DEF TInv, World, RequestType
  <2>2. CASE g # h
    BY <1>1, <2>1, <2>2, FreshSame DEF DInv
  <2>3. CASE g = h
    BY <1>2, <2>3 DEF Fresh
  <2> QED
    BY <2>2, <2>3
<1>6. HolderIsLatest'
  BY <1>1, <1>3, <1>4 DEF DInv, HolderIsLatest, Ctx
<1> QED
  BY <1>1, <1>3, <1>5, <1>6 DEF DInv, Published, Ctx

\* A request that begins takes the lease after everything in use was published.
LEMMA BeginDInv ==
  ASSUME TInv, TInv', DInv, NEW h \in Handler,
         NEW op \in {"apply", "reconcile", "complete", "cancel"}, NEW k, NEW arg,
         Begin(h, op, k, arg), op = "apply" => arg \in Analysis /\ Published(arg)
  PROVE  DInv'
<1>1. /\ UNCHANGED <<record, base, context>> /\ holder' = h
      /\ pc'[h] = op /\ req'[h].began = context /\ req'[h].arg = arg
      /\ \A g \in Handler \ {h} : pc'[g] = pc[g] /\ req'[g] = req[g]
  BY DEF Begin, L!Acquire, Goto, TInv, Requests, NoRequest
<1>2. ASSUME NEW a \in InUse' PROVE a \in Analysis /\ Published(a)
  <2>1. \/ \E l \in Stored' : a = record'[l].analysis
        \/ \E g \in Handler : pc'[g] = "apply" /\ a = req'[g].arg
        \/ \E g \in Handler : pc'[g] \in CopyLabels /\ a = Mem(g)'.analysis
    BY <1>2 DEF InUse, CopyLabels
  <2>2. a \in InUse \/ (op = "apply" /\ a = arg)
    BY <1>1, <2>1 DEF InUse, Stored, Mem, CopyLabels
  <2> QED
    BY <2>2 DEF DInv
<1>3. ASSUME NEW g \in Handler PROVE Fresh(g)'
  <2>1. context \in Nat /\ req[g].began \in Nat
    BY Here DEF TInv, World, RequestType
  <2>2. CASE g # h
    BY <1>1, <2>1, <2>2, FreshSame DEF DInv
  <2>3. CASE g = h
    BY <1>1, <2>1, <2>3 DEF Fresh
  <2> QED
    BY <2>2, <2>3
<1>4. HolderIsLatest'
  <2> SUFFICES ASSUME NEW g \in Handler, holder' = g
               PROVE  pc'[g] # "idle" /\ \A a \in InUse' : Ctx(a)' <= req'[g].began
    BY DEF HolderIsLatest
  <2>1. ASSUME NEW a \in InUse' PROVE Ctx(a)' <= context
    BY <1>1, <1>2 DEF DInv, Ctx
  <2> QED
    BY <1>1, <2>1
<1> QED
  BY <1>1, <1>2, <1>3, <1>4 DEF DInv, Published, Ctx

\* ... and so do the four beginnings, ...
LEMMA BeginsDInv ==
  ASSUME TInv, TInv', DInv, NEW h \in Handler, Begins(h) PROVE DInv'
BY BeginDInv DEF Begins, BeginApply, BeginReconcile, BeginComplete, BeginCancel, Published

\* ... and the others: an analysis in use is published, and its context stays.
LEMMA EnvironmentDInv ==
  ASSUME TInv, TInv', DInv, Environment PROVE DInv'
<1>1. UNCHANGED <<record, pc, req>> /\ InUse' = InUse
  BY EnvironmentLeaves DEF InUse, Stored, Mem, CopyLabels
<1>2. context \in Nat /\ context' \in Nat /\ context <= context'
  BY DEF TInv, World, Environment, Publish, Edit, ChangeContext, Arrive, LapseOrphan, LapseLive
<1>3. holder' = holder
  BY DEF Environment, Publish, Edit, ChangeContext, Arrive, LapseOrphan, LapseLive, leaseVars, L!Lapse
<1>4. /\ \A a \in Analysis : Published(a) => base'[a] = base[a]
      /\ \A a \in Analysis : Published(a)' => Published(a) \/ Ctx(a)' = context'
  <2>1. ASSUME NEW b \in Analysis, Publish(b)
        PROVE  /\ \A a \in Analysis : Published(a) => base'[a] = base[a]
               /\ \A a \in Analysis : Published(a)' => Published(a) \/ Ctx(a)' = context'
    BY <2>1 DEF Publish, Published, Ctx, TInv, World
  <2>2. (\E b \in Analysis : Publish(b)) \/ base' = base
    BY DEF Environment, Edit, ChangeContext, Arrive, LapseOrphan, LapseLive
  <2> QED
    BY <2>1, <2>2 DEF Published
<1>5. \A a \in InUse : a \in Analysis /\ Published(a) /\ base'[a] = base[a]
  BY <1>4 DEF DInv
<1>6. ASSUME NEW g \in Handler PROVE Fresh(g)'
  <2>1. req[g].began \in Nat
    BY Here DEF TInv, RequestType
  <2>2. pc[g] \in CopyLabels => base'[Mem(g).analysis] = base[Mem(g).analysis]
    BY <1>5 DEF InUse
  <2> QED
    BY <1>1, <1>2, <2>1, <2>2, FreshSame DEF DInv
<1>7. HolderIsLatest'
  BY <1>1, <1>3, <1>5 DEF DInv, HolderIsLatest, Ctx
<1>8. ASSUME NEW a \in Analysis, Published(a)' PROVE Ctx(a)' <= context'
  <2>1. CASE Published(a)
    <3>1. Ctx(a)' = Ctx(a) /\ Ctx(a) <= context /\ Ctx(a) \in Nat
      BY <1>4, <2>1, PublishedCtx DEF DInv, Ctx
    <3> QED
      BY <1>2, <3>1
  <2>2. CASE Ctx(a)' = context'
    BY <1>2, <2>2
  <2> QED
    BY <1>4, <1>8, <2>1, <2>2
<1> QED
  BY <1>1, <1>5, <1>6, <1>7, <1>8 DEF DInv, Published

\* The invariant, without the lease's.
CInv == TInv /\ LInv /\ DInv

\* So every step keeps it, ...
LEMMA NextDInv == CInv /\ [Next]_vars => CInv'
<1> SUFFICES ASSUME CInv, [Next]_vars PROVE CInv'
  OBVIOUS
<1> USE DEF CInv
<1>1. TInv' /\ LInv'
  BY NextTInv, NextLInv
<1>2. ASSUME NEW h \in Handler, Proceed(h), ~End(h) PROVE DInv'
  BY <1>2, ProceedMoves, MovesDInv
<1>3. ASSUME NEW h \in Handler, End(h) \/ Crash(h) PROVE DInv'
  BY <1>3, GoneDInv
<1>4. ASSUME NEW h \in Handler, Begins(h) PROVE DInv'
  BY <1>1, <1>4, BeginsDInv
<1>5. ASSUME Environment PROVE DInv'
  BY <1>1, <1>5, EnvironmentDInv
<1>6. ASSUME UNCHANGED vars PROVE DInv'
  BY <1>6 DEF vars, DInv, InUse, Stored, Mem, CopyLabels, Published, Ctx, Fresh, HolderIsLatest
<1>7. DInv'
  BY <1>2, <1>3, <1>4, <1>5, <1>6 DEF Next
<1> QED
  BY <1>1, <1>7

\* ... and it always holds.
LEMMA AlwaysCInv == Spec => []CInv
<1>1. Init => CInv
  <2> SUFFICES ASSUME Init PROVE CInv
    OBVIOUS
  <2>1. /\ Stored = {} /\ holder = Free
        /\ \A h \in Handler : pc[h] = "idle"
        /\ \A a \in Analysis : ~Published(a)
    BY DEF Init, Stored, L!LeaseInit, Published
  <2>2. InUse = {}
    BY <2>1 DEF InUse, CopyLabels
  <2>3. DInv
    BY <2>1, <2>2, ExecutionConstants DEF DInv, Fresh, HolderIsLatest
  <2> QED
    BY <2>3, InitRInv DEF CInv, RInv
<1> QED
  BY <1>1, NextDInv, PTL DEF Spec

\* No PATCH is sent for an approval whose planning inputs or calibration had moved on
\* when the request came in; lapsed leases, crashes and lost answers included
\* (the checks of _planning_context in reconcile and complete, and renew_lease).
THEOREM StaleNotWritten == Spec => StaleApprovalsDoNotWrite
<1>1. CInv => \A h \in Handler : Sends(h) => req[h].began = base[Mem(h).analysis].context
  BY DEF CInv, DInv, Fresh, Sends, Ctx
<1>2. CInv /\ [Next]_vars =>
        [\A h \in Handler : Sends(h) => req[h].began = base[Mem(h).analysis].context]_vars
  BY <1>1
<1> QED
  BY <1>2, AlwaysCInv, PTL DEF Spec, StaleApprovalsDoNotWrite
=============================================================================
