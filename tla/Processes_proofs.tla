------------------------ MODULE Processes_proofs ------------------------
(***************************************************************************)
(* Proofs about AnalysisJobs, for any number of clients, workers, jobs and   *)
(* keys and any bounds: one worker at a time runs a job and one analysis is   *)
(* published per key, a row is marked dispatched only when ARQ knows the     *)
(* job, no runner changes how a job ended, and every lease is a BoundedLease.*)
(*                                                                         *)
(* Every step of a worker but the two transactions of a save is Quiet: it    *)
(* leaves the job records alone, and who holds which lease fits the point    *)
(* the worker has reached.  The invariants are proved per kind of step: TInv *)
(* (types, what is in hand is stored), DInv (the queue), CInv (the leases),  *)
(* KInv (what a save read is still good enough to write back) and AInv (an   *)
(* attempt has a delivery of its own).                                       *)
(*                                                                         *)
(* Proofs about SessionRefresh, for any number of requests, processes, pairs *)
(* and failures: no refresh cookie is sent twice while no process dies, no   *)
(* refused access cookie leads to two rotations, deaths or not, and the      *)
(* vault has what Timecue takes.                                             *)
(*                                                                         *)
(* Every step of a request but the exchange and the two that store its       *)
(* answer is Plain: the vault stays or is cleared, and the request is under  *)
(* the lease only if it holds it.  The mutual exclusion comes from Leased    *)
(* alone; the process-local lock is not needed for it.                       *)
(*                                                                         *)
(* Proofs about SimulationPool, for any number of threads and of pools: one  *)
(* pool is in use, and no child computes for a call that has ended.          *)
(* PoolIsOurs is not inductive: PInv adds that a future, its child and the   *)
(* stage of its call agree, and that who shuts a pool has ended its child.   *)
(***************************************************************************)
EXTENDS AnalysisJobs, SessionRefresh, SimulationPool, FiniteSetTheorems, TLAPS


\* The points between taking the lease of a job and releasing it, without its saves.
ClaimPoint == {"start", "authenticate", "authorize", "analyse", "lookup", "report", "read",
               "publishing", "publish", "unwind", "settle", "release"}
RelayPoint == {"relayEnqueue", "relayFailed", "relayDispatched", "relayEnd"}
SavePoint == {"saveGet", "savePut"}
Point == {"idle", "relayLease", "load", "claim", "ack"} \cup ClaimPoint \cup RelayPoint
         \cup SavePoint
Afterwards == {"idle", "relayEnd", "authenticate", "authorize", "analyse", "read", "publish",
               "release"}
Outcome == {"none", "completed", "needs_inputs", "failed", "expired", "lost", "fault"}

Stored == [key : Key, status : Status, attempts : Nat, dispatch : {"pending", "dispatched"}]

Change == {NoChange} \cup [dispatch : {"dispatched"}] \cup [status : Status]
          \cup [status : {"running"}, attempts : Nat]

JobLocals == [pc : Point, job : Job \cup {NoJob}, mem : Stored \cup {NoJob}, change : Change,
           after : Afterwards, attempt : Nat, lost : BOOLEAN, outcome : Outcome,
           ack : {"done", "retry"}]

\* What a save changes, by where it continues.
Fits(c, a) == \/ a = "relayEnd" /\ c = [dispatch |-> "dispatched"]
              \/ a = "release" /\ \E s \in Status : c = [status |-> s]
              \/ a = "authenticate" /\ \E n \in Nat : c = [status |-> "running", attempts |-> n]
              \/ a \in {"authorize", "analyse", "read", "publish"} /\ c = NoChange

Sane(r) == /\ r.pc # "idle" => r.job \in Job
           /\ r.pc \in {"unwind", "settle"} => r.outcome # "none"
           /\ r.pc \in SavePoint => Fits(r.change, r.after)
           /\ r.pc = "savePut" => r.mem \in Stored

\* Worker r runs a job, or relays one.
Claims(r) == r.pc \in ClaimPoint \/ (r.pc \in SavePoint /\ r.after # "relayEnd")
Relays(r) == r.pc \in RelayPoint \/ (r.pc \in SavePoint /\ r.after = "relayEnd")
\* It has found the job open, and has not ended it.
Works(r) == Claims(r) /\ r.pc \notin {"start", "release"}

-----------------------------------------------------------------------------
\* Claims and Relays read HasClaim off the locals.
LEMMA HasClaimIs == \A w \in Worker : HasClaim(w) <=> Claims(run[w])
  BY DEF HasClaim, Claims, ClaimPoint, SavePoint

\* What a save writes is a record: a relay keeps the status it read, and only the last save
\* of a run ends a job.
LEMMA MergedIs ==
    ASSUME NEW r \in JobLocals, r.mem \in Stored, Fits(r.change, r.after)
    PROVE  /\ Merged(r) \in Stored
           /\ r.after = "relayEnd" => Merged(r).status = r.mem.status
           /\ r.after \notin {"release", "relayEnd"} /\ r.mem.status \notin Terminal
                => Merged(r).status \notin Terminal
<1> DEFINE Fields == {"key", "status", "attempts", "dispatch"}
           m == Merged(r)
<1>1. DOMAIN r.mem = Fields /\ r.mem.key \in Key /\ r.mem.status \in Status
      /\ r.mem.attempts \in Nat /\ r.mem.dispatch \in {"pending", "dispatched"}
  BY DEF Stored
<1>2. m = [f \in Fields |-> IF f \in DOMAIN r.change THEN r.change[f] ELSE r.mem[f]]
  BY <1>1 DEF Merged
<1>3. CASE r.after = "relayEnd"
  <2>1. r.change = [dispatch |-> "dispatched"]
    BY <1>3 DEF Fits
  <2>2. DOMAIN r.change = {"dispatch"} /\ r.change["dispatch"] = "dispatched"
    BY <2>1
  <2>3. m = [r.mem EXCEPT !.dispatch = "dispatched"]
    BY <1>1, <1>2, <2>2
  <2> QED BY <1>3, <2>3, <1>1 DEF Stored
<1>4. CASE r.after = "release"
  <2>1. PICK s \in Status : r.change = [status |-> s]
    BY <1>4 DEF Fits
  <2>2. DOMAIN r.change = {"status"} /\ r.change["status"] = s
    BY <2>1
  <2>3. m = [r.mem EXCEPT !.status = s]
    BY <1>1, <1>2, <2>2
  <2> QED BY <1>4, <2>3, <1>1 DEF Stored
<1>5. CASE r.after = "authenticate"
  <2>1. PICK n \in Nat : r.change = [status |-> "running", attempts |-> n]
    BY <1>5 DEF Fits
  <2>2. DOMAIN r.change = {"status", "attempts"} /\ r.change["status"] = "running"
        /\ r.change["attempts"] = n
    BY <2>1
  <2>3. m = [r.mem EXCEPT !.status = "running", !.attempts = n]
    BY <1>1, <1>2, <2>2
  <2>4. "running" \in Status /\ "running" \notin Terminal
    BY DEF Status, Terminal
  <2> QED BY <1>5, <2>3, <2>4, <1>1 DEF Stored
<1>6. CASE r.after \in {"authorize", "analyse", "read", "publish"}
  <2>1. r.change = NoChange
    BY <1>6 DEF Fits
  <2>2. DOMAIN r.change = {}
    BY <2>1 DEF NoChange
  <2>3. m = r.mem
    BY <1>1, <1>2, <2>2 DEF Stored
  <2> QED BY <1>6, <2>3
<1> QED BY <1>3, <1>4, <1>5, <1>6 DEF Fits

\* What Goto and Save make of the locals.
LEMMA GotoIs ==
    ASSUME NEW r \in JobLocals, NEW p \in Point
    PROVE  LET q == [r EXCEPT !.pc = p] IN
           q \in JobLocals /\ q.pc = p /\ q.job = r.job /\ q.after = r.after
           /\ q.change = r.change /\ q.mem = r.mem /\ q.outcome = r.outcome
  BY DEF JobLocals

\* What Save makes of them.
LEMMA SavingIs ==
    ASSUME NEW r \in JobLocals, NEW c \in Change, NEW p \in Afterwards
    PROVE  LET q == Saving(r, c, p) IN
           q \in JobLocals /\ q.pc = "saveGet" /\ q.job = r.job /\ q.after = p
           /\ q.change = c /\ q.mem = r.mem /\ q.outcome = r.outcome
  BY DEF JobLocals, Saving, Point, SavePoint

\* A worker that has nothing to do.
LEMMA NotRunningIs == NotRunning \in JobLocals /\ NotRunning.pc = "idle"
  BY DEF NotRunning, JobLocals, Point, Change, NoChange, Afterwards, Outcome

JobCounters == [crash : Nat, outage : Nat, timeout : Nat, stall : Nat, overrun : Nat, fault : Nat]
Queue == [Job -> {"absent", "queued", "running", "done"}]
Rows == [Job -> {"none", "pending", "retrying", "dispatched"}]

JobTypes == /\ job \in [Job -> Stored \cup {NoJob}] /\ outbox \in Rows
         /\ published \in [Key -> Nat] /\ enqueuing \in [Client -> Key \cup {NoKey}]
         /\ arq \in Queue /\ tries \in [Job -> 0..MaxTries]
         /\ L!TableTypeOK /\ run \in [Worker -> JobLocals] /\ counters \in JobCounters

\* What the outbox, the queue or a worker knows of is in the database.
Known == \A j \in Job : outbox[j] # "none" \/ arq[j] # "absent" => job[j] \in Stored
InHand(r) == r.pc # "idle" => job[r.job] \in Stored

TInv == JobTypes /\ Known /\ \A w \in Worker : Sane(run[w]) /\ InHand(run[w])

-----------------------------------------------------------------------------
\* What a worker's step does to the leases.
LeaseStep(w) == \/ UNCHANGED lease
                \/ \E n \in LeaseName : L!Acquire(w, n) \/ L!Renew(w, n) \/ L!Release(w, n)
                \/ L!Abandon(w)

Owned(w, r, t) == /\ Claims(r) => t[JobLease(r.job)].holder = w
                  /\ Relays(r) => t[OutboxLease(r.job)].holder = w

Queues == /\ arq' \in Queue
          /\ \A j \in Job : /\ arq[j] # "absent" => arq'[j] # "absent"
                            /\ arq'[j] # "absent" => arq[j] # "absent" \/ job[j] \in Stored

Marks == /\ outbox' \in Rows
         /\ \A j \in Job : /\ outbox'[j] # "none" => outbox[j] # "none" \/ job[j] \in Stored
                           /\ outbox'[j] = "dispatched" /\ outbox[j] # "dispatched"
                                => arq[j] # "absent"

Counted == counters' \in JobCounters /\ counters'.stall = counters.stall

\* A worker goes on with the locals r, and saves nothing.
Turns(w, r) ==
    /\ run' = [run EXCEPT ![w] = r]
    /\ Sane(r) /\ InHand(r)
    /\ r.pc = "savePut" => /\ run[w].pc = "savePut" /\ r.job = run[w].job
                           /\ r.mem = run[w].mem /\ r.after = run[w].after
    /\ LeaseStep(w)
    /\ Owned(w, run[w], lease) => Owned(w, r, lease')
    /\ Works(r) => \/ Works(run[w]) /\ r.job = run[w].job
                   \/ job[r.job].status \notin Terminal
    /\ r.pc = "relayDispatched" => arq'[r.job] # "absent"

Quiet(w) ==
    /\ \E r \in JobLocals : Turns(w, r)
    /\ Queues /\ Marks /\ Counted
    /\ UNCHANGED <<job, enqueuing>>
    /\ tries' \in [Job -> 0..MaxTries]

-----------------------------------------------------------------------------
\* The lease names are different, and tell their jobs.
LEMMA Names ==
    /\ \A j \in Job : {JobLease(j), OutboxLease(j)} \subseteq LeaseName
    /\ Portfolio \in LeaseName
    /\ \A i, j \in Job : /\ JobLease(i) # OutboxLease(j)
                         /\ JobLease(i) # Portfolio /\ OutboxLease(i) # Portfolio
                         /\ JobLease(i) = JobLease(j) => i = j
                         /\ OutboxLease(i) = OutboxLease(j) => i = j
  BY DEF JobLease, OutboxLease, Portfolio, LeaseName

\* A step on one row leaves the other rows alone.
LEMMA OtherRows ==
    ASSUME JobTypes, NEW w \in Worker, NEW n \in LeaseName,
           L!Acquire(w, n) \/ L!Renew(w, n) \/ L!Release(w, n)
    PROVE  /\ \A m \in LeaseName : m # n => lease'[m] = lease[m]
           /\ L!Acquire(w, n) \/ L!Renew(w, n) => lease'[n].holder = w
  BY DEF JobTypes, L!TableTypeOK, L!Acquire, L!Renew, L!Release, L!Holds, L!HeldBy, L!NoLease

\* What is not touched keeps its part of the invariants.
LEMMA Same ==
    ASSUME JobTypes, Known
    PROVE  /\ UNCHANGED arq => Queues
           /\ UNCHANGED outbox => Marks
           /\ UNCHANGED counters => Counted
  BY DEF JobTypes, Queues, Marks, Counted

\* Only a stall counts as a stall.
LEMMA JobCountIs ==
    ASSUME JobTypes, NEW what \in {"crash", "outage", "timeout", "overrun", "fault"}, NEW bound,
           Count(what, bound)
    PROVE  Counted
  BY DEF JobTypes, Count, JobCounters, Counted

\* The worker stays with its job, and neither takes nor leaves its leases.
LEMMA JobGoes ==
    ASSUME TInv, NEW w \in Worker, NEW r \in JobLocals,
           run' = [run EXCEPT ![w] = r],
           Sane(r), r.pc \notin {"savePut", "relayDispatched"},
           r.job = run[w].job, run[w].pc # "idle",
           Claims(r) => Claims(run[w]), Relays(r) => Relays(run[w]),
           Works(r) => Works(run[w]) \/ job[run[w].job].status \notin Terminal,
           \/ UNCHANGED lease
           \/ L!Acquire(w, Portfolio) \/ L!Release(w, Portfolio)
    PROVE  Turns(w, r)
<1>1. InHand(r) /\ run[w].job \in Job
  BY DEF TInv, InHand, Sane
<1>2. LeaseStep(w)
  BY Names DEF LeaseStep
<1>3. lease'[JobLease(run[w].job)] = lease[JobLease(run[w].job)]
      /\ lease'[OutboxLease(run[w].job)] = lease[OutboxLease(run[w].job)]
  BY <1>1, Names, OtherRows DEF TInv
<1>4. Owned(w, run[w], lease) => Owned(w, r, lease')
  BY <1>3 DEF Owned
<1> QED BY <1>1, <1>2, <1>4 DEF Turns

\* The worker has nothing in hand any more.
LEMMA Rests ==
    ASSUME NEW w \in Worker, NEW r \in JobLocals, r.pc = "idle",
           run' = [run EXCEPT ![w] = r], LeaseStep(w)
    PROVE  Turns(w, r)
  BY DEF Turns, Sane, InHand, Owned, Claims, Relays, Works, ClaimPoint, RelayPoint, SavePoint

\* The facts about the points that the steps below need.
LEMMA Points ==
    /\ ClaimPoint \subseteq Point /\ RelayPoint \subseteq Point /\ SavePoint \subseteq Point
    /\ {"idle", "relayLease", "load", "claim", "ack"} \subseteq Point
    /\ {"failed", "expired", "completed", "needs_inputs", "retrying", "running"}
         \subseteq Status
    /\ {"queued", "running", "retrying"} \cap Terminal = {}
  BY DEF Point, Status, Terminal

\* Which changes a save can put over the record.
LEMMA Changes ==
    /\ [dispatch |-> "dispatched"] \in Change /\ Fits([dispatch |-> "dispatched"], "relayEnd")
    /\ NoChange \in Change
    /\ \A a \in {"authorize", "analyse", "read", "publish"} : Fits(NoChange, a)
    /\ \A s \in Status : [status |-> s] \in Change /\ Fits([status |-> s], "release")
    /\ \A n \in Nat : /\ [status |-> "running", attempts |-> n] \in Change
                      /\ Fits([status |-> "running", attempts |-> n], "authenticate")
  BY DEF Change, Fits

\* A worker that has a job saves it.
LEMMA Saves ==
    ASSUME TInv, NEW w \in Worker, NEW r \in JobLocals, NEW c \in Change, NEW a \in Afterwards,
           run' = [run EXCEPT ![w] = Saving(r, c, a)], Fits(c, a),
           r.job = run[w].job, run[w].pc # "idle", UNCHANGED lease,
           IF a = "relayEnd" THEN Relays(run[w])
           ELSE /\ Claims(run[w])
                /\ Works(run[w]) \/ job[run[w].job].status \notin Terminal
    PROVE  \E q \in JobLocals : Turns(w, q)
<1> DEFINE q == Saving(r, c, a)
<1>1. q \in JobLocals /\ q.pc = "saveGet" /\ q.job = r.job /\ q.after = a /\ q.change = c
  BY SavingIs
<1>2. Sane(q)
  BY <1>1 DEF Sane, TInv, Fits
<1>3. /\ Claims(q) <=> a # "relayEnd"
      /\ Relays(q) <=> a = "relayEnd"
      /\ Works(q) <=> a # "relayEnd"
  BY <1>1 DEF Claims, Relays, Works, ClaimPoint, RelayPoint, SavePoint
<1>4. run' = [run EXCEPT ![w] = q]
  OBVIOUS
<1>5. q.pc # "idle" /\ q.pc \notin {"savePut", "relayDispatched"} /\ q.job = run[w].job
  BY <1>1
<1> HIDE DEF q
<1>6. Turns(w, q)
  BY <1>1, <1>2, <1>3, <1>4, <1>5, JobGoes
<1> QED BY <1>1, <1>6

\* The two ways on that most steps have.
LEMMA GoesTo ==
    ASSUME TInv, NEW w \in Worker, NEW p \in Point, Goto(w, p),
           p \notin {"savePut", "saveGet", "relayDispatched", "unwind", "settle"},
           run[w].pc # "idle",
           p \in ClaimPoint => Claims(run[w]), p \in RelayPoint => Relays(run[w]),
           p \in ClaimPoint \ {"start", "release"} =>
               Works(run[w]) \/ job[run[w].job].status \notin Terminal,
           \/ UNCHANGED lease
           \/ L!Acquire(w, Portfolio) \/ L!Release(w, Portfolio)
    PROVE  \E r \in JobLocals : Turns(w, r)
<1> DEFINE q == [run[w] EXCEPT !.pc = p]
<1>1. run[w] \in JobLocals
  BY DEF TInv, JobTypes
<1>2. q \in JobLocals /\ q.pc = p /\ q.job = run[w].job
  BY <1>1, GotoIs
<1>3. run' = [run EXCEPT ![w] = q]
  BY DEF Goto
<1>4. Sane(q)
  BY <1>2 DEF Sane, TInv, SavePoint
<1>5. /\ Claims(q) <=> p \in ClaimPoint
      /\ Relays(q) <=> p \in RelayPoint
      /\ Works(q) <=> p \in ClaimPoint \ {"start", "release"}
  BY <1>2 DEF Claims, Relays, Works, SavePoint
<1> HIDE DEF q
<1>6. Turns(w, q)
  BY <1>2, <1>3, <1>4, <1>5, JobGoes
<1> QED BY <1>2, <1>6

-----------------------------------------------------------------------------
\* The steps of a relay.
LEMMA PickQuiet ==
    ASSUME TInv, NEW w \in Worker, NEW j \in Job, RelayPick(w, j) PROVE Quiet(w)
<1> DEFINE q == [run[w] EXCEPT !.job = j, !.pc = "relayLease"]
<1>1. run[w] \in JobLocals /\ job[j] \in Stored
  BY DEF TInv, JobTypes, Known, RelayPick, Waiting
<1>2. q \in JobLocals /\ q.pc = "relayLease" /\ q.job = j
  BY <1>1, Points DEF JobLocals
<1>3. run' = [run EXCEPT ![w] = q]
  BY DEF RelayPick
<1> HIDE DEF q
<1>4. ~Claims(q) /\ ~Relays(q) /\ ~Works(q) /\ Sane(q) /\ InHand(q)
  BY <1>1, <1>2 DEF Claims, Relays, Works, ClaimPoint, RelayPoint, SavePoint, Sane, InHand
<1>5. Turns(w, q)
  BY <1>2, <1>3, <1>4 DEF Turns, RelayPick, LeaseStep, Owned
<1> QED BY <1>2, <1>5, Same DEF Quiet, RelayPick, storeVars, queueVars, TInv, JobTypes

\* The relay takes the lease of the row, or leaves it to another.
LEMMA RelayLeaseQuiet ==
    ASSUME TInv, NEW w \in Worker, RelayLease(w) PROVE Quiet(w)
<1>1. run[w] \in JobLocals /\ run[w].job \in Job /\ job[run[w].job] \in Stored
  BY DEF TInv, JobTypes, InHand, Sane, RelayLease, At
<1>2. CASE L!Acquire(w, OutboxLease(MyJob(w))) /\ Goto(w, "relayEnqueue")
  <2> DEFINE q == [run[w] EXCEPT !.pc = "relayEnqueue"]
  <2>1. q \in JobLocals /\ q.pc = "relayEnqueue" /\ q.job = run[w].job
    BY <1>1, Points, GotoIs DEF RelayPoint
  <2>2. run' = [run EXCEPT ![w] = q]
    BY <1>2 DEF Goto
  <2> HIDE DEF q
  <2>3. ~Claims(q) /\ ~Works(q) /\ Sane(q) /\ InHand(q)
    BY <1>1, <2>1 DEF Claims, Works, ClaimPoint, SavePoint, Sane, InHand
  <2>4. OutboxLease(run[w].job) \in LeaseName
    BY <1>1, Names
  <2>5. lease'[OutboxLease(run[w].job)].holder = w
    BY <1>2, <2>4, OtherRows DEF TInv, MyJob
  <2>6. Turns(w, q)
    BY <1>2, <2>1, <2>2, <2>3, <2>4, <2>5 DEF Turns, LeaseStep, Owned, MyJob
  <2> QED BY <2>1, <2>6, Same DEF Quiet, RelayLease, storeVars, queueVars, TInv, JobTypes
<1>3. CASE run' = [run EXCEPT ![w] = NotRunning] /\ UNCHANGED lease
  <2>1. Turns(w, NotRunning)
    BY <1>3, NotRunningIs, Rests DEF LeaseStep
  <2> QED BY <2>1, NotRunningIs, Same DEF Quiet, RelayLease, storeVars, queueVars, TInv, JobTypes
<1> QED BY <1>2, <1>3 DEF RelayLease

\* enqueue_job comes back, and ARQ has the job, or it raises.
LEMMA RelayEnqueueQuiet ==
    ASSUME TInv, NEW w \in Worker, RelayEnqueue(w) PROVE Quiet(w)
<1>1. run[w] \in JobLocals /\ run[w].job \in Job /\ job[run[w].job] \in Stored
  BY DEF TInv, JobTypes, InHand, Sane, RelayEnqueue, At
<1>2. Relays(run[w]) /\ run[w].pc # "idle"
  BY DEF RelayEnqueue, At, Relays, RelayPoint
<1>3. CASE ArqEnqueue(MyJob(w)) /\ Goto(w, "relayDispatched") /\ UNCHANGED counters
  <2> DEFINE q == [run[w] EXCEPT !.pc = "relayDispatched"]
  <2>1. q \in JobLocals /\ q.pc = "relayDispatched" /\ q.job = run[w].job
    BY <1>1, Points, GotoIs DEF RelayPoint
  <2>2. run' = [run EXCEPT ![w] = q]
    BY <1>3 DEF Goto
  <2> HIDE DEF q
  <2>3. ~Claims(q) /\ ~Works(q) /\ Sane(q) /\ InHand(q)
    BY <1>1, <2>1 DEF Claims, Works, ClaimPoint, SavePoint, Sane, InHand
  <2>4. Queues /\ arq'[run[w].job] # "absent"
    BY <1>1, <1>3 DEF Queues, ArqEnqueue, MyJob, Queue, TInv, JobTypes
  <2>5. Turns(w, q)
    BY <1>2, <2>1, <2>2, <2>3, <2>4 DEF Turns, LeaseStep, Owned, RelayEnqueue
  <2> QED BY <1>3, <2>1, <2>4, <2>5, Same
          DEF Quiet, RelayEnqueue, storeVars, TInv, JobTypes
<1>4. CASE Count("outage", MaxOutages) /\ Goto(w, "relayFailed") /\ UNCHANGED arq
  <2>1. \E r \in JobLocals : Turns(w, r)
    BY <1>2, <1>4, Points, GoesTo DEF RelayPoint, ClaimPoint, RelayEnqueue
  <2>2. Counted
    BY <1>4, JobCountIs DEF TInv
  <2> QED BY <1>4, <2>1, <2>2, Same DEF Quiet, RelayEnqueue, storeVars, TInv, JobTypes
<1> QED BY <1>3, <1>4 DEF RelayEnqueue

\* A failed enqueue leaves the row to be tried again.
LEMMA RelayFailedQuiet ==
    ASSUME TInv, NEW w \in Worker, RelayFailed(w) PROVE Quiet(w)
<1>1. run[w] \in JobLocals /\ run[w].job \in Job /\ job[run[w].job] \in Stored
  BY DEF TInv, JobTypes, InHand, Sane, RelayFailed, At
<1>2. Relays(run[w]) /\ run[w].pc # "idle"
  BY DEF RelayFailed, At, Relays, RelayPoint
<1>3. \E r \in JobLocals : Turns(w, r)
  BY <1>2, Points, GoesTo DEF RelayPoint, ClaimPoint, RelayFailed
<1>4. Marks
  BY <1>1 DEF Marks, RelayFailed, MyJob, Rows, TInv, JobTypes
<1> QED BY <1>3, <1>4, Same DEF Quiet, RelayFailed, queueVars, TInv, JobTypes

\* A row is marked only by a worker whose enqueue_job came back.
LEMMA RelayDispatchedQuiet ==
    ASSUME TInv, NEW w \in Worker, RelayDispatched(w), arq[run[w].job] # "absent"
    PROVE  Quiet(w)
<1>1. run[w] \in JobLocals /\ run[w].job \in Job /\ job[run[w].job] \in Stored
  BY DEF TInv, JobTypes, InHand, Sane, RelayDispatched, At
<1>2. Relays(run[w]) /\ run[w].pc # "idle"
  BY DEF RelayDispatched, At, Relays, RelayPoint
<1>3. "relayEnd" \in Afterwards
  BY DEF Afterwards
<1>4. \E q \in JobLocals : Turns(w, q)
  BY <1>1, <1>2, <1>3, Changes, Saves DEF RelayDispatched, Save
<1>5. Marks
  BY <1>1 DEF Marks, RelayDispatched, MyJob, Rows, TInv, JobTypes
<1> QED BY <1>4, <1>5, Same DEF Quiet, RelayDispatched, queueVars, TInv, JobTypes

\* The relay gives up the lease of the row.
LEMMA RelayEndQuiet ==
    ASSUME TInv, NEW w \in Worker, RelayEnd(w) PROVE Quiet(w)
<1>1. run[w].job \in Job
  BY DEF TInv, Sane, RelayEnd, At
<1>2. Turns(w, NotRunning)
  BY <1>1, Names, NotRunningIs, Rests DEF LeaseStep, RelayEnd, MyJob
<1> QED BY <1>2, NotRunningIs, Same DEF Quiet, RelayEnd, storeVars, queueVars, TInv, JobTypes

-----------------------------------------------------------------------------
\* The steps of a delivery: ARQ hands over a job that is stored.
LEMMA DeliverQuiet ==
    ASSUME TInv, NEW w \in Worker, NEW j \in Job, Deliver(w, j) PROVE Quiet(w)
<1>1. run[w] \in JobLocals /\ job[j] \in Stored /\ run[w].pc = "idle"
  BY DEF TInv, JobTypes, Known, Deliver, At
<1>2. Queues
  BY <1>1 DEF Queues, Deliver, Queue, TInv, JobTypes
<1>3. CASE TriesLeft(j)
  <2> DEFINE q == [run[w] EXCEPT !.job = j, !.pc = "load"]
  <2>1. q \in JobLocals /\ q.pc = "load" /\ q.job = j
    BY <1>1, Points DEF JobLocals
  <2>2. run' = [run EXCEPT ![w] = q]
    BY <1>3 DEF Deliver
  <2> HIDE DEF q
  <2>3. ~Claims(q) /\ ~Relays(q) /\ ~Works(q) /\ Sane(q) /\ InHand(q)
    BY <1>1, <2>1 DEF Claims, Relays, Works, ClaimPoint, RelayPoint, SavePoint, Sane, InHand
  <2>4. Turns(w, q)
    BY <2>1, <2>2, <2>3 DEF Turns, Deliver, LeaseStep, Owned
  <2>5. tries' \in [Job -> 0..MaxTries]
    BY <1>3, JobConstants DEF Deliver, TriesLeft, TInv, JobTypes
  <2> QED BY <1>2, <2>1, <2>4, <2>5, Same DEF Quiet, Deliver, storeVars, TInv
<1>4. CASE ~TriesLeft(j)
  <2>1. run' = [run EXCEPT ![w] = run[w]]
    BY <1>4 DEF Deliver, TInv, JobTypes
  <2>2. Turns(w, run[w])
    BY <1>1, <2>1, Rests DEF Deliver, LeaseStep
  <2> QED BY <1>1, <1>2, <1>4, <2>2, Same DEF Quiet, Deliver, storeVars, TInv, JobTypes
<1> QED BY <1>3, <1>4

\* run_analysis_job before its try block.
LEMMA LoadQuiet ==
    ASSUME TInv, NEW w \in Worker, Load(w) PROVE Quiet(w)
<1>1. \E r \in JobLocals : Turns(w, r)
  <2>1. PICK p \in {"ack", "claim"} : Goto(w, p)
    BY DEF Load
  <2> QED BY <2>1, Points, GoesTo DEF RelayPoint, ClaimPoint, Load, At
<1> QED BY <1>1, Same DEF Quiet, Load, storeVars, queueVars, TInv, JobTypes

\* A runner has the lease of its job from here on.
LEMMA ClaimQuiet ==
    ASSUME TInv, NEW w \in Worker, Claim(w) PROVE Quiet(w)
<1>1. run[w] \in JobLocals /\ run[w].job \in Job /\ job[run[w].job] \in Stored
  BY DEF TInv, JobTypes, InHand, Sane, Claim, At
<1>2. CASE L!Acquire(w, JobLease(MyJob(w))) /\ Goto(w, "start")
  <2> DEFINE q == [run[w] EXCEPT !.pc = "start"]
  <2>1. q \in JobLocals /\ q.pc = "start" /\ q.job = run[w].job
    BY <1>1, Points, GotoIs DEF ClaimPoint
  <2>2. run' = [run EXCEPT ![w] = q]
    BY <1>2 DEF Goto
  <2> HIDE DEF q
  <2>3. ~Relays(q) /\ ~Works(q) /\ Sane(q) /\ InHand(q)
    BY <1>1, <2>1 DEF Relays, Works, RelayPoint, SavePoint, Sane, InHand
  <2>4. JobLease(run[w].job) \in LeaseName
    BY <1>1, Names
  <2>5. lease'[JobLease(run[w].job)].holder = w
    BY <1>2, <2>4, OtherRows DEF TInv, MyJob
  <2>6. Turns(w, q)
    BY <1>2, <2>1, <2>2, <2>3, <2>4, <2>5 DEF Turns, LeaseStep, Owned, MyJob
  <2> QED BY <2>1, <2>6, Same DEF Quiet, Claim, storeVars, queueVars, TInv, JobTypes
<1>3. CASE Goto(w, "ack") /\ UNCHANGED lease
  <2>1. \E r \in JobLocals : Turns(w, r)
    BY <1>3, Points, GoesTo DEF RelayPoint, ClaimPoint, Claim, At
  <2> QED BY <2>1, Same DEF Quiet, Claim, storeVars, queueVars, TInv, JobTypes
<1> QED BY <1>2, <1>3 DEF Claim

\* A job that has not ended when its lease is taken is open.
LEMMA StartQuiet ==
    ASSUME TInv, NEW w \in Worker, Start(w) PROVE Quiet(w)
<1>1. run[w] \in JobLocals /\ run[w].job \in Job /\ job[run[w].job] \in Stored
  BY DEF TInv, JobTypes, InHand, Sane, Start, At
<1>2. Claims(run[w]) /\ run[w].pc # "idle"
  BY DEF Start, At, Claims, ClaimPoint
<1>3. \E r \in JobLocals : Turns(w, r)
  <2>1. CASE AlreadyEnded(w)
    BY <1>2, <2>1, Points, GoesTo DEF RelayPoint, ClaimPoint, Start
  <2>2. CASE ~AlreadyEnded(w)
    <3> DEFINE n == job[run[w].job].attempts + 1
               c == [status |-> "running", attempts |-> n]
    <3>1. n \in Nat
      BY <1>1 DEF Stored
    <3>2. c \in Change /\ Fits(c, "authenticate") /\ "authenticate" \in Afterwards
      BY <3>1, Changes DEF Afterwards
    <3>3. run' = [run EXCEPT ![w] = Saving(run[w], c, "authenticate")] /\ UNCHANGED lease
      BY <2>2 DEF Start, Save, MyJob
    <3>4. job[run[w].job].status \notin Terminal
      BY <2>2 DEF AlreadyEnded, MyJob
    <3> HIDE DEF c
    <3> QED BY <1>1, <1>2, <3>2, <3>3, <3>4, Saves
  <2> QED BY <2>1, <2>2
<1> QED BY <1>3, Same DEF Quiet, Start, storeVars, queueVars, TInv, JobTypes

-----------------------------------------------------------------------------
\* The handlers of run_analysis_job, for a worker that has found its job open.
LEMMA EndTurns ==
    ASSUME TInv, NEW w \in Worker, NEW s \in Status, Works(run[w]), End(w, s),
           UNCHANGED lease
    PROVE  \E r \in JobLocals : Turns(w, r)
<1>1. run[w] \in JobLocals
  BY DEF TInv, JobTypes
<1>2. Claims(run[w]) /\ run[w].pc # "idle"
  BY DEF Works, Claims, ClaimPoint, SavePoint
<1>3. [status |-> s] \in Change /\ Fits([status |-> s], "release") /\ "release" \in Afterwards
  BY Changes DEF Afterwards
<1>4. run' = [run EXCEPT ![w] = Saving(run[w], [status |-> s], "release")]
  BY DEF End, Save
<1> QED BY <1>1, <1>2, <1>3, <1>4, Saves

\* A failure that is retried, or the last one.
LEMMA RetryTurns ==
    ASSUME TInv, NEW w \in Worker, Works(run[w]), RetryOrFail(w), UNCHANGED lease
    PROVE  \E r \in JobLocals : Turns(w, r)
<1>1. run[w] \in JobLocals
  BY DEF TInv, JobTypes
<1>2. Claims(run[w]) /\ run[w].pc # "idle"
  BY DEF Works, Claims, ClaimPoint, SavePoint
<1>3. CASE run[w].attempt < MaxJobAttempts
  <2> DEFINE r == [run[w] EXCEPT !.ack = "retry"]
             c == [status |-> "retrying"]
  <2>1. r \in JobLocals /\ r.job = run[w].job
    BY <1>1 DEF JobLocals
  <2>2. c \in Change /\ Fits(c, "release") /\ "release" \in Afterwards
    BY Changes, Points DEF Afterwards
  <2>3. run' = [run EXCEPT ![w] = Saving(r, c, "release")]
    BY <1>3 DEF RetryOrFail
  <2> HIDE DEF r, c
  <2> QED BY <1>2, <2>1, <2>2, <2>3, Saves
<1>4. CASE ~(run[w].attempt < MaxJobAttempts)
  BY <1>4, Points, EndTurns DEF RetryOrFail
<1> QED BY <1>3, <1>4

\* A lost lease or a cancelled delivery: nothing is saved any more.
LEMMA LostTurns ==
    ASSUME TInv, NEW w \in Worker, Works(run[w]), UNCHANGED lease,
           NEW a \in {"done", "retry"},
           run' = [run EXCEPT ![w].ack = a, ![w].pc = "release"]
    PROVE  \E r \in JobLocals : Turns(w, r)
<1> DEFINE q == [run[w] EXCEPT !.ack = a, !.pc = "release"]
<1>1. run[w] \in JobLocals /\ run[w].job \in Job
  BY DEF TInv, JobTypes, Sane, Works, Claims, ClaimPoint, SavePoint
<1>2. Claims(run[w]) /\ run[w].pc # "idle"
  BY DEF Works, Claims, ClaimPoint, SavePoint
<1>3. q \in JobLocals /\ q.pc = "release" /\ q.job = run[w].job
  BY <1>1, Points DEF JobLocals, ClaimPoint
<1>4. run' = [run EXCEPT ![w] = q]
  OBVIOUS
<1> HIDE DEF q
<1>5. Sane(q) /\ ~Relays(q) /\ ~Works(q)
  BY <1>1, <1>3 DEF Sane, Relays, Works, SavePoint, RelayPoint
<1>6. Turns(w, q)
  BY <1>2, <1>3, <1>4, <1>5, JobGoes
<1> QED BY <1>3, <1>6

\* run_analysis is left by its `finally`.
LEMMA FinishTurns ==
    ASSUME TInv, NEW w \in Worker, Works(run[w]), NEW o \in Outcome \ {"none"},
           NEW p \in {"unwind", "settle"},
           run' = [run EXCEPT ![w].outcome = o, ![w].pc = p], UNCHANGED lease
    PROVE  \E r \in JobLocals : Turns(w, r)
<1> DEFINE q == [run[w] EXCEPT !.outcome = o, !.pc = p]
<1>1. run[w] \in JobLocals /\ run[w].job \in Job
  BY DEF TInv, JobTypes, Sane, Works, Claims, ClaimPoint, SavePoint
<1>2. Claims(run[w]) /\ run[w].pc # "idle"
  BY DEF Works, Claims, ClaimPoint, SavePoint
<1>3. q \in JobLocals /\ q.pc = p /\ q.job = run[w].job /\ q.outcome = o
  BY <1>1, Points DEF JobLocals, ClaimPoint
<1>4. run' = [run EXCEPT ![w] = q]
  OBVIOUS
<1> HIDE DEF q
<1>5. Sane(q) /\ ~Relays(q)
  BY <1>1, <1>3 DEF Sane, Relays, SavePoint, RelayPoint
<1>6. Turns(w, q)
  BY <1>2, <1>3, <1>4, <1>5, JobGoes
<1> QED BY <1>3, <1>6

\* A save that changes nothing.
LEMMA KeepTurns ==
    ASSUME TInv, NEW w \in Worker, Works(run[w]), UNCHANGED lease,
           NEW a \in {"authorize", "analyse", "read", "publish"}, Save(w, NoChange, a)
    PROVE  \E r \in JobLocals : Turns(w, r)
<1>1. run[w] \in JobLocals
  BY DEF TInv, JobTypes
<1>2. Claims(run[w]) /\ run[w].pc # "idle"
  BY DEF Works, Claims, ClaimPoint, SavePoint
<1>3. NoChange \in Change /\ Fits(NoChange, a) /\ a \in Afterwards /\ a # "relayEnd"
  BY Changes DEF Afterwards
<1>4. run' = [run EXCEPT ![w] = Saving(run[w], NoChange, a)]
  BY DEF Save
<1> QED BY <1>1, <1>2, <1>3, <1>4, Saves

\* The steps of run_analysis_job up to the analysis.
LEMMA AuthenticateQuiet ==
    ASSUME TInv, NEW w \in Worker, Authenticate(w) PROVE Quiet(w)
<1>1. Works(run[w]) /\ UNCHANGED lease
  BY DEF Authenticate, At, Works, Claims, ClaimPoint
<1>2. CASE Save(w, NoChange, "authorize") /\ UNCHANGED counters
  <2>1. \E r \in JobLocals : Turns(w, r)
    BY <1>1, <1>2, KeepTurns
  <2> QED BY <1>2, <2>1, Same DEF Quiet, Authenticate, storeVars, queueVars, TInv, JobTypes
<1>3. CASE \E s \in {"expired", "failed"} : End(w, s) /\ UNCHANGED counters
  <2>1. \E r \in JobLocals : Turns(w, r)
    BY <1>1, <1>3, Points, EndTurns
  <2> QED BY <1>3, <2>1, Same DEF Quiet, Authenticate, storeVars, queueVars, TInv, JobTypes
<1>4. CASE Count("fault", MaxFaults) /\ RetryOrFail(w)
  <2>1. \E r \in JobLocals : Turns(w, r)
    BY <1>1, <1>4, RetryTurns
  <2>2. Counted
    BY <1>4, JobCountIs DEF TInv
  <2> QED BY <2>1, <2>2, Same DEF Quiet, Authenticate, storeVars, queueVars, TInv, JobTypes
<1> QED BY <1>2, <1>3, <1>4 DEF Authenticate

\* The permissions of the session are read.
LEMMA AuthorizeQuiet ==
    ASSUME TInv, NEW w \in Worker, Authorize(w) PROVE Quiet(w)
<1>1. Works(run[w]) /\ UNCHANGED lease
  BY DEF Authorize, At, Works, Claims, ClaimPoint
<1>2. \E r \in JobLocals : Turns(w, r)
  <2>1. CASE End(w, "failed")
    BY <1>1, <2>1, Points, EndTurns
  <2>2. CASE LeaseLost(w)
    BY <1>1, <2>2, LostTurns DEF LeaseLost
  <2>3. CASE Save(w, NoChange, "analyse")
    BY <1>1, <2>3, KeepTurns
  <2> QED BY <2>1, <2>2, <2>3 DEF Authorize
<1> QED BY <1>2, Same DEF Quiet, Authorize, storeVars, queueVars, TInv, JobTypes

\* The portfolio lease is taken, or the analysis refused.
LEMMA AnalyseQuiet ==
    ASSUME TInv, NEW w \in Worker, Analyse(w) PROVE Quiet(w)
<1>1. Works(run[w]) /\ Claims(run[w]) /\ run[w].pc # "idle"
  BY DEF Analyse, At, Works, Claims, ClaimPoint
<1>2. CASE L!Acquire(w, Portfolio) /\ Goto(w, "lookup")
  <2>1. \E r \in JobLocals : Turns(w, r)
    BY <1>1, <1>2, Points, GoesTo DEF ClaimPoint, RelayPoint
  <2> QED BY <2>1, Same DEF Quiet, Analyse, storeVars, queueVars, TInv, JobTypes
<1>3. CASE run' = [run EXCEPT ![w].outcome = "failed", ![w].pc = "settle"] /\ UNCHANGED lease
  <2>1. \E r \in JobLocals : Turns(w, r)
    BY <1>1, <1>3, FinishTurns DEF Outcome
  <2> QED BY <2>1, Same DEF Quiet, Analyse, storeVars, queueVars, TInv, JobTypes
<1> QED BY <1>2, <1>3 DEF Analyse

\* A step of an open job that ends in run_analysis's `finally`, or goes on.
LEMMA OnTurns ==
    ASSUME TInv, NEW w \in Worker, Works(run[w]), UNCHANGED lease,
           \/ \E o \in Outcome \ {"none"} : Finish(w, o)
           \/ \E p \in {"report", "publishing"} : Goto(w, p)
           \/ \E a \in {"read", "publish"} : Save(w, NoChange, a)
    PROVE  \E r \in JobLocals : Turns(w, r)
<1>1. Claims(run[w]) /\ run[w].pc # "idle"
  BY DEF Works, Claims, ClaimPoint, SavePoint
<1>2. CASE \E o \in Outcome \ {"none"} : Finish(w, o)
  BY <1>2, FinishTurns DEF Finish
<1>3. ASSUME NEW p \in {"report", "publishing"}, Goto(w, p)
      PROVE  \E r \in JobLocals : Turns(w, r)
  BY <1>1, <1>3, Points, GoesTo DEF ClaimPoint, RelayPoint
<1>4. CASE \E a \in {"read", "publish"} : Save(w, NoChange, a)
  BY <1>4, KeepTurns
<1> QED BY <1>2, <1>3, <1>4

\* An analysis of the key that exists already ends the run.
LEMMA LookupQuiet ==
    ASSUME TInv, NEW w \in Worker, Lookup(w) PROVE Quiet(w)
<1>1. Works(run[w]) /\ UNCHANGED lease
  BY DEF Lookup, At, Works, Claims, ClaimPoint
<1>2. Finish(w, "completed") \/ Goto(w, "report")
  BY DEF Lookup
<1>3. \E r \in JobLocals : Turns(w, r)
  BY <1>1, <1>2, OnTurns DEF Outcome
<1> QED BY <1>3, Same DEF Quiet, Lookup, storeVars, queueVars, TInv, JobTypes

\* A milestone asks whether the job is still this run's.
LEMMA ReportQuiet ==
    ASSUME TInv, NEW w \in Worker, Report(w) PROVE Quiet(w)
<1>1. Works(run[w]) /\ UNCHANGED lease
  BY DEF Report, At, Works, Claims, ClaimPoint
<1>2. Finish(w, "lost") \/ \E a \in {"read", "publish"} : Save(w, NoChange, a)
  BY DEF Report
<1>3. \E r \in JobLocals : Turns(w, r)
  BY <1>1, <1>2, OnTurns DEF Outcome
<1> QED BY <1>3, Same DEF Quiet, Report, storeVars, queueVars, TInv, JobTypes

\* Reading and simulating may end the run in each of its ways.
LEMMA ReadQuiet ==
    ASSUME TInv, NEW w \in Worker, Read(w) PROVE Quiet(w)
<1>1. Works(run[w]) /\ UNCHANGED lease
  BY DEF Read, At, Works, Claims, ClaimPoint
<1>2. \/ Goto(w, "publishing")
      \/ \E o \in {"needs_inputs", "failed", "expired", "fault"} : Finish(w, o)
  BY DEF Read
<1>3. \E r \in JobLocals : Turns(w, r)
  BY <1>1, <1>2, OnTurns DEF Outcome
<1>4. Counted
  BY JobCountIs, Same DEF Read, TInv
<1> QED BY <1>3, <1>4, Same DEF Quiet, Read, storeVars, queueVars, TInv, JobTypes

\* Publishing, and what may raise after it.
LEMMA PublishQuiet ==
    ASSUME TInv, NEW w \in Worker, Publish(w) PROVE Quiet(w)
<1>1. Works(run[w]) /\ UNCHANGED lease
  BY DEF Publish, At, Works, Claims, ClaimPoint
<1>2. Finish(w, "completed") \/ Finish(w, "fault")
  BY DEF Publish
<1>3. \E r \in JobLocals : Turns(w, r)
  BY <1>1, <1>2, OnTurns DEF Outcome
<1>4. Counted
  BY JobCountIs, Same DEF Publish, TInv
<1> QED BY <1>3, <1>4, Same DEF Quiet, Publish, queueVars, TInv, JobTypes

\* The portfolio lease is given up, the job's is kept.
LEMMA UnwindQuiet ==
    ASSUME TInv, NEW w \in Worker, Unwind(w) PROVE Quiet(w)
<1> DEFINE q == [run[w] EXCEPT !.pc = "settle"]
<1>1. /\ Works(run[w]) /\ Claims(run[w]) /\ run[w].pc # "idle"
      /\ run[w] \in JobLocals /\ run[w].outcome # "none"
  BY DEF Unwind, At, Works, Claims, ClaimPoint, TInv, JobTypes, Sane
<1>2. q \in JobLocals /\ q.pc = "settle" /\ q.job = run[w].job /\ q.outcome = run[w].outcome
  BY <1>1, Points, GotoIs DEF ClaimPoint
<1>3. run' = [run EXCEPT ![w] = q]
  BY DEF Unwind, Goto
<1> HIDE DEF q
<1>4. Sane(q) /\ ~Relays(q)
  BY <1>1, <1>2 DEF Sane, SavePoint, Relays, RelayPoint, TInv
<1>5. Turns(w, q)
  BY <1>1, <1>2, <1>3, <1>4, JobGoes DEF Unwind
<1> QED BY <1>2, <1>5, Same DEF Quiet, Unwind, storeVars, queueVars, TInv, JobTypes

\* Each outcome has its handler.
LEMMA SettleQuiet ==
    ASSUME TInv, NEW w \in Worker, Settle(w) PROVE Quiet(w)
<1>1. Works(run[w]) /\ UNCHANGED lease
  BY DEF Settle, At, Works, Claims, ClaimPoint
<1>2. run[w].outcome \in Outcome \ {"none"}
  BY DEF TInv, JobTypes, Sane, JobLocals, Settle, At
<1>3. LeaseLost(w) \/ RetryOrFail(w) \/ \E s \in Status : End(w, s)
  BY <1>2, Points DEF Settle, Outcome, TerminalStatus
<1>4. \E r \in JobLocals : Turns(w, r)
  <2>1. CASE LeaseLost(w)
    BY <1>1, <2>1, LostTurns DEF LeaseLost
  <2>2. CASE RetryOrFail(w)
    BY <1>1, <2>2, RetryTurns
  <2>3. CASE \E s \in Status : End(w, s)
    BY <1>1, <2>3, EndTurns
  <2> QED BY <1>3, <2>1, <2>2, <2>3
<1> QED BY <1>4, Same DEF Quiet, Settle, storeVars, queueVars, TInv, JobTypes

\* No handler catches a cancellation.
LEMMA CancelledQuiet ==
    ASSUME TInv, NEW w \in Worker, Cancelled(w) PROVE Quiet(w)
<1>1. Works(run[w]) /\ UNCHANGED lease
  BY DEF Cancelled, Works, Claims, ClaimPoint
<1>2. \E r \in JobLocals : Turns(w, r)
  BY <1>1, LostTurns DEF Cancelled
<1>3. Counted
  BY JobCountIs DEF Cancelled, TInv
<1> QED BY <1>2, <1>3, Same DEF Quiet, Cancelled, storeVars, queueVars, TInv, JobTypes

\* The lease of the job is given up.
LEMMA ReleaseQuiet ==
    ASSUME TInv, NEW w \in Worker, Release(w) PROVE Quiet(w)
<1> DEFINE q == [run[w] EXCEPT !.pc = "ack"]
<1>1. /\ run[w] \in JobLocals /\ run[w].job \in Job /\ job[run[w].job] \in Stored
  BY DEF TInv, JobTypes, InHand, Sane, Release, At
<1>2. q \in JobLocals /\ q.pc = "ack" /\ q.job = run[w].job
  BY <1>1, Points, GotoIs
<1>3. run' = [run EXCEPT ![w] = q]
  BY DEF Release, Goto
<1> HIDE DEF q
<1>4. ~Claims(q) /\ ~Relays(q) /\ ~Works(q) /\ Sane(q) /\ InHand(q)
  BY <1>1, <1>2 DEF Claims, Relays, Works, ClaimPoint, RelayPoint, SavePoint, Sane, InHand
<1>5. LeaseStep(w)
  BY <1>1, Names DEF Release, LeaseStep, MyJob
<1>6. Turns(w, q)
  BY <1>2, <1>3, <1>4, <1>5 DEF Turns, Owned
<1> QED BY <1>2, <1>6, Same DEF Quiet, Release, storeVars, queueVars, TInv, JobTypes

\* ARQ is told, and keeps the job in its memory.
LEMMA AckQuiet ==
    ASSUME TInv, NEW w \in Worker, Ack(w) PROVE Quiet(w)
<1>1. run[w].job \in Job /\ job[run[w].job] \in Stored
  BY DEF TInv, InHand, Sane, Ack, At
<1>2. Turns(w, NotRunning)
  BY NotRunningIs, Rests DEF LeaseStep, Ack
<1>3. Queues
  BY <1>1 DEF Queues, Ack, MyJob, Queue, TInv, JobTypes
<1> QED BY <1>2, <1>3, NotRunningIs, Same DEF Quiet, Ack, storeVars, TInv, JobTypes

-----------------------------------------------------------------------------
\* The renewal task runs beside the job, also between the transactions of a save.
LEMMA RenewQuiet ==
    ASSUME TInv, NEW w \in Worker, RenewTask(w) PROVE Quiet(w)
<1>1. /\ run[w] \in JobLocals /\ run[w].job \in Job /\ job[run[w].job] \in Stored
      /\ Claims(run[w])
  BY HasClaimIs DEF RenewTask, TInv, JobTypes, InHand, Sane, Claims, ClaimPoint, SavePoint
<1>2. CASE L!Renew(w, JobLease(MyJob(w))) /\ UNCHANGED run
  <2>1. JobLease(run[w].job) \in LeaseName
    BY <1>1, Names
  <2>2. run' = [run EXCEPT ![w] = run[w]]
    BY <1>2 DEF TInv, JobTypes
  <2>3. lease'[JobLease(run[w].job)].holder = w /\ LeaseStep(w)
    BY <1>2, <2>1, OtherRows DEF LeaseStep, MyJob, TInv
  <2>4. ~Relays(run[w])
    BY <1>1 DEF Claims, Relays, ClaimPoint, RelayPoint, SavePoint
  <2>5. Turns(w, run[w])
    BY <1>1, <2>2, <2>3, <2>4
    DEF Turns, Owned, TInv, RenewTask, Claims, ClaimPoint, SavePoint
  <2> QED BY <1>1, <2>5, Same DEF Quiet, RenewTask, storeVars, queueVars, TInv, JobTypes
<1>3. CASE run' = [run EXCEPT ![w].lost = TRUE] /\ UNCHANGED lease
  <2> DEFINE q == [run[w] EXCEPT !.lost = TRUE]
  <2>1. /\ q \in JobLocals /\ q.pc = run[w].pc /\ q.job = run[w].job /\ q.after = run[w].after
        /\ q.mem = run[w].mem /\ q.change = run[w].change /\ q.outcome = run[w].outcome
    BY <1>1 DEF JobLocals
  <2>2. run' = [run EXCEPT ![w] = q]
    BY <1>3
  <2> HIDE DEF q
  <2>3. /\ Sane(q) /\ InHand(q) /\ q.pc # "relayDispatched"
        /\ Claims(q) /\ ~Relays(q) /\ (Works(q) <=> Works(run[w]))
    BY <1>1, <2>1
    DEF TInv, Sane, InHand, Claims, Relays, Works, ClaimPoint, RelayPoint, SavePoint
  <2>4. LeaseStep(w) /\ (Owned(w, run[w], lease) => Owned(w, q, lease'))
    BY <1>1, <1>3, <2>1, <2>3 DEF LeaseStep, Owned
  <2>5. Turns(w, q)
    BY <2>1, <2>2, <2>3, <2>4 DEF Turns
  <2> QED BY <2>1, <2>5, Same DEF Quiet, RenewTask, storeVars, queueVars, TInv, JobTypes
<1> QED BY <1>2, <1>3 DEF RenewTask

\* A dead worker holds nothing and its leases are orphans.
LEMMA CrashQuiet ==
    ASSUME TInv, NEW w \in Worker, Crash(w) PROVE Quiet(w)
<1>1. Turns(w, NotRunning)
  BY NotRunningIs, Rests DEF LeaseStep, Crash
<1>2. Counted
  BY JobCountIs DEF Crash, TInv
<1> QED BY <1>1, <1>2, NotRunningIs, Same DEF Quiet, Crash, storeVars, queueVars, TInv, JobTypes

\* Before a row is marked ARQ has the job, and never loses it again.
DInv == /\ DispatchedIsQueued
        /\ \A w \in Worker : run[w].pc = "relayDispatched" => arq[run[w].job] # "absent"

\* Every step of a worker but the saves is quiet.
LEMMA WorkersAreQuiet ==
    ASSUME TInv, DInv, NEW w \in Worker,
           Relay(w) \/ RunJob(w) \/ RenewTask(w) \/ Cancelled(w) \/ Crash(w)
    PROVE  Quiet(w)
<1>1. CASE Relay(w)
  <2>1. RelayDispatched(w) => arq[run[w].job] # "absent"
    BY DEF DInv, RelayDispatched, At
  <2> QED BY <1>1, <2>1, PickQuiet, RelayLeaseQuiet, RelayEnqueueQuiet, RelayFailedQuiet,
             RelayDispatchedQuiet, RelayEndQuiet DEF Relay
<1>2. CASE RunJob(w)
  BY <1>2, DeliverQuiet, LoadQuiet, ClaimQuiet, StartQuiet, AuthenticateQuiet, AuthorizeQuiet,
     AnalyseQuiet, LookupQuiet, ReportQuiet, ReadQuiet, PublishQuiet, UnwindQuiet, SettleQuiet,
     ReleaseQuiet, AckQuiet DEF RunJob
<1> QED BY <1>1, <1>2, RenewQuiet, CancelledQuiet, CrashQuiet

\* The kinds of step.
LEMMA Kinds ==
    ASSUME TInv, DInv, Next
    PROVE  \/ \E w \in Worker : Quiet(w) \/ SaveGet(w) \/ SavePut(w)
           \/ \E c \in Client, k \in Key : EnqueueLook(c, k)
           \/ \E c \in Client, j \in Job : EnqueueInsert(c, j)
           \/ \E j \in Job : Redeliver(j)
           \/ \E n \in LeaseName : LapseOrphan(n) \/ LapseLive(n)
  BY WorkersAreQuiet DEF Next

-----------------------------------------------------------------------------
\* Analyses are stored once per key.
LEMMA StoredOnce ==
    ASSUME TInv, PublishedOnce, Next
    PROVE  published' \in [Key -> Nat] /\ PublishedOnce'
<1>1. published' = published \/ \E w \in Worker : Publish(w)
  BY DEF Next, EnqueueLook, EnqueueInsert, Relay, RelayPick, RelayLease, RelayEnqueue,
     RelayFailed, RelayDispatched, RelayEnd, RunJob, Deliver, Load, Claim, Start, Authenticate,
     Authorize, Analyse, Lookup, Report, Read, Unwind, Settle, Release, Ack, SaveGet, SavePut,
     RenewTask, Cancelled, Crash, Redeliver, LapseOrphan, LapseLive, storeVars
<1>2. CASE published' = published
  BY <1>2 DEF TInv, JobTypes, PublishedOnce
<1>3. ASSUME NEW w \in Worker, Publish(w)
      PROVE  published' \in [Key -> Nat] /\ PublishedOnce'
  <2> DEFINE k == MyKey(w)
  <2>1. k \in Key
    BY <1>3 DEF Publish, At, TInv, InHand, Stored, MyKey, MyJob
  <2>2. published' = [published EXCEPT ![k] = IF published[k] > 0 THEN published[k]
                                               ELSE published[k] + 1]
    BY <1>3 DEF Publish, StoreAnalysis, IsPublished
  <2> HIDE DEF k
  <2> QED BY <2>1, <2>2 DEF TInv, JobTypes, PublishedOnce
<1> QED BY <1>1, <1>2, <1>3

-----------------------------------------------------------------------------
\* The table of leases keeps its type.
LEMMA TableKeepsType ==
    ASSUME L!TableTypeOK,
           \/ \E w \in Worker : LeaseStep(w)
           \/ \E n \in LeaseName : L!Lapse(n)
    PROVE  L!TableTypeOK'
<1>1. ASSUME NEW w \in Worker, LeaseStep(w)
      PROVE  L!TableTypeOK'
  <2>1. CASE lease' = lease
    BY <2>1 DEF L!TableTypeOK
  <2>2. ASSUME NEW n \in LeaseName, L!Acquire(w, n) \/ L!Renew(w, n) \/ L!Release(w, n)
        PROVE  L!TableTypeOK'
    <3>1. L!HeldBy(w) \in [holder : Worker \cup {Free, Orphan}, lapsed : BOOLEAN]
          /\ L!NoLease \in [holder : Worker \cup {Free, Orphan}, lapsed : BOOLEAN]
      BY DEF L!HeldBy, L!NoLease
    <3>2. PICK h \in {L!HeldBy(w), L!NoLease} :
            lease' = [lease EXCEPT ![n] = h] \/ lease' = lease
      BY <2>2 DEF L!Acquire, L!Renew, L!Release
    <3> QED BY <3>1, <3>2 DEF L!TableTypeOK
  <2>3. CASE L!Abandon(w)
    BY <2>3 DEF L!TableTypeOK, L!Abandon, L!Holds
  <2> QED BY <1>1, <2>1, <2>2, <2>3 DEF LeaseStep
<1>2. ASSUME NEW n \in LeaseName, L!Lapse(n)
      PROVE  L!TableTypeOK'
  BY <1>2 DEF L!TableTypeOK, L!Lapse
<1> QED BY <1>1, <1>2

\* What SaveGet and SavePut make of the locals.
LEMMA SaveGetIs ==
    ASSUME TInv, NEW w \in Worker, SaveGet(w)
    PROVE  \E r \in JobLocals :
             /\ run' = [run EXCEPT ![w] = r] /\ Sane(r) /\ InHand(r)
             /\ r.pc = "savePut" /\ r.job = run[w].job /\ r.after = run[w].after
             /\ r.mem = job[run[w].job]
<1> DEFINE q == [run[w] EXCEPT !.mem = job[run[w].job], !.pc = "savePut"]
<1>1. run[w] \in JobLocals /\ run[w].job \in Job /\ job[run[w].job] \in Stored
  BY DEF TInv, JobTypes, InHand, Sane, SaveGet, At
<1>2. q \in JobLocals /\ q.pc = "savePut" /\ q.job = run[w].job /\ q.after = run[w].after
      /\ q.mem = job[run[w].job] /\ q.change = run[w].change
  BY <1>1, Points DEF JobLocals, SavePoint
<1>3. run' = [run EXCEPT ![w] = q]
  BY DEF SaveGet, MyJob
<1> HIDE DEF q
<1>4. Sane(q) /\ InHand(q)
  BY <1>1, <1>2 DEF TInv, Sane, InHand, SavePoint, SaveGet, At
<1> QED BY <1>2, <1>3, <1>4

\* The second transaction of a save writes a record of the same job.
LEMMA SavePutIs ==
    ASSUME TInv, NEW w \in Worker, SavePut(w)
    PROVE  /\ run[w] \in JobLocals /\ run[w].job \in Job /\ run[w].pc = "savePut"
           /\ run[w].mem \in Stored /\ Fits(run[w].change, run[w].after)
           /\ job' = [job EXCEPT ![run[w].job] = Merged(run[w])]
           /\ Merged(run[w]) \in Stored
           /\ \E r \in JobLocals :
                /\ run' = [run EXCEPT ![w] = r] /\ Sane(r)
                /\ r.pc = run[w].after /\ r.pc # "idle" /\ r.pc \notin SavePoint
                /\ r.job = run[w].job
<1>1. /\ run[w] \in JobLocals /\ run[w].job \in Job /\ run[w].pc = "savePut"
      /\ run[w].mem \in Stored /\ Fits(run[w].change, run[w].after)
      /\ job' = [job EXCEPT ![run[w].job] = Merged(run[w])]
  BY DEF TInv, JobTypes, Sane, SavePoint, SavePut, At, MyJob
<1>2. Merged(run[w]) \in Stored
  BY <1>1, MergedIs
<1>3. Merged(run[w]).attempts \in Nat
  BY <1>2 DEF Stored
<1> DEFINE n == IF run[w].after \in {"read", "publish"} THEN run[w].attempt
                ELSE Merged(run[w]).attempts
           q == [run[w] EXCEPT !.pc = run[w].after, !.mem = NoJob, !.change = NoChange,
                               !.attempt = n]
<1>4. n \in Nat
  BY <1>1, <1>3 DEF JobLocals
<1>5. run' = [run EXCEPT ![w] = q]
  BY DEF SavePut
<1> HIDE DEF n
<1>6. run[w].after \in {"relayEnd", "release", "authenticate", "authorize", "analyse", "read",
                        "publish"}
  BY <1>1 DEF Fits
<1>7. q \in JobLocals /\ q.pc = run[w].after /\ q.job = run[w].job
  BY <1>1, <1>4, <1>6, Changes DEF JobLocals, Point, ClaimPoint, RelayPoint
<1> HIDE DEF q
<1>8. Sane(q) /\ q.pc # "idle" /\ q.pc \notin SavePoint
  BY <1>1, <1>6, <1>7 DEF Sane, SavePoint
<1> QED BY <1>1, <1>2, <1>5, <1>7, <1>8

\* What the other workers see of a step of w.
LEMMA Others ==
    ASSUME run \in [Worker -> JobLocals], NEW w \in Worker, NEW r \in JobLocals,
           run' = [run EXCEPT ![w] = r]
    PROVE  /\ run' \in [Worker -> JobLocals] /\ run'[w] = r
           /\ \A v \in Worker : v # w => run'[v] = run[v]
  OBVIOUS

\* In the beginning nothing is stored, queued or running.
LEMMA InitTInv == ASSUME Init PROVE TInv
<1>1. JobTypes
  <2>1. L!TableTypeOK
    BY DEF Init, L!TableInit, L!TableTypeOK, L!NoLease
  <2>2. run \in [Worker -> JobLocals]
    BY NotRunningIs DEF Init
  <2>3. counters \in JobCounters
    BY DEF Init, JobCounters
  <2>4. tries \in [Job -> 0..MaxTries]
    BY JobConstants DEF Init
  <2> QED BY <2>1, <2>2, <2>3, <2>4 DEF Init, JobTypes, Rows, Queue
<1>2. Known
  BY DEF Init, Known
<1>3. \A w \in Worker : Sane(run[w]) /\ InHand(run[w])
  BY NotRunningIs DEF Init, Sane, InHand, SavePoint
<1> QED BY <1>1, <1>2, <1>3 DEF TInv

\* The type invariant, per kind of step: a quiet one.
LEMMA QuietTInv ==
    ASSUME TInv, NEW w \in Worker, Quiet(w), published' \in [Key -> Nat] PROVE TInv'
<1>1. PICK r \in JobLocals : Turns(w, r)
  BY DEF Quiet
<1>2. run' = [run EXCEPT ![w] = r] /\ Sane(r) /\ InHand(r) /\ LeaseStep(w)
  BY <1>1 DEF Turns
<1>3. /\ run' \in [Worker -> JobLocals] /\ run'[w] = r
      /\ \A v \in Worker : v # w => run'[v] = run[v]
  BY <1>2, Others DEF TInv, JobTypes
<1>4. L!TableTypeOK'
  BY <1>2, TableKeepsType DEF TInv, JobTypes
<1>5. JobTypes'
  BY <1>3, <1>4 DEF TInv, JobTypes, Quiet, Queues, Marks, Counted, Rows, Queue, JobCounters
<1>6. job' = job
  BY DEF Quiet
<1>7. Known'
  BY <1>6 DEF TInv, Known, Quiet, Queues, Marks
<1>8. \A v \in Worker : Sane(run'[v]) /\ InHand(run'[v])
  BY <1>2, <1>3 DEF TInv
<1>9. \A v \in Worker : (Sane(run[v]) /\ InHand(run[v]))'
  BY <1>6, <1>8 DEF InHand, Sane
<1> QED BY <1>5, <1>7, <1>9 DEF TInv

\* The read of a save.
LEMMA SaveGetTInv ==
    ASSUME TInv, NEW w \in Worker, SaveGet(w) PROVE TInv'
<1>1. PICK r \in JobLocals :
        run' = [run EXCEPT ![w] = r] /\ Sane(r) /\ InHand(r)
  BY SaveGetIs
<1>2. /\ run' \in [Worker -> JobLocals] /\ run'[w] = r
      /\ \A v \in Worker : v # w => run'[v] = run[v]
  BY <1>1, Others DEF TInv, JobTypes
<1>3. UNCHANGED <<job, outbox, published, enqueuing, arq, tries, lease, counters>>
  BY DEF SaveGet, storeVars, queueVars
<1>4. JobTypes'
  BY <1>2, <1>3 DEF TInv, JobTypes, L!TableTypeOK, LeaseName, JobLease, OutboxLease, Portfolio
<1>5. Known'
  BY <1>3 DEF TInv, Known
<1>6. \A v \in Worker : (Sane(run[v]) /\ InHand(run[v]))'
  BY <1>1, <1>2, <1>3 DEF TInv, InHand, Sane
<1> QED BY <1>4, <1>5, <1>6 DEF TInv

\* The write of a save.
LEMMA SavePutTInv ==
    ASSUME TInv, NEW w \in Worker, SavePut(w) PROVE TInv'
<1> DEFINE j == run[w].job
           m == Merged(run[w])
<1>1. j \in Job /\ m \in Stored /\ job' = [job EXCEPT ![j] = m]
  BY SavePutIs
<1>2. PICK r \in JobLocals :
        run' = [run EXCEPT ![w] = r] /\ Sane(r) /\ r.job = j
  BY SavePutIs
<1> HIDE DEF j, m
<1>3. /\ run' \in [Worker -> JobLocals] /\ run'[w] = r
      /\ \A v \in Worker : v # w => run'[v] = run[v]
  BY <1>2, Others DEF TInv, JobTypes
<1>4. UNCHANGED <<outbox, published, enqueuing, arq, tries, lease, counters>>
  BY DEF SavePut, queueVars
<1>5. /\ job' \in [Job -> Stored \cup {NoJob}]
      /\ \A i \in Job : job[i] \in Stored => job'[i] \in Stored
      /\ job'[j] \in Stored
  BY <1>1 DEF TInv, JobTypes
<1>6. JobTypes'
  BY <1>3, <1>4, <1>5 DEF TInv, JobTypes, L!TableTypeOK, LeaseName, JobLease, OutboxLease, Portfolio
<1>7. Known'
  BY <1>4, <1>5 DEF TInv, Known
<1>8. \A v \in Worker : (Sane(run[v]) /\ InHand(run[v]))'
  BY <1>1, <1>2, <1>3, <1>5 DEF TInv, InHand, Sane
<1> QED BY <1>6, <1>7, <1>8 DEF TInv

\* A client looks for the key.
LEMMA EnqueueLookTInv ==
    ASSUME TInv, NEW c \in Client, NEW k \in Key, EnqueueLook(c, k) PROVE TInv'
<1>1. UNCHANGED <<job, outbox, published, arq, tries, lease, run, counters>>
      /\ enqueuing' = [enqueuing EXCEPT ![c] = k]
  BY DEF EnqueueLook, storeVars, queueVars
<1>2. JobTypes'
  BY <1>1 DEF TInv, JobTypes, L!TableTypeOK, LeaseName, JobLease, OutboxLease, Portfolio
<1>3. Known' /\ \A v \in Worker : (Sane(run[v]) /\ InHand(run[v]))'
  BY <1>1 DEF TInv, Known, InHand, Sane
<1> QED BY <1>2, <1>3 DEF TInv

\* A client inserts a job under an id that is not taken.
LEMMA EnqueueInsertIs ==
    ASSUME TInv, NEW c \in Client, NEW j \in Job, EnqueueInsert(c, j)
    PROVE  \E q \in Stored : /\ job[j] \notin Stored /\ job' = [job EXCEPT ![j] = q]
                             /\ outbox' = [outbox EXCEPT ![j] = "pending"]
<1> DEFINE q == [key |-> enqueuing[c], status |-> "queued", attempts |-> 0,
                 dispatch |-> "pending"]
<1>1. q \in Stored
  BY DEF TInv, JobTypes, EnqueueInsert, Stored, Status
<1>2. NoJob \notin Stored
  BY NoJobIsNoRecord DEF Stored
<1> QED BY <1>1, <1>2 DEF EnqueueInsert

\* The insert of job and row.
LEMMA EnqueueInsertTInv ==
    ASSUME TInv, NEW c \in Client, NEW j \in Job, EnqueueInsert(c, j) PROVE TInv'
<1>1. PICK q \in Stored : /\ job' = [job EXCEPT ![j] = q]
                          /\ outbox' = [outbox EXCEPT ![j] = "pending"]
  BY EnqueueInsertIs
<1>2. /\ UNCHANGED <<published, arq, tries, lease, run, counters>>
      /\ enqueuing' = [enqueuing EXCEPT ![c] = NoKey]
  BY DEF EnqueueInsert, queueVars
<1>3. /\ job' \in [Job -> Stored \cup {NoJob}]
      /\ \A i \in Job : job[i] \in Stored => job'[i] \in Stored
      /\ job'[j] \in Stored
  BY <1>1 DEF TInv, JobTypes
<1>4. JobTypes'
  BY <1>1, <1>2, <1>3
  DEF TInv, JobTypes, Rows, L!TableTypeOK, LeaseName, JobLease, OutboxLease, Portfolio
<1>5. Known'
  BY <1>1, <1>2, <1>3 DEF TInv, JobTypes, Known, Rows
<1>6. \A v \in Worker : (Sane(run[v]) /\ InHand(run[v]))'
  BY <1>2, <1>3 DEF TInv, InHand, Sane
<1> QED BY <1>4, <1>5, <1>6 DEF TInv

\* An in-progress key expires.
LEMMA RedeliverTInv ==
    ASSUME TInv, NEW j \in Job, Redeliver(j)
    PROVE  TInv' /\ UNCHANGED <<job, outbox, lease, run>> /\ Queues /\ Counted
<1>1. UNCHANGED <<job, outbox, published, enqueuing, tries, lease, run>> /\ Counted
  BY JobCountIs, Same DEF Redeliver, storeVars, TInv
<1>2. Queues
  BY DEF Redeliver, Queues, TInv, JobTypes, Queue
<1>3. JobTypes'
  BY <1>1, <1>2 DEF TInv, JobTypes, Queues, Queue, Counted, L!TableTypeOK, LeaseName, JobLease,
                    OutboxLease, Portfolio
<1>4. Known' /\ \A v \in Worker : (Sane(run[v]) /\ InHand(run[v]))'
  BY <1>1, <1>2 DEF TInv, Known, Queues, InHand, Sane
<1> QED BY <1>1, <1>2, <1>3, <1>4 DEF TInv

\* A lease lapses.
LEMMA LapseTInv ==
    ASSUME TInv, NEW n \in LeaseName, LapseOrphan(n) \/ LapseLive(n)
    PROVE  TInv' /\ UNCHANGED <<job, outbox, arq, run>>
<1>1. UNCHANGED <<job, outbox, published, enqueuing, arq, tries, run>> /\ L!Lapse(n)
  BY DEF LapseOrphan, LapseLive, storeVars, queueVars
<1>2. counters' \in JobCounters
  BY DEF LapseOrphan, LapseLive, TInv, JobTypes, JobCounters, Count
<1>3. L!TableTypeOK'
  BY <1>1, TableKeepsType DEF TInv, JobTypes
<1>4. JobTypes'
  BY <1>1, <1>2, <1>3 DEF TInv, JobTypes
<1>5. Known' /\ \A v \in Worker : (Sane(run[v]) /\ InHand(run[v]))'
  BY <1>1 DEF TInv, Known, InHand, Sane
<1> QED BY <1>1, <1>4, <1>5 DEF TInv

-----------------------------------------------------------------------------
\* The type invariant and what the queue says of the outbox.
QInv == TInv /\ DInv /\ PublishedOnce

\* Every step keeps the types.
LEMMA NextTInv == ASSUME QInv, Next PROVE TInv'
  BY Kinds, StoredOnce, QuietTInv, SaveGetTInv, SavePutTInv, EnqueueLookTInv,
     EnqueueInsertTInv, RedeliverTInv, LapseTInv DEF QInv

\* No quiet step marks a row of a job that ARQ does not know.
LEMMA QuietDInv == ASSUME QInv, NEW w \in Worker, Quiet(w) PROVE DInv'
<1>1. PICK r \in JobLocals : Turns(w, r)
  BY DEF Quiet
<1>2. /\ run' = [run EXCEPT ![w] = r] /\ Sane(r)
      /\ r.pc = "relayDispatched" => arq'[r.job] # "absent"
  BY <1>1 DEF Turns
<1>3. run'[w] = r /\ \A v \in Worker : v # w => run'[v] = run[v]
  BY <1>2, Others DEF QInv, TInv, JobTypes
<1>4. DispatchedIsQueued'
  BY DEF QInv, DInv, DispatchedIsQueued, Quiet, Queues, Marks
<1>5. \A v \in Worker : run'[v].pc = "relayDispatched" => arq'[run'[v].job] # "absent"
  BY <1>2, <1>3 DEF QInv, TInv, Sane, DInv, Quiet, Queues
<1> QED BY <1>4, <1>5 DEF DInv

\* No step does.
LEMMA NextDInv == ASSUME QInv, Next PROVE DInv'
<1>1. ASSUME NEW w \in Worker, SaveGet(w) PROVE DInv'
  <2>1. UNCHANGED <<outbox, arq>>
    BY <1>1 DEF SaveGet, storeVars, queueVars
  <2>2. \A v \in Worker : run'[v].pc = "relayDispatched" => run'[v] = run[v]
    BY <1>1, SaveGetIs, Others DEF QInv, TInv, JobTypes
  <2> QED BY <2>1, <2>2 DEF QInv, DInv, DispatchedIsQueued
<1>2. ASSUME NEW w \in Worker, SavePut(w) PROVE DInv'
  <2>1. UNCHANGED <<outbox, arq>>
    BY <1>2 DEF SavePut, queueVars
  <2>2. run[w].after # "relayDispatched"
    BY <1>2, SavePutIs DEF QInv, Fits
  <2>3. \A v \in Worker : run'[v].pc = "relayDispatched" => run'[v] = run[v]
    BY <1>2, <2>2, SavePutIs, Others DEF QInv, TInv, JobTypes
  <2> QED BY <2>1, <2>3 DEF QInv, DInv, DispatchedIsQueued
<1>3. ASSUME NEW c \in Client, NEW k \in Key, EnqueueLook(c, k) PROVE DInv'
  BY <1>3 DEF EnqueueLook, storeVars, queueVars, QInv, DInv, DispatchedIsQueued
<1>4. ASSUME NEW c \in Client, NEW j \in Job, EnqueueInsert(c, j) PROVE DInv'
  BY <1>4 DEF EnqueueInsert, queueVars, QInv, DInv, DispatchedIsQueued, TInv, JobTypes, Rows
<1>5. ASSUME NEW j \in Job, Redeliver(j) PROVE DInv'
  <2>1. UNCHANGED <<outbox, run>> /\ Queues
    BY <1>5, RedeliverTInv DEF QInv
  <2> QED BY <2>1 DEF QInv, DInv, DispatchedIsQueued, Queues, TInv, Sane
<1>6. ASSUME NEW n \in LeaseName, LapseOrphan(n) \/ LapseLive(n) PROVE DInv'
  <2>1. UNCHANGED <<outbox, arq, run>>
    BY <1>6, LapseTInv DEF QInv
  <2> QED BY <2>1 DEF QInv, DInv, DispatchedIsQueued
<1> QED BY <1>1, <1>2, <1>3, <1>4, <1>5, <1>6, Kinds, QuietDInv DEF QInv

\* Its first part is kept by every step.
LEMMA NextQInv == ASSUME QInv, [Next]_vars PROVE QInv'
<1>1. CASE Next
  BY <1>1, NextTInv, NextDInv, StoredOnce DEF QInv
<1>2. CASE UNCHANGED vars
  <2>1. UNCHANGED <<job, outbox, published, enqueuing, arq, tries, lease, run, counters>>
    BY <1>2 DEF vars, storeVars, queueVars
  <2>2. JobTypes'
    BY <2>1 DEF QInv, TInv, JobTypes, L!TableTypeOK, LeaseName, JobLease, OutboxLease, Portfolio
  <2>3. TInv'
    BY <2>1, <2>2 DEF QInv, TInv, Known, InHand, Sane
  <2> QED BY <2>1, <2>3 DEF QInv, DInv, DispatchedIsQueued, PublishedOnce
<1> QED BY <1>1, <1>2

\* So does the part about the queue.
LEMMA InitQInv == ASSUME Init PROVE QInv
  BY InitTInv DEF Init, QInv, DInv, DispatchedIsQueued, PublishedOnce, NotRunning

\* For any constants: the types, DInv and one analysis per key, in every reachable state.
THEOREM QueueHolds == Spec => []QInv
  BY InitQInv, NextQInv, PTL DEF Spec

\* The outbox closes the gap between the database and Redis (relay_outbox): a row is marked
\* dispatched only when ARQ has, or has had, the job.
THEOREM DispatchedIsQueuedAlways == Spec => []DispatchedIsQueued
<1>1. QInv => DispatchedIsQueued
  BY DEF QInv, DInv
<1> QED BY <1>1, QueueHolds, PTL

\* Only leases of dead workers have lapsed, and who runs or relays a job has its lease.
LapsedAreDead == \A n \in LeaseName : lease[n].lapsed => lease[n].holder \notin Worker
CInv == counters.stall = 0 =>
          LapsedAreDead /\ \A w \in Worker : Owned(w, run[w], lease)

\* A step of w on the leases takes nothing from another worker.
LEMMA OthersKeepTheirs ==
    ASSUME TInv, LapsedAreDead, NEW w \in Worker, LeaseStep(w),
           NEW v \in Worker \ {w}, NEW n \in LeaseName, lease[n].holder = v
    PROVE  lease'[n].holder = v
<1>1. ~L!Acquire(w, n)
  BY JobConstants DEF L!Acquire, L!CanAcquire, LapsedAreDead
<1>2. CASE \E m \in LeaseName : L!Acquire(w, m) \/ L!Renew(w, m) \/ L!Release(w, m)
  <2>1. PICK m \in LeaseName : L!Acquire(w, m) \/ L!Renew(w, m) \/ L!Release(w, m)
    BY <1>2
  <2>2. CASE m # n
    BY <2>1, <2>2, OtherRows DEF TInv
  <2>3. CASE m = n
    BY <1>1, <2>1, <2>3 DEF L!Renew, L!Release, L!Holds
  <2> QED BY <2>2, <2>3
<1>3. CASE L!Abandon(w)
  BY <1>3 DEF L!Abandon, L!Holds
<1> QED BY <1>2, <1>3 DEF LeaseStep

\* No worker gets a lease that has lapsed.
LEMMA LapsedStayDead ==
    ASSUME TInv, LapsedAreDead, NEW w \in Worker, LeaseStep(w)
    PROVE  LapsedAreDead'
<1>0. LeaseName' = LeaseName /\ Worker' = Worker
  BY DEF LeaseName, JobLease, OutboxLease, Portfolio
<1>1. SUFFICES ASSUME NEW n \in LeaseName, lease'[n].lapsed PROVE lease'[n].holder \notin Worker
  BY <1>0 DEF LapsedAreDead
<1>2. CASE UNCHANGED lease
  BY <1>1, <1>2 DEF LapsedAreDead
<1>3. CASE \E m \in LeaseName : L!Acquire(w, m) \/ L!Renew(w, m) \/ L!Release(w, m)
  <2>1. PICK m \in LeaseName : L!Acquire(w, m) \/ L!Renew(w, m) \/ L!Release(w, m)
    BY <1>3
  <2>2. CASE m # n
    BY <1>1, <2>1, <2>2, OtherRows DEF TInv, LapsedAreDead
  <2>3. CASE m = n
    <3>1. lease'[n] \in {L!HeldBy(w), L!NoLease, lease[n]}
      BY <2>1, <2>3 DEF TInv, JobTypes, L!TableTypeOK, L!Acquire, L!Renew, L!Release
    <3> QED BY <1>1, <3>1 DEF L!HeldBy, L!NoLease, LapsedAreDead
  <2> QED BY <2>2, <2>3
<1>4. CASE L!Abandon(w)
  <2>1. lease'[n] = IF lease[n].holder = w THEN [lease[n] EXCEPT !.holder = Orphan]
                    ELSE lease[n]
    BY <1>4 DEF L!Abandon, L!Holds
  <2>2. CASE lease[n].holder = w
    BY <2>1, <2>2, JobConstants DEF TInv, JobTypes, L!TableTypeOK
  <2>3. CASE lease[n].holder # w
    BY <1>1, <2>1, <2>3 DEF LapsedAreDead
  <2> QED BY <2>2, <2>3
<1> QED BY <1>2, <1>3, <1>4 DEF LeaseStep

\* A quiet step keeps the leases with their workers.
LEMMA QuietCInv == ASSUME TInv, CInv, NEW w \in Worker, Quiet(w) PROVE CInv'
<1>1. PICK r \in JobLocals : Turns(w, r)
  BY DEF Quiet
<1>2. /\ run' = [run EXCEPT ![w] = r] /\ LeaseStep(w)
      /\ Owned(w, run[w], lease) => Owned(w, r, lease')
  BY <1>1 DEF Turns
<1>3. run'[w] = r /\ \A v \in Worker : v # w => run'[v] = run[v]
  BY <1>2, Others DEF TInv, JobTypes
<1> SUFFICES ASSUME counters'.stall = 0
             PROVE  LapsedAreDead' /\ \A v \in Worker : Owned(v, run'[v], lease')
  BY DEF CInv, Owned
<1>4. LapsedAreDead /\ \A v \in Worker : Owned(v, run[v], lease)
  BY DEF CInv, Quiet, Counted
<1>5. ASSUME NEW v \in Worker, v # w
      PROVE  Owned(v, run[v], lease')
  <2>1. Claims(run[v]) \/ Relays(run[v]) => run[v].job \in Job
    BY DEF TInv, Sane, Claims, Relays, ClaimPoint, RelayPoint, SavePoint
  <2>2. CASE Claims(run[v]) \/ Relays(run[v])
    <3>1. JobLease(run[v].job) \in LeaseName /\ OutboxLease(run[v].job) \in LeaseName
      BY <2>1, <2>2, Names
    <3> QED BY <1>2, <1>4, <1>5, <3>1, OthersKeepTheirs DEF Owned
  <2> QED BY <2>2 DEF Owned
<1> QED BY <1>2, <1>3, <1>4, <1>5, LapsedStayDead

\* A step that leaves the leases, and what the workers do, as they are.
LEMMA SameCInv ==
    ASSUME TInv, CInv, UNCHANGED lease, counters'.stall = 0 => counters.stall = 0,
           \A v \in Worker : /\ Claims(run'[v]) => Claims(run[v])
                             /\ Relays(run'[v]) => Relays(run[v])
                             /\ run'[v].job = run[v].job
    PROVE  CInv'
<1>1. LeaseName' = LeaseName
  BY DEF LeaseName, JobLease, OutboxLease, Portfolio
<1>2. counters.stall = 0 => \A v \in Worker : Owned(v, run'[v], lease')
  BY DEF CInv, Owned
<1>3. counters.stall = 0 => LapsedAreDead'
  BY <1>1 DEF CInv, LapsedAreDead
<1> QED BY <1>2, <1>3 DEF CInv, Owned

\* Every step does, but a stall of a live worker.
LEMMA NextCInv == ASSUME QInv, CInv, Next PROVE CInv'
<1>1. ASSUME NEW w \in Worker, SaveGet(w) PROVE CInv'
  <2>1. PICK r \in JobLocals :
          /\ run' = [run EXCEPT ![w] = r] /\ r.pc = "savePut" /\ r.job = run[w].job
          /\ r.after = run[w].after
    BY <1>1, SaveGetIs DEF QInv
  <2>2. (Claims(r) => Claims(run[w])) /\ (Relays(r) => Relays(run[w]))
    BY <1>1, <2>1 DEF SaveGet, At, Claims, Relays, ClaimPoint, RelayPoint, SavePoint
  <2>3. UNCHANGED <<lease, counters>>
    BY <1>1 DEF SaveGet
  <2>4. run'[w] = r /\ \A v \in Worker : v # w => run'[v] = run[v]
    BY <2>1, Others DEF QInv, TInv, JobTypes
  <2> QED BY <2>1, <2>2, <2>3, <2>4, SameCInv DEF QInv
<1>2. ASSUME NEW w \in Worker, SavePut(w) PROVE CInv'
  <2>1. run[w].pc = "savePut" /\ Fits(run[w].change, run[w].after)
    BY <1>2, SavePutIs DEF QInv
  <2>2. PICK r \in JobLocals :
          run' = [run EXCEPT ![w] = r] /\ r.pc = run[w].after /\ r.job = run[w].job
    BY <1>2, SavePutIs DEF QInv
  <2>3. (Claims(r) => Claims(run[w])) /\ (Relays(r) => Relays(run[w]))
    BY <2>1, <2>2 DEF Fits, Claims, Relays, ClaimPoint, RelayPoint, SavePoint
  <2>4. UNCHANGED <<lease, counters>>
    BY <1>2 DEF SavePut
  <2>5. run'[w] = r /\ \A v \in Worker : v # w => run'[v] = run[v]
    BY <2>2, Others DEF QInv, TInv, JobTypes
  <2> QED BY <2>2, <2>3, <2>4, <2>5, SameCInv DEF QInv
<1>3. ASSUME NEW c \in Client, NEW k \in Key, EnqueueLook(c, k) PROVE CInv'
  BY <1>3, SameCInv DEF EnqueueLook, QInv
<1>4. ASSUME NEW c \in Client, NEW j \in Job, EnqueueInsert(c, j) PROVE CInv'
  BY <1>4, SameCInv DEF EnqueueInsert, QInv
<1>5. ASSUME NEW j \in Job, Redeliver(j) PROVE CInv'
  <2>1. UNCHANGED <<lease, run>> /\ Counted
    BY <1>5, RedeliverTInv DEF QInv
  <2> QED BY <2>1, SameCInv DEF QInv, Counted
<1>6. ASSUME NEW n \in LeaseName, LapseOrphan(n) PROVE CInv'
  <2>1. UNCHANGED <<run, counters>> /\ lease[n].holder = Orphan
        /\ lease' = [lease EXCEPT ![n].lapsed = TRUE]
    BY <1>6 DEF LapseOrphan, L!Lapse
  <2>2. \A m \in LeaseName : /\ lease'[m].holder = lease[m].holder
                             /\ lease'[m].lapsed => lease[m].lapsed \/ m = n
    BY <2>1 DEF QInv, TInv, JobTypes, L!TableTypeOK
  <2>3. LeaseName' = LeaseName
    BY DEF LeaseName, JobLease, OutboxLease, Portfolio
  <2>4. LapsedAreDead => LapsedAreDead'
    BY <2>1, <2>2, <2>3, JobConstants DEF LapsedAreDead
  <2>5. ASSUME NEW v \in Worker, Owned(v, run[v], lease) PROVE Owned(v, run[v], lease')
    <3>1. CASE Claims(run[v]) \/ Relays(run[v])
      <4>1. run[v].job \in Job
        BY <3>1 DEF QInv, TInv, Sane, Claims, Relays, ClaimPoint, RelayPoint, SavePoint
      <4>2. JobLease(run[v].job) \in LeaseName /\ OutboxLease(run[v].job) \in LeaseName
        BY <4>1, Names
      <4> QED BY <2>2, <2>5, <4>2 DEF Owned
    <3> QED BY <3>1 DEF Owned
  <2> QED BY <2>1, <2>4, <2>5 DEF CInv, Owned
<1>7. ASSUME NEW n \in LeaseName, LapseLive(n) PROVE CInv'
  <2>1. counters'.stall = counters.stall + 1 /\ counters.stall \in Nat
    BY <1>7 DEF LapseLive, Count, QInv, TInv, JobTypes, JobCounters
  <2>2. counters'.stall # 0
    BY <2>1
  <2> QED BY <2>2 DEF CInv
<1> QED BY <1>1, <1>2, <1>3, <1>4, <1>5, <1>6, <1>7, Kinds, QuietCInv DEF QInv

\* Who runs a job has its lease, and a lease has one holder.
LEMMA OneOwner ==
    ASSUME TInv, CInv, counters.stall = 0, NEW v \in Worker, NEW w \in Worker,
           run[v].job = run[w].job,
           \/ Claims(run[v]) /\ Claims(run[w])
           \/ Relays(run[v]) /\ Relays(run[w])
    PROVE  v = w
  BY DEF CInv, Owned

\* So one worker at a time runs a job.
LEMMA ClaimsAreApart == TInv /\ CInv => OneRunner
  BY OneOwner, HasClaimIs DEF OneRunner, MyJob

\* Between Start and the end of a job it is open; a runner's save puts an open record
\* back, and a relay that read how the job ended puts the same end back.
OpenUntilSettled(w) == Works(run[w]) => job[run[w].job].status \notin Terminal
ReadIsCurrent(w) == run[w].pc = "savePut" =>
    /\ Claims(run[w]) => run[w].mem.status \notin Terminal
    /\ Relays(run[w]) /\ run[w].mem.status \in Terminal
         => job[run[w].job].status = run[w].mem.status
KInv == counters.stall = 0 => \A w \in Worker : OpenUntilSettled(w) /\ ReadIsCurrent(w)

\* A quiet step changes no record.
LEMMA QuietKInv == ASSUME TInv, KInv, NEW w \in Worker, Quiet(w) PROVE KInv'
<1>1. PICK r \in JobLocals : Turns(w, r)
  BY DEF Quiet
<1>2. /\ run' = [run EXCEPT ![w] = r]
      /\ r.pc = "savePut" => /\ run[w].pc = "savePut" /\ r.job = run[w].job
                             /\ r.mem = run[w].mem /\ r.after = run[w].after
      /\ Works(r) => \/ Works(run[w]) /\ r.job = run[w].job
                     \/ job[r.job].status \notin Terminal
  BY <1>1 DEF Turns
<1>3. run'[w] = r /\ \A v \in Worker : v # w => run'[v] = run[v]
  BY <1>2, Others DEF TInv, JobTypes
<1>4. job' = job /\ counters'.stall = counters.stall
  BY DEF Quiet, Counted
<1> SUFFICES ASSUME counters.stall = 0, NEW v \in Worker
             PROVE  (OpenUntilSettled(v) /\ ReadIsCurrent(v))'
  BY <1>4 DEF KInv
<1>5. OpenUntilSettled(v) /\ ReadIsCurrent(v)
  BY DEF KInv
<1>6. CASE v # w
  BY <1>3, <1>4, <1>5, <1>6 DEF OpenUntilSettled, ReadIsCurrent, Works, Claims, Relays
<1>7. CASE v = w
  <2>1. OpenUntilSettled(v)'
    BY <1>2, <1>3, <1>4, <1>5, <1>7 DEF OpenUntilSettled, Works, Claims
  <2>2. r.pc = "savePut" => (Claims(r) <=> Claims(run[w])) /\ (Relays(r) <=> Relays(run[w]))
    BY <1>2 DEF Claims, Relays, ClaimPoint, RelayPoint, SavePoint
  <2>3. r.pc = "savePut" =>
           /\ Claims(r) => r.mem.status \notin Terminal
           /\ Relays(r) /\ r.mem.status \in Terminal => job[r.job].status = r.mem.status
    BY <1>2, <1>5, <1>7, <2>2 DEF ReadIsCurrent
  <2>4. ReadIsCurrent(v)'
    BY <1>3, <1>4, <1>7, <2>3 DEF ReadIsCurrent, Claims, Relays
  <2> QED BY <2>1, <2>4
<1> QED BY <1>6, <1>7

\* The jobs stay as they are, or get a new one.
LEMMA SameKInv ==
    ASSUME TInv, KInv, UNCHANGED run, counters'.stall = 0 => counters.stall = 0,
           \A j \in Job : job[j] \in Stored => job'[j] = job[j]
    PROVE  KInv'
<1>1. ASSUME NEW w \in Worker, counters.stall = 0
      PROVE  (OpenUntilSettled(w) /\ ReadIsCurrent(w))'
  <2>1. OpenUntilSettled(w) /\ ReadIsCurrent(w) /\ Sane(run[w]) /\ InHand(run[w])
    BY <1>1 DEF KInv, TInv
  <2>2. run[w].pc # "idle" => job'[run[w].job] = job[run[w].job]
    BY <2>1 DEF Sane, InHand
  <2>3. Works(run[w]) => run[w].pc # "idle"
    BY DEF Works, Claims, ClaimPoint, SavePoint
  <2>4. run' = run
    OBVIOUS
  <2> QED BY <2>1, <2>2, <2>3, <2>4 DEF OpenUntilSettled, ReadIsCurrent, Works, Claims, Relays
<1> QED BY <1>1 DEF KInv

\* A runner reads an open record.
LEMMA SaveGetKInv == ASSUME TInv, KInv, NEW w \in Worker, SaveGet(w) PROVE KInv'
<1>1. PICK r \in JobLocals :
        /\ run' = [run EXCEPT ![w] = r] /\ r.pc = "savePut" /\ r.job = run[w].job
        /\ r.after = run[w].after /\ r.mem = job[run[w].job]
  BY SaveGetIs
<1>2. UNCHANGED <<job, counters>> /\ run[w].pc = "saveGet"
  BY DEF SaveGet, storeVars, At
<1>3. run'[w] = r /\ \A v \in Worker : v # w => run'[v] = run[v]
  BY <1>1, Others DEF TInv, JobTypes
<1> SUFFICES ASSUME counters.stall = 0, NEW v \in Worker
             PROVE  (OpenUntilSettled(v) /\ ReadIsCurrent(v))'
  BY <1>2 DEF KInv
<1>4. OpenUntilSettled(v) /\ ReadIsCurrent(v)
  BY DEF KInv
<1>5. CASE v # w
  BY <1>2, <1>3, <1>4, <1>5 DEF OpenUntilSettled, ReadIsCurrent, Works, Claims, Relays
<1>6. CASE v = w
  <2>1. (Claims(r) => Works(r)) /\ (Works(r) => Works(run[w]))
    BY <1>1, <1>2 DEF Works, Claims, ClaimPoint, SavePoint
  <2>2. OpenUntilSettled(v)'
    BY <1>1, <1>2, <1>3, <1>4, <1>6, <2>1 DEF OpenUntilSettled, Works, Claims
  <2>3. Claims(r) => r.mem.status \notin Terminal
    BY <1>1, <1>4, <1>6, <2>1 DEF OpenUntilSettled
  <2>4. ReadIsCurrent(v)'
    BY <1>1, <1>2, <1>3, <1>6, <2>3 DEF ReadIsCurrent, Claims, Relays
  <2> QED BY <2>2, <2>4
<1> QED BY <1>5, <1>6

\* Of two that save one record, one runs the job and one relays it.
LEMMA SavePutKInv == ASSUME TInv, CInv, KInv, NEW w \in Worker, SavePut(w) PROVE KInv'
<1> DEFINE j == run[w].job
           m == Merged(run[w])
<1>1. /\ run[w] \in JobLocals /\ j \in Job /\ run[w].pc = "savePut" /\ run[w].mem \in Stored
      /\ Fits(run[w].change, run[w].after) /\ job' = [job EXCEPT ![j] = m] /\ m \in Stored
  BY SavePutIs
<1>2. PICK r \in JobLocals : /\ run' = [run EXCEPT ![w] = r] /\ r.pc = run[w].after
                          /\ r.pc \notin SavePoint /\ r.job = j
  BY SavePutIs
<1>3. /\ run[w].after = "relayEnd" => m.status = run[w].mem.status
      /\ run[w].after \notin {"release", "relayEnd"} /\ run[w].mem.status \notin Terminal
           => m.status \notin Terminal
  BY <1>1, MergedIs
<1>4. job'[j] = m /\ \A i \in Job : i # j => job'[i] = job[i]
  BY <1>1 DEF TInv, JobTypes
<1>5. run'[w] = r /\ \A v \in Worker : v # w => run'[v] = run[v]
  BY <1>2, Others DEF TInv, JobTypes
<1>6. UNCHANGED counters
  BY DEF SavePut
<1> HIDE DEF j, m
<1> SUFFICES ASSUME counters.stall = 0, NEW v \in Worker
             PROVE  (OpenUntilSettled(v) /\ ReadIsCurrent(v))'
  BY <1>6 DEF KInv
<1>7. /\ OpenUntilSettled(v) /\ ReadIsCurrent(v) /\ OpenUntilSettled(w) /\ ReadIsCurrent(w)
      /\ Claims(run[w]) \/ Relays(run[w])
  BY <1>1 DEF KInv, Claims, Relays, SavePoint
<1>8. CASE v = w
  <2>1. ReadIsCurrent(v)'
    BY <1>2, <1>5, <1>8 DEF ReadIsCurrent, SavePoint
  <2>2. Works(r) => run[w].after \notin {"release", "relayEnd"} /\ Claims(run[w])
    BY <1>1, <1>2 DEF Works, Claims, ClaimPoint, SavePoint
  <2>3. Works(r) => m.status \notin Terminal
    BY <1>1, <1>3, <1>7, <2>2 DEF ReadIsCurrent
  <2>4. OpenUntilSettled(v)'
    BY <1>2, <1>4, <1>5, <1>8, <2>3 DEF OpenUntilSettled, Works, Claims
  <2> QED BY <2>1, <2>4
<1>9. CASE v # w
  <2>1. run'[v] = run[v]
    BY <1>5, <1>9
  <2>2. run[v].pc # "idle" => run[v].job \in Job
    BY DEF TInv, Sane
  <2>3. Works(run[v]) \/ run[v].pc = "savePut" => run[v].pc # "idle"
    BY DEF Works, Claims, ClaimPoint, SavePoint
  <2>4. CASE run[v].job # j
    BY <1>4, <1>7, <2>1, <2>2, <2>3, <2>4
    DEF OpenUntilSettled, ReadIsCurrent, Works, Claims, Relays
  <2>5. CASE run[v].job = j
    <3>1. ~(Claims(run[v]) /\ Claims(run[w])) /\ ~(Relays(run[v]) /\ Relays(run[w]))
      BY <1>9, <2>5, OneOwner DEF j
    <3>2. OpenUntilSettled(v)'
      <4>1. SUFFICES ASSUME Works(run[v]) PROVE m.status \notin Terminal
        BY <1>4, <2>1, <2>5 DEF OpenUntilSettled, Works, Claims
      <4>2. Relays(run[w]) /\ run[w].after = "relayEnd"
        BY <1>1, <1>7, <3>1, <4>1 DEF Works, Relays, RelayPoint
      <4>3. job[j].status \notin Terminal
        BY <1>7, <2>5, <4>1 DEF OpenUntilSettled
      <4>4. run[w].mem.status \notin Terminal
        BY <1>1, <1>7, <4>2, <4>3 DEF ReadIsCurrent, j
      <4> QED BY <1>3, <4>2, <4>4
    <3>3. ReadIsCurrent(v)'
      <4>1. ASSUME run[v].pc = "savePut", Relays(run[v]), run[v].mem.status \in Terminal
            PROVE  m.status = run[v].mem.status
        <5>1. Claims(run[w]) /\ Works(run[w])
          BY <1>1, <1>7, <3>1, <4>1 DEF Works
        <5>2. job[j].status \notin Terminal
          BY <1>7, <5>1 DEF OpenUntilSettled, j
        <5> QED BY <1>7, <2>5, <4>1, <5>2 DEF ReadIsCurrent
      <4> QED BY <1>4, <1>7, <2>1, <2>5, <4>1 DEF ReadIsCurrent, Claims, Relays
    <3> QED BY <3>2, <3>3
  <2> QED BY <2>4, <2>5
<1> QED BY <1>8, <1>9

\* Every step keeps the records and their readers apart.
LEMMA NextKInv == ASSUME QInv, CInv, KInv, Next PROVE KInv'
<1>1. ASSUME NEW c \in Client, NEW k \in Key, EnqueueLook(c, k) PROVE KInv'
  BY <1>1, SameKInv DEF EnqueueLook, storeVars, QInv
<1>2. ASSUME NEW c \in Client, NEW j \in Job, EnqueueInsert(c, j) PROVE KInv'
  <2>1. \A i \in Job : job[i] \in Stored => job'[i] = job[i]
    BY <1>2, EnqueueInsertIs DEF QInv, TInv, JobTypes
  <2>2. UNCHANGED <<run, counters>>
    BY <1>2 DEF EnqueueInsert
  <2> QED BY <2>1, <2>2, SameKInv DEF QInv
<1>3. ASSUME NEW j \in Job, Redeliver(j) PROVE KInv'
  <2>1. UNCHANGED <<job, run>> /\ Counted
    BY <1>3, RedeliverTInv DEF QInv
  <2> QED BY <2>1, SameKInv DEF QInv, Counted
<1>4. ASSUME NEW n \in LeaseName, LapseOrphan(n) \/ LapseLive(n) PROVE KInv'
  <2>1. UNCHANGED <<job, run>>
    BY <1>4, LapseTInv DEF QInv
  <2>2. counters'.stall = counters.stall \/ counters'.stall = counters.stall + 1
    BY <1>4 DEF LapseOrphan, LapseLive, Count, QInv, TInv, JobTypes, JobCounters
  <2>3. counters.stall \in Nat
    BY DEF QInv, TInv, JobTypes, JobCounters
  <2>4. counters'.stall = 0 => counters.stall = 0
    BY <2>2, <2>3
  <2> QED BY <2>1, <2>4, SameKInv DEF QInv
<1> QED BY <1>1, <1>2, <1>3, <1>4, Kinds, QuietKInv, SaveGetKInv, SavePutKInv DEF QInv

-----------------------------------------------------------------------------
RInv == QInv /\ CInv /\ KInv

\* The whole invariant holds in the beginning.
LEMMA InitRInv == ASSUME Init PROVE RInv
<1>1. QInv
  BY InitQInv
<1>2. CInv
  BY DEF Init, L!TableInit, L!NoLease, CInv, LapsedAreDead, Owned, NotRunning, Claims, Relays,
         ClaimPoint, RelayPoint, SavePoint
<1>3. KInv
  BY DEF Init, KInv, OpenUntilSettled, ReadIsCurrent, NotRunning, Works, Claims, ClaimPoint,
         SavePoint
<1> QED BY <1>1, <1>2, <1>3 DEF RInv

\* Every step keeps it.
LEMMA NextRInv == ASSUME RInv, [Next]_vars PROVE RInv'
<1>1. CASE Next
  BY <1>1, NextQInv, NextCInv, NextKInv DEF RInv
<1>2. CASE UNCHANGED vars
  <2>1. UNCHANGED <<job, lease, run, counters>>
    BY <1>2 DEF vars, storeVars
  <2>2. CInv'
    BY <2>1, SameCInv DEF RInv, QInv
  <2>3. KInv'
    BY <2>1, SameKInv DEF RInv, QInv
  <2> QED BY <1>2, <2>2, <2>3, NextQInv DEF RInv
<1> QED BY <1>1, <1>2

\* RInv holds in every reachable state.
THEOREM RInvHolds == Spec => []RInv
  BY InitRInv, NextRInv, PTL DEF Spec

\* run_analysis_job: one worker at a time runs a job while live leases do not lapse, and
\* create_analysis publishes one analysis per idempotency key, lapses or not.
THEOREM JobsWorkedOnce == Spec => []WorkIsDoneOnce
<1>1. RInv => WorkIsDoneOnce
  BY ClaimsAreApart DEF RInv, QInv, WorkIsDoneOnce
<1> QED BY <1>1, RInvHolds, PTL

-----------------------------------------------------------------------------
\* The deliveries of a job that may still count an attempt.
Early(r) == r.pc \in {"load", "claim", "start"}
Upcoming(j) == {w \in Worker : run[w].job = j /\ Early(run[w])}

\* The deliveries that have counted one, or will not.
spent == [j \in Job |-> tries[j] - Cardinality(Upcoming(j))]

Counting(r) == r.pc \in SavePoint /\ r.after = "authenticate"
AttemptsFit(r) == /\ r.mem # NoJob => r.pc = "savePut" /\ r.mem.attempts <= spent[r.job]
                  /\ Counting(r) => r.change.attempts <= spent[r.job]
                  /\ r.attempt \in 0..MaxTries

\* Each attempt that was counted, or will be, has a delivery of its own.
AInv == /\ \A j \in Job : /\ IsFiniteSet(Upcoming(j)) /\ 0 <= spent[j]
                          /\ job[j] # NoJob => job[j].attempts <= spent[j]
        /\ \A w \in Worker : AttemptsFit(run[w])

\* A step of w that neither delivers a job nor saves one.
Steady(w) ==
    /\ UNCHANGED <<job, tries>> /\ \A v \in Worker : v # w => run'[v] = run[v]
    /\ Early(run'[w]) => Early(run[w]) /\ run'[w].job = run[w].job
    /\ \/ run'[w].mem = NoJob
       \/ run'[w].mem = run[w].mem /\ run'[w].pc = run[w].pc /\ run'[w].job = run[w].job
    /\ Counting(run'[w]) => /\ Counting(run[w]) /\ run'[w].job = run[w].job
                            /\ run'[w].change = run[w].change
    /\ run'[w].attempt \in {0, run[w].attempt}

\* Between saves a worker has no record in hand.
LEMMA NothingRead ==
    ASSUME AInv, NEW w \in Worker, run[w].pc # "savePut" PROVE run[w].mem = NoJob
  BY DEF AInv, AttemptsFit

\* It goes on with its job,
LEMMA GoesSteady ==
    ASSUME TInv, AInv, NEW w \in Worker, NEW q \in JobLocals, run' = [run EXCEPT ![w] = q],
           UNCHANGED <<job, tries>>, run[w].pc # "savePut",
           q.mem = run[w].mem, q.attempt = run[w].attempt, ~Counting(q),
           Early(q) => Early(run[w]) /\ q.job = run[w].job
    PROVE  Steady(w)
<1>1. run'[w] = q /\ \A v \in Worker : v # w => run'[v] = run[v]
  BY DEF TInv, JobTypes
<1>2. run[w].mem = NoJob
  BY NothingRead
<1> QED BY <1>1, <1>2 DEF Steady

\* by Goto,
LEMMA GotoSteady ==
    ASSUME TInv, AInv, NEW w \in Worker, NEW p \in Point, Goto(w, p), p \notin SavePoint,
           UNCHANGED <<job, tries>>, run[w].pc # "savePut",
           p \in {"load", "claim", "start"} => Early(run[w])
    PROVE  Steady(w)
<1>1. run[w] \in JobLocals
  BY DEF TInv, JobTypes
<1> DEFINE q == [run[w] EXCEPT !.pc = p]
<1>2. q \in JobLocals /\ q.pc = p /\ q.job = run[w].job /\ q.mem = run[w].mem
      /\ q.attempt = run[w].attempt
  BY <1>1 DEF JobLocals
<1>3. run' = [run EXCEPT ![w] = q]
  BY DEF Goto
<1> HIDE DEF q
<1> QED BY <1>2, <1>3, GoesSteady DEF Counting, Early

\* or by a save that counts no attempt,
LEMMA SaveSteady ==
    ASSUME TInv, AInv, NEW w \in Worker, NEW r \in JobLocals, NEW c \in Change, NEW a \in Afterwards,
           run' = [run EXCEPT ![w] = Saving(r, c, a)], a # "authenticate",
           r.mem = run[w].mem, r.attempt = run[w].attempt,
           UNCHANGED <<job, tries>>, run[w].pc # "savePut"
    PROVE  Steady(w)
<1> DEFINE q == Saving(r, c, a)
<1>1. q \in JobLocals /\ q.pc = "saveGet" /\ q.after = a /\ q.mem = r.mem
  BY SavingIs
<1>2. q.attempt = r.attempt
  BY DEF Saving, JobLocals
<1> HIDE DEF q
<1>3. run' = [run EXCEPT ![w] = q]
  BY DEF q
<1> QED BY <1>1, <1>2, <1>3, GoesSteady DEF Counting, Early

\* or it has nothing to do any more.
LEMMA RestsSteady ==
    ASSUME TInv, NEW w \in Worker, run' = [run EXCEPT ![w] = NotRunning], UNCHANGED <<job, tries>>
    PROVE  Steady(w)
<1>1. run'[w] = NotRunning /\ \A v \in Worker : v # w => run'[v] = run[v]
  BY DEF TInv, JobTypes
<1> QED BY <1>1 DEF Steady, NotRunning, Early, Counting, SavePoint

\* The steps of a relay.
LEMMA RelaysSteadily == ASSUME TInv, AInv, NEW w \in Worker, Relay(w) PROVE Steady(w)
<1> USE DEF storeVars, queueVars, At, SavePoint, Early, ClaimPoint, RelayPoint
<1>0. run[w] \in JobLocals
  BY DEF TInv, JobTypes
<1>1. ASSUME NEW j \in Job, RelayPick(w, j) PROVE Steady(w)
  <2> DEFINE q == [run[w] EXCEPT !.job = j, !.pc = "relayLease"]
  <2>1. q \in JobLocals /\ q.pc = "relayLease" /\ q.mem = run[w].mem /\ q.attempt = run[w].attempt
    BY <1>0, Points DEF JobLocals
  <2>2. run' = [run EXCEPT ![w] = q]
    BY <1>1 DEF RelayPick
  <2> HIDE DEF q
  <2> QED BY <1>1, <2>1, <2>2, GoesSteady DEF RelayPick, Counting
<1>2. CASE RelayLease(w)
  BY <1>2, GotoSteady, RestsSteady, Points DEF RelayLease
<1>3. CASE RelayEnqueue(w)
  BY <1>3, GotoSteady, Points DEF RelayEnqueue
<1>4. CASE RelayFailed(w)
  BY <1>4, GotoSteady, Points DEF RelayFailed
<1>5. CASE RelayDispatched(w)
  BY <1>0, <1>5, SaveSteady, Changes DEF RelayDispatched, Save, Afterwards
<1>6. CASE RelayEnd(w)
  BY <1>6, RestsSteady DEF RelayEnd
<1> QED BY <1>1, <1>2, <1>3, <1>4, <1>5, <1>6 DEF Relay

\* How a run of a job ends, or is given back.
LEMMA EndSteady ==
    ASSUME TInv, AInv, NEW w \in Worker, run[w].pc # "savePut", UNCHANGED <<job, tries>>
    PROVE  /\ \A s \in Status : End(w, s) => Steady(w)
           /\ LeaseLost(w) => Steady(w)
           /\ RetryOrFail(w) => Steady(w)
           /\ \A o \in Outcome : Finish(w, o) => Steady(w)
<1>0. run[w] \in JobLocals
  BY DEF TInv, JobTypes
<1>1. ASSUME NEW s \in Status, End(w, s) PROVE Steady(w)
  BY <1>0, <1>1, SaveSteady, Changes DEF End, Save, Afterwards
<1>2. CASE LeaseLost(w)
  <2> DEFINE q == [run[w] EXCEPT !.ack = "retry", !.pc = "release"]
  <2>1. q \in JobLocals /\ q.pc = "release" /\ q.mem = run[w].mem /\ q.attempt = run[w].attempt
    BY <1>0, Points DEF JobLocals, ClaimPoint
  <2>2. run' = [run EXCEPT ![w] = q]
    BY <1>2 DEF LeaseLost
  <2> HIDE DEF q
  <2> QED BY <2>1, <2>2, GoesSteady DEF Counting, Early, SavePoint
<1>3. CASE RetryOrFail(w)
  <2>1. CASE run[w].attempt < MaxJobAttempts
    <3> DEFINE r == [run[w] EXCEPT !.ack = "retry"]
    <3>1. r \in JobLocals /\ r.mem = run[w].mem /\ r.attempt = run[w].attempt
      BY <1>0 DEF JobLocals
    <3>2. run' = [run EXCEPT ![w] = Saving(r, [status |-> "retrying"], "release")]
      BY <1>3, <2>1 DEF RetryOrFail
    <3>3. [status |-> "retrying"] \in Change /\ "release" \in Afterwards
      BY DEF Change, Status, Afterwards
    <3> HIDE DEF r
    <3> QED BY <3>1, <3>2, <3>3, SaveSteady
  <2>2. CASE ~(run[w].attempt < MaxJobAttempts)
    BY <1>1, <1>3, <2>2 DEF RetryOrFail, Status, Terminal
  <2> QED BY <2>1, <2>2
<1>4. ASSUME NEW o \in Outcome, Finish(w, o) PROVE Steady(w)
  <2> DEFINE q == [run[w] EXCEPT !.outcome = o, !.pc = "unwind"]
  <2>1. q \in JobLocals /\ q.pc = "unwind" /\ q.mem = run[w].mem /\ q.attempt = run[w].attempt
    BY <1>0, Points DEF JobLocals, ClaimPoint
  <2>2. run' = [run EXCEPT ![w] = q]
    BY <1>4 DEF Finish
  <2> HIDE DEF q
  <2> QED BY <2>1, <2>2, GoesSteady DEF Counting, Early, SavePoint
<1> QED BY <1>1, <1>2, <1>3, <1>4

\* The steps of a run but its delivery and its start.
LEMMA RunsSteadily ==
    ASSUME TInv, AInv, NEW w \in Worker,
           \/ Load(w) \/ Claim(w) \/ Authenticate(w) \/ Authorize(w)
           \/ Analyse(w) \/ Lookup(w) \/ Report(w) \/ Read(w) \/ Publish(w)
           \/ Unwind(w) \/ Settle(w) \/ Release(w) \/ Ack(w)
    PROVE  Steady(w)
<1> USE DEF storeVars, queueVars, At, SavePoint, Early, ClaimPoint, RelayPoint
<1>0. run[w] \in JobLocals /\ run[w].outcome \in Outcome
  BY DEF TInv, JobTypes, JobLocals
<1>1. CASE Load(w)
  BY <1>1, GotoSteady, Points DEF Load
<1>2. CASE Claim(w)
  BY <1>2, GotoSteady, Points DEF Claim
<1>3. CASE Authenticate(w)
  <2>1. run[w].pc # "savePut" /\ UNCHANGED <<job, tries>>
    BY <1>3 DEF Authenticate
  <2>2. CASE Save(w, NoChange, "authorize")
    BY <1>0, <2>1, <2>2, SaveSteady, Changes DEF Save, Afterwards
  <2>3. {"expired", "failed"} \subseteq Status
    BY DEF Status, Terminal
  <2> QED BY <1>3, <2>1, <2>2, <2>3, EndSteady DEF Authenticate
<1>4. CASE Authorize(w)
  <2>1. run[w].pc # "savePut" /\ UNCHANGED <<job, tries>>
    BY <1>4 DEF Authorize
  <2>2. CASE Save(w, NoChange, "analyse")
    BY <1>0, <2>1, <2>2, SaveSteady, Changes DEF Save, Afterwards
  <2>3. "failed" \in Status
    BY DEF Status, Terminal
  <2> QED BY <1>4, <2>1, <2>2, <2>3, EndSteady DEF Authorize
<1>5. CASE Analyse(w)
  <2>1. run[w].pc # "savePut" /\ UNCHANGED <<job, tries>>
    BY <1>5 DEF Analyse
  <2>2. CASE Goto(w, "lookup")
    BY <2>1, <2>2, GotoSteady, Points
  <2>3. CASE run' = [run EXCEPT ![w].outcome = "failed", ![w].pc = "settle"]
    <3> DEFINE q == [run[w] EXCEPT !.outcome = "failed", !.pc = "settle"]
    <3>1. q \in JobLocals /\ q.pc = "settle" /\ q.mem = run[w].mem /\ q.attempt = run[w].attempt
      BY <1>0, Points DEF JobLocals, Outcome
    <3>2. run' = [run EXCEPT ![w] = q]
      BY <2>3
    <3> HIDE DEF q
    <3> QED BY <2>1, <3>1, <3>2, GoesSteady DEF Counting
  <2> QED BY <1>5, <2>2, <2>3 DEF Analyse
<1>6. CASE Lookup(w)
  <2>1. run[w].pc # "savePut" /\ UNCHANGED <<job, tries>> /\ "completed" \in Outcome
    BY <1>6 DEF Lookup, Outcome
  <2> QED BY <1>6, <2>1, EndSteady, GotoSteady, Points DEF Lookup
<1>7. CASE Report(w)
  <2>1. run[w].pc # "savePut" /\ UNCHANGED <<job, tries>> /\ "lost" \in Outcome
    BY <1>7 DEF Report, Outcome
  <2>2. CASE \E a \in {"read", "publish"} : Save(w, NoChange, a)
    BY <1>0, <2>1, <2>2, SaveSteady, Changes DEF Save, Afterwards
  <2> QED BY <1>7, <2>1, <2>2, EndSteady DEF Report
<1>8. CASE Read(w)
  <2>1. run[w].pc # "savePut" /\ UNCHANGED <<job, tries>>
        /\ {"needs_inputs", "failed", "expired", "fault"} \subseteq Outcome
    BY <1>8 DEF Read, Outcome
  <2> QED BY <1>8, <2>1, EndSteady, GotoSteady, Points DEF Read
<1>9. CASE Publish(w)
  <2>1. run[w].pc # "savePut" /\ UNCHANGED <<job, tries>> /\ {"completed", "fault"} \subseteq Outcome
    BY <1>9 DEF Publish, Outcome
  <2> QED BY <1>9, <2>1, EndSteady DEF Publish
<1>10. CASE Unwind(w)
  BY <1>10, GotoSteady, Points DEF Unwind
<1>11. CASE Settle(w)
  <2>1. run[w].pc # "savePut" /\ UNCHANGED <<job, tries>> /\ run[w].outcome # "none"
    BY <1>11 DEF Settle, TInv, Sane
  <2>2. CASE End(w, run[w].outcome) /\ run[w].outcome \in {"completed", "needs_inputs", "failed", "expired"}
    BY <2>1, <2>2, EndSteady DEF Status, Terminal
  <2> QED BY <1>0, <1>11, <2>1, <2>2, EndSteady DEF Settle, TerminalStatus, Outcome
<1>12. CASE Release(w)
  BY <1>12, GotoSteady, Points DEF Release
<1>13. CASE Ack(w)
  BY <1>13, RestsSteady DEF Ack
<1> QED BY <1>1, <1>2, <1>3, <1>4, <1>5, <1>6, <1>7, <1>8, <1>9, <1>10, <1>11, <1>12, <1>13

\* What happens to a worker beside its run.
LEMMA BesideSteadily ==
    ASSUME TInv, AInv, NEW w \in Worker, RenewTask(w) \/ Cancelled(w) \/ Crash(w)
    PROVE  Steady(w)
<1>0. run[w] \in JobLocals
  BY DEF TInv, JobTypes
<1>1. CASE RenewTask(w)
  <2>1. run' = run \/ run' = [run EXCEPT ![w] = [run[w] EXCEPT !.lost = TRUE]]
    BY <1>1 DEF RenewTask
  <2>2. PICK q \in JobLocals :
            /\ run' = [run EXCEPT ![w] = q]
            /\ q.pc = run[w].pc /\ q.job = run[w].job /\ q.mem = run[w].mem
            /\ q.after = run[w].after /\ q.change = run[w].change /\ q.attempt = run[w].attempt
    <3>1. CASE run' = run
      BY <1>0, <3>1 DEF TInv, JobTypes
    <3>2. CASE run' = [run EXCEPT ![w] = [run[w] EXCEPT !.lost = TRUE]]
      <4> DEFINE q == [run[w] EXCEPT !.lost = TRUE]
      <4>1. /\ q \in JobLocals
            /\ q.pc = run[w].pc /\ q.job = run[w].job /\ q.mem = run[w].mem
            /\ q.after = run[w].after /\ q.change = run[w].change /\ q.attempt = run[w].attempt
        BY <1>0 DEF JobLocals
      <4> HIDE DEF q
      <4>2. run' = [run EXCEPT ![w] = q]
        BY <3>2 DEF q
      <4> QED BY <4>1, <4>2
    <3> QED BY <2>1, <3>1, <3>2
  <2>3. run'[w] = q /\ \A v \in Worker : v # w => run'[v] = run[v]
    BY <2>2 DEF TInv, JobTypes
  <2> QED BY <1>1, <2>2, <2>3 DEF Steady, RenewTask, storeVars, queueVars, Early, Counting
<1>2. CASE Cancelled(w)
  <2>1. PICK a \in {"done", "retry"} : run' = [run EXCEPT ![w].ack = a, ![w].pc = "release"]
    BY <1>2 DEF Cancelled
  <2> DEFINE q == [run[w] EXCEPT !.ack = a, !.pc = "release"]
  <2>2. q \in JobLocals /\ q.pc = "release" /\ q.mem = run[w].mem /\ q.attempt = run[w].attempt
    BY <1>0, Points DEF JobLocals, ClaimPoint
  <2>3. run' = [run EXCEPT ![w] = q]
    BY <2>1
  <2> HIDE DEF q
  <2> QED BY <1>2, <2>2, <2>3, GoesSteady DEF Counting, Early, SavePoint, Cancelled, storeVars, queueVars
<1>3. CASE Crash(w)
  BY <1>3, RestsSteady DEF Crash, storeVars, queueVars
<1> QED BY <1>1, <1>2, <1>3

-----------------------------------------------------------------------------
\* In the beginning there is neither an attempt nor a delivery.
LEMMA InitAInv == ASSUME Init PROVE AInv
<1>1. \A w \in Worker : run[w].pc = "idle" /\ run[w].mem = NoJob /\ run[w].attempt = 0
  BY DEF Init, NotRunning
<1>2. \A j \in Job : Upcoming(j) = {} /\ tries[j] = 0 /\ job[j] = NoJob
  BY <1>1 DEF Init, Upcoming, Early
<1>3. Cardinality({}) = 0 /\ IsFiniteSet({})
  BY FS_EmptySet
<1>4. \A j \in Job : spent[j] = 0
  BY <1>2, <1>3 DEF spent
<1>5. 0 \in 0..MaxTries
  BY JobConstants
<1> QED BY <1>1, <1>2, <1>3, <1>4, <1>5 DEF AInv, AttemptsFit, Counting, SavePoint

\* The deliveries are counted by a number.
LEMMA UpcomingIs ==
    ASSUME TInv, AInv, NEW j \in Job
    PROVE  /\ IsFiniteSet(Upcoming(j)) /\ Cardinality(Upcoming(j)) \in Nat
           /\ tries[j] \in 0..MaxTries /\ spent[j] \in 0..MaxTries
           /\ spent[j] = tries[j] - Cardinality(Upcoming(j))
<1>1. IsFiniteSet(Upcoming(j)) /\ tries[j] \in 0..MaxTries /\ 0 <= spent[j]
  BY DEF AInv, TInv, JobTypes
<1>2. Cardinality(Upcoming(j)) \in Nat
  BY <1>1, FS_CardinalityType
<1>3. spent[j] = tries[j] - Cardinality(Upcoming(j))
  BY DEF spent
<1> QED BY <1>1, <1>2, <1>3, JobConstants

\* There is no less room while there are no more deliveries to come than before.
LEMMA RoomStays ==
    ASSUME TInv, AInv, NEW j \in Job, tries'[j] = tries[j], Upcoming(j)' \in SUBSET Upcoming(j)
    PROVE  IsFiniteSet(Upcoming(j)') /\ spent'[j] \in Int /\ spent[j] <= spent'[j]
<1>1. /\ IsFiniteSet(Upcoming(j)') /\ Cardinality(Upcoming(j)') \in Nat
      /\ Cardinality(Upcoming(j)') <= Cardinality(Upcoming(j))
  BY UpcomingIs, FS_Subset, FS_CardinalityType
<1>2. spent'[j] = tries'[j] - Cardinality(Upcoming(j)')
  BY DEF spent
<1> QED BY <1>1, <1>2, UpcomingIs

\* What is read of a record, or will be written, is a number.
LEMMA AttemptsAre ==
    ASSUME TInv
    PROVE  /\ \A j \in Job : job[j] # NoJob => job[j] \in Stored /\ job[j].attempts \in Nat
           /\ \A w \in Worker :
                /\ run[w].mem # NoJob => run[w].mem \in Stored /\ run[w].mem.attempts \in Nat
                /\ run[w].pc # "idle" => run[w].job \in Job
                /\ Counting(run[w]) => run[w].change.attempts \in Nat
<1>1. \A j \in Job : job[j] # NoJob => job[j] \in Stored
  BY DEF TInv, JobTypes
<1>2. \A w \in Worker : run[w].mem # NoJob => run[w].mem \in Stored
  BY DEF TInv, JobTypes, JobLocals
<1>3. ASSUME NEW w \in Worker, Counting(run[w]) PROVE run[w].change.attempts \in Nat
  <2>1. run[w].after = "authenticate" /\ Fits(run[w].change, run[w].after)
    BY <1>3 DEF TInv, Sane, Counting
  <2>2. PICK n \in Nat : run[w].change = [status |-> "running", attempts |-> n]
    BY <2>1 DEF Fits
  <2> QED BY <2>2
<1> QED BY <1>1, <1>2, <1>3 DEF TInv, Sane, Stored

\* A worker whose step it was not keeps its part, if there is no less room.
LEMMA OthersFit ==
    ASSUME TInv, AInv, NEW v \in Worker, run'[v] = run[v],
           \A j \in Job : spent'[j] \in Int /\ spent[j] <= spent'[j]
    PROVE  AttemptsFit(run[v])'
<1>1. AttemptsFit(run[v])
  BY DEF AInv
<1>2. run[v].mem # NoJob \/ Counting(run[v]) =>
        run[v].job \in Job /\ spent[run[v].job] \in Int /\ spent'[run[v].job] \in Int
                           /\ spent[run[v].job] <= spent'[run[v].job]
  BY <1>1, AttemptsAre, UpcomingIs DEF AttemptsFit, Counting, SavePoint
<1> QED BY <1>1, <1>2, AttemptsAre DEF AttemptsFit, Counting

\* A steady step of a worker.
LEMMA SteadyAInv == ASSUME TInv, AInv, NEW w \in Worker, Steady(w) PROVE AInv'
<1>1. \A j \in Job : Upcoming(j)' \in SUBSET Upcoming(j)
  BY DEF Upcoming, Steady
<1>2. \A j \in Job : tries'[j] = tries[j] /\ job'[j] = job[j]
  BY DEF Steady
<1>3. \A j \in Job : /\ IsFiniteSet(Upcoming(j)') /\ spent'[j] \in Int /\ spent[j] <= spent'[j]
                     /\ spent[j] \in Int
  BY <1>1, <1>2, RoomStays, UpcomingIs
<1>4. ASSUME NEW j \in Job PROVE 0 <= spent'[j] /\ (job'[j] # NoJob => job'[j].attempts <= spent'[j])
  BY <1>2, <1>3, AttemptsAre DEF AInv
<1>5. \A v \in Worker : v # w => AttemptsFit(run[v])'
  BY <1>3, OthersFit DEF Steady
<1>6. AttemptsFit(run[w])'
  <2>1. AttemptsFit(run[w])
    BY DEF AInv
  <2>2. run[w].mem # NoJob \/ Counting(run[w]) =>
          run[w].job \in Job /\ spent[run[w].job] \in Int /\ spent'[run[w].job] \in Int
                             /\ spent[run[w].job] <= spent'[run[w].job]
    BY <1>3, <2>1, AttemptsAre DEF AttemptsFit, Counting, SavePoint
  <2>3. run'[w].attempt \in 0..MaxTries
    BY <2>1, JobConstants DEF AttemptsFit, Steady
  <2>4. run'[w].mem # NoJob => run'[w].pc = "savePut" /\ run'[w].mem.attempts <= spent'[run'[w].job]
    BY <2>1, <2>2, AttemptsAre DEF AttemptsFit, Steady
  <2>5. Counting(run[w])' => run'[w].change.attempts <= spent'[run'[w].job]
    BY <2>1, <2>2, AttemptsAre DEF AttemptsFit, Steady, Counting
  <2> QED BY <2>3, <2>4, <2>5 DEF AttemptsFit, Counting
<1> QED BY <1>3, <1>4, <1>5, <1>6 DEF AInv

\* A delivery adds one that may count an attempt, and a try.
LEMMA DeliverAInv == ASSUME TInv, AInv, NEW w \in Worker, NEW j \in Job, Deliver(w, j) PROVE AInv'
<1>0. run[w] \in JobLocals /\ run[w].pc = "idle" /\ UNCHANGED job /\ run[w].mem = NoJob
  BY NothingRead DEF TInv, JobTypes, Deliver, At, storeVars
<1>1. CASE ~TriesLeft(j)
  <2>1. UNCHANGED <<job, tries, run>>
    BY <1>1 DEF Deliver, storeVars
  <2>2. Steady(w)
    BY <1>0, <2>1 DEF Steady
  <2> QED BY <2>2, SteadyAInv
<1>2. CASE TriesLeft(j)
  <2> DEFINE q == [run[w] EXCEPT !.job = j, !.pc = "load"]
  <2>1. q.pc = "load" /\ q.job = j /\ q.mem = NoJob /\ q.attempt = run[w].attempt
    BY <1>0 DEF JobLocals
  <2>2. run' = [run EXCEPT ![w] = q] /\ tries' = [tries EXCEPT ![j] = @ + 1]
    BY <1>2 DEF Deliver
  <2> HIDE DEF q
  <2>3. run'[w] = q /\ \A v \in Worker : v # w => run'[v] = run[v]
    BY <2>2 DEF TInv, JobTypes
  <2>4. /\ tries'[j] = tries[j] + 1 /\ \A i \in Job : i # j => tries'[i] = tries[i]
        /\ tries[j] \in Nat
    BY <2>2 DEF TInv, JobTypes
  <2>5. Upcoming(j)' = Upcoming(j) \cup {w} /\ w \notin Upcoming(j)
    BY <1>0, <2>1, <2>3 DEF Upcoming, Early
  <2>6. \A i \in Job : i # j => Upcoming(i)' = Upcoming(i)
    BY <1>0, <2>1, <2>3 DEF Upcoming, Early
  <2>7. /\ IsFiniteSet(Upcoming(j)') /\ Cardinality(Upcoming(j)') = Cardinality(Upcoming(j)) + 1
        /\ Cardinality(Upcoming(j)) \in Nat
    BY <2>5, UpcomingIs, FS_AddElement
  <2>8. \A i \in Job : /\ IsFiniteSet(Upcoming(i)') /\ spent'[i] \in Int /\ spent[i] <= spent'[i]
                       /\ spent[i] \in Int
    <3>1. spent'[j] = tries'[j] - Cardinality(Upcoming(j)')
      BY DEF spent
    <3>2. spent'[j] = spent[j] /\ spent[j] \in Int
      BY <2>4, <2>7, <3>1, UpcomingIs
    <3>3. ASSUME NEW i \in Job, i # j
          PROVE  /\ IsFiniteSet(Upcoming(i)') /\ spent'[i] \in Int /\ spent[i] <= spent'[i]
                 /\ spent[i] \in Int
      BY <2>4, <2>6, <3>3, RoomStays, UpcomingIs
    <3> QED BY <2>7, <3>2, <3>3
  <2>9. \A v \in Worker : v # w => AttemptsFit(run[v])'
    BY <2>3, <2>8, OthersFit
  <2>10. AttemptsFit(run[w])'
    BY <2>1, <2>3 DEF AttemptsFit, AInv, Counting, SavePoint
  <2>11. ASSUME NEW i \in Job PROVE 0 <= spent'[i] /\ (job'[i] # NoJob => job'[i].attempts <= spent'[i])
    BY <1>0, <2>8, AttemptsAre DEF AInv
  <2> QED BY <2>8, <2>9, <2>10, <2>11 DEF AInv
<1> QED BY <1>1, <1>2

\* A start counts the attempt of its delivery.
LEMMA StartAInv == ASSUME TInv, AInv, NEW w \in Worker, Start(w) PROVE AInv'
<1>0. /\ run[w] \in JobLocals /\ run[w].pc = "start" /\ UNCHANGED <<job, tries>>
      /\ run[w].mem = NoJob /\ run[w].job \in Job /\ job[run[w].job] \in Stored
  BY NothingRead DEF TInv, JobTypes, Sane, InHand, Start, At, storeVars, queueVars
<1>1. CASE AlreadyEnded(w)
  <2>1. Steady(w)
    BY <1>0, <1>1, GotoSteady, Points DEF Start, ClaimPoint, SavePoint
  <2> QED BY <2>1, SteadyAInv
<1>2. CASE ~AlreadyEnded(w)
  <2>1. PICK j : j = run[w].job
    OBVIOUS
  <2>2. PICK n : n = job[j].attempts + 1
    OBVIOUS
  <2>3. j \in Job /\ n \in Nat /\ job[j].attempts \in Nat /\ n = job[j].attempts + 1 /\ job[j] # NoJob
    BY <1>0, <2>1, <2>2, NoJobIsNoRecord DEF Stored
  <2>4. PICK c : c = [status |-> "running", attempts |-> n]
    OBVIOUS
  <2>5. c \in Change /\ c.attempts = n
    BY <2>3, <2>4, Changes
  <2>6. PICK q : q = Saving(run[w], c, "authenticate")
    OBVIOUS
  <2>7. /\ q.pc = "saveGet" /\ q.job = j /\ q.after = "authenticate" /\ q.change = c
        /\ q.mem = NoJob /\ q.attempt = run[w].attempt
    BY <1>0, <2>1, <2>6 DEF Saving, JobLocals
  <2>8. run' = [run EXCEPT ![w] = q]
    BY <1>2, <2>1, <2>2, <2>4, <2>6 DEF Start, Save, MyJob
  <2>9. run'[w] = q /\ \A v \in Worker : v # w => run'[v] = run[v]
    BY <2>8 DEF TInv, JobTypes
  <2>10. Upcoming(j)' = Upcoming(j) \ {w} /\ w \in Upcoming(j)
    BY <1>0, <2>1, <2>7, <2>9 DEF Upcoming, Early
  <2>11. \A i \in Job : Upcoming(i)' \in SUBSET Upcoming(i)
    BY <2>7, <2>9 DEF Upcoming, Early
  <2>12. \A i \in Job : /\ IsFiniteSet(Upcoming(i)') /\ spent'[i] \in Int /\ spent[i] <= spent'[i]
                        /\ spent[i] \in Int
    BY <1>0, <2>11, RoomStays, UpcomingIs
  <2>13. n <= spent'[j]
    <3>1. Cardinality(Upcoming(j)') = Cardinality(Upcoming(j)) - 1 /\ Cardinality(Upcoming(j)) \in Nat
      BY <2>3, <2>10, UpcomingIs, FS_RemoveElement
    <3>2. spent'[j] = tries'[j] - Cardinality(Upcoming(j)') /\ tries'[j] = tries[j]
      BY <1>0, <2>3 DEF spent
    <3>3. spent'[j] = spent[j] + 1 /\ job[j].attempts <= spent[j] /\ spent[j] \in Int
      BY <2>3, <3>1, <3>2, UpcomingIs DEF AInv
    <3> QED BY <2>3, <3>3
  <2>14. \A v \in Worker : v # w => AttemptsFit(run[v])'
    BY <2>9, <2>12, OthersFit
  <2>15. AttemptsFit(run[w])'
    BY <2>5, <2>7, <2>9, <2>13 DEF AttemptsFit, AInv
  <2>16. ASSUME NEW i \in Job PROVE 0 <= spent'[i] /\ (job'[i] # NoJob => job'[i].attempts <= spent'[i])
    BY <1>0, <2>12, AttemptsAre DEF AInv
  <2> QED BY <2>12, <2>14, <2>15, <2>16 DEF AInv
<1> QED BY <1>1, <1>2

-----------------------------------------------------------------------------
\* A step that neither delivers, starts nor runs anything.
LEMMA SameAInv == ASSUME TInv, AInv, UNCHANGED <<job, tries, run>> PROVE AInv'
<1>1. \A j \in Job : Upcoming(j)' = Upcoming(j)
  BY DEF Upcoming
<1>2. \A j \in Job : IsFiniteSet(Upcoming(j)') /\ spent'[j] \in Int /\ spent[j] <= spent'[j]
                     /\ spent[j] \in Int
  BY <1>1, RoomStays, UpcomingIs
<1>3. \A v \in Worker : AttemptsFit(run[v])'
  BY <1>2, OthersFit
<1>4. ASSUME NEW j \in Job PROVE 0 <= spent'[j] /\ (job'[j] # NoJob => job'[j].attempts <= spent'[j])
  BY <1>2, AttemptsAre DEF AInv
<1> QED BY <1>2, <1>3, <1>4 DEF AInv

\* A client inserts a job without an attempt.
LEMMA InsertAInv ==
    ASSUME TInv, AInv, NEW c \in Client, NEW j \in Job, EnqueueInsert(c, j) PROVE AInv'
<1>1. UNCHANGED <<tries, run>>
  BY DEF EnqueueInsert, queueVars
<1>2. /\ job'[j].attempts = 0
      /\ \A i \in Job : i # j => job'[i] = job[i]
  BY DEF EnqueueInsert, TInv, JobTypes
<1>3. \A i \in Job : Upcoming(i)' = Upcoming(i)
  BY <1>1 DEF Upcoming
<1>4. \A i \in Job : IsFiniteSet(Upcoming(i)') /\ spent'[i] \in Int /\ spent[i] <= spent'[i]
                     /\ spent[i] \in Int
  BY <1>1, <1>3, RoomStays, UpcomingIs
<1>5. \A v \in Worker : AttemptsFit(run[v])'
  BY <1>1, <1>4, OthersFit
<1>6. ASSUME NEW i \in Job PROVE 0 <= spent'[i] /\ (job'[i] # NoJob => job'[i].attempts <= spent'[i])
  BY <1>2, <1>4, AttemptsAre DEF AInv
<1> QED BY <1>4, <1>5, <1>6 DEF AInv

\* A save reads a record whose attempts are covered,
LEMMA SaveGetAInv == ASSUME TInv, AInv, NEW w \in Worker, SaveGet(w) PROVE AInv'
<1>0. /\ run[w] \in JobLocals /\ run[w].pc = "saveGet" /\ UNCHANGED <<job, tries>>
      /\ run[w].job \in Job /\ job[run[w].job] \in Stored /\ job[run[w].job] # NoJob
  BY NoJobIsNoRecord
  DEF TInv, JobTypes, Sane, InHand, SaveGet, At, storeVars, queueVars, Stored
<1> DEFINE q == [run[w] EXCEPT !.mem = job[run[w].job], !.pc = "savePut"]
<1>1. /\ q.pc = "savePut" /\ q.job = run[w].job /\ q.mem = job[run[w].job] /\ q.after = run[w].after
      /\ q.change = run[w].change /\ q.attempt = run[w].attempt
  BY <1>0 DEF JobLocals
<1>2. run' = [run EXCEPT ![w] = q]
  BY DEF SaveGet, MyJob
<1> HIDE DEF q
<1>3. run'[w] = q /\ \A v \in Worker : v # w => run'[v] = run[v]
  BY <1>2 DEF TInv, JobTypes
<1>4. \A j \in Job : Upcoming(j)' \in SUBSET Upcoming(j)
  BY <1>1, <1>3 DEF Upcoming, Early
<1>5. \A j \in Job : IsFiniteSet(Upcoming(j)') /\ spent'[j] \in Int /\ spent[j] <= spent'[j]
                     /\ spent[j] \in Int
  BY <1>0, <1>4, RoomStays, UpcomingIs
<1>6. \A v \in Worker : v # w => AttemptsFit(run[v])'
  BY <1>3, <1>5, OthersFit
<1>7. ASSUME NEW j \in Job PROVE 0 <= spent'[j] /\ (job'[j] # NoJob => job'[j].attempts <= spent'[j])
  BY <1>0, <1>5, AttemptsAre DEF AInv
<1>8. AttemptsFit(run[w])'
  <2>1. AttemptsFit(run[w]) /\ job[run[w].job].attempts <= spent[run[w].job]
    BY <1>0 DEF AInv
  <2>2. q.mem.attempts <= spent'[q.job]
    BY <1>0, <1>1, <1>5, <2>1, AttemptsAre
  <2>3. Counting(q) => q.change.attempts <= spent'[q.job]
    <3>1. Counting(q) => Counting(run[w])
      BY <1>0, <1>1 DEF Counting, SavePoint
    <3> QED BY <1>0, <1>1, <1>5, <2>1, <3>1, AttemptsAre DEF AttemptsFit
  <2> QED BY <1>1, <1>3, <2>1, <2>2, <2>3 DEF AttemptsFit, Counting
<1> QED BY <1>5, <1>6, <1>7, <1>8 DEF AInv

\* The attempts a save writes: those it read, or the one a start counted.
LEMMA MergedAttempts ==
    ASSUME NEW r \in JobLocals, r.mem \in Stored, Fits(r.change, r.after)
    PROVE  Merged(r).attempts = IF r.after = "authenticate" THEN r.change.attempts ELSE r.mem.attempts
<1>1. "attempts" \in DOMAIN r.mem
  BY DEF Stored
<1>2. Merged(r).attempts = IF "attempts" \in DOMAIN r.change THEN r.change["attempts"] ELSE r.mem["attempts"]
  BY <1>1 DEF Merged
<1>3. CASE r.after = "authenticate"
  <2>1. PICK n \in Nat : r.change = [status |-> "running", attempts |-> n]
    BY <1>3 DEF Fits
  <2> QED BY <1>2, <1>3, <2>1
<1>4. CASE r.after # "authenticate"
  <2>1. \/ r.change = [dispatch |-> "dispatched"]
        \/ \E s \in Status : r.change = [status |-> s]
        \/ r.change = NoChange
    BY <1>4 DEF Fits
  <2>2. "attempts" \notin DOMAIN r.change
    <3>1. CASE r.change = NoChange
      <4>1. DOMAIN r.change = {}
        BY <3>1 DEF NoChange
      <4> QED BY <4>1
    <3>2. CASE r.change = [dispatch |-> "dispatched"]
      <4>1. DOMAIN r.change = {"dispatch"}
        BY <3>2
      <4> QED BY <4>1
    <3>3. ASSUME NEW s \in Status, r.change = [status |-> s] PROVE "attempts" \notin DOMAIN r.change
      <4>1. DOMAIN r.change = {"status"}
        BY <3>3
      <4> QED BY <4>1
    <3> QED BY <2>1, <3>1, <3>2, <3>3
  <2> QED BY <1>2, <1>4, <2>2
<1> QED BY <1>3, <1>4

\* and writes one.
LEMMA SavePutAInv == ASSUME TInv, AInv, NEW w \in Worker, SavePut(w) PROVE AInv'
<1>0. /\ run[w] \in JobLocals /\ run[w].job \in Job /\ run[w].pc = "savePut"
      /\ run[w].mem \in Stored /\ run[w].mem # NoJob /\ Fits(run[w].change, run[w].after)
      /\ job' = [job EXCEPT ![run[w].job] = Merged(run[w])] /\ UNCHANGED tries
  BY SavePutIs, NoJobIsNoRecord DEF SavePut, queueVars, Stored
<1>1. PICK m : m = Merged(run[w])
  OBVIOUS
<1>2. /\ m \in Stored /\ m.attempts \in Nat
      /\ m.attempts = IF run[w].after = "authenticate" THEN run[w].change.attempts
                      ELSE run[w].mem.attempts
  BY <1>0, <1>1, MergedIs, MergedAttempts DEF Stored
<1>3. m.attempts <= spent[run[w].job]
  BY <1>0, <1>2 DEF AInv, AttemptsFit, Counting, SavePoint
<1> DEFINE n == IF run[w].after \in {"read", "publish"} THEN run[w].attempt ELSE m.attempts
           q == [run[w] EXCEPT !.pc = run[w].after, !.mem = NoJob, !.change = NoChange, !.attempt = n]
<1>4. n \in 0..MaxTries
  <2>1. spent[run[w].job] \in 0..MaxTries
    BY <1>0, UpcomingIs
  <2>2. run[w].attempt \in 0..MaxTries
    BY DEF AInv, AttemptsFit
  <2> QED BY <1>2, <1>3, <2>1, <2>2, JobConstants
<1>5. run' = [run EXCEPT ![w] = q]
  BY <1>1 DEF SavePut
<1> HIDE DEF n
<1>6. q.pc = run[w].after /\ q.mem = NoJob /\ q.attempt = n
  BY <1>0 DEF JobLocals
<1> HIDE DEF q
<1>7. run'[w] = q /\ \A v \in Worker : v # w => run'[v] = run[v]
  BY <1>5 DEF TInv, JobTypes
<1>8. q.pc \notin SavePoint \cup {"load", "claim", "start"}
  BY <1>0, <1>6 DEF Fits, SavePoint
<1>9. \A j \in Job : Upcoming(j)' \in SUBSET Upcoming(j)
  BY <1>7, <1>8 DEF Upcoming, Early
<1>10. \A j \in Job : IsFiniteSet(Upcoming(j)') /\ spent'[j] \in Int /\ spent[j] <= spent'[j]
                     /\ spent[j] \in Int
  BY <1>0, <1>9, RoomStays, UpcomingIs
<1>11. \A v \in Worker : v # w => AttemptsFit(run[v])'
  BY <1>7, <1>10, OthersFit
<1>12. AttemptsFit(run[w])'
  BY <1>4, <1>6, <1>7, <1>8 DEF AttemptsFit, Counting
<1>13. ASSUME NEW j \in Job PROVE 0 <= spent'[j] /\ (job'[j] # NoJob => job'[j].attempts <= spent'[j])
  <2>1. CASE j = run[w].job
    <3>1. job'[j] = m
      BY <1>0, <1>1, <2>1 DEF TInv, JobTypes
    <3> QED BY <1>2, <1>3, <1>10, <2>1, <3>1 DEF AInv
  <2>2. CASE j # run[w].job
    <3>1. job'[j] = job[j]
      BY <1>0, <2>2 DEF TInv, JobTypes
    <3> QED BY <1>10, <3>1, AttemptsAre DEF AInv
  <2> QED BY <2>1, <2>2
<1> QED BY <1>10, <1>11, <1>12, <1>13 DEF AInv

\* Every step keeps it.
LEMMA NextAInv == ASSUME TInv, AInv, [Next]_vars PROVE AInv'
<1>1. ASSUME NEW w \in Worker, Relay(w) \/ RunJob(w) \/ RenewTask(w) \/ Cancelled(w) \/ Crash(w)
      PROVE  AInv'
  BY <1>1, SteadyAInv, RelaysSteadily, RunsSteadily, BesideSteadily, DeliverAInv, StartAInv DEF RunJob
<1>2. ASSUME NEW c \in Client, NEW k \in Key, EnqueueLook(c, k) PROVE AInv'
  BY <1>2, SameAInv DEF EnqueueLook, storeVars, queueVars
<1>3. ASSUME NEW j \in Job, Redeliver(j) PROVE AInv'
  BY <1>3, SameAInv DEF Redeliver, storeVars
<1>4. ASSUME NEW n \in LeaseName, LapseOrphan(n) \/ LapseLive(n) PROVE AInv'
  BY <1>4, SameAInv DEF LapseOrphan, LapseLive, storeVars, queueVars
<1>5. CASE UNCHANGED vars
  BY <1>5, SameAInv DEF vars, storeVars, queueVars
<1> QED BY <1>1, <1>2, <1>3, <1>4, <1>5, InsertAInv, SaveGetAInv, SavePutAInv DEF Next

\* An attempt is only counted for a delivery of its own (run_analysis_job adds one under the
\* lease of the job), so a job never has more attempts than ARQ's max_tries: whoever
\* dies, however often the job is delivered again, and whatever record a save writes back.
THEOREM JobsAreTyped == Spec => []TypeOK
<1>1. TInv /\ AInv => TypeOK
  <2> SUFFICES ASSUME TInv, AInv PROVE TypeOK
    OBVIOUS
  <2>1. ASSUME NEW r \in Stored, NEW j \in Job, r.attempts <= spent[j] PROVE r \in JobRecord
    <3>1. r.attempts \in 0..MaxTries
      BY <2>1, UpcomingIs, JobConstants DEF Stored
    <3> QED BY <3>1 DEF Stored, JobRecord
  <2>2. job \in [Job -> JobRecord \cup {NoJob}]
    <3>1. \A j \in Job : job[j] \in JobRecord \cup {NoJob}
      BY <2>1, AttemptsAre DEF AInv
    <3> QED BY <3>1 DEF TInv, JobTypes
  <2>3. ASSUME NEW w \in Worker
        PROVE  /\ run[w].job \in Job \cup {NoJob} /\ run[w].mem \in JobRecord \cup {NoJob}
               /\ run[w].attempt \in 0..MaxTries
    <3>1. AttemptsFit(run[w])
      BY DEF AInv
    <3>2. run[w].mem # NoJob => run[w].job \in Job /\ run[w].mem \in Stored
                                /\ run[w].mem.attempts <= spent[run[w].job]
      BY <3>1, AttemptsAre DEF AttemptsFit
    <3>3. run[w].job \in Job \cup {NoJob}
      BY DEF TInv, JobTypes, JobLocals
    <3> QED BY <2>1, <3>1, <3>2, <3>3 DEF AttemptsFit
  <2> QED BY <2>2, <2>3 DEF TInv, JobTypes, TypeOK, Rows, Queue
<1>2. Init => TInv /\ AInv
  BY InitTInv, InitAInv
<1>3. RInv /\ AInv /\ [Next]_vars => AInv'
  BY NextAInv DEF RInv, QInv
<1>4. RInv => TInv
  BY DEF RInv, QInv
<1> QED BY <1>1, <1>2, <1>3, <1>4, RInvHolds, PTL DEF Spec

-----------------------------------------------------------------------------
\* A save changes the status of one job, and a runner only saves an open one.
LEMMA EndsAreKept ==
    ASSUME RInv, Next, counters.stall = 0, NEW j \in Job, job[j] # NoJob,
           job[j].status \in Terminal, job'[j].status # job[j].status
    PROVE  \E w \in Worker : MyJob(w) = j /\ run[w].after = "relayEnd"
<1>1. job[j] \in Stored
  BY DEF RInv, QInv, TInv, JobTypes
<1>2. ~UNCHANGED job
  OBVIOUS
<1>3. ASSUME NEW c \in Client, NEW i \in Job, EnqueueInsert(c, i) PROVE FALSE
  <2>1. job[i] \notin Stored /\ \E q \in Stored : job' = [job EXCEPT ![i] = q]
    BY <1>3, EnqueueInsertIs DEF RInv, QInv
  <2>2. job'[j] = job[j]
    BY <1>1, <2>1 DEF RInv, QInv, TInv, JobTypes
  <2> QED BY <2>2
<1>4. PICK w \in Worker : SavePut(w)
  <2>1. \A w \in Worker : ~Quiet(w) /\ ~SaveGet(w)
    BY <1>2 DEF Quiet, SaveGet, storeVars
  <2>2. \A i \in Job : ~Redeliver(i)
    BY <1>2 DEF Redeliver, storeVars
  <2>3. \A n \in LeaseName : ~LapseOrphan(n) /\ ~LapseLive(n)
    BY <1>2 DEF LapseOrphan, LapseLive, storeVars
  <2>4. \A c \in Client, k \in Key : ~EnqueueLook(c, k)
    BY <1>2 DEF EnqueueLook, storeVars
  <2> QED BY <1>3, <2>1, <2>2, <2>3, <2>4, Kinds DEF RInv, QInv
<1>5. /\ run[w].job \in Job /\ run[w].pc = "savePut"
      /\ job' = [job EXCEPT ![run[w].job] = Merged(run[w])]
  BY <1>4, SavePutIs DEF RInv, QInv
<1>6. run[w].job = j
  BY <1>5 DEF RInv, QInv, TInv, JobTypes
<1>7. run[w].after = "relayEnd"
  <2>1. OpenUntilSettled(w)
    BY DEF RInv, KInv
  <2> QED BY <1>5, <1>6, <2>1 DEF OpenUntilSettled, Works, Claims, SavePoint
<1> QED BY <1>6, <1>7 DEF MyJob

\* What WorkersKeepTheEnd says of one step.
KeepsTheEnd == \A j \in Job :
    /\ counters.stall = 0
    /\ job[j] # NoJob /\ job[j].status \in Terminal /\ job'[j].status # job[j].status
    => \E w \in Worker : MyJob(w) = j /\ run[w].after = "relayEnd"

\* save_job: while live leases do not lapse, a runner never changes how a job ended.
THEOREM EndsKeptByWorkers == Spec => WorkersKeepTheEnd
<1>1. RInv /\ [Next]_vars => [KeepsTheEnd]_job
  BY EndsAreKept DEF KeepsTheEnd, vars, storeVars
<1>2. WorkersKeepTheEnd <=> [][KeepsTheEnd]_job
  BY DEF WorkersKeepTheEnd, KeepsTheEnd
<1> QED BY <1>1, <1>2, RInvHolds, PTL DEF Spec

\* Every step on a row is one of BoundedLease, or leaves the row alone.
RowSteps == \A n \in LeaseName : L!Row(n)!LeaseNext \/ UNCHANGED lease[n]

\* What a worker does to a row is one of the operations of BoundedLease.
LEMMA LeaseStepRows ==
    ASSUME TInv, NEW w \in Worker, LeaseStep(w) PROVE RowSteps
<1> SUFFICES ASSUME NEW n \in LeaseName PROVE L!Row(n)!LeaseNext \/ UNCHANGED lease[n]
  BY DEF RowSteps
<1>1. CASE UNCHANGED lease
  BY <1>1
<1>2. ASSUME NEW m \in LeaseName, L!Acquire(w, m) \/ L!Renew(w, m) \/ L!Release(w, m)
      PROVE  L!Row(n)!LeaseNext \/ UNCHANGED lease[n]
  <2>1. CASE m # n
    BY <1>2, <2>1, OtherRows DEF TInv
  <2>2. CASE m = n /\ L!Acquire(w, n)
    BY <2>2 DEF L!Acquire, L!CanAcquire, L!HeldBy, TInv, JobTypes, L!TableTypeOK,
                L!Row!LeaseNext, L!Row!Acquire, L!Row!CanAcquire
  <2>3. CASE m = n /\ L!Renew(w, n)
    BY <2>3 DEF L!Renew, L!Holds, L!HeldBy, TInv, JobTypes, L!TableTypeOK,
                L!Row!LeaseNext, L!Row!Renew
  <2>4. CASE m = n /\ L!Release(w, n)
    BY <2>4 DEF L!Release, L!Holds, L!NoLease, TInv, JobTypes, L!TableTypeOK,
                L!Row!LeaseNext, L!Row!Release
  <2> QED BY <1>2, <2>1, <2>2, <2>3, <2>4
<1>3. CASE L!Abandon(w)
  <2>1. lease'[n] = IF lease[n].holder = w THEN [lease[n] EXCEPT !.holder = Orphan]
                    ELSE lease[n]
    BY <1>3 DEF L!Abandon, L!Holds
  <2>2. /\ lease'[n].holder = IF lease[n].holder = w THEN Orphan ELSE lease[n].holder
        /\ lease'[n].lapsed = lease[n].lapsed
    BY <2>1 DEF TInv, JobTypes, L!TableTypeOK
  <2> QED BY <2>2 DEF L!Row!LeaseNext, L!Row!Abandon
<1> QED BY <1>1, <1>2, <1>3 DEF LeaseStep

\* So is a lapse.
LEMMA LapseRows ==
    ASSUME TInv, NEW m \in LeaseName, L!Lapse(m) PROVE RowSteps
<1> SUFFICES ASSUME NEW n \in LeaseName PROVE L!Row(n)!LeaseNext \/ UNCHANGED lease[n]
  BY DEF RowSteps
<1>1. CASE m = n
  BY <1>1 DEF L!Lapse, TInv, JobTypes, L!TableTypeOK, L!Row!LeaseNext, L!Row!Lapse
<1>2. CASE m # n
  BY <1>2 DEF L!Lapse, TInv, JobTypes, L!TableTypeOK
<1> QED BY <1>1, <1>2

\* And every step of the workers.
LEMMA NextRows == ASSUME QInv, [Next]_vars PROVE [RowSteps]_lease
<1>1. ASSUME NEW w \in Worker, Quiet(w) PROVE RowSteps
  BY <1>1, LeaseStepRows DEF Quiet, Turns, QInv
<1>2. ASSUME NEW n \in LeaseName, LapseOrphan(n) \/ LapseLive(n) PROVE RowSteps
  BY <1>2, LapseRows DEF LapseOrphan, LapseLive, QInv
<1>3. ASSUME NEW w \in Worker, SaveGet(w) \/ SavePut(w) PROVE UNCHANGED lease
  BY <1>3 DEF SaveGet, SavePut
<1>4. ASSUME NEW c \in Client, NEW k \in Key, EnqueueLook(c, k) PROVE UNCHANGED lease
  BY <1>4 DEF EnqueueLook
<1>5. ASSUME NEW c \in Client, NEW j \in Job, EnqueueInsert(c, j) PROVE UNCHANGED lease
  BY <1>5 DEF EnqueueInsert
<1>6. ASSUME NEW j \in Job, Redeliver(j) PROVE UNCHANGED lease
  BY <1>6 DEF Redeliver
<1>7. CASE UNCHANGED vars
  BY <1>7 DEF vars
<1> QED BY <1>1, <1>2, <1>3, <1>4, <1>5, <1>6, <1>7, Kinds DEF QInv

\* acquire_lease, renew_lease and release_lease: every lease of the jobs is a BoundedLease.
THEOREM LeasesAreBounded == Spec => LeaseRows
<1>1. Init => \A n \in LeaseName : L!Row(n)!LeaseInit
  BY DEF Init, L!TableInit, L!NoLease, L!Row!LeaseInit
<1>2. QInv /\ [Next]_vars => [RowSteps]_lease
  BY NextRows
<1>3. Spec => (\A n \in LeaseName : L!Row(n)!LeaseInit) /\ [][RowSteps]_lease
  BY <1>1, <1>2, QueueHolds, PTL DEF Spec
<1> QED BY <1>3 DEF LeaseRows, L!Rows, RowSteps

-----------------------------------------------------------------------------
Locals == [op : {"none", "current", "refresh", "logout"}, pc : RequestPoints,
           failed : Token \cup {NoToken}, before : Pair, new : Token \cup {NoToken}]
Counters == [{"request", "outage", "wait", "crash"} -> Nat]

\* What has a type and no other part in the proofs.
Sound == /\ row \in BOOLEAN /\ revoked \in BOOLEAN /\ expired \in SUBSET Token
         /\ mutex \in [Server -> Request \cup {NoOne}]
         /\ calls \in Counters

Types == SessionTypeOK /\ Sound

\* The points between taking the lease and releasing it.
UnderLease == {"recheck", "probeHeld", "exchange", "put", "putAgain", "session", "identity",
               "clear", "delete", "release", "releaseFailed"}

\* Request r goes on to q without asking Timecue for cookies and without storing any.
Goes(r, q) ==
    /\ req' = [req EXCEPT ![r] = q]
    /\ \/ UNCHANGED leaseVars /\ (q.pc \in UnderLease => req[r].pc \in UnderLease)
       \/ RefreshLease!Acquire(r)
       \/ RefreshLease!Release(r) /\ q.pc \notin UnderLease /\ req[r].pc \in UnderLease
    /\ q.pc \notin {"put", "putAgain"} /\ req[r].pc # "put"
    /\ req[r].pc = "clear" => vault'.token = NoToken
    /\ q.pc = "exchange" /\ q.failed # NoToken => vault.token \in {NoToken, q.failed}

Plain(r) ==
    /\ Sound'
    /\ calls'.crash = calls.crash
    /\ UNCHANGED <<newest, history>>
    /\ vault' \in {vault, [vault EXCEPT !.token = NoToken]}
    /\ \E q \in Locals : Goes(r, q)

-----------------------------------------------------------------------------
\* A bounded event is counted, and a death leaves the count of deaths above 0.
LEMMA CountIs ==
    ASSUME calls \in Counters, NEW what \in {"request", "outage", "wait", "crash"}, NEW b,
           CountCall(what, b)
    PROVE  /\ calls' \in Counters
           /\ IF what = "crash" THEN calls'.crash # 0 ELSE calls'.crash = calls.crash
  BY DEF CountCall, Counters

\* Goto changes where a request is and keeps its locals, or forgets them all.
LEMMA GotoTurns ==
    ASSUME SessionConstants, Types, NEW r \in Request, NEW p \in RequestPoints, MoveTo(r, p)
    PROVE  \E q \in Locals : /\ req' = [req EXCEPT ![r] = q] /\ q.pc = p
                             /\ p # "idle" => q.failed = req[r].failed /\ q.new = req[r].new
<1>1. req[r] \in Locals /\ NoRequest \in Locals
  BY DEF Types, SessionTypeOK, Locals, NoRequest, RequestPoints, Pair, SessionConstants
<1>2. CASE p = "idle"
  BY <1>1, <1>2 DEF MoveTo, NoRequest
<1>3. CASE p # "idle"
  <2> DEFINE q == [req[r] EXCEPT !.pc = p]
  <2>1. q \in Locals /\ q.pc = p /\ q.failed = req[r].failed /\ q.new = req[r].new
    BY <1>1 DEF Locals
  <2>2. req' = [req EXCEPT ![r] = q]
    BY <1>3 DEF MoveTo
  <2> HIDE DEF q
  <2> QED BY <2>1, <2>2
<1> QED BY <1>2, <1>3

\* auth.me goes one of three ways.
LEMMA MeTurns ==
    ASSUME Types, NEW r \in Request, NEW ok, NEW refused, NEW failed, Me(r, ok, refused, failed)
    PROVE  /\ \E p \in {ok, refused, failed} : MoveTo(r, p)
           /\ calls' \in Counters /\ calls'.crash = calls.crash
  BY CountIs DEF Me, Types, Sound

\* A step that only goes on is Plain.
LEMMA PlainGoto ==
    ASSUME SessionConstants, Types, NEW r \in Request,
           Sound', calls'.crash = calls.crash, UNCHANGED <<newest, history, leaseVars>>,
           vault' \in {vault, [vault EXCEPT !.token = NoToken]},
           NEW p \in RequestPoints \ {"put", "putAgain", "exchange"}, MoveTo(r, p),
           req[r].pc # "put", p \in UnderLease => req[r].pc \in UnderLease,
           req[r].pc = "clear" => vault'.token = NoToken
    PROVE  Plain(r)
<1>1. PICK q \in Locals : req' = [req EXCEPT ![r] = q] /\ q.pc = p
  BY GotoTurns
<1>2. Goes(r, q)
  BY <1>1 DEF Goes
<1> QED BY <1>2 DEF Plain

\* So is one that asks Timecue who the session is.
LEMMA PlainMe ==
    ASSUME SessionConstants, Types, NEW r \in Request,
           UNCHANGED <<row, vault, timecueVars, mutex, leaseVars, history>>,
           NEW ok \in RequestPoints \ {"put", "putAgain", "exchange"},
           NEW refused \in RequestPoints \ {"put", "putAgain", "exchange"},
           NEW failed \in RequestPoints \ {"put", "putAgain", "exchange"},
           Me(r, ok, refused, failed), req[r].pc \notin {"put", "clear"},
           req[r].pc \in UnderLease \/ {ok, refused, failed} \cap UnderLease = {}
    PROVE  Plain(r)
<1>1. PICK p \in {ok, refused, failed} : MoveTo(r, p)
  BY MeTurns
<1>2. Sound' /\ calls'.crash = calls.crash
  BY MeTurns DEF Types, Sound, timecueVars
<1>3. p \in RequestPoints \ {"put", "putAgain", "exchange"}
  BY <1>1
<1> QED BY <1>1, <1>2, <1>3, PlainGoto DEF timecueVars

-----------------------------------------------------------------------------
\* The steps that begin a request start outside of the lease.
LEMMA BeginPlain ==
    ASSUME SessionConstants, Types, NEW r \in Request,
           NEW q \in Locals, q.pc \in {"read", "lock", "signOut"}, req[r].pc = "idle",
           req' = [req EXCEPT ![r] = q], CountCall("request", MaxRequests),
           UNCHANGED <<row, vault, timecueVars, mutex, leaseVars, history>>
    PROVE  Plain(r)
<1>1. Sound' /\ calls'.crash = calls.crash
  BY CountIs DEF Types, Sound, timecueVars
<1>2. Goes(r, q)
  BY DEF Goes, UnderLease
<1> QED BY <1>1, <1>2 DEF Plain, timecueVars

\* Each kind of request does.
LEMMA BeginsPlain == ASSUME SessionConstants, Types, NEW r \in Request, RequestBegins(r) PROVE Plain(r)
<1>1. ASSUME NEW op \in {"current", "refresh", "logout"}, NEW pc \in {"read", "lock", "signOut"},
             Begin(r, op, pc)
      PROVE  Plain(r)
  <2> DEFINE q == [NoRequest EXCEPT !.op = op, !.pc = pc]
  <2>1. q \in Locals /\ q.pc = pc
    BY DEF Locals, NoRequest, RequestPoints, Pair, SessionConstants
  <2>2. req' = [req EXCEPT ![r] = q] /\ req[r].pc = "idle" /\ CountCall("request", MaxRequests)
        /\ UNCHANGED <<row, vault, timecueVars, mutex, leaseVars, history>>
    BY <1>1 DEF Begin, IsAt
  <2> HIDE DEF q
  <2> QED BY <2>1, <2>2, BeginPlain
<1>2. CASE AdapterRefused(r)
  <2> DEFINE q == [NoRequest EXCEPT !.op = "refresh", !.pc = "lock", !.failed = vault.token]
  <2>1. q \in Locals /\ q.pc = "lock"
    BY DEF Locals, NoRequest, RequestPoints, Pair, SessionConstants, Types, SessionTypeOK
  <2>2. req' = [req EXCEPT ![r] = q] /\ req[r].pc = "idle" /\ CountCall("request", MaxRequests)
        /\ UNCHANGED <<row, vault, timecueVars, mutex, leaseVars, history>>
    BY <1>2 DEF AdapterRefused, IsAt
  <2> HIDE DEF q
  <2> QED BY <2>1, <2>2, BeginPlain
<1> QED BY <1>1, <1>2 DEF RequestBegins, BeginCurrent, BeginRefresh, BeginLogout

\* current_session remembers the access cookie.
LEMMA ReadTokensPlain ==
    ASSUME SessionConstants, Types, NEW r \in Request, ReadTokens(r) PROVE Plain(r)
<1> DEFINE q == [req[r] EXCEPT !.failed = vault.token, !.pc = "probe"]
<1>1. q \in Locals /\ q.pc = "probe"
  BY DEF Locals, RequestPoints, Pair, Types, SessionTypeOK
<1>2. req' = [req EXCEPT ![r] = q] /\ req[r].pc = "read"
      /\ UNCHANGED <<row, vault, timecueVars, mutex, leaseVars, history, calls>>
  BY DEF ReadTokens, IsAt
<1> HIDE DEF q
<1>3. Goes(r, q)
  BY <1>1, <1>2 DEF Goes, UnderLease
<1> QED BY <1>1, <1>2, <1>3 DEF Plain, timecueVars, Types, Sound

\* The comparison under the process-local lock.
LEMMA ComparePlain ==
    ASSUME SessionConstants, Types, NEW r \in Request, Compare(r) PROVE Plain(r)
<1> DEFINE q == [req[r] EXCEPT !.before = IF req[r].failed = NoToken THEN vault ELSE @,
                               !.pc = IF Rotated(r, FALSE) THEN "reprobe" ELSE "lease"]
<1>1. q \in Locals /\ q.pc \in {"reprobe", "lease"}
  BY DEF Locals, RequestPoints, Types, SessionTypeOK
<1>2. req' = [req EXCEPT ![r] = q] /\ req[r].pc = "compare"
      /\ UNCHANGED <<row, vault, timecueVars, mutex, leaseVars, history, calls>>
  BY DEF Compare, IsAt
<1> HIDE DEF q
<1>3. Goes(r, q)
  BY <1>1, <1>2 DEF Goes, UnderLease
<1> QED BY <1>1, <1>2, <1>3 DEF Plain, timecueVars, Types, Sound

\* The lease is taken.
LEMMA AcquirePlain ==
    ASSUME SessionConstants, Types, NEW r \in Request, Acquire(r) PROVE Plain(r)
<1>1. PICK q \in Locals : req' = [req EXCEPT ![r] = q] /\ q.pc = "recheck"
  BY GotoTurns DEF Acquire, RequestPoints
<1>2. req[r].pc = "lease" /\ RefreshLease!Acquire(r)
      /\ UNCHANGED <<row, vault, timecueVars, mutex, history, calls>>
  BY DEF Acquire, IsAt
<1>3. Goes(r, q)
  BY <1>1, <1>2 DEF Goes
<1> QED BY <1>2, <1>3 DEF Plain, timecueVars, Types, Sound

\* The lease is given up by the `finally`.
LEMMA ReleasePlain ==
    ASSUME SessionConstants, Types, NEW r \in Request, ReleaseLease(r) PROVE Plain(r)
<1>1. PICK p \in {"unlock", "unlockFailed"} : MoveTo(r, p)
  BY DEF ReleaseLease
<1>2. PICK q \in Locals : req' = [req EXCEPT ![r] = q] /\ q.pc = p
  BY <1>1, GotoTurns DEF RequestPoints
<1>3. req[r].pc \in {"release", "releaseFailed"} /\ RefreshLease!Release(r)
      /\ UNCHANGED <<row, vault, timecueVars, mutex, history, calls>>
  BY DEF ReleaseLease
<1>4. Goes(r, q)
  BY <1>2, <1>3 DEF Goes, UnderLease
<1> QED BY <1>3, <1>4 DEF Plain, timecueVars, Types, Sound

\* Only cookies that were not rotated meanwhile go on to the exchange.
LEMMA RecheckPlain ==
    ASSUME SessionConstants, Types, NEW r \in Request, Recheck(r) PROVE Plain(r)
<1>1. PICK p \in {"probeHeld", "exchange"} : MoveTo(r, p) /\ (p = "exchange" => ~Rotated(r, TRUE))
  BY DEF Recheck, RotatedMeanwhile
<1>2. PICK q \in Locals : req' = [req EXCEPT ![r] = q] /\ q.pc = p /\ q.failed = req[r].failed
  BY <1>1, GotoTurns DEF RequestPoints
<1>3. req[r].pc = "recheck"
      /\ UNCHANGED <<row, vault, timecueVars, mutex, leaseVars, history, calls>>
  BY DEF Recheck, IsAt
<1>4. q.pc = "exchange" /\ q.failed # NoToken => vault.token \in {NoToken, q.failed}
  BY <1>1, <1>2 DEF Rotated
<1>5. Goes(r, q)
  BY <1>2, <1>3, <1>4 DEF Goes, UnderLease
<1> QED BY <1>3, <1>5 DEF Plain, timecueVars, Types, Sound

\* Every step of a request is Plain, but the exchange and the two that store its answer.
LEMMA StepsPlain ==
    ASSUME SessionConstants, Types, NEW r \in Request, RequestStep(r)
    PROVE  Plain(r) \/ Exchange(r) \/ PutTokens(r) \/ PutTokensAgain(r)
<1> USE DEF UnderLease, RequestPoints
<1>1. CASE Probe(r)
  BY <1>1, PlainMe DEF Probe, IsAt
<1>2. CASE Lock(r)
  <2>1. Sound' /\ calls'.crash = calls.crash
    BY <1>2 DEF Lock, Types, Sound, timecueVars
  <2> QED BY <1>2, <2>1, PlainGoto DEF Lock, IsAt, timecueVars
<1>3. CASE Reprobe(r)
  BY <1>3, PlainMe DEF Reprobe, IsAt
<1>4. CASE Wait(r)
  <2>1. Sound' /\ calls'.crash = calls.crash
    BY <1>4, CountIs DEF Wait, Types, Sound, timecueVars
  <2>2. PICK p \in {"wait", "unlockFailed"} : MoveTo(r, p)
    BY <1>4 DEF Wait
  <2> QED BY <1>4, <2>1, <2>2, PlainGoto DEF Wait, IsAt, timecueVars
<1>5. CASE ProbeAfterWait(r)
  BY <1>5, PlainMe DEF ProbeAfterWait, IsAt
<1>6. CASE ProbeHeld(r)
  BY <1>6, PlainMe DEF ProbeHeld, IsAt
<1>7. CASE NothingToExchange(r)
  <2>1. Sound' /\ calls'.crash = calls.crash
    BY <1>7 DEF NothingToExchange, Types, Sound, timecueVars
  <2> QED BY <1>7, <2>1, PlainGoto DEF NothingToExchange, IsAt, timecueVars
<1>8. CASE ReadSession(r)
  <2>1. Sound' /\ calls'.crash = calls.crash
    BY <1>8 DEF ReadSession, Types, Sound, timecueVars
  <2>2. PICK p \in {"identity", "clear"} : MoveTo(r, p)
    BY <1>8 DEF ReadSession
  <2> QED BY <1>8, <2>1, <2>2, PlainGoto DEF ReadSession, IsAt, timecueVars
<1>9. CASE Identity(r)
  BY <1>9, PlainMe DEF Identity, IsAt
<1>10. CASE ClearVault(r) \/ ClearAfterFailure(r) \/ SignOutClear(r)
  <2>1. Sound' /\ calls'.crash = calls.crash
    BY <1>10 DEF ClearVault, ClearAfterFailure, SignOutClear, Types, Sound, timecueVars
  <2>2. vault' = [vault EXCEPT !.token = NoToken] /\ vault'.token = NoToken
    BY <1>10 DEF ClearVault, ClearAfterFailure, SignOutClear, Forget, Clear, Types, SessionTypeOK, Pair
  <2>3. PICK p \in {"delete", "deleteFailed", "deleteOut"} :
          MoveTo(r, p) /\ (p = "delete" => req[r].pc = "clear")
          /\ req[r].pc \in {"clear", "clearFailed", "clearOut"}
    BY <1>10 DEF ClearVault, ClearAfterFailure, SignOutClear, IsAt
  <2> QED BY <1>10, <2>1, <2>2, <2>3, PlainGoto
          DEF ClearVault, ClearAfterFailure, SignOutClear, timecueVars
<1>11. CASE DeleteSession(r) \/ DeleteAfterFailure(r) \/ SignOutDelete(r)
  <2>1. Sound' /\ calls'.crash = calls.crash
    BY <1>11 DEF DeleteSession, DeleteAfterFailure, SignOutDelete, Types, Sound, timecueVars
  <2>2. PICK p \in {"releaseFailed", "idle"} :
          MoveTo(r, p) /\ (p = "releaseFailed" => req[r].pc = "delete")
          /\ req[r].pc \in {"delete", "deleteFailed", "deleteOut"}
    BY <1>11 DEF DeleteSession, DeleteAfterFailure, SignOutDelete, IsAt
  <2> QED BY <1>11, <2>1, <2>2, PlainGoto
          DEF DeleteSession, DeleteAfterFailure, SignOutDelete, timecueVars
<1>12. CASE Unlock(r)
  <2>1. Sound' /\ calls'.crash = calls.crash
    BY <1>12 DEF Unlock, Types, Sound, timecueVars
  <2>2. PICK p \in {"clearFailed", "idle"} : MoveTo(r, p)
    BY <1>12 DEF Unlock
  <2> QED BY <1>12, <2>1, <2>2, PlainGoto DEF Unlock, timecueVars
<1>13. CASE SignOut(r)
  <2>1. Sound' /\ calls'.crash = calls.crash
    BY <1>13, CountIs DEF SignOut, Types, Sound
  <2> QED BY <1>13, <2>1, PlainGoto DEF SignOut, IsAt
<1> QED
  BY <1>1, <1>2, <1>3, <1>4, <1>5, <1>6, <1>7, <1>8, <1>9, <1>10, <1>11, <1>12, <1>13,
     ReadTokensPlain, ComparePlain, AcquirePlain, RecheckPlain, ReleasePlain DEF RequestStep

-----------------------------------------------------------------------------

\* The lease is with the request that works under it; only a dead one's lapses.
Leased == /\ lapsed => holder = Orphan
          /\ \A r \in Request : req[r].pc \in UnderLease => holder = r

\* A cookie about to be exchanged is the one that was refused, or none is left.
Compared == \A r \in Request :
    req[r].pc = "exchange" /\ req[r].failed # NoToken => vault.token \in {NoToken, req[r].failed}

\* The cookies from the newest on were never exchanged for a refused one.
Unrotated == \A t \in Token : t >= newest => rotations[t] = 0

\* A request is between the answer of Timecue and the vault.
Installing == \E r \in Request : req[r].pc \in {"put", "clear"}

\* While no process dies: cookies of the future were not sent, a request stores the newest ones,
\* and the vault has the newest ones, unsent, unless they are just being replaced.
Unsent ==
    /\ \A t \in Token : t > newest => sent[t] = 0
    /\ \A r \in Request : req[r].pc \in {"put", "putAgain"} =>
         req[r].new = newest /\ sent[newest] = 0
    /\ Installing \/ vault.token = NoToken \/ (vault.token = newest /\ sent[newest] = 0)
    /\ \A t \in Token : sent[t] <= 1

IInv == /\ Types /\ Leased /\ Compared /\ Unrotated /\ RotatedOnce
        /\ calls.crash = 0 => Unsent

-----------------------------------------------------------------------------
\* After login nothing was sent, and the vault has the newest pair.
LEMMA InitIInv == ASSUME SessionConstants, SessionInit PROVE IInv
<1> USE DEF SessionInit, SessionConstants, RefreshLease!LeaseInit, NoRequest, Token
<1>1. SessionTypeOK
  <2>1. req \in [Request -> Locals]
    BY DEF Locals, RequestPoints, Pair
  <2>2. vault \in Pair /\ newest \in Token /\ expired \in SUBSET Token
    BY DEF Pair
  <2>3. sent \in [Token -> 0..2] /\ rotations \in [Token -> 0..2]
    OBVIOUS
  <2>4. mutex \in [Server -> Request \cup {NoOne}] /\ RefreshLease!LeaseTypeOK
    BY DEF RefreshLease!LeaseTypeOK
  <2> QED BY <2>1, <2>2, <2>3, <2>4 DEF SessionTypeOK, Locals
<1>2. Sound
  <2>1. calls = [what \in {"request", "outage", "wait", "crash"} |-> 0]
    OBVIOUS
  <2>2. calls \in Counters
    BY <2>1 DEF Counters
  <2> QED BY <2>2 DEF Sound
<1>3. Leased /\ Compared
  BY DEF Leased, Compared, UnderLease
<1>4. Unrotated /\ RotatedOnce
  BY DEF Unrotated, RotatedOnce
<1>5. Unsent
  BY DEF Unsent
<1> QED BY <1>1, <1>2, <1>3, <1>4, <1>5 DEF IInv, Types

\* A plain step keeps the types,
LEMMA PlainTypes == ASSUME SessionConstants, Types, NEW r \in Request, Plain(r) PROVE Types'
<1>1. PICK q \in Locals : Goes(r, q)
  BY DEF Plain
<1>2. req' \in [Request -> Locals]
  BY <1>1 DEF Goes, Types, SessionTypeOK, Locals
<1>3. RefreshLease!LeaseTypeOK'
  BY <1>1 DEF Goes, RefreshLease!Acquire, RefreshLease!Release, RefreshLease!LeaseTypeOK, leaseVars, RefreshLease!leaseVars, Types, SessionTypeOK
<1>4. vault' \in Pair
  BY DEF Plain, Types, SessionTypeOK, Pair
<1>5. Sound' /\ newest' = newest /\ sent' = sent /\ rotations' = rotations
  BY DEF Plain, history
<1> QED BY <1>2, <1>3, <1>4, <1>5 DEF Types, SessionTypeOK, Sound, Locals

\* the lease with the request that works under it,
LEMMA PlainLeased ==
    ASSUME SessionConstants, Types, Leased, NEW r \in Request, Plain(r)
    PROVE  Leased' /\ \A u \in Request : u # r => req'[u] = req[u]
<1>1. PICK q \in Locals : Goes(r, q)
  BY DEF Plain
<1>2. req'[r] = q /\ \A u \in Request : u # r => req'[u] = req[u]
  BY <1>1 DEF Goes, Types, SessionTypeOK
<1>3. CASE UNCHANGED leaseVars /\ (q.pc \in UnderLease => req[r].pc \in UnderLease)
  BY <1>2, <1>3 DEF Leased, leaseVars
<1>4. CASE RefreshLease!Acquire(r)
  <2>1. holder \notin Request /\ holder' = r /\ ~lapsed'
    BY <1>4 DEF RefreshLease!Acquire, RefreshLease!CanAcquire, Leased, SessionConstants
  <2>2. \A u \in Request : req[u].pc \notin UnderLease
    BY <2>1 DEF Leased
  <2> QED BY <1>2, <2>1, <2>2 DEF Leased
<1>5. CASE RefreshLease!Release(r) /\ q.pc \notin UnderLease /\ req[r].pc \in UnderLease
  <2>1. holder = r
    BY <1>5 DEF Leased
  <2>2. ~lapsed' /\ \A u \in Request : u # r => req[u].pc \notin UnderLease
    BY <1>5, <2>1 DEF Leased, RefreshLease!Release
  <2> QED BY <1>2, <1>5, <2>2 DEF Leased
<1> QED BY <1>1, <1>2, <1>3, <1>4, <1>5 DEF Goes

\* and the whole invariant.
LEMMA PlainIInv == ASSUME SessionConstants, IInv, NEW r \in Request, Plain(r) PROVE IInv'
<1>1. Types /\ Types' /\ Leased /\ Leased' /\ \A u \in Request : u # r => req'[u] = req[u]
  BY PlainTypes, PlainLeased DEF IInv
<1>2. PICK q \in Locals : Goes(r, q)
  BY DEF Plain
<1>3. req'[r] = q
  BY <1>1, <1>2 DEF Goes, Types, SessionTypeOK
<1>4. newest' = newest /\ sent' = sent /\ rotations' = rotations
      /\ calls'.crash = calls.crash /\ vault'.token \in {vault.token, NoToken}
  BY <1>1 DEF Plain, history, Types, SessionTypeOK, Pair
<1>5. Compared'
  BY <1>1, <1>2, <1>3, <1>4 DEF IInv, Compared, Goes
<1>6. Unrotated' /\ RotatedOnce'
  BY <1>4 DEF IInv, Unrotated, RotatedOnce
<1>7. ASSUME Unsent PROVE Unsent'
  <2>1. \A u \in Request : req'[u].pc \in {"put", "putAgain"} => req'[u] = req[u]
    BY <1>1, <1>2, <1>3 DEF Goes
  <2>2. Installing => Installing' \/ vault'.token = NoToken
    BY <1>1, <1>2 DEF Installing, Goes
  <2> QED BY <1>4, <1>7, <2>1, <2>2 DEF Unsent
<1> QED BY <1>1, <1>4, <1>5, <1>6, <1>7 DEF IInv

-----------------------------------------------------------------------------
\* Nobody else is under the lease.
LEMMA AloneIs ==
    ASSUME Leased, NEW r \in Request, req[r].pc \in UnderLease
    PROVE  \A u \in Request : u # r => req[u].pc \notin UnderLease
  BY DEF Leased

\* What Twice counts.
LEMMA TwiceIs ==
    ASSUME NEW f \in [Token -> 0..2], NEW t \in Token
    PROVE  /\ Twice(f, t) \in [Token -> 0..2]
           /\ \A u \in Token : u # t => Twice(f, t)[u] = f[u]
           /\ f[t] = 0 => Twice(f, t)[t] = 1
  BY DEF Twice

\* What an exchange does, lost answers included.
LEMMA ExchangeIs ==
    ASSUME SessionConstants, Types, NEW r \in Request, Exchange(r)
    PROVE  /\ req[r].pc = "exchange" /\ vault.token \in Token
           /\ sent' = Twice(sent, vault.token)
           /\ UNCHANGED <<row, vault, revoked, expired, mutex, leaseVars>>
           /\ calls' \in Counters /\ calls'.crash = calls.crash
           /\ \/ newest' = newest /\ rotations' = rotations
              \/ /\ vault.token = newest /\ newest < MaxToken /\ newest' = newest + 1
                 /\ rotations' = IF req[r].failed = NoToken THEN rotations
                                 ELSE Twice(rotations, req[r].failed)
           /\ \E q \in Locals :
                /\ req' = [req EXCEPT ![r] = q]
                /\ \/ q.pc = "put" /\ q.new = newest' /\ newest' = newest + 1
                   \/ q.pc = "clear"
<1>1. /\ req[r].pc = "exchange" /\ vault.token \in Token /\ newest \in Token
      /\ req[r] \in Locals /\ calls \in Counters
  BY DEF Exchange, IsAt, Types, SessionTypeOK, Sound, Pair, Locals
<1>2. calls' \in Counters /\ calls'.crash = calls.crash
  BY <1>1, CountIs DEF Exchange
<1>3. CASE MoveTo(r, "clear")
  BY <1>1, <1>2, <1>3, GotoTurns DEF Exchange, RequestPoints
<1>4. CASE /\ vault.token = newest /\ newest < MaxToken /\ newest' = newest + 1
           /\ rotations' = IF req[r].failed = NoToken THEN rotations
                           ELSE Twice(rotations, req[r].failed)
           /\ req' = [req EXCEPT ![r].new = newest', ![r].pc = "put"]
  <2> DEFINE q == [req[r] EXCEPT !.new = newest', !.pc = "put"]
  <2>1. newest' \in Token
    BY <1>1, <1>4 DEF Token, SessionConstants
  <2>2. q \in Locals /\ q.pc = "put" /\ q.new = newest'
    BY <1>1, <2>1 DEF Locals, RequestPoints
  <2>3. req' = [req EXCEPT ![r] = q]
    BY <1>4
  <2> HIDE DEF q
  <2> QED BY <1>1, <1>2, <1>4, <2>2, <2>3 DEF Exchange
<1> QED BY <1>3, <1>4 DEF Exchange

\* An exchange keeps it: what is sent was not sent before, and the next pair is new.
LEMMA ExchangeIInv == ASSUME SessionConstants, IInv, NEW r \in Request, Exchange(r) PROVE IInv'
<1>1. /\ Types /\ Leased /\ req[r].pc \in UnderLease /\ req[r].pc = "exchange"
      /\ newest \in Token /\ vault.token \in Token /\ req[r] \in Locals
      /\ sent \in [Token -> 0..2] /\ rotations \in [Token -> 0..2]
  BY ExchangeIs DEF IInv, Types, SessionTypeOK, Locals, UnderLease
<1>2. \A u \in Request : u # r => req[u].pc \notin UnderLease
  BY <1>1, AloneIs
<1>3. PICK q \in Locals : /\ req' = [req EXCEPT ![r] = q]
                          /\ \/ q.pc = "put" /\ q.new = newest' /\ newest' = newest + 1
                             \/ q.pc = "clear"
  BY <1>1, ExchangeIs
<1>4. req'[r] = q /\ \A u \in Request : u # r => req'[u] = req[u]
  BY <1>1, <1>3 DEF Types, SessionTypeOK
<1>5. newest' \in Token /\ newest' >= newest
  BY <1>1, ExchangeIs DEF Token, SessionConstants
<1>6. \/ newest' = newest /\ rotations' = rotations
      \/ /\ newest' = newest + 1
         /\ \/ rotations' = rotations
            \/ rotations' = Twice(rotations, newest) /\ vault.token = newest
  <2>1. req[r].failed # NoToken => req[r].failed = vault.token
    BY <1>1 DEF IInv, Compared, SessionConstants, Token
  <2> QED BY <1>1, <2>1, ExchangeIs
<1>7. Types'
  <2>1. req' \in [Request -> Locals]
    BY <1>1, <1>3 DEF Types, SessionTypeOK, Locals
  <2>2. sent' \in [Token -> 0..2] /\ rotations' \in [Token -> 0..2]
    BY <1>1, <1>6, ExchangeIs, TwiceIs
  <2>3. UNCHANGED <<row, vault, revoked, expired, mutex, holder, lapsed>> /\ calls' \in Counters
    BY <1>1, ExchangeIs DEF leaseVars
  <2> QED BY <1>1, <1>5, <2>1, <2>2, <2>3 DEF Types, SessionTypeOK, Sound, Locals, RefreshLease!LeaseTypeOK
<1>8. Leased' /\ Compared'
  <2>1. holder' = holder /\ lapsed' = lapsed /\ vault' = vault
    BY <1>1, ExchangeIs DEF leaseVars
  <2> QED BY <1>1, <1>2, <1>3, <1>4, <2>1 DEF Leased, Compared, IInv, UnderLease
<1>9. Unrotated' /\ RotatedOnce'
  <2>1. rotations[newest] = 0
    BY <1>1 DEF IInv, Unrotated, Token, SessionConstants
  <2>2. \A t \in Token : /\ t # newest => rotations'[t] = rotations[t]
                         /\ rotations'[t] <= 1
    BY <1>1, <1>6, <2>1, TwiceIs DEF IInv, RotatedOnce
  <2>3. newest' = newest => rotations' = rotations
    BY <1>1, <1>6 DEF Token, SessionConstants
  <2>4. Unrotated'
    BY <1>1, <1>5, <2>2, <2>3 DEF IInv, Unrotated, Token, SessionConstants
  <2> QED BY <2>2, <2>4 DEF RotatedOnce
<1>10. ASSUME Unsent PROVE Unsent'
  <2>1. ~Installing
    BY <1>1, <1>2 DEF Installing, UnderLease
  <2>2. vault.token = newest /\ sent[newest] = 0
    BY <1>1, <1>10, <2>1 DEF Unsent, SessionConstants, Token
  <2>3. sent' = Twice(sent, newest) /\ vault' = vault
    BY <1>1, <2>2, ExchangeIs
  <2>4. \A t \in Token : /\ t # newest => sent'[t] = sent[t]
                         /\ sent'[t] <= 1
    BY <1>1, <1>10, <2>2, <2>3, TwiceIs DEF Unsent
  <2>5. \A t \in Token : t > newest' => sent'[t] = 0
    BY <1>1, <1>5, <1>10, <2>4 DEF Unsent, Token, SessionConstants
  <2>6. \A u \in Request : req'[u].pc \in {"put", "putAgain"} =>
          req'[u].new = newest' /\ sent'[newest'] = 0
    <3>1. newest' = newest + 1 => sent'[newest'] = 0
      BY <1>1, <1>5, <1>10, <2>4 DEF Unsent, Token, SessionConstants
    <3> QED BY <1>2, <1>3, <1>4, <3>1 DEF UnderLease
  <2>7. Installing'
    BY <1>3, <1>4 DEF Installing
  <2> QED BY <2>4, <2>5, <2>6, <2>7 DEF Unsent
<1> QED BY <1>1, <1>7, <1>8, <1>9, <1>10, ExchangeIs DEF IInv

-----------------------------------------------------------------------------
\* Storing the answer makes the vault the newest again.
LEMMA PutIInv ==
    ASSUME SessionConstants, IInv, NEW r \in Request, PutTokens(r) \/ PutTokensAgain(r)
    PROVE  IInv'
<1>1. PICK p \in {"putAgain", "session"} :
        /\ MoveTo(r, p) /\ req[r].pc \in {"put", "putAgain"} /\ Put(req[r].new)
        /\ UNCHANGED <<row, timecueVars, mutex, leaseVars, history, calls>>
  BY DEF PutTokens, PutTokensAgain, IsAt
<1>2. /\ Types /\ Leased /\ req[r].pc \in UnderLease /\ req[r] \in Locals /\ vault \in Pair
      /\ req \in [Request -> Locals]
  BY <1>1 DEF IInv, Types, SessionTypeOK, Locals, UnderLease
<1>3. \A u \in Request : u # r => req[u].pc \notin UnderLease
  BY <1>2, AloneIs
<1>4. PICK q \in Locals : req' = [req EXCEPT ![r] = q] /\ q.pc = p /\ q.new = req[r].new
  BY <1>1, <1>2, GotoTurns DEF RequestPoints
<1>5. req'[r] = q /\ \A u \in Request : u # r => req'[u] = req[u]
  BY <1>2, <1>4
<1>6. vault' \in Pair /\ vault'.token = req[r].new
  BY <1>1, <1>2 DEF Put, Pair, Locals
<1>7. /\ UNCHANGED <<row, newest, revoked, expired, mutex, holder, lapsed, sent, rotations, calls>>
  BY <1>1 DEF timecueVars, leaseVars, history
<1>8. Types'
  BY <1>2, <1>4, <1>6, <1>7 DEF Types, SessionTypeOK, Sound, Counters, Locals, RefreshLease!LeaseTypeOK
<1>9. Leased' /\ Compared'
  BY <1>2, <1>3, <1>4, <1>5, <1>7 DEF Leased, Compared, UnderLease
<1>10. Unrotated' /\ RotatedOnce'
  BY <1>7 DEF IInv, Unrotated, RotatedOnce
<1>11. ASSUME Unsent PROVE Unsent'
  <2>1. req[r].new = newest /\ sent[newest] = 0
    BY <1>1, <1>11 DEF Unsent
  <2>2. \A u \in Request : req'[u].pc \in {"put", "putAgain"} => u = r
    BY <1>3, <1>5 DEF UnderLease
  <2> QED BY <1>4, <1>5, <1>6, <1>7, <1>11, <2>1, <2>2 DEF Unsent
<1> QED BY <1>7, <1>8, <1>9, <1>10, <1>11 DEF IInv

\* A death orphans the lease of its requests.
LEMMA CrashIInv == ASSUME SessionConstants, IInv, NEW s \in Server, ServerDies(s) PROVE IInv'
<1>1. /\ Types /\ Leased /\ NoRequest \in Locals /\ NoRequest.pc = "idle"
      /\ req \in [Request -> Locals]
  BY DEF IInv, Types, SessionTypeOK, Locals, NoRequest, RequestPoints, Pair, SessionConstants
<1>2. calls' \in Counters /\ calls'.crash # 0
  BY <1>1, CountIs DEF ServerDies, Types, Sound
<1>3. /\ UNCHANGED <<row, vault, newest, revoked, expired, lapsed, sent, rotations>>
      /\ holder' = IF holder \in Request /\ Home[holder] = s THEN Orphan ELSE holder
      /\ mutex' = [mutex EXCEPT ![s] = NoOne]
      /\ req' = [r \in Request |-> IF Home[r] = s THEN NoRequest ELSE req[r]]
  BY DEF ServerDies, timecueVars, history
<1>4. Types'
  <2>1. req' \in [Request -> Locals]
    BY <1>1, <1>3
  <2>2. mutex' \in [Server -> Request \cup {NoOne}] /\ holder' \in Request \cup {Free, Orphan}
    BY <1>1, <1>3 DEF Types, Sound, SessionTypeOK, RefreshLease!LeaseTypeOK
  <2> QED BY <1>1, <1>2, <1>3, <2>1, <2>2 DEF Types, SessionTypeOK, Sound, Locals, RefreshLease!LeaseTypeOK
<1>5. \A u \in Request : req'[u].pc # "idle" => req'[u] = req[u] /\ Home[u] # s
  BY <1>1, <1>3
<1>6. Leased'
  BY <1>1, <1>3, <1>5 DEF Leased, UnderLease
<1>7. Compared'
  BY <1>3, <1>5 DEF IInv, Compared
<1>8. Unrotated' /\ RotatedOnce'
  BY <1>3 DEF IInv, Unrotated, RotatedOnce
<1> QED BY <1>2, <1>4, <1>6, <1>7, <1>8 DEF IInv

\* The clock of the cookies and of the lease.
LEMMA RestIInv ==
    ASSUME SessionConstants, IInv, Expire \/ LapseRefresh \/ UNCHANGED sessionVars PROVE IInv'
<1>0. newest \in Token /\ expired \in SUBSET Token /\ lapsed \in BOOLEAN
  BY DEF IInv, Types, SessionTypeOK, RefreshLease!LeaseTypeOK
<1>1. /\ UNCHANGED <<row, vault, newest, revoked, mutex, req, sent, rotations, calls, holder>>
      /\ expired' \in SUBSET Token /\ lapsed' \in BOOLEAN
      /\ lapsed' => lapsed \/ holder = Orphan
  <2>1. CASE Expire
    BY <1>0, <2>1 DEF Expire, leaseVars, history
  <2>2. CASE LapseRefresh
    BY <1>0, <2>2 DEF LapseRefresh, RefreshLease!Lapse, timecueVars, history
  <2>3. CASE UNCHANGED sessionVars
    BY <1>0, <2>3 DEF sessionVars, timecueVars, leaseVars, history
  <2> QED BY <2>1, <2>2, <2>3
<1>2. Types'
  BY <1>1 DEF IInv, Types, SessionTypeOK, Sound, Counters, RefreshLease!LeaseTypeOK
<1>3. Leased' /\ Compared' /\ Unrotated' /\ RotatedOnce'
  BY <1>1 DEF IInv, Leased, Compared, Unrotated, RotatedOnce
<1>4. Unsent => Unsent'
  BY <1>1 DEF Unsent, Installing
<1> QED BY <1>1, <1>2, <1>3, <1>4 DEF IInv

\* Every step keeps the invariant.
LEMMA NextIInv == ASSUME SessionConstants PROVE IInv /\ [SessionNext]_sessionVars => IInv'
<1> SUFFICES ASSUME IInv, [SessionNext]_sessionVars PROVE IInv'
  OBVIOUS
<1>1. Types
  BY DEF IInv
<1>2. ASSUME NEW r \in Request, RequestBegins(r) PROVE IInv'
  BY <1>1, <1>2, BeginsPlain, PlainIInv
<1>3. ASSUME NEW r \in Request, RequestStep(r) PROVE IInv'
  BY <1>1, <1>3, StepsPlain, PlainIInv, ExchangeIInv, PutIInv
<1> QED BY <1>2, <1>3, CrashIInv, RestIInv DEF SessionNext

\* The invariant holds in every reachable state, for any constants.
THEOREM IInvHolds == ASSUME SessionConstants PROVE SessionSpec => []IInv
<1>1. SessionInit => IInv
  BY InitIInv
<1> QED BY <1>1, NextIInv, PTL DEF SessionSpec

\* _refresh_unlocked under lock and lease: while no process dies, no refresh cookie is sent
\* to Timecue twice.
THEOREM CookiesSentOnce == ASSUME SessionConstants PROVE SessionSpec => []CookieOnce
<1>1. IInv => CookieOnce
  BY DEF IInv, CookieOnce, Unsent
<1> QED BY <1>1, IInvHolds, PTL

\* The comment in refresh: the cookies are not rotated twice for one refused access cookie,
\* also when processes die, answers are lost and waits give up.
THEOREM RotatedOnceAlways == ASSUME SessionConstants PROVE SessionSpec => []RotatedOnce
<1>1. IInv => RotatedOnce
  BY DEF IInv
<1> QED BY <1>1, IInvHolds, PTL

\* Both, of refresh as a whole: a refresh cookie is spent once, and once for one refused access
\* cookie.
THEOREM RefreshedAtMostOnce == ASSUME SessionConstants PROVE SessionSpec => []RefreshedOnce
<1> QED BY CookiesSentOnce, RotatedOnceAlways, PTL DEF RefreshedOnce

\* token_vault: while no process dies, what is stored is what Timecue takes, outside of an
\* exchange and its clean-up.
THEOREM VaultStaysNewest == ASSUME SessionConstants PROVE SessionSpec => []VaultIsNewest
<1>1. IInv => VaultIsNewest
  BY DEF IInv, VaultIsNewest, Unsent, Installing
<1> QED BY <1>1, IInvHolds, PTL

\* Session row, vault, lock, lease and requests keep their types.
THEOREM SessionTypes == ASSUME SessionConstants PROVE SessionSpec => []SessionTypeOK
<1>1. IInv => SessionTypeOK
  BY DEF IInv, Types
<1> QED BY <1>1, IInvHolds, PTL

-----------------------------------------------------------------------------
\* A pool that is not the current one is shut, or somebody is about to shut it.
Abandoned(p) == p # current => Ending(p) \/ pools[p].state = "shut"

\* Its child has ended, or the lifespan, which tells no child it does not know, took it.
Dead(p) == pools[p].child = "dead" \/ Pool(Lifespan) = p

\* A future exists from the submission on, and with it the child.
Submitted(t) ==
    /\ call[t].at \in {"idle", "submit"} => future[t] = "none"
    /\ call[t].at \in {"wait", "replace", "discard", "terminate", "shut"} => future[t] # "none"
    /\ future[t] # "none" => Pool(t) \in DOMAIN pools /\ pools[Pool(t)].child # "none"

\* A future breaks with the child, and only a broken one leads to discarding.
BrokenIsDead(t) ==
    /\ future[t] = "broken" => pools[Pool(t)].child = "dead"
    /\ call[t].at = "discard" => future[t] = "broken"

\* Who shuts a pool has ended its child.
ShutIsDead(p) == pools[p].state = "shut" => Dead(p)
ShutterKilled(t) == call[t].at = "shut" => Dead(Pool(t))

\* A call that has ended with its future open left no child to compute it.
EndedIsDead(t) == call[t].at = "ended" /\ future[t] \in {"pending", "running"} => Dead(Pool(t))

\* The lifespan takes a pool once, at the end of the application.
LifespanOnce == call[Lifespan].at = "idle" => Pool(Lifespan) = None

OfThread(t) == Submitted(t) /\ BrokenIsDead(t) /\ ShutterKilled(t) /\ EndedIsDead(t)

PInv == /\ PoolTypeOK /\ LifespanOnce
        /\ \A p \in DOMAIN pools : Abandoned(p) /\ ShutIsDead(p)
        /\ \A t \in Thread : OfThread(t)

-----------------------------------------------------------------------------
\* What a step may do to the pools: none disappears, a child that started does not
\* become one that has not, a dead one stays dead; the lifespan takes a pool once.
Grown == /\ DOMAIN pools \subseteq DOMAIN pools'
         /\ \A p \in DOMAIN pools :
              /\ pools[p].child # "none" => pools'[p].child # "none"
              /\ pools[p].child = "dead" => pools'[p].child = "dead"
         /\ Pool(Lifespan)' = Pool(Lifespan) \/ Pool(Lifespan) = None

\* One pool that is put in place of another.
LEMMA PutPool ==
    ASSUME NEW ps \in Seq(OfPool), NEW p \in DOMAIN ps, NEW r \in OfPool
    PROVE  LET qs == [ps EXCEPT ![p] = r] IN
           /\ qs \in Seq(OfPool) /\ DOMAIN qs = DOMAIN ps
           /\ qs[p] = r /\ \A q \in DOMAIN ps : q # p => qs[q] = ps[q]
  OBVIOUS

\* No pool, no call: the invariant holds.
LEMMA InitPInv == ASSUME PoolConstants, PoolInit PROVE PInv
  BY
  DEF PoolInit, PInv, PoolTypeOK, LifespanOnce, OfThread, Submitted, BrokenIsDead, ShutterKilled,
      EndedIsDead, PoolConstants, Caller, Pool, Stages

\* The invariant says both parts of PoolIsOurs.
LEMMA PInvPoolIsOurs == PInv => PoolIsOurs
  BY DEF PInv, PoolIsOurs, OnePool, NobodyComputesForNoOne, Abandoned, OfThread, EndedIsDead,
         Dead, IsAlive

-----------------------------------------------------------------------------
\* One pool that is created after the others.
LEMMA AppendPool ==
    ASSUME NEW ps \in Seq(OfPool), NEW r \in OfPool
    PROVE  LET qs == Append(ps, r) IN
           /\ qs \in Seq(OfPool) /\ DOMAIN qs = DOMAIN ps \cup {Len(ps) + 1}
           /\ Len(ps) + 1 \notin DOMAIN ps /\ Len(ps) \in Nat
           /\ qs[Len(ps) + 1] = r /\ \A q \in DOMAIN ps : qs[q] = ps[q]
  OBVIOUS

\* A thread that does nothing keeps its part, whatever happens to the pools.
LEMMA Untouched ==
    ASSUME PoolConstants, PInv, Grown, NEW u \in Thread, call'[u] = call[u], future'[u] = future[u]
    PROVE  OfThread(u)'
<1>1. /\ PoolTypeOK /\ OfThread(u) /\ u \in Caller /\ None \notin DOMAIN pools
  BY DEF PInv, Caller, PoolConstants, PoolTypeOK
<1>2. Pool(u)' = Pool(u) /\ (call[u].at = "shut" => Pool(u) \in DOMAIN pools)
  BY <1>1 DEF Pool, PoolTypeOK
<1>3. \A p \in DOMAIN pools : Dead(p) => Dead(p)'
  BY <1>1 DEF Dead, Grown
<1>4. Submitted(u)'
  BY <1>1, <1>2 DEF OfThread, Submitted, Grown
<1>5. BrokenIsDead(u)'
  BY <1>1, <1>2 DEF OfThread, Submitted, BrokenIsDead, Grown
<1>6. ShutterKilled(u)'
  BY <1>1, <1>2, <1>3 DEF OfThread, ShutterKilled
<1>7. EndedIsDead(u)'
  BY <1>1, <1>2, <1>3 DEF OfThread, Submitted, EndedIsDead
<1> QED
  BY <1>4, <1>5, <1>6, <1>7 DEF OfThread

\* _get_process_executor: a fresh pool becomes the current one, the others keep their shutters.
LEMMA GetKeeps == ASSUME PoolConstants, PInv, NEW t \in Thread, Get(t) PROVE PInv'
<1> DEFINE fresh == [state |-> "open", child |-> "none", queue |-> <<>>]
<1>1. /\ PoolTypeOK /\ OfThread(t) /\ LifespanOnce /\ t \in Caller /\ Lifespan \in Caller /\ t # Lifespan
      /\ \A u \in Thread : u \in Caller
  BY DEF PInv, Caller, PoolConstants
<1>2. /\ future' = future /\ troubles' = troubles /\ call[t].at = "idle" /\ future[t] = "none"
      /\ call' = [call EXCEPT ![t] = [at |-> "submit", pool |-> current']]
      /\ current' \in DOMAIN pools'
      /\ pools' \in Seq(OfPool)
      /\ DOMAIN pools \subseteq DOMAIN pools' /\ \A p \in DOMAIN pools : pools'[p] = pools[p]
      /\ \A p \in DOMAIN pools' : p \notin DOMAIN pools => p = current' /\ pools'[p] = fresh
      /\ current # None => current' = current
  <2>1. CASE current # None
    BY <1>1, <2>1 DEF Get, PoolTypeOK, OfThread, Submitted
  <2>2. CASE current = None
    <3>1. fresh \in OfPool
      BY DEF OfPool
    <3>2. pools' = Append(pools, fresh) /\ current' = Len(pools) + 1 /\ future' = future /\ troubles' = troubles
          /\ call[t].at = "idle" /\ call' = [call EXCEPT ![t] = [at |-> "submit", pool |-> Len(pools) + 1]]
      BY <2>2 DEF Get
    <3> HIDE DEF fresh
    <3>3. /\ pools' \in Seq(OfPool) /\ DOMAIN pools' = DOMAIN pools \cup {Len(pools) + 1}
          /\ pools'[Len(pools) + 1] = fresh /\ \A q \in DOMAIN pools : pools'[q] = pools[q]
      BY <1>1, <3>1, <3>2, AppendPool DEF PoolTypeOK
    <3> QED
      BY <1>1, <2>2, <3>2, <3>3 DEF OfThread, Submitted
  <2> QED
    BY <2>1, <2>2
<1> HIDE DEF fresh
<1>3. /\ call'[t] = [at |-> "submit", pool |-> current']
      /\ \A u \in Caller : u # t => call'[u] = call[u]
  BY <1>1, <1>2 DEF PoolTypeOK
<1>4. Grown
  BY <1>1, <1>2, <1>3 DEF Grown, Pool
<1>5. PoolTypeOK'
  BY <1>1, <1>2, <1>3 DEF PoolTypeOK, Stages, Pool
<1>6. LifespanOnce'
  BY <1>1, <1>3 DEF LifespanOnce, Pool
<1>7. ASSUME NEW p \in DOMAIN pools' PROVE Abandoned(p)' /\ ShutIsDead(p)'
  <2>1. CASE p \in DOMAIN pools
    <3>1. Abandoned(p) /\ ShutIsDead(p) /\ p # None
      BY <2>1 DEF PInv, PoolTypeOK, PoolConstants
    <3>2. Ending(p) => Ending(p)'
      BY <1>1, <1>2, <1>3 DEF Ending, Pool
    <3> QED
      BY <1>1, <1>2, <1>3, <2>1, <3>1, <3>2 DEF Abandoned, ShutIsDead, Dead, Pool
  <2>2. CASE p \notin DOMAIN pools
    BY <1>2, <2>2 DEF Abandoned, ShutIsDead, fresh
  <2> QED
    BY <2>1, <2>2
<1>8. ASSUME NEW u \in Thread PROVE OfThread(u)'
  <2>1. CASE u = t
    BY <1>2, <1>3, <2>1 DEF OfThread, Submitted, BrokenIsDead, ShutterKilled, EndedIsDead
  <2>2. CASE u # t
    BY <1>1, <1>2, <1>3, <1>4, <2>2, Untouched
  <2> QED
    BY <2>1, <2>2
<1> QED
  BY <1>5, <1>6, <1>7, <1>8 DEF PInv

\* A thread that goes on with its call, and leaves the pools to the others.
LEMMA CallKeeps ==
    ASSUME PoolConstants, PInv, NEW t \in Thread, call[t].at \in {"submit", "wait"},
           NEW at \in {"ended", "replace", "discard"}, Go(t, at),
           NEW f \in {"none", "pending", "running", "done", "broken", "cancelled"},
           future' = [future EXCEPT ![t] = f],
           UNCHANGED <<current, pools>>, troubles' \in 0..MaxPoolTroubles,
           f = "none" <=> future[t] = "none", f = "broken" <=> future[t] = "broken",
           at # "ended" => call[t].at = "wait", at = "discard" => f = "broken",
           at = "ended" => f \notin {"pending", "running"}
    PROVE  PInv'
<1>1. /\ PoolTypeOK /\ OfThread(t) /\ LifespanOnce /\ t \in Caller /\ Lifespan \in Caller /\ t # Lifespan
      /\ None \notin DOMAIN pools
  BY DEF PInv, Caller, PoolConstants, PoolTypeOK
<1>2. at \in Stages /\ current' = current /\ pools' = pools /\ troubles' \in 0..MaxPoolTroubles
  BY DEF Stages
<1>3. /\ call'[t] = [at |-> at, pool |-> Pool(t)]
      /\ \A u \in Caller : u # t => call'[u] = call[u]
      /\ \A u \in Caller : Pool(u)' = Pool(u)
      /\ call' \in [Caller -> [at : Stages, pool : DOMAIN pools \cup {None}]]
  BY <1>1, <1>2 DEF PoolTypeOK, Go, Pool
<1>4. /\ future' \in [Thread -> {"none", "pending", "running", "done", "broken", "cancelled"}]
      /\ future'[t] = f /\ \A u \in Thread : u # t => future'[u] = future[u]
  BY <1>1 DEF PoolTypeOK
<1>5. Grown
  BY <1>1, <1>2, <1>3 DEF Grown
<1>6. PoolTypeOK'
  <2>1. \A u \in Caller : call'[u].at \notin {"idle", "ended"} => Pool(u)' \in DOMAIN pools
    BY <1>1, <1>3 DEF PoolTypeOK
  <2> QED
    BY <1>1, <1>2, <1>3, <1>4, <2>1 DEF PoolTypeOK
<1>7. LifespanOnce'
  BY <1>1, <1>3 DEF LifespanOnce
<1>8. ASSUME NEW p \in DOMAIN pools' PROVE Abandoned(p)' /\ ShutIsDead(p)'
  <2>1. Abandoned(p) /\ ShutIsDead(p)
    BY <1>2 DEF PInv
  <2>2. Ending(p) => Ending(p)'
    BY <1>1, <1>3 DEF Ending, Pool
  <2> QED
    BY <1>1, <1>2, <1>3, <2>1, <2>2 DEF Abandoned, ShutIsDead, Dead
<1>9. ASSUME NEW u \in Thread PROVE OfThread(u)'
  <2>1. CASE u = t
    <3>1. Submitted(t) /\ BrokenIsDead(t)
      BY <1>1 DEF OfThread
    <3>2. Submitted(t)'
      BY <1>1, <1>2, <1>3, <1>4, <3>1 DEF Submitted
    <3>3. BrokenIsDead(t)'
      BY <1>1, <1>2, <1>3, <1>4, <3>1 DEF BrokenIsDead
    <3>4. ShutterKilled(t)' /\ EndedIsDead(t)'
      BY <1>3, <1>4 DEF ShutterKilled, EndedIsDead
    <3> QED
      BY <2>1, <3>2, <3>3, <3>4 DEF OfThread
  <2>2. CASE u # t
    BY <1>3, <1>4, <1>5, <2>2, Untouched DEF Caller
  <2> QED
    BY <2>1, <2>2
<1> QED
  BY <1>6, <1>7, <1>8, <1>9 DEF PInv

\* submit: the call ends on a pool that takes no work, or has a future and a child from now on.
LEMMA SubmitKeeps == ASSUME PoolConstants, PInv, NEW t \in Thread, Submit(t) PROVE PInv'
<1> DEFINE P == Pool(t)
           r == [state |-> "open", queue |-> Append(pools[P].queue, t),
                 child |-> IF pools[P].child = "none" THEN "idle" ELSE pools[P].child]
<1>1. CASE pools[P].state # "open"
  <2>1. PoolTypeOK /\ OfThread(t)
    BY DEF PInv
  <2>2. /\ call[t].at = "submit" /\ Go(t, "ended") /\ troubles' = troubles
        /\ future' = [future EXCEPT ![t] = future[t]] /\ UNCHANGED <<current, pools>>
    BY <1>1, <2>1 DEF Submit, PoolTypeOK
  <2>3. future[t] = "none"
    BY <2>1, <2>2 DEF OfThread, Submitted
  <2> QED
    BY <2>1, <2>2, <2>3, CallKeeps DEF PoolTypeOK
<1>2. CASE pools[P].state = "open"
  <2>1. /\ PoolTypeOK /\ OfThread(t) /\ LifespanOnce /\ t \in Caller /\ Lifespan \in Caller /\ t # Lifespan
        /\ None \notin DOMAIN pools
    BY DEF PInv, Caller, PoolConstants, PoolTypeOK
  <2>2. /\ call[t].at = "submit" /\ P \in DOMAIN pools /\ pools' = [pools EXCEPT ![P] = r]
        /\ future' = [future EXCEPT ![t] = "pending"] /\ Go(t, "wait")
        /\ current' = current /\ troubles' = troubles
    BY <1>2, <2>1 DEF Submit, PoolTypeOK
  <2>3. r \in OfPool /\ r.state = "open" /\ r.child # "none" /\ (pools[P].child = "dead" => r.child = "dead")
    <3>1. pools[P] \in OfPool
      BY <2>1, <2>2 DEF PoolTypeOK
    <3>2. pools[P].queue \in Seq(Thread) /\ pools[P].child \in {"none", "idle", "dead"}
      BY <3>1 DEF OfPool
    <3>3. Append(pools[P].queue, t) \in Seq(Thread)
      BY <3>2
    <3> QED
      BY <3>2, <3>3 DEF OfPool
  <2> HIDE DEF P, r
  <2>4. /\ pools' \in Seq(OfPool) /\ DOMAIN pools' = DOMAIN pools /\ pools'[P] = r
        /\ \A q \in DOMAIN pools : q # P => pools'[q] = pools[q]
    BY <2>1, <2>2, <2>3, PutPool DEF PoolTypeOK
  <2>5. /\ call'[t] = [at |-> "wait", pool |-> Pool(t)] /\ P = Pool(t)
        /\ \A u \in Caller : u # t => call'[u] = call[u]
        /\ \A u \in Caller : Pool(u)' = Pool(u)
        /\ call' \in [Caller -> [at : Stages, pool : DOMAIN pools \cup {None}]]
    BY <2>1, <2>2 DEF PoolTypeOK, Go, Pool, Stages, P
  <2>6. Grown
    BY <2>1, <2>2, <2>3, <2>4, <2>5 DEF Grown
  <2>7. PoolTypeOK'
    BY <2>1, <2>2, <2>4, <2>5 DEF PoolTypeOK, Pool
  <2>8. LifespanOnce'
    BY <2>1, <2>5 DEF LifespanOnce
  <2>9. ASSUME NEW p \in DOMAIN pools' PROVE Abandoned(p)' /\ ShutIsDead(p)'
    <3>1. Abandoned(p) /\ ShutIsDead(p) /\ p \in DOMAIN pools
      BY <2>4 DEF PInv
    <3>2. Ending(p) => Ending(p)'
      BY <2>1, <2>2, <2>5 DEF Ending, Pool
    <3> QED
      BY <1>2, <2>1, <2>2, <2>3, <2>4, <2>5, <3>1, <3>2 DEF Abandoned, ShutIsDead, Dead
  <2>10. ASSUME NEW u \in Thread PROVE OfThread(u)'
    <3>1. CASE u = t
      BY <2>1, <2>2, <2>3, <2>4, <2>5, <3>1
      DEF PoolTypeOK, OfThread, Submitted, BrokenIsDead, ShutterKilled, EndedIsDead
    <3>2. CASE u # t
      BY <2>1, <2>2, <2>5, <2>6, <3>2, Untouched DEF PoolTypeOK, Caller
    <3> QED
      BY <3>1, <3>2
  <2> QED
    BY <2>7, <2>8, <2>9, <2>10 DEF PInv
<1> QED
  BY <1>1, <1>2

\* The answer: the future is done or cancelled.
LEMMA ReturnKeeps == ASSUME PoolConstants, PInv, NEW t \in Thread, Return(t) PROVE PInv'
<1>1. PoolTypeOK
  BY DEF PInv
<1>2. /\ call[t].at = "wait" /\ future[t] \in {"done", "cancelled"} /\ Go(t, "ended")
      /\ future' = [future EXCEPT ![t] = future[t]] /\ troubles' = troubles
      /\ UNCHANGED <<current, pools>>
  BY <1>1 DEF Return, PoolTypeOK
<1> QED
  BY <1>1, <1>2, CallKeeps DEF PoolTypeOK

\* BrokenProcessPool: the child is dead before the pool is discarded.
LEMMA BrokenKeeps == ASSUME PoolConstants, PInv, NEW t \in Thread, Broken(t) PROVE PInv'
<1>1. PoolTypeOK
  BY DEF PInv
<1>2. /\ call[t].at = "wait" /\ future[t] = "broken" /\ Go(t, "discard")
      /\ future' = [future EXCEPT ![t] = future[t]] /\ troubles' = troubles
      /\ UNCHANGED <<current, pools>>
  BY <1>1 DEF Broken, PoolTypeOK
<1> QED
  BY <1>1, <1>2, CallKeeps DEF PoolTypeOK

\* The deadline: a future that has not begun is cancelled, no other one is closed.
LEMMA TimeOutKeeps == ASSUME PoolConstants, PInv, NEW t \in Thread, TimeOut(t) PROVE PInv'
<1> DEFINE f == IF future[t] = "pending" THEN "cancelled" ELSE future[t]
<1>1. PoolTypeOK
  BY DEF PInv
<1>2. /\ call[t].at = "wait" /\ Go(t, "replace") /\ UNCHANGED <<current, pools>>
      /\ future' = [future EXCEPT ![t] = f]
  BY DEF TimeOut
<1>3. f \in {"none", "pending", "running", "done", "broken", "cancelled"}
  BY <1>1 DEF PoolTypeOK
<1>4. (f = "none" <=> future[t] = "none") /\ (f = "broken" <=> future[t] = "broken")
  OBVIOUS
<1>5. troubles' \in 0..MaxPoolTroubles
  BY <1>1 DEF TimeOut, Trouble, PoolTypeOK, PoolConstants
<1> HIDE DEF f
<1> QED
  BY <1>2, <1>3, <1>4, <1>5, CallKeeps

\* An exception while waiting: the call ends only with its future.
LEMMA InterruptKeeps == ASSUME PoolConstants, PInv, NEW t \in Thread, Interrupt(t) PROVE PInv'
<1>1. PoolTypeOK
  BY DEF PInv
<1>2. /\ call[t].at = "wait" /\ UNCHANGED <<current, pools>>
      /\ future' = [future EXCEPT ![t] = future[t]]
      /\ future[t] \in {"none", "pending", "running", "done", "broken", "cancelled"}
  BY <1>1 DEF Interrupt, PoolTypeOK
<1>3. troubles' \in 0..MaxPoolTroubles
  BY <1>1 DEF Interrupt, Trouble, PoolTypeOK, PoolConstants
<1>4. CASE IsDone(t)
  <2>1. Go(t, "ended") /\ future[t] \notin {"pending", "running"}
    BY <1>4 DEF Interrupt, IsDone
  <2> QED
    BY <1>2, <1>3, <2>1, CallKeeps
<1>5. CASE ~IsDone(t)
  BY <1>2, <1>3, <1>5, CallKeeps DEF Interrupt
<1> QED
  BY <1>4, <1>5

\* Taking a pool away: who takes it is about to shut it.
LEMMA TakeAwayKeeps == ASSUME PoolConstants, PInv, NEW t \in Thread, TakeAway(t) PROVE PInv'
<1> DEFINE at == IF call[t].at = "replace" THEN "terminate" ELSE "shut"
<1>1. /\ PoolTypeOK /\ OfThread(t) /\ LifespanOnce /\ t \in Caller /\ Lifespan \in Caller /\ t # Lifespan
      /\ None \notin DOMAIN pools
  BY DEF PInv, Caller, PoolConstants, PoolTypeOK
<1>2. /\ call[t].at \in {"replace", "discard"} /\ Go(t, at)
      /\ pools' = pools /\ future' = future /\ troubles' = troubles
      /\ current' = IF current # Pool(t) THEN current ELSE None
      /\ Pool(t) \in DOMAIN pools
  BY <1>1 DEF TakeAway, Kept, PoolTypeOK
<1>3. /\ call'[t] = [at |-> at, pool |-> Pool(t)]
      /\ \A u \in Caller : u # t => call'[u] = call[u]
      /\ \A u \in Caller : Pool(u)' = Pool(u)
      /\ call' \in [Caller -> [at : Stages, pool : DOMAIN pools \cup {None}]]
  BY <1>1, <1>2 DEF PoolTypeOK, Go, Pool, Stages
<1>4. Grown
  BY <1>1, <1>2, <1>3 DEF Grown
<1>5. PoolTypeOK'
  <2>1. \A u \in Caller : call'[u].at \notin {"idle", "ended"} => Pool(u)' \in DOMAIN pools
    BY <1>1, <1>2, <1>3 DEF PoolTypeOK
  <2> QED
    BY <1>1, <1>2, <1>3, <2>1 DEF PoolTypeOK
<1>6. LifespanOnce'
  BY <1>1, <1>3 DEF LifespanOnce
<1>7. ASSUME NEW p \in DOMAIN pools' PROVE Abandoned(p)' /\ ShutIsDead(p)'
  <2>1. Abandoned(p) /\ ShutIsDead(p)
    BY <1>2 DEF PInv
  <2>2. Ending(p) => Ending(p)'
    BY <1>1, <1>3 DEF Ending, Pool
  <2>3. p = Pool(t) => Ending(p)'
    BY <1>1, <1>3 DEF Ending, Pool
  <2> QED
    BY <1>1, <1>2, <1>3, <2>1, <2>2, <2>3 DEF Abandoned, ShutIsDead, Dead
<1>8. ASSUME NEW u \in Thread PROVE OfThread(u)'
  <2>1. CASE u = t
    <3>1. Submitted(t) /\ BrokenIsDead(t)
      BY <1>1 DEF OfThread
    <3>2. Submitted(t)'
      BY <1>1, <1>2, <1>3, <3>1 DEF Submitted
    <3>3. BrokenIsDead(t)' /\ EndedIsDead(t)'
      BY <1>1, <1>2, <1>3, <3>1 DEF BrokenIsDead, EndedIsDead
    <3>4. ShutterKilled(t)'
      BY <1>1, <1>2, <1>3, <3>1 DEF BrokenIsDead, ShutterKilled, Dead
    <3> QED
      BY <2>1, <3>2, <3>3, <3>4 DEF OfThread
  <2>2. CASE u # t
    BY <1>2, <1>3, <1>4, <2>2, Untouched DEF Caller
  <2> QED
    BY <2>1, <2>2
<1> QED
  BY <1>5, <1>6, <1>7, <1>8 DEF PInv

\* The lifespan takes the current pool and is about to shut it.
LEMMA TearDownKeeps == ASSUME PoolConstants, PInv, TearDown PROVE PInv'
<1> DEFINE at == IF current = None THEN "ended" ELSE "terminate"
<1>1. /\ PoolTypeOK /\ LifespanOnce /\ Lifespan \in Caller /\ Lifespan \notin Thread /\ None \notin DOMAIN pools
      /\ Thread \subseteq Caller
  BY DEF PInv, Caller, PoolConstants, PoolTypeOK
<1>2. /\ call[Lifespan].at = "idle" /\ Pool(Lifespan) = None /\ current' = None
      /\ call' = [call EXCEPT ![Lifespan] = [at |-> at, pool |-> current]]
      /\ pools' = pools /\ future' = future /\ troubles' = troubles
  BY <1>1 DEF TearDown, LifespanOnce
<1>3. /\ call'[Lifespan] = [at |-> at, pool |-> current] /\ Pool(Lifespan)' = current
      /\ \A u \in Caller : u # Lifespan => call'[u] = call[u] /\ Pool(u)' = Pool(u)
      /\ call' \in [Caller -> [at : Stages, pool : DOMAIN pools \cup {None}]]
  BY <1>1, <1>2 DEF PoolTypeOK, Pool, Stages
<1>4. Grown
  BY <1>1, <1>2 DEF Grown
<1>5. PoolTypeOK'
  <2>1. \A u \in Caller : call'[u].at \notin {"idle", "ended"} => Pool(u)' \in DOMAIN pools
    BY <1>1, <1>3 DEF PoolTypeOK
  <2> QED
    BY <1>1, <1>2, <1>3, <2>1 DEF PoolTypeOK
<1>6. LifespanOnce'
  BY <1>3 DEF LifespanOnce
<1>7. ASSUME NEW p \in DOMAIN pools' PROVE Abandoned(p)' /\ ShutIsDead(p)'
  <2>1. Abandoned(p) /\ ShutIsDead(p) /\ p # None
    BY <1>1, <1>2 DEF PInv
  <2>2. Ending(p) => Ending(p)'
    BY <1>1, <1>2, <1>3 DEF Ending
  <2>3. p = current => Ending(p)'
    BY <1>1, <1>3, <2>1 DEF Ending
  <2> QED
    BY <1>2, <2>1, <2>2, <2>3 DEF Abandoned, ShutIsDead, Dead
<1>8. ASSUME NEW u \in Thread PROVE OfThread(u)'
  BY <1>1, <1>2, <1>3, <1>4, Untouched
<1> QED
  BY <1>5, <1>6, <1>7, <1>8 DEF PInv

\* Terminating: a child that some thread uses has started, so it is known and ends.
LEMMA TerminateKeeps == ASSUME PoolConstants, PInv, NEW t \in Caller, Terminate(t) PROVE PInv'
<1> DEFINE P == Pool(t)
           ended == IF pools[P].state = "shut" \/ pools[P].child = "none" THEN pools[P].child ELSE "dead"
           r == [pools[P] EXCEPT !.child = ended]
<1>1. /\ PoolTypeOK /\ LifespanOnce /\ Lifespan \in Caller /\ None \notin DOMAIN pools /\ Thread \subseteq Caller
      /\ \A u \in Thread : OfThread(u)
  BY DEF PInv, Caller, PoolConstants, PoolTypeOK
<1>2. /\ call[t].at = "terminate" /\ P \in DOMAIN pools /\ pools' = [pools EXCEPT ![P] = r]
      /\ future' = future /\ Go(t, "shut") /\ current' = current /\ troubles' = troubles
  <2>1. call[t].at = "terminate" /\ P \in DOMAIN pools
    BY <1>1 DEF Terminate, PoolTypeOK
  <2>2. pools' = [pools EXCEPT ![P] = r]
    BY DEF Terminate
  <2> QED
    BY <2>1, <2>2 DEF Terminate
<1>3. /\ r \in OfPool /\ r.state = pools[P].state /\ r.child = ended
      /\ t \in Thread => pools[P].child # "none"
  <2>1. pools[P] \in OfPool
    BY <1>1, <1>2 DEF PoolTypeOK
  <2>2. r \in OfPool /\ r.state = pools[P].state /\ r.child = ended
    BY <2>1 DEF OfPool
  <2>3. t \in Thread => Submitted(t)
    BY <1>1 DEF OfThread
  <2>4. t \in Thread => pools[P].child # "none"
    BY <1>2, <2>3 DEF Submitted
  <2> QED
    BY <2>2, <2>4
<1> HIDE DEF r
<1>4. /\ pools' \in Seq(OfPool) /\ DOMAIN pools' = DOMAIN pools /\ pools'[P] = r
      /\ \A q \in DOMAIN pools : q # P => pools'[q] = pools[q]
  BY <1>1, <1>2, <1>3, PutPool DEF PoolTypeOK
<1>5. /\ call'[t] = [at |-> "shut", pool |-> P]
      /\ \A u \in Caller : u # t => call'[u] = call[u]
      /\ \A u \in Caller : Pool(u)' = Pool(u)
      /\ call' \in [Caller -> [at : Stages, pool : DOMAIN pools \cup {None}]]
  BY <1>1, <1>2 DEF PoolTypeOK, Go, Pool, Stages
<1>6. \A p \in DOMAIN pools : (Dead(p) => Dead(p)') /\ pools'[p].state = pools[p].state
  BY <1>1, <1>3, <1>4, <1>5 DEF Dead
<1>7. Grown
  BY <1>1, <1>3, <1>4, <1>5 DEF Grown
<1>8. PoolTypeOK' /\ LifespanOnce'
  <2>1. P = Pool(t)
    OBVIOUS
  <2> HIDE DEF P
  <2> QED
    <3>1. PoolTypeOK'
      BY <1>1, <1>2, <1>4, <1>5, <2>1 DEF PoolTypeOK, Pool
    <3>2. LifespanOnce'
      BY <1>1, <1>5 DEF LifespanOnce
    <3> QED
      BY <3>1, <3>2
<1>9. ASSUME NEW p \in DOMAIN pools' PROVE Abandoned(p)' /\ ShutIsDead(p)'
  <2>1. Abandoned(p) /\ ShutIsDead(p) /\ p \in DOMAIN pools
    BY <1>4 DEF PInv
  <2>2. Ending(p) => Ending(p)'
    BY <1>2, <1>5 DEF Ending, Pool
  <2> QED
    BY <1>2, <1>6, <2>1, <2>2 DEF Abandoned, ShutIsDead
<1>10. ASSUME NEW u \in Thread PROVE OfThread(u)'
  <2>1. CASE u = t
    <3>1. OfThread(u) /\ ShutIsDead(P) /\ pools[P].child # "none"
      BY <1>1, <1>2, <1>3, <2>1 DEF PInv
    <3>2. Submitted(u)'
      BY <1>2, <1>4, <1>3, <1>5, <2>1, <3>1 DEF OfThread, Submitted
    <3>3. BrokenIsDead(u)'
      BY <1>2, <1>4, <1>3, <1>5, <2>1, <3>1 DEF OfThread, BrokenIsDead
    <3>4. ShutterKilled(u)'
      BY <1>2, <1>4, <1>3, <1>5, <1>6, <2>1, <3>1 DEF ShutterKilled, ShutIsDead, Dead
    <3>5. EndedIsDead(u)'
      BY <1>5, <2>1 DEF EndedIsDead
    <3> QED
      BY <3>2, <3>3, <3>4, <3>5 DEF OfThread
  <2>2. CASE u # t
    BY <1>1, <1>2, <1>5, <1>7, <2>2, Untouched
  <2> QED
    BY <2>1, <2>2
<1> QED
  BY <1>8, <1>9, <1>10 DEF PInv

\* Shutting: the child of the pool has been ended before.
LEMMA ShutKeeps == ASSUME PoolConstants, PInv, NEW t \in Caller, Shut(t) PROVE PInv'
<1> DEFINE P == Pool(t)
           r == [state |-> "shut", child |-> pools[P].child, queue |-> <<>>]
<1>1. /\ PoolTypeOK /\ LifespanOnce /\ Lifespan \in Caller /\ None \notin DOMAIN pools /\ Thread \subseteq Caller
      /\ \A u \in Thread : OfThread(u)
  BY DEF PInv, Caller, PoolConstants, PoolTypeOK
<1>2. /\ call[t].at = "shut" /\ P \in DOMAIN pools /\ pools' = [pools EXCEPT ![P] = r]
      /\ Go(t, "ended") /\ current' = current /\ troubles' = troubles
      /\ future' = [u \in Thread |->
                      IF Pool(u) = P /\ future[u] = "pending" THEN "cancelled" ELSE future[u]]
  BY <1>1 DEF Shut, PoolTypeOK
<1>3. r \in OfPool /\ r.state = "shut" /\ r.child = pools[P].child /\ Dead(P)
  <2>1. Dead(P)
    BY <1>1, <1>2 DEF Caller, OfThread, ShutterKilled, Dead
  <2> QED
    <3>1. pools[P] \in OfPool
      BY <1>1, <1>2 DEF PoolTypeOK
    <3> QED
      BY <2>1, <3>1 DEF OfPool
<1>4. P = Pool(t)
  OBVIOUS
<1> HIDE DEF P, r
<1>5. /\ pools' \in Seq(OfPool) /\ DOMAIN pools' = DOMAIN pools /\ pools'[P] = r
      /\ \A q \in DOMAIN pools : q # P => pools'[q] = pools[q]
  BY <1>1, <1>2, <1>3, PutPool DEF PoolTypeOK
<1>6. /\ call'[t] = [at |-> "ended", pool |-> P]
      /\ \A u \in Caller : u # t => call'[u] = call[u]
      /\ \A u \in Caller : Pool(u)' = Pool(u)
      /\ call' \in [Caller -> [at : Stages, pool : DOMAIN pools \cup {None}]]
  BY <1>1, <1>2, <1>4 DEF PoolTypeOK, Go, Pool, Stages
<1>7. /\ \A p \in DOMAIN pools : Dead(p) => Dead(p)'
      /\ \A u \in Thread : future[u] = "broken" <=> future'[u] = "broken"
      /\ \A u \in Thread : future'[u] = "none" <=> future[u] = "none"
      /\ \A u \in Thread : future'[u] \in {"pending", "running"} => future[u] \in {"pending", "running"}
      /\ \A p \in DOMAIN pools : pools'[p].child = pools[p].child
  BY <1>1, <1>2, <1>3, <1>5, <1>6 DEF Dead
<1>8. PoolTypeOK' /\ LifespanOnce'
  BY <1>1, <1>2, <1>5, <1>6 DEF PoolTypeOK, Pool, LifespanOnce
<1>9. ASSUME NEW p \in DOMAIN pools' PROVE Abandoned(p)' /\ ShutIsDead(p)'
  <2>1. Abandoned(p) /\ ShutIsDead(p) /\ p \in DOMAIN pools
    BY <1>5 DEF PInv
  <2>2. CASE p = P
    BY <1>3, <1>5, <1>7, <2>1, <2>2 DEF Abandoned, ShutIsDead
  <2>3. CASE p # P
    <3>1. Ending(p) => Ending(p)'
      BY <1>2, <1>4, <1>6, <2>3 DEF Ending, Pool
    <3> QED
      BY <1>2, <1>5, <1>7, <2>1, <2>3, <3>1 DEF Abandoned, ShutIsDead
  <2> QED
    BY <2>2, <2>3
<1>10. ASSUME NEW u \in Thread PROVE OfThread(u)'
  <2>1. OfThread(u) /\ u \in Caller /\ Pool(u)' = Pool(u) /\ (u # t => call'[u] = call[u])
        /\ (call[u].at = "shut" => Pool(u) \in DOMAIN pools)
    BY <1>1, <1>6 DEF PoolTypeOK
  <2>2. Submitted(u)'
    BY <1>2, <1>5, <1>6, <1>7, <2>1 DEF OfThread, Submitted
  <2>3. BrokenIsDead(u)'
    BY <1>2, <1>5, <1>6, <1>7, <2>1 DEF OfThread, BrokenIsDead, Submitted
  <2>4. ShutterKilled(u)'
    BY <1>2, <1>5, <1>6, <1>7, <2>1 DEF OfThread, ShutterKilled
  <2>5. EndedIsDead(u)'
    BY <1>2, <1>3, <1>4, <1>5, <1>6, <1>7, <2>1 DEF OfThread, EndedIsDead, Submitted
  <2> QED
    BY <2>2, <2>3, <2>4, <2>5 DEF OfThread
<1> QED
  BY <1>8, <1>9, <1>10 DEF PInv

\* What the child of a pool or its manager does: callers do nothing, a pool keeps its
\* state or breaks, and futures go on or break with the child.
LEMMA ChildKeeps ==
    ASSUME PoolConstants, PInv, NEW q \in DOMAIN pools, NEW r \in OfPool,
           pools' = [pools EXCEPT ![q] = r], UNCHANGED <<current, call>>, troubles' \in 0..MaxPoolTroubles,
           r.state = "shut" <=> pools[q].state = "shut", r.child \in {pools[q].child, "dead"},
           pools[q].child = "dead" => r.child = "dead",
           future' \in [Thread -> {"none", "pending", "running", "done", "broken", "cancelled"}],
           \A u \in Thread : /\ future'[u] = "none" <=> future[u] = "none"
                             /\ future[u] = "broken" => future'[u] = "broken"
                             /\ future'[u] = "broken" =>
                                   future[u] = "broken" \/ (Pool(u) = q /\ r.child = "dead")
                             /\ future'[u] \in {"pending", "running"} =>
                                   future[u] \in {"pending", "running"}
    PROVE  PInv'
<1>1. /\ PoolTypeOK /\ LifespanOnce /\ \A u \in Thread : OfThread(u) /\ u \in Caller
      /\ \A u : Pool(u)' = Pool(u)
  BY DEF PInv, Caller, Pool
<1>2. /\ pools' \in Seq(OfPool) /\ DOMAIN pools' = DOMAIN pools /\ pools'[q] = r
      /\ \A p \in DOMAIN pools : p # q => pools'[p] = pools[p]
  BY <1>1, PutPool DEF PoolTypeOK
<1>3. \A p \in DOMAIN pools : /\ Dead(p) => Dead(p)'
                              /\ pools[p].state = "shut" <=> pools'[p].state = "shut"
                              /\ pools[p].child = "dead" => pools'[p].child = "dead"
                              /\ pools[p].child # "none" => pools'[p].child # "none"
  BY <1>1, <1>2 DEF Dead
<1>4. PoolTypeOK' /\ LifespanOnce'
  BY <1>1, <1>2 DEF PoolTypeOK, Pool, LifespanOnce
<1>5. ASSUME NEW p \in DOMAIN pools' PROVE Abandoned(p)' /\ ShutIsDead(p)'
  <2>1. Abandoned(p) /\ ShutIsDead(p) /\ p \in DOMAIN pools
    BY <1>2 DEF PInv
  <2>2. current' = current /\ call' = call
    OBVIOUS
  <2>3. Ending(p)' <=> Ending(p)
    BY <2>2 DEF Ending, Pool
  <2> QED
    <3>1. Abandoned(p)'
      BY <1>3, <2>1, <2>2, <2>3 DEF Abandoned
    <3>2. ShutIsDead(p)'
      BY <1>3, <2>1 DEF ShutIsDead
    <3> QED
      BY <3>1, <3>2
<1>6. ASSUME NEW u \in Thread PROVE OfThread(u)'
  <2>1. OfThread(u) /\ u \in Caller /\ Pool(u)' = Pool(u) /\ call' = call
        /\ (call[u].at = "shut" => Pool(u) \in DOMAIN pools)
    BY <1>1 DEF PoolTypeOK
  <2>6. /\ future'[u] = "none" <=> future[u] = "none"
        /\ future'[u] = "broken" => future[u] = "broken" \/ (Pool(u) = q /\ r.child = "dead")
        /\ future[u] = "broken" => future'[u] = "broken"
        /\ future'[u] \in {"pending", "running"} => future[u] \in {"pending", "running"}
    OBVIOUS
  <2>7. Submitted(u) /\ BrokenIsDead(u) /\ ShutterKilled(u) /\ EndedIsDead(u)
    BY <2>1 DEF OfThread
  <2>2. Submitted(u)'
    BY <1>2, <1>3, <2>1, <2>6, <2>7 DEF Submitted
  <2>3. BrokenIsDead(u)'
    BY <1>2, <1>3, <2>1, <2>6, <2>7 DEF BrokenIsDead, Submitted
  <2>4. ShutterKilled(u)'
    BY <1>2, <1>3, <2>1, <2>7 DEF ShutterKilled
  <2>5. EndedIsDead(u)'
    BY <1>2, <1>3, <2>1, <2>6, <2>7 DEF EndedIsDead, Submitted
  <2> QED
    BY <2>2, <2>3, <2>4, <2>5 DEF OfThread
<1> QED
  BY <1>4, <1>5, <1>6 DEF PInv

\* The child takes the next work: a future that is pending runs.
LEMMA WorkKeeps == ASSUME PoolConstants, PInv, NEW q \in DOMAIN pools, Work(q) PROVE PInv'
<1> DEFINE h == Head(pools[q].queue)
           r == [pools[q] EXCEPT !.queue = Tail(pools[q].queue)]
<1>1. PoolTypeOK /\ pools[q] \in OfPool
  BY DEF PInv, PoolTypeOK
<1>2. /\ pools' = [pools EXCEPT ![q] = r] /\ UNCHANGED <<current, call, troubles>>
      /\ future' = [future EXCEPT ![h] = IF future[h] = "pending" THEN "running" ELSE future[h]]
      /\ pools[q].queue # <<>> /\ pools[q].queue \in Seq(Thread)
  <2>1. pools[q].queue \in Seq(Thread)
    BY <1>1 DEF OfPool
  <2>2. pools' = [pools EXCEPT ![q] = r]
    BY DEF Work
  <2> QED
    BY <2>1, <2>2 DEF Work
<1>3. h \in Thread /\ Tail(pools[q].queue) \in Seq(Thread)
  BY <1>2
<1>4. r \in OfPool /\ r.state = pools[q].state /\ r.child = pools[q].child
  BY <1>1, <1>3 DEF OfPool
<1> HIDE DEF h, r
<1> QED
  BY <1>1, <1>2, <1>3, <1>4, ChildKeeps DEF PoolTypeOK

\* The child answers.
LEMMA FinishKeeps == ASSUME PoolConstants, PInv, NEW q \in DOMAIN pools, FinishWork(q) PROVE PInv'
<1>1. PoolTypeOK /\ pools[q] \in OfPool
  BY DEF PInv, PoolTypeOK
<1>2. PICK t \in Thread : Pool(t) = q /\ future[t] = "running" /\ future' = [future EXCEPT ![t] = "done"]
  BY DEF FinishWork
<1>3. pools' = [pools EXCEPT ![q] = pools[q]] /\ UNCHANGED <<current, call, troubles>>
  BY <1>1 DEF FinishWork, PoolTypeOK
<1> QED
  BY <1>1, <1>2, <1>3, ChildKeeps DEF PoolTypeOK

\* The child dies.
LEMMA DieKeeps == ASSUME PoolConstants, PInv, NEW q \in DOMAIN pools, Die(q) PROVE PInv'
<1> DEFINE r == [pools[q] EXCEPT !.child = "dead"]
<1>1. PoolTypeOK /\ pools[q] \in OfPool
  BY DEF PInv, PoolTypeOK
<1>2. pools' = [pools EXCEPT ![q] = r] /\ UNCHANGED <<current, call, future>>
  BY DEF Die
<1>3. r \in OfPool /\ r.state = pools[q].state /\ r.child = "dead"
  BY <1>1 DEF OfPool
<1>4. troubles' \in 0..MaxPoolTroubles
  BY <1>1 DEF Die, Trouble, PoolTypeOK, PoolConstants
<1> HIDE DEF r
<1> QED
  BY <1>1, <1>2, <1>3, <1>4, ChildKeeps DEF PoolTypeOK

\* The manager of a pool whose child is dead breaks its futures.
LEMMA BreakKeeps == ASSUME PoolConstants, PInv, NEW q \in DOMAIN pools, Break(q) PROVE PInv'
<1> DEFINE r == [state |-> IF pools[q].state = "open" THEN "broken" ELSE pools[q].state,
                 child |-> "dead", queue |-> <<>>]
<1>1. PoolTypeOK /\ pools[q] \in OfPool
  BY DEF PInv, PoolTypeOK
<1>2. /\ pools' = [pools EXCEPT ![q] = r] /\ UNCHANGED <<current, call, troubles>>
      /\ future' = [t \in Thread |-> IF Pool(t) = q /\ future[t] \in {"pending", "running"}
                                      THEN "broken" ELSE future[t]]
  BY DEF Break
<1>3. r \in OfPool /\ (r.state = "shut" <=> pools[q].state = "shut") /\ r.child = "dead"
  BY <1>1 DEF OfPool
<1> HIDE DEF r
<1> QED
  BY <1>1, <1>2, <1>3, ChildKeeps DEF PoolTypeOK

-----------------------------------------------------------------------------
\* Every step of the pools, their callers and their children keeps the invariant.
LEMMA NextPInv == ASSUME PoolConstants, PInv, [PoolNext]_poolVars PROVE PInv'
<1>1. CASE UNCHANGED poolVars
  BY <1>1 DEF poolVars, PInv, PoolTypeOK, LifespanOnce, Abandoned, Ending, ShutIsDead, Dead, OfThread,
              Submitted, BrokenIsDead, ShutterKilled, EndedIsDead, Pool
<1>2. CASE TearDown
  BY <1>2, TearDownKeeps
<1>3. ASSUME NEW t \in Thread, \/ Get(t) \/ Submit(t) \/ Return(t) \/ Broken(t)
                               \/ TimeOut(t) \/ Interrupt(t) \/ TakeAway(t)
      PROVE  PInv'
  BY <1>3, GetKeeps, SubmitKeeps, ReturnKeeps, BrokenKeeps, TimeOutKeeps, InterruptKeeps, TakeAwayKeeps
<1>4. ASSUME NEW t \in Caller, Terminate(t) \/ Shut(t) PROVE PInv'
  BY <1>4, TerminateKeeps, ShutKeeps
<1>5. ASSUME NEW q \in DOMAIN pools, Work(q) \/ FinishWork(q) \/ Die(q) \/ Break(q) PROVE PInv'
  BY <1>5, WorkKeeps, FinishKeeps, DieKeeps, BreakKeeps
<1> QED
  BY <1>1, <1>2, <1>3, <1>4, <1>5 DEF PoolNext

\* With any number of threads, pools and troubles, one pool is in use and no child works
\* for a caller that is gone (_replace_timed_out_executor, _discard_executor).
THEOREM PoolIsOursAlways == ASSUME PoolConstants PROVE PoolSpec => []PoolIsOurs
<1>1. PoolInit => PInv
  BY InitPInv
<1>2. PInv /\ [PoolNext]_poolVars => PInv'
  BY NextPInv
<1>3. PInv => PoolIsOurs
  BY PInvPoolIsOurs
<1> QED
  BY <1>1, <1>2, <1>3, PTL DEF PoolSpec
=============================================================================
