--------------------------- MODULE SimulationPool ---------------------------
(***************************************************************************)
(* The process pool of the simulation engine                                 *)
(* (services/simulation_executor.py).                                        *)
(*                                                                         *)
(* The threads of one process share a pool of one child.  A thread gets the  *)
(* pool under the lock, submits, and waits up to its deadline outside the    *)
(* lock; a timeout takes the pool away under the lock and terminates its     *)
(* child outside of it, with whatever other threads gave it meanwhile.       *)
(* The lifespan of the application takes and terminates the pool once.       *)
(*                                                                         *)
(* The pool itself is concurrent.futures.ProcessPoolExecutor of Python 3.12. *)
(***************************************************************************)
EXTENDS Naturals, Sequences

CONSTANTS Thread, Lifespan,
          None,
          MaxPools,   \* bound on the pools created
          MaxPoolTroubles \* bound on deadlines, exceptions and children that die by themselves

VARIABLES current,    \* _PROCESS_EXECUTOR: a pool or None
          pools,      \* a sequence of [state, child, queue]
          call,       \* of a thread or the lifespan: [at, pool]
          future,     \* of a thread: of its call
          troubles

poolVars == <<current, pools, call, future, troubles>>

PoolConstants == /\ MaxPools \in Nat /\ MaxPoolTroubles \in Nat
                 /\ Lifespan \notin Thread /\ None \notin Nat

Caller == Thread \cup {Lifespan}
PoolInit == /\ current = None
            /\ pools = <<>>
            /\ call = [t \in Caller |-> [at |-> "idle", pool |-> None]]
            /\ future = [t \in Thread |-> "none"]
            /\ troubles = 0

Go(t, at) == call' = [call EXCEPT ![t].at = at]
Pool(t) == call[t].pool
OfPool ==
    [state : {"open", "broken", "shut"}, child : {"none", "idle", "dead"}, queue : Seq(Thread)]
Stages == {"idle", "submit", "wait", "replace", "discard", "terminate", "shut", "ended"}
PoolTypeOK ==
    /\ pools \in Seq(OfPool)
    /\ current \in DOMAIN pools \cup {None}
    /\ call \in [Caller -> [at : Stages, pool : DOMAIN pools \cup {None}]]
    /\ \A t \in Caller : call[t].at \notin {"idle", "ended"} => Pool(t) \in DOMAIN pools
    /\ future \in [Thread -> {"none", "pending", "running", "done", "broken", "cancelled"}]
    /\ troubles \in 0..MaxPoolTroubles
IsDone(t) == future[t] \in {"done", "broken", "cancelled"}
Trouble == troubles < MaxPoolTroubles /\ troubles' = troubles + 1

-----------------------------------------------------------------------------
\* _get_process_executor
Get(t) ==
    /\ call[t].at = "idle"
    /\ \/ /\ current # None
          /\ call' = [call EXCEPT ![t] = [at |-> "submit", pool |-> current]]
          /\ UNCHANGED <<current, pools>>
       \/ /\ current = None /\ Len(pools) < MaxPools
          /\ pools' = Append(pools, [state |-> "open", child |-> "none", queue |-> <<>>])
          /\ current' = Len(pools) + 1
          /\ call' = [call EXCEPT ![t] = [at |-> "submit", pool |-> Len(pools) + 1]]
    /\ UNCHANGED <<future, troubles>>

\* A pool that is broken or shut raises, outside of the try; the child starts with
\* the first work and is not replaced.
Submit(t) ==
    /\ call[t].at = "submit"
    /\ \/ /\ pools[Pool(t)].state # "open"
          /\ Go(t, "ended") /\ UNCHANGED <<pools, future>>
       \/ /\ pools[Pool(t)].state = "open"
          /\ pools' = [pools EXCEPT ![Pool(t)] = [state |-> "open", queue |-> Append(@.queue, t),
                          child |-> IF @.child = "none" THEN "idle" ELSE @.child]]
          /\ future' = [future EXCEPT ![t] = "pending"]
          /\ Go(t, "wait")
    /\ UNCHANGED <<current, troubles>>

\* The answer; a cancelled future and an exception of the engine are raised as they are.
Return(t) == /\ call[t].at = "wait" /\ future[t] \in {"done", "cancelled"}
             /\ Go(t, "ended")
             /\ UNCHANGED <<current, pools, future, troubles>>
\* BrokenProcessPool
Broken(t) == /\ call[t].at = "wait" /\ future[t] = "broken"
             /\ Go(t, "discard")
             /\ UNCHANGED <<current, pools, future, troubles>>

\* The deadline: a future that has not begun is cancelled, and its work stays in the queue.
\* It was not done when it was last looked at.
TimeOut(t) ==
    /\ call[t].at = "wait"
    /\ Go(t, "replace")
    /\ future' = [future EXCEPT ![t] = IF @ = "pending" THEN "cancelled" ELSE @]
    /\ Trouble /\ UNCHANGED <<current, pools>>

\* The progress callback or the pipe raises; the future may be done by the time it is asked.
Interrupt(t) == /\ call[t].at = "wait"
                /\ Go(t, IF IsDone(t) THEN "ended" ELSE "replace")
                /\ Trouble /\ UNCHANGED <<current, pools, future>>

\* Under the lock; only its own pool.
\* Mutation of Kept: the pool that is there is taken away, whichever it is.
KeptNever(t) == FALSE
Kept(t) == current # Pool(t)
TakeAway(t) ==
    /\ call[t].at \in {"replace", "discard"}
    /\ current' = IF Kept(t) THEN current ELSE None
    /\ Go(t, IF call[t].at = "replace" THEN "terminate" ELSE "shut")
    /\ UNCHANGED <<pools, future, troubles>>

\* _take_process_executor at the end of the application
TearDown == /\ call[Lifespan].at = "idle"
            /\ call' = [call EXCEPT ![Lifespan] =
                 [at |-> IF current = None THEN "ended" ELSE "terminate", pool |-> current]]
            /\ current' = None
            /\ UNCHANGED <<pools, future, troubles>>

\* _terminate_executor: the children of the pool, which a pool that is shut does not tell.
Terminate(t) ==
    /\ call[t].at = "terminate"
    /\ LET pool == pools[Pool(t)]
           ended == IF pool.state = "shut" \/ pool.child = "none" THEN pool.child ELSE "dead"
       IN pools' = [pools EXCEPT ![Pool(t)] = [pool EXCEPT !.child = ended]]
    /\ Go(t, "shut")
    /\ UNCHANGED <<current, future, troubles>>

\* shutdown(wait=False, cancel_futures=True)
Shut(t) ==
    /\ call[t].at = "shut"
    /\ pools' = [pools EXCEPT ![Pool(t)] = [state |-> "shut", child |-> @.child, queue |-> <<>>]]
    /\ future' = [u \in Thread |->
                    IF Pool(u) = Pool(t) /\ future[u] = "pending" THEN "cancelled" ELSE future[u]]
    /\ Go(t, "ended")
    /\ UNCHANGED <<current, troubles>>

-----------------------------------------------------------------------------
\* The child of a pool, and the thread that manages it; cancelled work is passed over.
Busy(p) == \E t \in Thread : Pool(t) = p /\ future[t] = "running"
Work(p) ==
    /\ pools[p].child = "idle" /\ ~Busy(p) /\ pools[p].queue # <<>>
    /\ future' = [future EXCEPT ![Head(pools[p].queue)] = IF @ = "pending" THEN "running" ELSE @]
    /\ pools' = [pools EXCEPT ![p] = [@ EXCEPT !.queue = Tail(pools[p].queue)]]
    /\ UNCHANGED <<current, call, troubles>>
FinishWork(p) ==
    /\ pools[p].child = "idle"
    /\ \E t \in Thread : /\ Pool(t) = p /\ future[t] = "running"
                         /\ future' = [future EXCEPT ![t] = "done"]
    /\ UNCHANGED <<current, pools, call, troubles>>
\* Without work: killed for its memory, or at the end of the process of a pool that is shut.
Die(p) ==
    /\ pools[p].child = "idle"
    /\ IF pools[p].state = "shut" /\ ~Busy(p) THEN troubles' = troubles
       ELSE Trouble
    /\ pools' = [pools EXCEPT ![p] = [@ EXCEPT !.child = "dead"]]
    /\ UNCHANGED <<current, call, future>>
Break(p) ==
    /\ pools[p].child = "dead"
    /\ pools[p].state = "open" \/ Busy(p)
    /\ pools' = [pools EXCEPT ![p] = [state |-> IF @.state = "open" THEN "broken" ELSE @.state,
                                      child |-> "dead", queue |-> <<>>]]
    /\ future' = [t \in Thread |-> IF Pool(t) = p /\ future[t] \in {"pending", "running"}
                                   THEN "broken" ELSE future[t]]
    /\ UNCHANGED <<current, call, troubles>>

PoolNext == \/ TearDown
            \/ \E t \in Thread : \/ Get(t) \/ Submit(t) \/ Return(t) \/ Broken(t)
                                 \/ TimeOut(t) \/ Interrupt(t) \/ TakeAway(t)
            \/ \E t \in Caller : Terminate(t) \/ Shut(t)
            \/ \E p \in DOMAIN pools : Work(p) \/ FinishWork(p) \/ Die(p) \/ Break(p)
PoolSpec == PoolInit /\ [][PoolNext]_poolVars

-----------------------------------------------------------------------------
IsAlive(p) == pools[p].child = "idle"
Ending(p) == \E t \in Caller : call[t].at \in {"replace", "discard", "terminate", "shut"} /\ Pool(t) = p

\* The child that is alive is that of the current pool: any other one has no pool that
\* takes work, or somebody is about to end it, however timeouts and failures of several
\* threads overlap (_replace_timed_out_executor, _discard_executor).
OnePool == \A p \in DOMAIN pools : IsAlive(p) /\ p # current => Ending(p) \/ pools[p].state = "shut"

\* No child computes for a call that has ended, whichever way it ended (run_simulation);
\* but for a pool that the lifespan terminated while it had no child yet, and that got
\* one before it was shut: then its children are forgotten and a timeout ends none.
NobodyComputesForNoOne ==
    \A t \in Thread : call[t].at = "ended" /\ future[t] \in {"pending", "running"} =>
        ~IsAlive(Pool(t)) \/ Pool(t) = Pool(Lifespan)

\* Both: one pool in use, and no child works for a caller that is gone.
PoolIsOurs == OnePool /\ NobodyComputesForNoOne
=============================================================================
