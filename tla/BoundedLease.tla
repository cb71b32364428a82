---------------------------- MODULE BoundedLease ----------------------------
(***************************************************************************)
(* What Store's leases promise the handlers that use them: one   *)
(* row per lease name, held by one process at a time until it is released   *)
(* or until its time has lapsed, whatever the process that took it is doing *)
(* then.  Lease.tla, which has the row, the tokens and the clock, implements *)
(* this specification; Execution.tla and AnalysisJobs.tla are built on it.   *)
(***************************************************************************)
EXTENDS Holders

CONSTANT Process     \* the handlers and jobs that contend for one lease name

VARIABLES holder,    \* Free, Orphan or the process whose token the row has
          lapsed     \* the row was last stamped more than `seconds` ago

leaseVars == <<holder, lapsed>>

LeaseTypeOK == /\ holder \in Process \cup {Free, Orphan}
               /\ lapsed \in BOOLEAN

LeaseInit == /\ holder = Free
             /\ lapsed = FALSE

\* Mutation of CanAcquire: the UPDATE takes the row over whatever its age.
CanAlwaysAcquire == TRUE

\* acquire_lease returns a token: the INSERT succeeded, or the conditional
\* UPDATE found a row older than `seconds`.  A refusal changes no state.
CanAcquire == holder = Free \/ lapsed

Acquire(p) == /\ CanAcquire
              /\ holder' = p
              /\ lapsed' = FALSE

\* renew_lease returns TRUE: the row still has p's token, lapsed or not.
Renew(p) == /\ holder = p
            /\ lapsed' = FALSE
            /\ UNCHANGED holder

\* release_lease deletes the row only when it still has p's token.
Release(p) == IF holder = p
              THEN holder' = Free /\ lapsed' = FALSE
              ELSE UNCHANGED leaseVars

\* The process dies, and with it its token; the row stays.
Abandon(p) == /\ holder' = IF holder = p THEN Orphan ELSE holder
              /\ UNCHANGED lapsed

\* Time passes the end of the lease.
Lapse == /\ holder # Free
         /\ lapsed' = TRUE
         /\ UNCHANGED holder

LeaseNext == \/ \E p \in Process : Acquire(p) \/ Renew(p) \/ Release(p) \/ Abandon(p)
             \/ Lapse

LeaseSpec == LeaseInit /\ [][LeaseNext]_leaseVars
=============================================================================
