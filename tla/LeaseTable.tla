----------------------------- MODULE LeaseTable -----------------------------
(***************************************************************************)
(* Several leases at once: one BoundedLease per lease name, all rows of the  *)
(* table of persistence/store.py.  Components that use more than one lease  *)
(* are built on this module; Rows states that each row is a BoundedLease.    *)
(***************************************************************************)
EXTENDS Holders

CONSTANTS Process, Name

VARIABLE lease    \* lease[n]: who has the row named n, and whether its time is over

Row(n) == INSTANCE BoundedLease WITH holder <- lease[n].holder, lapsed <- lease[n].lapsed

NoLease == [holder |-> Free, lapsed |-> FALSE]
HeldBy(p) == [holder |-> p, lapsed |-> FALSE]

TableTypeOK == lease \in [Name -> [holder : Process \cup {Free, Orphan}, lapsed : BOOLEAN]]

TableInit == lease = [n \in Name |-> NoLease]

\* Mutation of CanAcquire: the UPDATE takes the row over whatever its age.
CanAlwaysAcquire(n) == TRUE

CanAcquire(n) == lease[n].holder = Free \/ lease[n].lapsed

Acquire(p, n) == CanAcquire(n) /\ lease' = [lease EXCEPT ![n] = HeldBy(p)]

Holds(p, n) == lease[n].holder = p

Renew(p, n) == Holds(p, n) /\ lease' = [lease EXCEPT ![n] = HeldBy(p)]

\* Mutation of Release: the DELETE names the lease but not the token.
ReleaseByName(p, n) == lease' = [lease EXCEPT ![n] = NoLease]

Release(p, n) == lease' = IF Holds(p, n) THEN [lease EXCEPT ![n] = NoLease] ELSE lease

\* Process p dies: all its tokens are forgotten, the rows stay.
Abandon(p) == lease' = [n \in Name |-> IF Holds(p, n) THEN [lease[n] EXCEPT !.holder = Orphan]
                                                      ELSE lease[n]]

Lapse(n) == /\ lease[n].holder # Free
            /\ ~lease[n].lapsed
            /\ lease' = [lease EXCEPT ![n].lapsed = TRUE]

\* Every row of the table satisfies LeaseSpec of BoundedLease.
Rows == /\ \A n \in Name : Row(n)!LeaseInit
        /\ [][\A n \in Name : Row(n)!LeaseNext \/ UNCHANGED lease[n]]_lease
=============================================================================
