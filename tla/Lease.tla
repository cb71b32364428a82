------------------------------- MODULE Lease -------------------------------
(***************************************************************************)
(* The database leases of Store (persistence/store.py): a row     *)
(* [token, stamp] per lease name, and the three transactions acquire_lease,  *)
(* renew_lease and release_lease.  Each is one SQL statement on one row, so   *)
(* it is atomic here; everything between two of them is not.  Processes are  *)
(* request handlers and worker jobs, which may stall for any time (Tick) and  *)
(* may die (Crash); nothing stops a process whose lease was taken over.       *)
(***************************************************************************)
EXTENDS Integers, Holders

CONSTANTS Process,     \* contenders for one lease name
          Seconds,     \* the `seconds` every contender passes
          NoRow,       \* the row does not exist
          NoToken,     \* the process has no token
          MaxToken,    \* bound: leases granted in one behaviour
          MaxClock     \* bound: ticks of the clock

ASSUME LeaseConstants == /\ Seconds \in Nat
                         /\ MaxToken \in Nat
                         /\ MaxClock \in Nat
                         /\ NoToken \notin Nat
                         /\ NoRow \notin [token : Nat, stamp : Nat]
                         /\ Free \notin Process /\ Orphan \notin Process
                         /\ Free # Orphan

VARIABLES row,         \* the lease row
          token,       \* token[p]: the token p was given and still uses
          stamp,       \* stamp[p]: when p last acquired or renewed successfully
          issued,      \* tokens issued so far (secrets.token_urlsafe never repeats)
          clock

vars == <<row, token, stamp, issued, clock>>

TypeOK == /\ row \in [token : Nat, stamp : Nat] \cup {NoRow}
          /\ token \in [Process -> Nat \cup {NoToken}]
          /\ stamp \in [Process -> Nat]
          /\ issued \in Nat
          /\ clock \in Nat

Init == /\ row = NoRow
        /\ token = [p \in Process |-> NoToken]
        /\ stamp = [p \in Process |-> 0]
        /\ issued = 0
        /\ clock = 0

\* Mutation of Expired: a lease is overdue one tick early.
ExpiredAtTheEdge == row # NoRow /\ row.stamp <= clock - Seconds

Expired == row # NoRow /\ row.stamp < clock - Seconds

\* Mutation of AcquireLease: the row is stamped with the cut-off time.
AcquireStampedAtCutoff(p) ==
    /\ token[p] = NoToken
    /\ issued < MaxToken
    /\ row = NoRow \/ Expired
    /\ row' = [token |-> issued, stamp |-> clock - Seconds]
    /\ token' = [token EXCEPT ![p] = issued]
    /\ stamp' = [stamp EXCEPT ![p] = clock]
    /\ issued' = issued + 1
    /\ UNCHANGED clock

\* The acquirer's own view of success: a fresh row, or an old one overwritten.
AcquireLease(p) ==
    /\ token[p] = NoToken
    /\ issued < MaxToken
    /\ row = NoRow \/ Expired
    /\ row' = [token |-> issued, stamp |-> clock]
    /\ token' = [token EXCEPT ![p] = issued]
    /\ stamp' = [stamp EXCEPT ![p] = clock]
    /\ issued' = issued + 1
    /\ UNCHANGED clock

HasRow(p) == row # NoRow /\ row.token = token[p]

\* Mutation of RenewLease: the UPDATE names the lease but not the token.
RenewByName(p) ==
    /\ token[p] # NoToken
    /\ row # NoRow
    /\ row' = [token |-> token[p], stamp |-> clock]
    /\ stamp' = [stamp EXCEPT ![p] = clock]
    /\ UNCHANGED <<token, issued, clock>>

\* A successful renewal.  One that finds another token changes nothing and
\* leaves the process holding a token that is worth nothing.
RenewLease(p) ==
    /\ token[p] # NoToken
    /\ HasRow(p)
    /\ row' = [row EXCEPT !.stamp = clock]
    /\ stamp' = [stamp EXCEPT ![p] = clock]
    /\ UNCHANGED <<token, issued, clock>>

\* Mutation of ReleaseLease: the DELETE names the lease but not the token.
ReleaseByName(p) ==
    /\ token[p] # NoToken
    /\ row' = NoRow
    /\ token' = [token EXCEPT ![p] = NoToken]
    /\ UNCHANGED <<stamp, issued, clock>>

ReleaseLease(p) ==
    /\ token[p] # NoToken
    /\ row' = IF HasRow(p) THEN NoRow ELSE row
    /\ token' = [token EXCEPT ![p] = NoToken]
    /\ UNCHANGED <<stamp, issued, clock>>

\* The process dies without reaching its `finally`.
Crash(p) ==
    /\ token[p] # NoToken
    /\ token' = [token EXCEPT ![p] = NoToken]
    /\ UNCHANGED <<row, stamp, issued, clock>>

Tick == /\ clock < MaxClock
        /\ clock' = clock + 1
        /\ UNCHANGED <<row, token, stamp, issued>>

Next == \/ \E p \in Process : \/ AcquireLease(p) \/ RenewLease(p)
                              \/ ReleaseLease(p) \/ Crash(p)
        \/ Tick

Spec == Init /\ [][Next]_vars

-----------------------------------------------------------------------------
\* Who may believe it holds the lease, and whose belief the row supports.
Believers == {p \in Process : token[p] # NoToken}

InTerm(p) == clock - stamp[p] <= Seconds

\* Of two processes that both hold a token, at most one can have acquired or
\* renewed it within the last `seconds`: a holder that keeps renewing in time
\* is alone, whatever stalled holders still think.
OneCurrentHolder ==
    \A p, q \in Believers : p # q => ~(InTerm(p) /\ InTerm(q))

\* A process whose stamp is within the term still has the row: nobody took the
\* lease over early and no other process's late release removed it.
CurrentHolderHasRow == \A p \in Believers : InTerm(p) => HasRow(p)

\* A released or crashed holder's token never becomes valid again, and no
\* release, renewal or takeover by one process validates another's token.
LostIsLost ==
    [][\A p \in Believers : ~HasRow(p) /\ p \in Believers' => ~HasRow(p)']_vars

-----------------------------------------------------------------------------
\* The refinement mapping to BoundedLease.
Owner == IF row = NoRow THEN Free
         ELSE IF \E p \in Process : HasRow(p)
              THEN CHOOSE p \in Process : HasRow(p)
              ELSE Orphan

Abstract == INSTANCE BoundedLease WITH holder <- Owner, lapsed <- Expired

\* The store's three SQL statements, the clock and crashes do what BoundedLease
\* says: this is what the modules built on BoundedLease rely on.
Refines == Abstract!LeaseSpec
=============================================================================
