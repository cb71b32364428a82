--------------------------- MODULE SessionRefresh ---------------------------
(***************************************************************************)
(* One signed-in session (api/auth_service.py, integrations/token_vault.py    *)
(* and the TimecueAuthClient of integrations/timecue.py): its row, the pair   *)
(* of Timecue cookies in the vault and the requests of several processes     *)
(* that revalidate, refresh or end it.  A refresh is guarded by a lock of the *)
(* process and by the lease "upstream-refresh:<session>"; every step between  *)
(* two database or network calls can interleave with other requests.          *)
(*                                                                         *)
(* A token stands for the pair of cookies of one rotation.  Timecue accepts   *)
(* the access cookie of a pair until it expires, and the refresh cookie of    *)
(* the newest pair only.  Identity fields of the session row and the fixture  *)
(* mode, which has no tokens, are left out.                                   *)
(***************************************************************************)
EXTENDS Naturals, Holders

CONSTANTS Request,      \* requests and worker jobs that use the session
          Server,       \* API and worker processes
          Home,         \* the process each request runs in
          NoToken, NoOne,
          MaxToken,     \* bound: pairs Timecue issues before it ends the sign-in
          MaxLostCalls, \* bound: Timecue calls that fail without an answer
          MaxWaits,     \* bound: waits for the lease that give up after 15 seconds
          MaxRequests,  \* bound: requests that come in
          MaxServerDeaths,  \* bound: processes that die
          MaxRefreshTroubles  \* bound: outages, waits that give up and deaths together

VARIABLES row,          \* the session row exists
          vault,        \* the pair in the vault and its refresh_generation
          newest,       \* the newest pair Timecue issued
          revoked,      \* Timecue ended this sign-in
          expired,      \* pairs whose access cookie is over
          mutex,        \* the process-local lock of the session
          holder, lapsed,   \* the refresh lease
          req,          \* what each request does, see NoRequest
          sent,         \* how often each refresh cookie was sent (counted to 2)
          rotations,    \* rotations per failed access cookie (counted to 2)
          calls

RefreshLease == INSTANCE BoundedLease WITH Process <- Request

leaseVars == <<holder, lapsed>>
timecueVars == <<newest, revoked, expired>>
history == <<sent, rotations>>
sessionVars == <<row, vault, timecueVars, mutex, leaseVars, req, history, calls>>

SessionConstants ==
    /\ Home \in [Request -> Server]
    /\ MaxToken \in Nat \ {0}
    /\ NoToken \notin 1..MaxToken
    /\ {Free, Orphan} \cap Request = {}

Token == 1..MaxToken
Pair == [token : Token \cup {NoToken}, generation : Nat]

\* Locals: what the request is (op), the access cookie that was refused, the
\* vault as read under the lock, the pair Timecue answered.
NoRequest == [op |-> "none", pc |-> "idle", failed |-> NoToken,
              before |-> [token |-> NoToken, generation |-> 0], new |-> NoToken]

RequestPoints ==
    {"idle", "read", "probe", "lock", "compare", "reprobe", "lease", "wait", "recheck",
     "probeHeld", "exchange", "put", "putAgain", "session", "identity", "clear", "delete",
     "release", "releaseFailed", "unlock", "unlockFailed", "clearFailed", "deleteFailed",
     "signOut", "clearOut", "deleteOut"}

SessionTypeOK ==
    /\ row \in BOOLEAN /\ revoked \in BOOLEAN
    /\ vault \in Pair
    /\ newest \in Token
    /\ expired \in SUBSET Token
    /\ mutex \in [Server -> Request \cup {NoOne}]
    /\ RefreshLease!LeaseTypeOK
    /\ req \in [Request -> [op : {"none", "current", "refresh", "logout"}, pc : RequestPoints,
                            failed : Token \cup {NoToken}, before : Pair,
                            new : Token \cup {NoToken}]]
    /\ sent \in [Token -> 0..2] /\ rotations \in [Token -> 0..2]

\* login has stored the first pair and created the row.
SessionInit ==
    /\ row = TRUE
    /\ vault = [token |-> 1, generation |-> 1]
    /\ newest = 1 /\ revoked = FALSE /\ expired = {}
    /\ mutex = [s \in Server |-> NoOne]
    /\ RefreshLease!LeaseInit
    /\ req = [r \in Request |-> NoRequest]
    /\ sent = [t \in Token |-> 0] /\ rotations = [t \in Token |-> 0]
    /\ calls = [request |-> 0, outage |-> 0, wait |-> 0, crash |-> 0]

IsAt(r, p) == req[r].pc = p
MoveTo(r, p) == req' = [req EXCEPT ![r] = IF p = "idle" THEN NoRequest ELSE [@ EXCEPT !.pc = p]]
\* The bounded events: each has a bound, and so have the failures together.
CountCall(what, bound) ==
    /\ calls[what] < bound
    /\ what = "request" \/ calls.outage + calls.wait + calls.crash < MaxRefreshTroubles
    /\ calls' = [calls EXCEPT ![what] = @ + 1]

-----------------------------------------------------------------------------
\* auth.me with the cookies of the vault.
Accepted == vault.token # NoToken /\ vault.token \notin expired /\ ~revoked

Me(r, ok, refused, failed) ==
    \/ Accepted /\ MoveTo(r, ok) /\ UNCHANGED calls
    \/ ~Accepted /\ MoveTo(r, refused) /\ UNCHANGED calls
    \/ CountCall("outage", MaxLostCalls) /\ MoveTo(r, failed)

Clear == vault' = [vault EXCEPT !.token = NoToken]
Put(t) == vault' = [token |-> t, generation |-> vault.generation + 1]

Begin(r, op, pc) ==
    /\ IsAt(r, "idle")
    /\ row
    /\ CountCall("request", MaxRequests)
    /\ req' = [req EXCEPT ![r] = [NoRequest EXCEPT !.op = op, !.pc = pc]]
    /\ UNCHANGED <<row, vault, timecueVars, mutex, leaseVars, history>>

\* A request with the session's cookie (current), POST /auth/refresh and the
\* adapter's refresh after a refused read (refresh), and sign-out.
BeginCurrent(r) == Begin(r, "current", "read")
BeginRefresh(r) == Begin(r, "refresh", "lock")
BeginLogout(r) == Begin(r, "logout", "signOut")

AdapterRefused(r) ==
    /\ IsAt(r, "idle")
    /\ row /\ vault.token # NoToken /\ ~Accepted
    /\ CountCall("request", MaxRequests)
    /\ req' = [req EXCEPT ![r] = [NoRequest EXCEPT !.op = "refresh", !.pc = "lock",
                                                   !.failed = vault.token]]
    /\ UNCHANGED <<row, vault, timecueVars, mutex, leaseVars, history>>

\* current: remember the cookie, then ask Timecue who it is.
ReadTokens(r) ==
    /\ IsAt(r, "read")
    /\ req' = [req EXCEPT ![r].failed = vault.token, ![r].pc = "probe"]
    /\ UNCHANGED <<row, vault, timecueVars, mutex, leaseVars, history, calls>>

Probe(r) ==
    /\ IsAt(r, "probe")
    /\ Me(r, "idle", "lock", "idle")
    /\ UNCHANGED <<row, vault, timecueVars, mutex, leaseVars, history>>

-----------------------------------------------------------------------------
\* _token_rotated: another request has installed newer cookies.  There is no
\* `before` to compare with right after the lock was taken.
Rotated(r, compare) ==
    /\ vault.token # NoToken
    /\ IF req[r].failed # NoToken
       THEN vault.token # req[r].failed
       ELSE /\ compare
            /\ req[r].before.token # NoToken
            /\ vault.generation > req[r].before.generation

Lock(r) ==
    /\ IsAt(r, "lock")
    /\ mutex[Home[r]] = NoOne
    /\ mutex' = [mutex EXCEPT ![Home[r]] = r]
    /\ MoveTo(r, "compare")
    /\ UNCHANGED <<row, vault, timecueVars, leaseVars, history, calls>>

\* `before` is kept only where it is compared again.
Compare(r) ==
    /\ IsAt(r, "compare")
    /\ req' = [req EXCEPT ![r].before = IF req[r].failed = NoToken THEN vault ELSE @,
                          ![r].pc = IF Rotated(r, FALSE) THEN "reprobe" ELSE "lease"]
    /\ UNCHANGED <<row, vault, timecueVars, mutex, leaseVars, history, calls>>

Reprobe(r) ==
    /\ IsAt(r, "reprobe")
    /\ Me(r, "unlock", "lease", "unlockFailed")
    /\ UNCHANGED <<row, vault, timecueVars, mutex, leaseVars, history>>

\* _acquire_refresh_lease: take it, or see the other process's cookies, or give
\* up after 15 seconds of polling.
Acquire(r) ==
    /\ IsAt(r, "lease")
    /\ RefreshLease!Acquire(r)
    /\ MoveTo(r, "recheck")
    /\ UNCHANGED <<row, vault, timecueVars, mutex, history, calls>>

Wait(r) ==
    /\ IsAt(r, "lease")
    /\ ~RefreshLease!CanAcquire
    /\ \/ Rotated(r, TRUE) /\ MoveTo(r, "wait") /\ UNCHANGED calls
       \/ ~Rotated(r, TRUE) /\ CountCall("wait", MaxWaits) /\ MoveTo(r, "unlockFailed")
    /\ UNCHANGED <<row, vault, timecueVars, mutex, leaseVars, history>>

ProbeAfterWait(r) ==
    /\ IsAt(r, "wait")
    /\ Me(r, "unlock", "unlockFailed", "unlockFailed")
    /\ UNCHANGED <<row, vault, timecueVars, mutex, leaseVars, history>>

\* Mutation of RotatedMeanwhile: the vault is not compared again under the lease.
NotRotatedMeanwhile(r) == FALSE

RotatedMeanwhile(r) == Rotated(r, TRUE)

Recheck(r) ==
    /\ IsAt(r, "recheck")
    /\ MoveTo(r, IF RotatedMeanwhile(r) THEN "probeHeld" ELSE "exchange")
    /\ UNCHANGED <<row, vault, timecueVars, mutex, leaseVars, history, calls>>

\* Here an UpstreamIntegrationError leaves refresh and current as it is.
ProbeHeld(r) ==
    /\ IsAt(r, "probeHeld")
    /\ Me(r, "release", "release", "release")
    /\ UNCHANGED <<row, vault, timecueVars, mutex, leaseVars, history>>

-----------------------------------------------------------------------------
\* _refresh_unlocked: POST /auth/refresh with the cookie of the vault.
Twice(f, t) == [f EXCEPT ![t] = IF @ < 2 THEN @ + 1 ELSE @]

\* Timecue rotates the newest pair only; its answer may be lost.
Exchange(r) ==
    /\ IsAt(r, "exchange")
    /\ vault.token # NoToken
    /\ sent' = Twice(sent, vault.token)
    /\ \/ /\ vault.token = newest /\ ~revoked
          /\ newest < MaxToken
          /\ newest' = newest + 1
          /\ rotations' = IF req[r].failed = NoToken THEN rotations
                          ELSE Twice(rotations, req[r].failed)
          /\ \/ req' = [req EXCEPT ![r].new = newest', ![r].pc = "put"] /\ UNCHANGED calls
             \/ CountCall("outage", MaxLostCalls) /\ MoveTo(r, "clear")
       \/ /\ vault.token # newest \/ revoked \/ newest = MaxToken
          /\ MoveTo(r, "clear")
          /\ UNCHANGED <<newest, rotations, calls>>
       \/ /\ CountCall("outage", MaxLostCalls)
          /\ MoveTo(r, "clear")
          /\ UNCHANGED <<newest, rotations>>
    /\ UNCHANGED <<row, vault, revoked, expired, mutex, leaseVars>>

NothingToExchange(r) ==
    /\ IsAt(r, "exchange")
    /\ vault.token = NoToken
    /\ MoveTo(r, "clear")
    /\ UNCHANGED <<row, vault, timecueVars, mutex, leaseVars, history, calls>>

\* The client stores the pair, the service stores it again with its owner.
PutTokens(r) ==
    /\ IsAt(r, "put")
    /\ Put(req[r].new)
    /\ MoveTo(r, "putAgain")
    /\ UNCHANGED <<row, timecueVars, mutex, leaseVars, history, calls>>

PutTokensAgain(r) ==
    /\ IsAt(r, "putAgain")
    /\ Put(req[r].new)
    /\ MoveTo(r, "session")
    /\ UNCHANGED <<row, timecueVars, mutex, leaseVars, history, calls>>

ReadSession(r) ==
    /\ IsAt(r, "session")
    /\ MoveTo(r, IF row THEN "identity" ELSE "clear")
    /\ UNCHANGED <<row, vault, timecueVars, mutex, leaseVars, history, calls>>

Identity(r) ==
    /\ IsAt(r, "identity")
    /\ Me(r, "release", "clear", "clear")
    /\ UNCHANGED <<row, vault, timecueVars, mutex, leaseVars, history>>

\* Mutation of Forget: the cookies stay when a refresh fails.
ForgetNothing == UNCHANGED vault

Forget == Clear

\* The except clause of _refresh_unlocked: the session is over.
ClearVault(r) ==
    /\ IsAt(r, "clear")
    /\ Forget
    /\ MoveTo(r, "delete")
    /\ UNCHANGED <<row, timecueVars, mutex, leaseVars, history, calls>>

DeleteSession(r) ==
    /\ IsAt(r, "delete")
    /\ row' = FALSE
    /\ MoveTo(r, "releaseFailed")
    /\ UNCHANGED <<vault, timecueVars, mutex, leaseVars, history, calls>>

\* The two `finally`s, and current's own except clause after them: whatever
\* refresh failed with, no answer in time included, ends the session.
ReleaseLease(r) ==
    /\ req[r].pc \in {"release", "releaseFailed"}
    /\ RefreshLease!Release(r)
    /\ MoveTo(r, IF IsAt(r, "release") THEN "unlock" ELSE "unlockFailed")
    /\ UNCHANGED <<row, vault, timecueVars, mutex, history, calls>>

Unlock(r) ==
    /\ req[r].pc \in {"unlock", "unlockFailed"}
    /\ mutex' = [mutex EXCEPT ![Home[r]] = IF @ = r THEN NoOne ELSE @]
    /\ IF IsAt(r, "unlockFailed") /\ req[r].op = "current"
       THEN MoveTo(r, "clearFailed")
       ELSE MoveTo(r, "idle")
    /\ UNCHANGED <<row, vault, timecueVars, leaseVars, history, calls>>

ClearAfterFailure(r) ==
    /\ IsAt(r, "clearFailed")
    /\ Clear
    /\ MoveTo(r, "deleteFailed")
    /\ UNCHANGED <<row, timecueVars, mutex, leaseVars, history, calls>>

DeleteAfterFailure(r) ==
    /\ IsAt(r, "deleteFailed")
    /\ row' = FALSE
    /\ MoveTo(r, "idle")
    /\ UNCHANGED <<vault, timecueVars, mutex, leaseVars, history, calls>>

-----------------------------------------------------------------------------
\* logout: Timecue is told when it can be, local state goes in any case.
SignOut(r) ==
    /\ IsAt(r, "signOut")
    /\ \/ vault.token # NoToken /\ revoked' = TRUE /\ UNCHANGED calls
       \/ vault.token = NoToken /\ UNCHANGED <<revoked, calls>>
       \/ CountCall("outage", MaxLostCalls) /\ UNCHANGED revoked
    /\ MoveTo(r, "clearOut")
    /\ UNCHANGED <<row, vault, newest, expired, mutex, leaseVars, history>>

SignOutClear(r) ==
    /\ IsAt(r, "clearOut")
    /\ Clear
    /\ MoveTo(r, "deleteOut")
    /\ UNCHANGED <<row, timecueVars, mutex, leaseVars, history, calls>>

\* The lock is dropped from the process's table with the session, held or not.
SignOutDelete(r) ==
    /\ IsAt(r, "deleteOut")
    /\ row' = FALSE
    /\ mutex' = [mutex EXCEPT ![Home[r]] = NoOne]
    /\ MoveTo(r, "idle")
    /\ UNCHANGED <<vault, timecueVars, leaseVars, history, calls>>

-----------------------------------------------------------------------------
\* The access cookie of the newest pair expires.
Expire ==
    /\ newest \notin expired
    /\ expired' = expired \cup {newest}
    /\ UNCHANGED <<row, vault, newest, revoked, mutex, leaseVars, req, history, calls>>

\* A process dies with its requests and its lock; leases stay.
ServerDies(s) ==
    /\ CountCall("crash", MaxServerDeaths)
    /\ holder' = IF holder \in Request /\ Home[holder] = s THEN Orphan ELSE holder
    /\ mutex' = [mutex EXCEPT ![s] = NoOne]
    /\ req' = [r \in Request |-> IF Home[r] = s THEN NoRequest ELSE req[r]]
    /\ UNCHANGED <<row, vault, timecueVars, lapsed, history>>

LapseRefresh ==
    /\ holder = Orphan /\ ~lapsed
    /\ RefreshLease!Lapse
    /\ UNCHANGED <<row, vault, timecueVars, mutex, req, history, calls>>

RequestBegins(r) == BeginCurrent(r) \/ BeginRefresh(r) \/ BeginLogout(r) \/ AdapterRefused(r)
RequestStep(r) ==
    \/ ReadTokens(r) \/ Probe(r) \/ Lock(r) \/ Compare(r) \/ Reprobe(r) \/ Acquire(r)
    \/ Wait(r) \/ ProbeAfterWait(r) \/ Recheck(r) \/ ProbeHeld(r) \/ Exchange(r)
    \/ NothingToExchange(r) \/ PutTokens(r) \/ PutTokensAgain(r) \/ ReadSession(r)
    \/ Identity(r) \/ ClearVault(r) \/ DeleteSession(r) \/ ReleaseLease(r) \/ Unlock(r)
    \/ ClearAfterFailure(r) \/ DeleteAfterFailure(r)
    \/ SignOut(r) \/ SignOutClear(r) \/ SignOutDelete(r)

SessionNext == \/ \E r \in Request : RequestBegins(r) \/ RequestStep(r)
               \/ Expire
               \/ \E s \in Server : ServerDies(s)
               \/ LapseRefresh

SessionSpec == SessionInit /\ [][SessionNext]_sessionVars

\* Every request runs on: calls answer or time out, and a free lock or lease is
\* taken in the end.  The lease of a dead process lapses after 180 seconds.
SessionFairness == /\ \A r \in Request : WF_sessionVars(RequestStep(r))
                   /\ WF_sessionVars(LapseRefresh)
SessionFairSpec == SessionSpec /\ SessionFairness

-----------------------------------------------------------------------------
\* Timecue's refresh cookies rotate, so one sent twice costs the session: while
\* no process dies, each is sent at most once, by all requests of all processes.
CookieOnce == calls.crash = 0 => \A t \in Token : sent[t] <= 1

\* The comment in refresh: the cookies are never rotated twice for one failed
\* access cookie, however many requests it was refused to.
RotatedOnce == \A t \in Token : rotations[t] <= 1

\* Both: cookies that rotate are never spent twice.
RefreshedOnce == CookieOnce /\ RotatedOnce

\* While no process dies, what the vault has is what Timecue takes: outside the
\* exchange of a pair and the clean-up after a lost answer no old pair is kept.
VaultIsNewest == calls.crash = 0 =>
    \/ vault.token \in {NoToken, newest}
    \/ \E r \in Request : req[r].pc \in {"put", "clear"}

\* No request waits for ever for the lock or the lease, not for a request that
\* failed under them and not for a process that died with them (MCWorkers).
Unanswered(r) == ~IsAt(r, "idle")

-----------------------------------------------------------------------------
\* integrations/timecue.py:125, of sign-out: "Local state is cleared by the caller
\* even when upstream logout fails."
LocalStateCleared == ~row /\ (\A r \in Request : IsAt(r, "idle")) => vault.token = NoToken
=============================================================================
