------------------------------- MODULE Signals -------------------------------
(***************************************************************************)
(* The signals read out of one Timecue worklog, their review, and the notes  *)
(* published from them (api/routes.py, services/worklog_evidence.py,         *)
(* persistence/store.py).                                                    *)
(*                                                                         *)
(* A signal's id is a hash of the worklog's revision; the route and the      *)
(* analysis job hash different things, so they have ids of their own.  An    *)
(* observation of a revision has one signal here.  save_signal reads the     *)
(* saved signals and writes in one transaction that does not lock what it    *)
(* read, so it is two steps.  The column and the payload of a row carry one  *)
(* status.  The overlay that a review changes is here the set of the signals *)
(* whose change it has (see PlanningOverlay for its versions).               *)
(***************************************************************************)
EXTENDS Naturals

CONSTANTS Refresher, Reviewer, None,
          Source,      \* of {"route", "job"}: which code reads the worklog
          MaxRevision, MaxDeaths

VARIABLES worklog,   \* its revision at Timecue
          signals,   \* [Id -> status]
          rf,        \* what each refresher is doing
          rv,        \* what each request of a manager is doing
          notes,     \* [doc, claims]: the worklog's document and its claims
          tally      \* [cache, applied, crashes]

signalVars == <<worklog, signals, rf, rv, notes, tally>>

Id == Source \X (1..MaxRevision)
Settled == {"confirmed", "rejected", "superseded"}
Status == Settled \cup {"none", "proposed"}

\* What the proofs assume of the constants.
SignalsConstants == MaxRevision \in Nat \ {0} /\ MaxDeaths \in Nat

Unseen == [i \in Id |-> "none"]
Ready == [at |-> "idle", id |-> None, seen |-> Unseen, todo |-> {}, item |-> None]
NoRequest == [at |-> "idle", id |-> None, revision |-> 0, status |-> "none", changes |-> FALSE, claims |-> {}]

SignalsTypeOK ==
    /\ worklog \in 1..MaxRevision
    /\ signals \in [Id -> Status]
    /\ notes \in [doc : {"none", "active", "deleted"}, claims : [Id -> {"none", "active", "deleted"}]]
    /\ tally \in [cache : SUBSET (1..MaxRevision), applied : SUBSET Id, crashes : 0..MaxDeaths]

SignalsInit ==
    /\ worklog = 1
    /\ signals = [i \in Id |-> "none"]
    /\ rf = [r \in Refresher |-> Ready]
    /\ rv = [v \in Reviewer |-> NoRequest]
    /\ notes = [doc |-> "none", claims |-> [i \in Id |-> "none"]]
    /\ tally = [cache |-> {}, applied |-> {}, crashes |-> 0]

Revise ==
    /\ worklog < MaxRevision
    /\ worklog' = worklog + 1
    /\ UNCHANGED <<signals, rf, rv, notes, tally>>

-----------------------------------------------------------------------------
\* _ingest_signals and ingest_worklogs: the snapshot.  The job has a cache of the
\* revisions it has read and then publishes at once; its key is the worklog's text, its
\* tasks and the provider too, which are the same here.
TakeSnapshot(r, source) ==
    /\ rf[r].at = "idle"
    /\ rf' = [rf EXCEPT ![r] = [Ready EXCEPT !.id = <<source, worklog>>,
         !.at = IF source = "job" /\ worklog \in tally.cache THEN "list" ELSE "load"]]
    /\ UNCHANGED <<worklog, signals, rv, notes, tally>>

Revision(r) == rf[r].id[2]
AfterSave(r) == IF rf[r].id[1] = "job" THEN "cache" ELSE "end"

\* Mutation of IsSettled: a superseded signal is written again.
SettledOnceReviewed(status) == status \in {"confirmed", "rejected"}

IsSettled(status) == status \in Settled

\* save_signal up to its early return.
LoadSignals(r) ==
    /\ rf[r].at = "load"
    /\ rf' = IF IsSettled(signals[rf[r].id]) THEN [rf EXCEPT ![r].at = AfterSave(r)]
             ELSE [rf EXCEPT ![r].at = "store", ![r].seen = signals]
    /\ UNCHANGED <<worklog, signals, rv, notes, tally>>

\* The signals of every other revision, older or newer, are superseded.
StoreSignals(r) ==
    /\ rf[r].at = "store"
    /\ signals' = [i \in Id |-> IF i = rf[r].id THEN "proposed"
                                ELSE IF rf[r].seen[i] # "none" /\ i[2] # Revision(r) THEN "superseded"
                                ELSE signals[i]]
    /\ rf' = [rf EXCEPT ![r].at = AfterSave(r), ![r].seen = Unseen]
    /\ UNCHANGED <<worklog, rv, notes, tally>>

FillCache(r) ==
    /\ rf[r].at = "cache"
    /\ tally' = [tally EXCEPT !.cache = @ \cup {Revision(r)}]
    /\ rf' = [rf EXCEPT ![r].at = "list"]
    /\ UNCHANGED <<worklog, signals, rv, notes>>

\* _publish_source_knowledge: the signals of the snapshot's revision, ...
ListSignals(r) ==
    /\ rf[r].at = "list"
    /\ rf' = [rf EXCEPT ![r].at = "publish",
         ![r].todo = {i \in Id : i[2] = Revision(r) /\ signals[i] \in {"proposed", "confirmed"}}]
    /\ UNCHANGED <<worklog, signals, rv, notes, tally>>

\* ... each of them unless the manager deleted the document or the claim is there.
LookForNote(r, i) ==
    /\ rf[r].at = "publish"
    /\ i \in rf[r].todo
    /\ rf' = IF notes.doc # "deleted" /\ notes.claims[i] = "none"
             THEN [rf EXCEPT ![r].at = "document", ![r].item = i, ![r].todo = @ \ {i}]
             ELSE [rf EXCEPT ![r].todo = @ \ {i}]
    /\ UNCHANGED <<worklog, signals, rv, notes, tally>>

PublishDocument(r) ==
    /\ rf[r].at = "document"
    /\ notes' = [notes EXCEPT !.doc = "active"]
    /\ rf' = [rf EXCEPT ![r].at = "claim"]
    /\ UNCHANGED <<worklog, signals, rv, tally>>

PublishClaim(r) ==
    /\ rf[r].at = "claim"
    /\ notes' = [notes EXCEPT !.claims[rf[r].item] = "active"]
    /\ rf' = [rf EXCEPT ![r].at = "publish"]
    /\ UNCHANGED <<worklog, signals, rv, tally>>

Refreshed(r) ==
    /\ rf[r].at = "end" \/ (rf[r].at = "publish" /\ rf[r].todo = {})
    /\ rf' = [rf EXCEPT ![r] = Ready]
    /\ UNCHANGED <<worklog, signals, rv, notes, tally>>

-----------------------------------------------------------------------------
\* review_signal: the snapshot, then the saved signal, ...
BeginReview(v, i, status, changes) ==
    /\ rv[v].at = "idle"
    /\ changes => status = "confirmed"
    /\ rv' = [rv EXCEPT ![v] = [NoRequest EXCEPT !.at = "read", !.id = i, !.revision = worklog,
                                                 !.status = status, !.changes = changes]]
    /\ UNCHANGED <<worklog, signals, rf, notes, tally>>

\* ... which must be a proposal from the snapshot's revision (404, 409), ...
ReadSignal(v) ==
    /\ rv[v].at = "read"
    /\ rv' = IF signals[rv[v].id] = "proposed" /\ rv[v].id[2] = rv[v].revision
             THEN [rv EXCEPT ![v].at = IF rv[v].changes THEN "apply" ELSE "save"]
             ELSE [rv EXCEPT ![v] = NoRequest]
    /\ UNCHANGED <<worklog, signals, rf, notes, tally>>

\* ... the change of the overlay, which may meet a newer version and fail, ...
ApplyChange(v) ==
    /\ rv[v].at = "apply"
    /\ \/ rv' = [rv EXCEPT ![v].at = "save"] /\ tally' = [tally EXCEPT !.applied = @ \cup {rv[v].id}]
       \/ rv' = [rv EXCEPT ![v] = NoRequest] /\ UNCHANGED tally
    /\ UNCHANGED <<worklog, signals, rf, notes>>

\* ... and the signal, whatever became of it.
SaveReview(v) ==
    /\ rv[v].at = "save"
    /\ signals' = [signals EXCEPT ![rv[v].id] = rv[v].status]
    /\ rv' = [rv EXCEPT ![v] = NoRequest]
    /\ UNCHANGED <<worklog, rf, notes, tally>>

\* delete_knowledge of the document, with the claims it has at that time.
BeginDelete(v) ==
    /\ rv[v].at = "idle"
    /\ notes.doc # "none"
    /\ rv' = [rv EXCEPT ![v] = [NoRequest EXCEPT !.at = "delete",
                                  !.claims = {i \in Id : notes.claims[i] # "none"}]]
    /\ UNCHANGED <<worklog, signals, rf, notes, tally>>

DeleteNote(v) ==
    /\ rv[v].at = "delete"
    /\ notes' = [doc |-> "deleted",
                 claims |-> [i \in Id |-> IF i \in rv[v].claims THEN "deleted" ELSE notes.claims[i]]]
    /\ rv' = [rv EXCEPT ![v] = NoRequest]
    /\ UNCHANGED <<worklog, signals, rf, tally>>

Dies ==
    /\ tally.crashes < MaxDeaths
    /\ tally' = [tally EXCEPT !.crashes = @ + 1]
    /\ \/ \E r \in Refresher : rf[r].at # "idle" /\ rf' = [rf EXCEPT ![r] = Ready] /\ UNCHANGED rv
       \/ \E v \in Reviewer : rv[v].at # "idle" /\ rv' = [rv EXCEPT ![v] = NoRequest] /\ UNCHANGED rf
    /\ UNCHANGED <<worklog, signals, notes>>

Refresh(r) ==
    \/ \E source \in Source : TakeSnapshot(r, source)
    \/ LoadSignals(r) \/ StoreSignals(r) \/ FillCache(r) \/ ListSignals(r)
    \/ \E i \in Id : LookForNote(r, i)
    \/ PublishDocument(r) \/ PublishClaim(r) \/ Refreshed(r)

Review(v) ==
    \/ \E i \in Id, status \in {"confirmed", "rejected"}, changes \in BOOLEAN :
         BeginReview(v, i, status, changes)
    \/ ReadSignal(v) \/ ApplyChange(v) \/ SaveReview(v) \/ BeginDelete(v) \/ DeleteNote(v)

SignalsNext ==
    \/ Revise \/ Dies
    \/ \E r \in Refresher : Refresh(r)
    \/ \E v \in Reviewer : Review(v)

SignalsSpec == SignalsInit /\ [][SignalsNext]_signalVars

-----------------------------------------------------------------------------
\* A settled signal changes only because the worklog has another revision, or through a
\* review or a save that read it before it was settled (store.py:533, :577).
SettledChanges ==
    \A i \in Id : signals[i] \in Settled /\ signals'[i] # signals[i] =>
       \/ \E r \in Refresher : /\ rf[r].at = "store" /\ rf'[r].at # "store"
                               /\ IF i = rf[r].id THEN rf[r].seen[i] \notin Settled
                                  ELSE i[2] # Revision(r) /\ signals'[i] = "superseded"
       \/ \E v \in Reviewer : rv[v].at = "save" /\ rv[v].id = i /\ rv'[v].at = "idle"

\* A note the manager deleted comes back only through a publication that looked for it
\* before (worklog_evidence.py:119: "User deletion is persistent").
DeletionChanges ==
    (notes.doc = "deleted" /\ notes'.doc # "deleted") => \E r \in Refresher : rf[r].at = "document"
=============================================================================
