----------------------------- MODULE Knowledge -----------------------------
(***************************************************************************)
(* Uploaded documents and the claims extracted from them                    *)
(* (services/knowledge.py, services/knowledge_jobs.py).  All uploads here    *)
(* have one source key, so each is a newer revision of the one before.       *)
(*                                                                         *)
(* A worker ingests an upload in several transactions: it reads the          *)
(* documents, supersedes the earlier ones and their claims, attaches the     *)
(* new claims and saves the new document last.  Requests review a claim,     *)
(* project it into the planning overlay or delete it, each from a copy it    *)
(* read earlier.  A document has one claim, with the document's name.        *)
(*                                                                         *)
(* Left out: the extraction and its cache, the stored objects               *)
(* and the embeddings; the lists a supersession reads and the records it     *)
(* saves from them are one step for the documents and one for the claims.    *)
(***************************************************************************)
EXTENDS Naturals, FiniteSets, FiniteSetsExt, Holders

CONSTANTS Upload,            \* the queued knowledge_import jobs
          Doc,               \* ids uuid4 may return
          Request, Change,   \* review requests; what a projection may change
          ProjectionKey,
          Missing,
          MaxCrashes

VARIABLES docs,      \* [Doc -> Missing or [version, status]]
          claims,    \* [Doc -> Missing or [status, active, projected]]
          receipts,  \* [Upload -> Missing or the document in its receipt]
          worker,    \* worker[u]: the delivery of upload u
          rq,        \* what each request is doing
          planLease, plan, form,
          used       \* ids given out, and crashes so far

knowledgeVars == <<docs, claims, receipts, worker, rq, planLease, plan, form, used>>

Fact == ProjectionKey \X Change \X Nat
PL == INSTANCE LeaseTable WITH Process <- Request, Name <- {"knowledge:planning"},
                               lease <- planLease
Plan == INSTANCE PlanningOverlay WITH Writer <- Request, overlay <- plan, draft <- form

DocRecord == [version : Nat, status : {"extracted", "superseded", "deleted"}]
ClaimRecord == [status : {"confirmed", "rejected", "superseded", "deleted"}, active : BOOLEAN,
                projected : ProjectionKey \cup {Missing}]

KnowledgeConstants == Missing \notin Doc \cup DocRecord \cup ClaimRecord \cup ProjectionKey

NewClaim == [status |-> "confirmed", active |-> TRUE, projected |-> Missing]
Waiting == [pc |-> "queued", doc |-> Missing, version |-> 0, prior |-> {}]
New == [pc |-> "new", doc |-> Missing, copy |-> Missing, what |-> "none", key |-> Missing,
        change |-> Missing]

KnowledgeTypeOK ==
    /\ docs \in [Doc -> DocRecord \cup {Missing}]
    /\ claims \in [Doc -> ClaimRecord \cup {Missing}]
    /\ receipts \in [Upload -> Doc \cup {Missing}]
    /\ PL!TableTypeOK

KnowledgeInit ==
    /\ docs = [d \in Doc |-> Missing]
    /\ claims = [d \in Doc |-> Missing]
    /\ receipts = [u \in Upload |-> Missing]
    /\ worker = [u \in Upload |-> Waiting]
    /\ rq = [r \in Request |-> New]
    /\ PL!TableInit /\ Plan!OverlayInit
    /\ used = [ids |-> {}, crashes |-> 0]

Saved == {d \in Doc : docs[d] # Missing}
Claimed == {d \in Doc : claims[d] # Missing}

At(u, from, to) == worker[u].pc = from /\ worker' = [worker EXCEPT ![u].pc = to]

-----------------------------------------------------------------------------
\* run_knowledge_import looks for its receipt; ingest_document takes the next version.
StartIngest(u, d) ==
    /\ worker[u].pc = "queued"
    /\ d \notin used.ids
    /\ receipts[u] = Missing
    /\ used' = [used EXCEPT !.ids = @ \cup {d}]
    /\ worker' = [worker EXCEPT ![u] = [pc |-> "documents", doc |-> d, prior |-> {},
                    version |-> 1 + Max({docs[x].version : x \in Saved} \cup {0})]]
    /\ UNCHANGED <<docs, claims, receipts, rq, planLease, plan, form>>

Retire(record) == IF record.status = "deleted" THEN record ELSE [record EXCEPT !.status = "superseded"]

\* _supersede_prior_source: first the documents that are not deleted, ...
SupersedeDocuments(u) ==
    /\ worker[u].pc = "documents"
    /\ worker' = [worker EXCEPT ![u].pc = "claims",
                                ![u].prior = {d \in Saved : docs[d].status # "deleted"}]
    /\ docs' = [d \in Doc |-> IF d \in Saved THEN Retire(docs[d]) ELSE docs[d]]
    /\ UNCHANGED <<claims, receipts, rq, planLease, plan, form, used>>

\* ... then the claims of those documents.  Claims whose document was never saved stay.
SupersedeClaims(u) ==
    /\ At(u, "claims", "attach")
    /\ claims' = [d \in Doc |->
         IF d \in Claimed \cap worker[u].prior
         THEN [Retire(claims[d]) EXCEPT !.active = FALSE] ELSE claims[d]]
    /\ UNCHANGED <<docs, receipts, rq, planLease, plan, form, used>>

AttachClaims(u) ==
    /\ At(u, "attach", "save")
    /\ claims' = [claims EXCEPT ![worker[u].doc] = NewClaim]
    /\ UNCHANGED <<docs, receipts, rq, planLease, plan, form, used>>

SaveDocument(u) ==
    /\ At(u, "save", "receipt")
    /\ docs' = [docs EXCEPT ![worker[u].doc] = [version |-> worker[u].version, status |-> "extracted"]]
    /\ UNCHANGED <<claims, receipts, rq, planLease, plan, form, used>>

SaveReceipt(u) ==
    /\ At(u, "receipt", "done")
    /\ receipts' = [receipts EXCEPT ![u] = worker[u].doc]
    /\ UNCHANGED <<docs, claims, rq, planLease, plan, form, used>>

\* The worker dies and the job is delivered again.
WorkerDies(u) ==
    /\ worker[u].pc \notin {"queued", "done"}
    /\ used.crashes < MaxCrashes
    /\ used' = [used EXCEPT !.crashes = @ + 1]
    /\ worker' = [worker EXCEPT ![u] = Waiting]
    /\ UNCHANGED <<docs, claims, receipts, rq, planLease, plan, form>>

-----------------------------------------------------------------------------
\* _assert_claim_current: the claim is active and its document the newest one.  Of two
\* documents with one version the list order decides; here both may.
Current(d) ==
    /\ d \in Claimed \cap Saved
    /\ claims[d].active /\ claims[d].status # "superseded"
    /\ \A x \in Saved : docs[x].version <= docs[d].version

Done(r) == [rq EXCEPT ![r] = [New EXCEPT !.pc = "done"]]

\* review_claim up to its save.
ReadReview(r, d, status) ==
    /\ rq[r].pc = "new"
    /\ Current(d)
    /\ claims[d].projected = Missing
    /\ rq' = [rq EXCEPT ![r] = [New EXCEPT !.pc = "save", !.doc = d, !.copy = claims[d], !.what = status]]
    /\ UNCHANGED <<docs, claims, receipts, worker, planLease, plan, form, used>>

SaveClaimReview(r) ==
    /\ rq[r].pc = "save"
    /\ rq[r].what \in {"confirmed", "rejected"}
    /\ claims' = [claims EXCEPT ![rq[r].doc] = [rq[r].copy EXCEPT !.status = rq[r].what]]
    /\ rq' = Done(r)
    /\ UNCHANGED <<docs, receipts, worker, planLease, plan, form, used>>

\* delete_knowledge of a claim, or of a document with its claims: one transaction for
\* the copies read before.
ReadDelete(r, d, what) ==
    /\ rq[r].pc = "new"
    /\ d \in (IF what = "document" THEN Saved ELSE Claimed)
    /\ rq' = [rq EXCEPT ![r] = [New EXCEPT !.pc = "save", !.doc = d, !.copy = claims[d], !.what = what]]
    /\ UNCHANGED <<docs, claims, receipts, worker, planLease, plan, form, used>>

SaveDelete(r) ==
    LET d == rq[r].doc IN
    /\ rq[r].pc = "save"
    /\ rq[r].what \in {"claim", "document"}
    /\ claims' = IF rq[r].copy = Missing THEN claims
                 ELSE [claims EXCEPT ![d] = [rq[r].copy EXCEPT !.status = "deleted", !.active = FALSE]]
    /\ docs' = IF rq[r].what = "document" THEN [docs EXCEPT ![d].status = "deleted"] ELSE docs
    /\ rq' = Done(r)
    /\ UNCHANGED <<receipts, worker, planLease, plan, form, used>>

-----------------------------------------------------------------------------
\* apply_confirmed_claim_projection: the claim is checked, then the lease is taken.
ReadProjection(r, d, key, change) ==
    /\ rq[r].pc = "new"
    /\ Current(d)
    /\ claims[d].projected \in {Missing, key}
    /\ rq' = [rq EXCEPT ![r] = [pc |-> "lease", doc |-> d, copy |-> claims[d], what |-> "project",
                                key |-> key, change |-> change]]
    /\ UNCHANGED <<docs, claims, receipts, worker, planLease, plan, form, used>>

TakeProjectionLease(r) ==
    /\ rq[r].pc = "lease"
    /\ IF PL!CanAcquire("knowledge:planning")
       THEN PL!Acquire(r, "knowledge:planning") /\ rq' = [rq EXCEPT ![r].pc = "plan"]
       ELSE rq' = Done(r) /\ UNCHANGED planLease
    /\ UNCHANGED <<docs, claims, receipts, worker, plan, form, used>>

\* Mutation of Notes: no note of an earlier projection is looked for.
NoNotes(key) == {}

\* The notes of the projections with this key in the task's planningNotes; the claims here
\* are all about one task.
Notes(key) == {n \in plan.facts : n[1] = key}

\* The overlay is read; a note with the same change means the claim's save is missing,
\* a note with another change is a conflict.
ReadOverlay(r) ==
    /\ rq[r].pc = "plan"
    /\ IF Notes(rq[r].key) # {}
       THEN /\ UNCHANGED <<plan, form>>
            /\ IF \E n \in Notes(rq[r].key) : n[2] = rq[r].change
               THEN rq' = [rq EXCEPT ![r].pc = "claim"] /\ UNCHANGED planLease
               ELSE rq' = Done(r) /\ PL!Release(r, "knowledge:planning")
       ELSE /\ Plan!ReadPlan(r, TRUE)
            /\ rq' = [rq EXCEPT ![r].pc = "check"]
            /\ UNCHANGED planLease
    /\ UNCHANGED <<docs, claims, receipts, worker, used>>

\* save_planning with the version the client sent.  It is the one just read, or the
\* projection ends with a conflict.
CheckOverlay(r) ==
    /\ rq[r].pc = "check"
    /\ \/ /\ Plan!CheckPlan(r, {<<rq[r].key, rq[r].change, form[r].read + 1>>})
          /\ rq' = [rq EXCEPT ![r].pc = "write"]
          /\ UNCHANGED planLease
       \/ /\ Plan!ConflictPlan(r) \/ Plan!DropPlan(r)
          /\ rq' = Done(r)
          /\ PL!Release(r, "knowledge:planning")
    /\ UNCHANGED <<docs, claims, receipts, worker, used>>

WriteOverlay(r) ==
    /\ rq[r].pc = "write"
    /\ Plan!WritePlan(r)
    /\ rq' = [rq EXCEPT ![r].pc = "claim"]
    /\ UNCHANGED <<docs, claims, receipts, worker, planLease, used>>

\* The claim is saved over the copy read before the lease, active and confirmed.
SaveProjection(r) ==
    /\ rq[r].pc = "claim"
    /\ claims' = [claims EXCEPT ![rq[r].doc] =
                    [status |-> "confirmed", active |-> TRUE, projected |-> rq[r].key]]
    /\ rq' = Done(r)
    /\ PL!Release(r, "knowledge:planning")
    /\ UNCHANGED <<docs, receipts, worker, plan, form, used>>

\* A request that dies, or one whose 180 seconds are over.
RequestDies(r) ==
    /\ rq[r].pc \notin {"new", "done"}
    /\ used.crashes < MaxCrashes
    /\ used' = [used EXCEPT !.crashes = @ + 1]
    /\ rq' = Done(r)
    /\ PL!Abandon(r) /\ Plan!DropPlan(r)
    /\ UNCHANGED <<docs, claims, receipts, worker>>

ProjectionLeaseLapses ==
    /\ used.crashes < MaxCrashes
    /\ used' = [used EXCEPT !.crashes = @ + 1]
    /\ PL!Lapse("knowledge:planning")
    /\ UNCHANGED <<docs, claims, receipts, worker, rq, plan, form>>

Ingest(u) ==
    \/ \E d \in Doc : StartIngest(u, d)
    \/ SupersedeDocuments(u) \/ SupersedeClaims(u) \/ AttachClaims(u)
    \/ SaveDocument(u) \/ SaveReceipt(u) \/ WorkerDies(u)

RequestStep(r) ==
    \/ \E d \in Doc : \/ \E status \in {"confirmed", "rejected"} : ReadReview(r, d, status)
                      \/ \E what \in {"claim", "document"} : ReadDelete(r, d, what)
                      \/ \E k \in ProjectionKey, c \in Change : ReadProjection(r, d, k, c)
    \/ SaveClaimReview(r) \/ SaveDelete(r) \/ TakeProjectionLease(r) \/ ReadOverlay(r)
    \/ CheckOverlay(r) \/ WriteOverlay(r) \/ SaveProjection(r) \/ RequestDies(r)

KnowledgeNext ==
    \/ \E u \in Upload : Ingest(u)
    \/ \E r \in Request : RequestStep(r)
    \/ ProjectionLeaseLapses

KnowledgeSpec == KnowledgeInit /\ [][KnowledgeNext]_knowledgeVars

-----------------------------------------------------------------------------
\* A projection is in the plan at most once for its key, through replays, deaths
\* between the planning row and the claim, and a lost lease; only two saves that
\* overlapped (see PlanningOverlay) can put it there twice (knowledge.py:612).
ProjectedOnce ==
    plan.clean => \A m, n \in plan.facts : m[1] = n[1] => m = n

\* A superseded or deleted claim comes back only through a request that read it while
\* it was active (knowledge.py:581, :640): no request that starts later revives it.
Retired(claim) == claim # Missing /\ ~claim.active

RevivedByReader ==
    \A d \in Doc : Retired(claims[d]) /\ ~Retired(claims'[d]) =>
        \E r \in Request : rq[r].doc = d /\ rq[r].copy.active /\ rq'[r].pc = "done"

\* docs/v4-timecue-capabilities.md:104: "a newer upload supersedes old claims": when
\* nothing runs and nothing died, no claim of an earlier upload is active beside a newer document.
Quiet == (\A u \in Upload : worker[u].pc \in {"queued", "done"}) /\ (\A r \in Request : rq[r].pc \in {"new", "done"})

NewestSupersedes ==
    Quiet /\ used.crashes = 0 => \A d \in Claimed, x \in Saved : x # d /\ ~Retired(claims[d]) => docs[x].status # "extracted"
=============================================================================
