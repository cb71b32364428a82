--------------------------- MODULE Records_proofs ---------------------------
(*****************************************************************************)
(* Proofs about the records of the database: claims and the plan (Knowledge), *)
(* decisions and calibration (Decisions), the lease transactions (Lease), the *)
(* commits of imports that are made under a lease (ImportCommit), and the     *)
(* signals of a worklog with the notes published from them (Signals).         *)
(*****************************************************************************)
EXTENDS Records, Knowledge, Decisions, TLAPS, SequenceTheorems, FiniteSetTheorems

(***************************************************************************)
(* Proofs about Knowledge, for any number of uploads, documents, requests,   *)
(* projection keys and changes, through deaths of workers and requests and   *)
(* lapses of the lease: a projection is in the plan once, planning notes are *)
(* not lost unless two saves overlapped, and a retired claim comes back only *)
(* through a request that read it while it was active.                       *)
(***************************************************************************)

Projecting == {"lease", "plan", "check", "write", "claim"}
Planning == {"check", "write"}

ClaimRequests == [pc : {"new", "save", "done"} \cup Projecting,
             doc : Doc \cup {Missing}, copy : ClaimRecord \cup {Missing},
             what : {"none", "confirmed", "rejected", "claim", "document", "project"},
             key : ProjectionKey \cup {Missing}, change : Change \cup {Missing}]
Claims == [Doc -> ClaimRecord \cup {Missing}]
Forms == [at : {"none", "read", "checked"}, expects : BOOLEAN, read : Nat, facts : SUBSET Fact,
           checked : Nat]

\* A request that projects has read an active claim; one that saves has what it saves.
Sane(z) ==
    /\ z.pc \notin {"new", "done"} => z.doc \in Doc
    /\ z.pc = "save" /\ z.what \in {"confirmed", "rejected"} => z.copy # Missing
    /\ z.pc \in Projecting => /\ z.copy # Missing /\ z.copy.active
                              /\ z.key \in ProjectionKey /\ z.change \in Change
\* A claim that was read is not forgotten.
Kept(z) == z.pc \notin {"new", "done"} /\ z.copy # Missing => claims[z.doc] # Missing

\* The document of an ingest whose claim is not attached yet.
Pending(u) == worker[u].pc \in {"documents", "claims", "attach"}

ReqInv == /\ rq \in [Request -> ClaimRequests] /\ claims \in Claims
          /\ \A r \in Request : Sane(rq[r]) /\ Kept(rq[r])
Delivery(w) == [pc |-> w.pc, doc |-> w.doc, version |-> w.version, prior |-> w.prior]
IdInv == /\ worker = [u \in Upload |-> worker[u]]
         /\ \A u \in Upload : worker[u] = Delivery(worker[u])
         /\ used = [ids |-> used.ids, crashes |-> used.crashes]
         /\ \A u \in Upload : Pending(u) =>
              /\ worker[u].doc \in Doc \cap used.ids /\ claims[worker[u].doc] = Missing
              /\ \A v \in Upload : Pending(v) /\ worker[v].doc = worker[u].doc => u = v
         /\ \A u \in Upload : worker[u].pc \notin {"queued", "done"} => worker[u].doc \in Doc
         /\ Claimed \subseteq used.ids

\* What a request in the middle of its save of the plan knows of the plan.
Drafting(r) ==
    /\ rq[r].pc = "check" => form[r].at = "read" /\ form[r].expects
    /\ rq[r].pc = "write" => form[r].at = "checked" /\ form[r].expects
    /\ rq[r].pc \notin Planning => form[r].at = "none"
Added(r) == <<rq[r].key, rq[r].change, form[r].checked + 1>>
NotesTrusted(r) ==
    /\ rq[r].pc = "check" => /\ form[r].read <= plan.version
                             /\ form[r].read = plan.version =>
                                  form[r].facts = plan.facts /\ Notes(rq[r].key) = {}
    /\ rq[r].pc = "write" => /\ form[r].checked <= plan.version
                             /\ form[r].checked = plan.version =>
                                  /\ form[r].facts = plan.facts \cup {Added(r)}
                                  /\ Notes(rq[r].key) = {}

NotesInv == /\ plan \in [version : Nat, facts : SUBSET Fact, clean : BOOLEAN]
            /\ form \in [Request -> Forms]
            /\ \A r \in Request : Drafting(r)
            /\ plan.clean => \A r \in Request : NotesTrusted(r)
            /\ ProjectedOnce

KnowledgeInv == ReqInv /\ IdInv /\ NotesInv

-----------------------------------------------------------------------------
\* What a step of a request does to requests and claims.
RequestGoes(r, z) ==
    /\ z \in ClaimRequests /\ rq' = [rq EXCEPT ![r] = z]
    /\ Sane(z) /\ Kept(z)
Edits(r) ==
    /\ claims' \in Claims
    /\ \A d \in Doc : claims[d] = Missing <=> claims'[d] = Missing
    /\ \A d \in Doc : Retired(claims[d]) /\ ~Retired(claims'[d]) =>
         rq[r].doc = d /\ rq[r].copy.active /\ rq'[r].pc = "done"
\* ... and to the plan.
Projects(r, z) ==
    \/ UNCHANGED <<plan, form>> /\ rq[r].pc \notin Planning /\ z.pc \notin Planning
    \/ /\ rq[r].pc = "plan" /\ z.pc = "check" /\ z.key = rq[r].key /\ z.change = rq[r].change
       /\ Notes(rq[r].key) = {} /\ Plan!ReadPlan(r, TRUE)
    \/ /\ rq[r].pc = "check" /\ z.pc = "write" /\ z.key = rq[r].key /\ z.change = rq[r].change
       /\ Plan!CheckPlan(r, {<<rq[r].key, rq[r].change, form[r].read + 1>>})
    \/ z.pc \notin Planning /\ Plan!DropPlan(r)
    \/ rq[r].pc = "write" /\ z.pc \notin Planning /\ Plan!WritePlan(r)

UsedKept == used' = used \/ used' = [used EXCEPT !.crashes = @ + 1]
RequestSteps(r) == /\ \E z \in ClaimRequests : RequestGoes(r, z) /\ Projects(r, z)
                   /\ Edits(r) /\ UNCHANGED worker /\ UsedKept

-----------------------------------------------------------------------------
\* A step that leaves the claims alone edits nothing.
LEMMA UntouchedEdits ==
    ASSUME ReqInv, UNCHANGED claims, NEW r \in Request PROVE Edits(r)
  BY DEF ReqInv, Edits

\* A request that is done is a request like any other.
LEMMA DoneIs == ASSUME KnowledgeConstants PROVE
    LET z == [New EXCEPT !.pc = "done"] IN z \in ClaimRequests /\ Sane(z) /\ Kept(z) /\ z.pc = "done"
  BY DEF New, ClaimRequests, Sane, Kept, Projecting, KnowledgeConstants

\* Ending a request, whatever it did.
LEMMA DoneGoes ==
    ASSUME KnowledgeConstants, NEW r \in Request, rq' = Done(r)
    PROVE  \E z \in ClaimRequests : RequestGoes(r, z) /\ z.pc = "done"
<1> DEFINE z == [New EXCEPT !.pc = "done"]
<1>1. z \in ClaimRequests /\ Sane(z) /\ Kept(z) /\ z.pc = "done"
  BY DoneIs
<1>2. rq' = [rq EXCEPT ![r] = z]
  BY DEF Done
<1> HIDE DEF z
<1> QED BY <1>1, <1>2 DEF RequestGoes

\* A projection moves on with what it read.
LEMMA PcGoes ==
    ASSUME ReqInv, NEW r \in Request, NEW p \in Projecting, rq[r].pc \in Projecting,
           rq' = [rq EXCEPT ![r].pc = p]
    PROVE  \E z \in ClaimRequests : /\ RequestGoes(r, z) /\ z.pc = p
                                    /\ z.key = rq[r].key /\ z.change = rq[r].change
<1> DEFINE z == [rq[r] EXCEPT !.pc = p]
<1>1. rq[r] \in ClaimRequests /\ Sane(rq[r]) /\ Kept(rq[r])
  BY DEF ReqInv
<1>2. /\ z \in ClaimRequests /\ z.pc = p /\ z.doc = rq[r].doc /\ z.copy = rq[r].copy
      /\ z.key = rq[r].key /\ z.change = rq[r].change
  BY <1>1 DEF ClaimRequests
<1>3. rq' = [rq EXCEPT ![r] = z]
  OBVIOUS
<1> HIDE DEF z
<1>4. Sane(z) /\ Kept(z)
  BY <1>1, <1>2 DEF Sane, Kept, Projecting
<1> QED BY <1>2, <1>3, <1>4 DEF RequestGoes

\* A new request that only read.
LEMMA ReadsGo ==
    ASSUME ReqInv, NEW r \in Request, rq[r].pc = "new", NEW z \in ClaimRequests,
           Sane(z), Kept(z), z.pc \notin Planning, rq' = [rq EXCEPT ![r] = z],
           UNCHANGED <<claims, worker, plan, form, used>>
    PROVE  RequestSteps(r)
  BY UntouchedEdits DEF RequestSteps, RequestGoes, Projects, Planning, UsedKept

\* review_claim reads a current claim.
LEMMA ReadReviewSteps ==
    ASSUME KnowledgeConstants, ReqInv, NEW r \in Request, NEW d \in Doc,
           NEW s \in {"confirmed", "rejected"}, ReadReview(r, d, s)
    PROVE  RequestSteps(r)
<1> DEFINE z == [New EXCEPT !.pc = "save", !.doc = d, !.copy = claims[d], !.what = s]
<1>1. claims[d] \in ClaimRecord /\ claims[d] # Missing
  BY DEF ReqInv, Claims, ReadReview, Current, Claimed
<1>2. z \in ClaimRequests /\ z.pc = "save" /\ z.doc = d /\ z.copy = claims[d]
  BY <1>1 DEF ClaimRequests, New, Projecting
<1>3. rq' = [rq EXCEPT ![r] = z]
  BY DEF ReadReview
<1> HIDE DEF z
<1>4. Sane(z) /\ Kept(z) /\ z.pc \notin Planning
  BY <1>1, <1>2 DEF Sane, Kept, Projecting, Planning
<1> QED BY <1>2, <1>3, <1>4, ReadsGo DEF ReadReview

\* delete_knowledge reads a claim, which may be missing.
LEMMA ReadDeleteSteps ==
    ASSUME KnowledgeConstants, ReqInv, NEW r \in Request, NEW d \in Doc,
           NEW what \in {"claim", "document"}, ReadDelete(r, d, what)
    PROVE  RequestSteps(r)
<1> DEFINE z == [New EXCEPT !.pc = "save", !.doc = d, !.copy = claims[d], !.what = what]
<1>1. claims[d] \in ClaimRecord \cup {Missing}
  BY DEF ReqInv, Claims
<1>2. z \in ClaimRequests /\ z.pc = "save" /\ z.doc = d /\ z.copy = claims[d] /\ z.what = what
  BY <1>1 DEF ClaimRequests, New, Projecting
<1>3. rq' = [rq EXCEPT ![r] = z]
  BY DEF ReadDelete
<1> HIDE DEF z
<1>4. Sane(z) /\ Kept(z) /\ z.pc \notin Planning
  BY <1>1, <1>2 DEF Sane, Kept, Projecting, Planning
<1> QED BY <1>2, <1>3, <1>4, ReadsGo DEF ReadDelete

\* apply_confirmed_claim_projection reads a current claim.
LEMMA ReadProjectionSteps ==
    ASSUME KnowledgeConstants, ReqInv, NEW r \in Request, NEW d \in Doc,
           NEW key \in ProjectionKey, NEW change \in Change, ReadProjection(r, d, key, change)
    PROVE  RequestSteps(r)
<1> DEFINE z == [pc |-> "lease", doc |-> d, copy |-> claims[d], what |-> "project",
                 key |-> key, change |-> change]
<1>1. claims[d] \in ClaimRecord /\ claims[d] # Missing /\ claims[d].active
  BY DEF ReqInv, Claims, ReadProjection, Current, Claimed
<1>2. z \in ClaimRequests /\ z.pc = "lease" /\ z.doc = d /\ z.copy = claims[d] /\ z.key = key
      /\ z.change = change
  BY <1>1 DEF ClaimRequests, Projecting
<1>3. rq' = [rq EXCEPT ![r] = z]
  BY DEF ReadProjection
<1> HIDE DEF z
<1>4. Sane(z) /\ Kept(z) /\ z.pc \notin Planning
  BY <1>1, <1>2 DEF Sane, Kept, Projecting, Planning
<1> QED BY <1>2, <1>3, <1>4, ReadsGo DEF ReadProjection

\* A review saves the copy it read with a new status: active if it was.
LEMMA SaveReviewSteps ==
    ASSUME KnowledgeConstants, ReqInv, NEW r \in Request, SaveClaimReview(r) PROVE RequestSteps(r)
<1> DEFINE new == [rq[r].copy EXCEPT !.status = rq[r].what]
<1>1. /\ rq[r] \in ClaimRequests /\ rq[r].doc \in Doc /\ rq[r].copy # Missing
      /\ claims[rq[r].doc] # Missing /\ claims \in Claims /\ rq[r].pc = "save"
      /\ rq[r].what \in {"confirmed", "rejected"}
  BY DEF ReqInv, Sane, Kept, SaveClaimReview
<1>2. rq[r].copy \in ClaimRecord
  BY <1>1 DEF ClaimRequests
<1>3. new \in ClaimRecord /\ new.active = rq[r].copy.active
  BY <1>1, <1>2 DEF ClaimRecord
<1>4. claims' = [claims EXCEPT ![rq[r].doc] = new]
  BY DEF SaveClaimReview
<1>5. PICK z \in ClaimRequests : RequestGoes(r, z) /\ z.pc = "done"
  BY DoneGoes DEF SaveClaimReview
<1>6. rq'[r].pc = "done"
  BY <1>5 DEF RequestGoes, ReqInv
<1> HIDE DEF new
<1>7. new # Missing
  BY <1>3 DEF KnowledgeConstants
<1>8. Edits(r)
  BY <1>1, <1>2, <1>3, <1>4, <1>6, <1>7 DEF Edits, Claims, Retired, ClaimRecord
<1> QED BY <1>1, <1>5, <1>8 DEF SaveClaimReview, RequestSteps, Projects, Planning, UsedKept

\* A deletion saves an inactive copy.
LEMMA SaveDeleteSteps ==
    ASSUME KnowledgeConstants, ReqInv, NEW r \in Request, SaveDelete(r) PROVE RequestSteps(r)
<1> DEFINE new == [rq[r].copy EXCEPT !.status = "deleted", !.active = FALSE]
<1>1. /\ rq[r] \in ClaimRequests /\ rq[r].doc \in Doc /\ claims \in Claims /\ rq[r].pc = "save"
      /\ rq[r].copy # Missing => claims[rq[r].doc] # Missing
  BY DEF ReqInv, Sane, Kept, SaveDelete
<1>2. PICK z \in ClaimRequests : RequestGoes(r, z) /\ z.pc = "done"
  BY DoneGoes DEF SaveDelete
<1>3. CASE rq[r].copy = Missing
  <2>1. Edits(r)
    BY <1>3, UntouchedEdits DEF SaveDelete
  <2> QED BY <1>1, <1>2, <2>1 DEF SaveDelete, RequestSteps, Projects, Planning, UsedKept
<1>4. CASE rq[r].copy # Missing
  <2>1. rq[r].copy \in ClaimRecord
    BY <1>1, <1>4 DEF ClaimRequests
  <2>2. new \in ClaimRecord /\ ~new.active
    BY <2>1 DEF ClaimRecord
  <2>3. claims' = [claims EXCEPT ![rq[r].doc] = new]
    BY <1>4 DEF SaveDelete
  <2> HIDE DEF new
  <2>4. new # Missing
    BY <2>2 DEF KnowledgeConstants
  <2>5. Edits(r)
    BY <1>1, <1>4, <2>2, <2>3, <2>4 DEF Edits, Claims, Retired
  <2> QED BY <1>1, <1>2, <2>5 DEF SaveDelete, RequestSteps, Projects, Planning, UsedKept
<1> QED BY <1>3, <1>4

\* A projection gets the lease or ends.
LEMMA TakeLeaseSteps ==
    ASSUME KnowledgeConstants, ReqInv, NEW r \in Request, TakeProjectionLease(r) PROVE RequestSteps(r)
<1>1. Edits(r)
  BY UntouchedEdits DEF TakeProjectionLease
<1>2. rq' = [rq EXCEPT ![r].pc = "plan"] \/ rq' = Done(r)
  BY DEF TakeProjectionLease
<1>3. \E z \in ClaimRequests : RequestGoes(r, z) /\ z.pc \notin Planning
  BY <1>2, DoneGoes, PcGoes DEF TakeProjectionLease, Planning, Projecting
<1> QED BY <1>1, <1>3 DEF TakeProjectionLease, RequestSteps, Projects, Planning, UsedKept

\* With a note of its key the projection goes on or ends; without, it drafts.
LEMMA ReadOverlaySteps ==
    ASSUME KnowledgeConstants, ReqInv, NEW r \in Request, ReadOverlay(r) PROVE RequestSteps(r)
<1>1. Edits(r) /\ rq[r].pc = "plan"
  BY UntouchedEdits DEF ReadOverlay
<1>2. CASE UNCHANGED <<plan, form>> /\ (rq' = [rq EXCEPT ![r].pc = "claim"] \/ rq' = Done(r))
  <2>1. \E z \in ClaimRequests : RequestGoes(r, z) /\ z.pc \notin Planning
    BY <1>1, <1>2, DoneGoes, PcGoes DEF Planning, Projecting
  <2> QED BY <1>1, <1>2, <2>1 DEF ReadOverlay, RequestSteps, Projects, Planning, UsedKept
<1>3. CASE /\ Notes(rq[r].key) = {} /\ Plan!ReadPlan(r, TRUE) /\ rq' = [rq EXCEPT ![r].pc = "check"]
  <2>1. PICK z \in ClaimRequests : /\ RequestGoes(r, z) /\ z.pc = "check"
                                   /\ z.key = rq[r].key /\ z.change = rq[r].change
    BY <1>1, <1>3, PcGoes DEF Projecting
  <2>2. Projects(r, z)
    BY <1>1, <1>3, <2>1 DEF Projects
  <2> QED BY <1>1, <2>1, <2>2 DEF ReadOverlay, RequestSteps, UsedKept
<1> QED BY <1>2, <1>3 DEF ReadOverlay

\* save_planning compares versions: the draft is checked, or the request ends.
LEMMA CheckOverlaySteps ==
    ASSUME KnowledgeConstants, ReqInv, NEW r \in Request, CheckOverlay(r) PROVE RequestSteps(r)
<1>1. Edits(r) /\ rq[r].pc = "check"
  BY UntouchedEdits DEF CheckOverlay
<1>2. CASE /\ Plan!CheckPlan(r, {<<rq[r].key, rq[r].change, form[r].read + 1>>})
           /\ rq' = [rq EXCEPT ![r].pc = "write"]
  <2>1. PICK z \in ClaimRequests : /\ RequestGoes(r, z) /\ z.pc = "write"
                                   /\ z.key = rq[r].key /\ z.change = rq[r].change
    BY <1>1, <1>2, PcGoes DEF Projecting
  <2>2. Projects(r, z)
    BY <1>1, <1>2, <2>1 DEF Projects
  <2> QED BY <1>1, <2>1, <2>2 DEF CheckOverlay, RequestSteps, UsedKept
<1>3. CASE Plan!DropPlan(r) /\ rq' = Done(r)
  <2>1. PICK z \in ClaimRequests : RequestGoes(r, z) /\ z.pc = "done"
    BY <1>3, DoneGoes
  <2>2. Projects(r, z)
    BY <1>3, <2>1 DEF Projects, Planning
  <2> QED BY <1>1, <2>1, <2>2 DEF CheckOverlay, RequestSteps, UsedKept
<1>4. Plan!ConflictPlan(r) => Plan!DropPlan(r)
  BY DEF Plan!ConflictPlan, Plan!DropPlan
<1> QED BY <1>2, <1>3, <1>4 DEF CheckOverlay

\* The planning row is written.
LEMMA WriteOverlaySteps ==
    ASSUME KnowledgeConstants, ReqInv, NEW r \in Request, WriteOverlay(r) PROVE RequestSteps(r)
<1>1. Edits(r) /\ rq[r].pc = "write"
  BY UntouchedEdits DEF WriteOverlay
<1>2. PICK z \in ClaimRequests : RequestGoes(r, z) /\ z.pc = "claim"
  BY <1>1, PcGoes DEF WriteOverlay, Projecting
<1>3. Projects(r, z)
  BY <1>1, <1>2 DEF WriteOverlay, Projects, Planning
<1> QED BY <1>1, <1>2, <1>3 DEF WriteOverlay, RequestSteps, UsedKept

\* A projection saves its claim as an active one: it read an active one.
LEMMA SaveProjectionSteps ==
    ASSUME KnowledgeConstants, ReqInv, NEW r \in Request, SaveProjection(r) PROVE RequestSteps(r)
<1> DEFINE new == [status |-> "confirmed", active |-> TRUE, projected |-> rq[r].key]
<1>1. /\ rq[r] \in ClaimRequests /\ rq[r].doc \in Doc /\ claims \in Claims /\ rq[r].pc = "claim"
      /\ claims[rq[r].doc] # Missing /\ rq[r].copy.active /\ rq[r].key \in ProjectionKey
  BY DEF ReqInv, Sane, Kept, SaveProjection, Projecting
<1>2. PICK z \in ClaimRequests : RequestGoes(r, z) /\ z.pc = "done"
  BY DoneGoes DEF SaveProjection
<1>3. rq'[r].pc = "done"
  BY <1>2 DEF RequestGoes, ReqInv
<1>4. new \in ClaimRecord /\ claims' = [claims EXCEPT ![rq[r].doc] = new]
  BY <1>1 DEF SaveProjection, ClaimRecord
<1> HIDE DEF new
<1>5. new # Missing
  BY <1>4 DEF KnowledgeConstants
<1>6. Edits(r)
  BY <1>1, <1>3, <1>4, <1>5 DEF Edits, Claims, Retired
<1> QED BY <1>1, <1>2, <1>6 DEF SaveProjection, RequestSteps, Projects, Planning, UsedKept

\* A request that dies leaves claims and plan as they are.
LEMMA RequestDiesSteps ==
    ASSUME KnowledgeConstants, ReqInv, NEW r \in Request, RequestDies(r) PROVE RequestSteps(r)
<1>1. Edits(r)
  BY UntouchedEdits DEF RequestDies
<1>2. PICK z \in ClaimRequests : RequestGoes(r, z) /\ z.pc = "done"
  BY DoneGoes DEF RequestDies
<1>3. Projects(r, z)
  BY <1>2 DEF RequestDies, Projects, Planning
<1> QED BY <1>1, <1>2, <1>3 DEF RequestDies, RequestSteps, UsedKept

\* Every action of a request is one of the kinds of step.
LEMMA ReviewSteps ==
    ASSUME KnowledgeConstants, ReqInv, NEW r \in Request, RequestStep(r) PROVE RequestSteps(r)
  BY ReadReviewSteps, ReadDeleteSteps, ReadProjectionSteps, SaveReviewSteps, SaveDeleteSteps,
     TakeLeaseSteps, ReadOverlaySteps, CheckOverlaySteps, WriteOverlaySteps, SaveProjectionSteps,
     RequestDiesSteps DEF RequestStep

-----------------------------------------------------------------------------
\* Requests and claims stay what they are.
LEMMA StepsReqInv ==
    ASSUME ReqInv, NEW r \in Request, RequestSteps(r) PROVE ReqInv'
<1>1. PICK z \in ClaimRequests : RequestGoes(r, z)
  BY DEF RequestSteps
<1>2. /\ rq \in [Request -> ClaimRequests] /\ rq' = [rq EXCEPT ![r] = z]
      /\ claims' \in Claims /\ \A d \in Doc : claims[d] = Missing <=> claims'[d] = Missing
  BY <1>1 DEF ReqInv, RequestGoes, RequestSteps, Edits
<1>3. \A s \in Request : /\ rq'[s] \in ClaimRequests /\ Sane(rq'[s])
                         /\ rq'[s].pc \notin {"new", "done"} /\ rq'[s].copy # Missing
                              => claims[rq'[s].doc] # Missing
  BY <1>1, <1>2 DEF ReqInv, RequestGoes, Kept
<1>4. \A s \in Request : rq'[s].pc \notin {"new", "done"} => rq'[s].doc \in Doc
  BY <1>3 DEF Sane
<1>5. ASSUME NEW s \in Request PROVE Sane(rq[s])' /\ Kept(rq[s])'
  BY <1>2, <1>3, <1>4 DEF Sane, Kept
<1> QED BY <1>2, <1>5 DEF ReqInv

\* Nothing about ids changes.
LEMMA SameIds ==
    ASSUME IdInv, UNCHANGED worker, UsedKept,
           \A d \in Doc : claims[d] = Missing <=> claims'[d] = Missing
    PROVE  IdInv'
<1>1. used' = [ids |-> used'.ids, crashes |-> used'.crashes] /\ used'.ids = used.ids
  BY DEF IdInv, UsedKept
<1>2. \A u \in Upload : Pending(u) => worker[u].doc \in Doc
  BY DEF IdInv
<1> QED BY <1>1, <1>2 DEF IdInv, Pending, Claimed

-----------------------------------------------------------------------------
\* The plan's invariant reads only requests, overlay and drafts.
LEMMA SamePlan ==
    ASSUME NotesInv, UNCHANGED <<rq, plan, form>> PROVE NotesInv'
<1>1. \A r \in Request : (Drafting(r) => Drafting(r)') /\ (NotesTrusted(r) => NotesTrusted(r)')
  BY DEF Drafting, NotesTrusted, Notes, Added
<1>2. ProjectedOnce'
  BY DEF NotesInv, ProjectedOnce
<1> QED BY <1>1, <1>2 DEF NotesInv

\* What a request knows of the plan stays while the plan does.
LEMMA OthersPlan ==
    ASSUME NotesInv, UNCHANGED plan, NEW s \in Request,
           rq'[s] = rq[s], form'[s] = form[s]
    PROVE  Drafting(s)' /\ (plan.clean => NotesTrusted(s)')
  BY DEF NotesInv, Drafting, NotesTrusted, Notes, Added

\* A request makes or drops a draft and the plan stays: it is enough to look at that draft.
LEMMA DraftPlanInv ==
    ASSUME NotesInv, rq \in [Request -> ClaimRequests], NEW r \in Request, NEW z \in ClaimRequests, RequestGoes(r, z),
           UNCHANGED plan, NEW e \in Forms, form' = [form EXCEPT ![r] = e],
           z.pc = "check" => e.at = "read" /\ e.expects,
           z.pc = "write" => e.at = "checked" /\ e.expects,
           z.pc \notin Planning => e.at = "none",
           plan.clean /\ z.pc = "check" =>
             /\ e.read <= plan.version
             /\ e.read = plan.version => e.facts = plan.facts /\ Notes(z.key) = {},
           plan.clean /\ z.pc = "write" =>
             /\ e.checked <= plan.version
             /\ e.checked = plan.version =>
                  /\ e.facts = plan.facts \cup {<<z.key, z.change, e.checked + 1>>}
                  /\ Notes(z.key) = {}
    PROVE  NotesInv'
<1>1. /\ rq'[r] = z /\ form'[r] = e /\ form' \in [Request -> Forms]
      /\ \A s \in Request : s # r => rq'[s] = rq[s] /\ form'[s] = form[s]
  BY DEF RequestGoes, NotesInv
<1>2. ASSUME NEW s \in Request PROVE Drafting(s)' /\ (plan.clean => NotesTrusted(s)')
  <2>1. CASE s # r
    BY <1>1, <2>1, OthersPlan
  <2>2. CASE s = r
    <3>1. Drafting(r)'
      BY <1>1 DEF Drafting
    <3>2. ASSUME plan.clean PROVE NotesTrusted(r)'
      BY <1>1, <3>2 DEF NotesTrusted, Notes, Added
    <3> QED BY <2>2, <3>1, <3>2
  <2> QED BY <2>1, <2>2
<1>3. ProjectedOnce'
  BY DEF NotesInv, ProjectedOnce
<1> QED BY <1>1, <1>2, <1>3 DEF NotesInv

\* Writing the plan makes every other draft stale; the note written is the only one
\* with its key, for the draft was made from the plan as it is and had none.
LEMMA WritePlanInv ==
    ASSUME NotesInv, rq \in [Request -> ClaimRequests], NEW r \in Request, NEW z \in ClaimRequests, RequestGoes(r, z),
           rq[r].pc = "write", z.pc \notin Planning, Plan!WritePlan(r)
    PROVE  NotesInv'
<1>1. /\ form[r] \in Forms /\ plan \in [version : Nat, facts : SUBSET Fact, clean : BOOLEAN]
      /\ form \in [Request -> Forms]
  BY DEF NotesInv
<1>2. /\ plan'.version = form[r].checked + 1 /\ plan'.facts = form[r].facts
      /\ plan'.clean = (plan.clean /\ form[r].checked = plan.version)
      /\ plan' \in [version : Nat, facts : SUBSET Fact, clean : BOOLEAN]
  BY <1>1 DEF Plan!WritePlan, Forms
<1>3. /\ form' \in [Request -> Forms] /\ form'[r].at = "none"
      /\ \A s \in Request : s # r => rq'[s] = rq[s] /\ form'[s] = form[s]
      /\ rq'[r] = z
  BY <1>1 DEF Plan!WritePlan, Plan!NoDraft, Forms, RequestGoes
<1>4. ASSUME NEW s \in Request PROVE Drafting(s)'
  BY <1>3 DEF NotesInv, Drafting, Planning
<1>5. ASSUME plan'.clean
      PROVE  /\ \A s \in Request : NotesTrusted(s)
             /\ plan'.version = plan.version + 1
             /\ plan'.facts = plan.facts \cup {Added(r)} /\ Notes(rq[r].key) = {}
  <2>1. plan.clean /\ form[r].checked = plan.version
    BY <1>2, <1>5
  <2>2. \A s \in Request : NotesTrusted(s)
    BY <2>1 DEF NotesInv
  <2> QED BY <1>2, <2>1, <2>2 DEF NotesTrusted
<1>6. ASSUME plan'.clean, NEW s \in Request PROVE NotesTrusted(s)'
  <2>1. CASE s = r
    BY <1>3, <2>1 DEF NotesTrusted, Planning
  <2>2. CASE s # r
    <3>1. NotesTrusted(s) /\ plan'.version = plan.version + 1 /\ plan.version \in Nat
      BY <1>1, <1>5, <1>6
    <3>2. /\ rq[s].pc = "check" => form[s].read <= plan.version
          /\ rq[s].pc = "write" => form[s].checked <= plan.version
      BY <3>1 DEF NotesTrusted
    <3>3. rq'[s] = rq[s] /\ form'[s] = form[s] /\ form[s].read \in Nat /\ form[s].checked \in Nat
      BY <1>1, <1>3, <2>2 DEF Forms
    <3>4. /\ rq[s].pc = "check" => form[s].read < plan'.version
          /\ rq[s].pc = "write" => form[s].checked < plan'.version
      BY <3>1, <3>2, <3>3
    <3> QED BY <3>1, <3>3, <3>4 DEF NotesTrusted
  <2> QED BY <2>1, <2>2
<1>7. ProjectedOnce'
  <2> SUFFICES ASSUME plan'.clean, NEW m \in plan'.facts, NEW n \in plan'.facts,
                      m[1] = n[1]
               PROVE  m = n
    BY DEF ProjectedOnce
  <2>1. /\ plan'.facts = plan.facts \cup {Added(r)} /\ Notes(rq[r].key) = {}
        /\ plan.clean /\ Added(r)[1] = rq[r].key
    BY <1>2, <1>5 DEF Added
  <2>2. \A f \in plan.facts : f[1] # rq[r].key
    BY <2>1 DEF Notes
  <2>3. \A f, g \in plan.facts : f[1] = g[1] => f = g
    BY <2>1 DEF NotesInv, ProjectedOnce
  <2> QED BY <2>1, <2>2, <2>3
<1> QED BY <1>2, <1>3, <1>4, <1>6, <1>7 DEF NotesInv

\* The plan's invariant is kept by every kind of step.
LEMMA StepsPlanInv ==
    ASSUME ReqInv, NotesInv, NEW r \in Request, RequestSteps(r) PROVE NotesInv'
<1>1. PICK z \in ClaimRequests : RequestGoes(r, z) /\ Projects(r, z)
  BY DEF RequestSteps
<1>2. /\ rq \in [Request -> ClaimRequests] /\ rq[r] \in ClaimRequests /\ Drafting(r) /\ form[r] \in Forms
      /\ plan.clean => NotesTrusted(r)
      /\ plan \in [version : Nat, facts : SUBSET Fact, clean : BOOLEAN]
      /\ form \in [Request -> Forms]
  BY DEF ReqInv, NotesInv
<1>3. CASE UNCHANGED <<plan, form>> /\ rq[r].pc \notin Planning /\ z.pc \notin Planning
  <2>1. form' = [form EXCEPT ![r] = form[r]] /\ form[r].at = "none"
    BY <1>2, <1>3 DEF Drafting
  <2> QED BY <1>1, <1>2, <1>3, <2>1, DraftPlanInv DEF Planning
<1>4. CASE /\ rq[r].pc = "plan" /\ z.pc = "check" /\ z.key = rq[r].key /\ z.change = rq[r].change
           /\ Notes(rq[r].key) = {} /\ Plan!ReadPlan(r, TRUE)
  <2> DEFINE e == [Plan!NoDraft EXCEPT !.at = "read", !.facts = plan.facts,
                                    !.read = plan.version, !.expects = TRUE]
  <2>1. /\ e \in Forms /\ e.at = "read" /\ e.expects
        /\ e.facts = plan.facts /\ e.read = plan.version
    BY <1>2 DEF Plan!NoDraft, Forms
  <2>2. form' = [form EXCEPT ![r] = e] /\ UNCHANGED plan
    BY <1>4 DEF Plan!ReadPlan
  <2> HIDE DEF e
  <2>3. plan.version <= plan.version
    BY <1>2
  <2> QED BY <1>1, <1>2, <1>4, <2>1, <2>2, <2>3, DraftPlanInv DEF Planning
<1>5. CASE /\ rq[r].pc = "check" /\ z.pc = "write" /\ z.key = rq[r].key /\ z.change = rq[r].change
           /\ Plan!CheckPlan(r, {<<rq[r].key, rq[r].change, form[r].read + 1>>})
  <2> DEFINE f == <<rq[r].key, rq[r].change, form[r].read + 1>>
             e == [form[r] EXCEPT !.at = "checked", !.facts = form[r].facts \cup {f},
                                   !.checked = plan.version]
  <2>1. f \in Fact
    <3>1. rq[r].key \in ProjectionKey /\ rq[r].change \in Change
      BY <1>5 DEF ReqInv, Sane, Projecting
    <3> QED BY <1>2, <3>1 DEF Fact, Forms
  <2>2. form[r].expects /\ form[r].read = plan.version
    BY <1>2, <1>5 DEF Plan!CheckPlan, Plan!Accepts, Drafting
  <2>3. /\ e \in Forms /\ e.at = "checked" /\ e.expects
        /\ e.facts = form[r].facts \cup {f} /\ e.checked = plan.version
    BY <1>2, <2>1, <2>2 DEF Forms
  <2>4. form' = [form EXCEPT ![r] = e] /\ UNCHANGED plan
    BY <1>5 DEF Plan!CheckPlan
  <2>5. plan.clean => form[r].facts = plan.facts /\ Notes(rq[r].key) = {}
    BY <1>2, <1>5, <2>2 DEF NotesTrusted
  <2> HIDE DEF e
  <2>6. plan.clean => /\ e.facts = plan.facts \cup {<<z.key, z.change, e.checked + 1>>}
                      /\ Notes(z.key) = {} /\ e.checked <= plan.version
    BY <1>2, <1>5, <2>2, <2>3, <2>5
  <2> QED BY <1>1, <1>2, <1>5, <2>3, <2>4, <2>6, DraftPlanInv DEF Planning
<1>6. CASE z.pc \notin Planning /\ Plan!DropPlan(r)
  <2>1. Plan!NoDraft \in Forms /\ Plan!NoDraft.at = "none"
    BY DEF Plan!NoDraft, Forms
  <2> QED BY <1>1, <1>2, <1>6, <2>1, DraftPlanInv DEF Planning, Plan!DropPlan
<1>7. CASE rq[r].pc = "write" /\ z.pc \notin Planning /\ Plan!WritePlan(r)
  BY <1>1, <1>2, <1>7, WritePlanInv
<1> QED BY <1>1, <1>3, <1>4, <1>5, <1>6, <1>7 DEF Projects

\* The invariant is kept by every step of a request.
LEMMA StepsKnowledgeInv == ASSUME KnowledgeInv, NEW r \in Request, RequestSteps(r) PROVE KnowledgeInv'
  BY StepsReqInv, StepsPlanInv, SameIds DEF KnowledgeInv, RequestSteps, Edits

-----------------------------------------------------------------------------
\* The invariant holds when nothing was uploaded.
LEMMA InitKnowledgeInv == ASSUME KnowledgeConstants, KnowledgeInit PROVE KnowledgeInv
<1>1. New \in ClaimRequests /\ Sane(New) /\ Kept(New)
  BY DEF New, ClaimRequests, Sane, Kept, Projecting
<1>2. ReqInv
  <2>1. claims \in Claims /\ rq = [r \in Request |-> New]
    BY DEF KnowledgeInit, Claims
  <2> QED BY <1>1, <2>1 DEF ReqInv
<1>3. IdInv
  <2>1. worker = [u \in Upload |-> Waiting] /\ claims = [d \in Doc |-> Missing]
        /\ used = [ids |-> {}, crashes |-> 0]
    BY DEF KnowledgeInit
  <2>2. Waiting = Delivery(Waiting) /\ Waiting.pc = "queued"
    BY DEF Waiting, Delivery
  <2>3. \A u \in Upload : worker[u] = Waiting
    BY <2>1
  <2>4. \A u \in Upload : worker[u] = Delivery(worker[u]) /\ worker[u].pc = "queued"
    BY <2>2, <2>3
  <2>5. Claimed = {}
    BY <2>1 DEF Claimed
  <2>6. worker = [u \in Upload |-> worker[u]] /\ used = [ids |-> used.ids, crashes |-> used.crashes]
    BY <2>1
  <2> QED BY <2>4, <2>5, <2>6 DEF IdInv, Pending
<1>4. NotesInv
  <2>1. Plan!NoDraft \in Forms /\ Plan!NoDraft.at = "none" /\ New.pc = "new"
    BY DEF Plan!NoDraft, Forms, New
  <2>2. rq = [r \in Request |-> New] /\ form = [r \in Request |-> Plan!NoDraft]
        /\ plan = [version |-> 0, facts |-> {}, clean |-> TRUE]
    BY DEF KnowledgeInit, Plan!OverlayInit
  <2>3. \A r \in Request : Drafting(r) /\ NotesTrusted(r)
    BY <2>1, <2>2 DEF Drafting, NotesTrusted, Planning
  <2> QED BY <2>1, <2>2, <2>3 DEF NotesInv, ProjectedOnce
<1> QED BY <1>2, <1>3, <1>4 DEF KnowledgeInv

\* A worker moves on with its document, or dies.
PlanFollows(u, p) ==
    /\ worker' = [v \in Upload |-> worker'[v]]
    /\ worker'[u] = Delivery(worker'[u]) /\ worker'[u].pc = p /\ worker'[u].doc = worker[u].doc
    /\ \A v \in Upload : v # u => worker'[v] = worker[v]

\* A delivery with the same document follows.
LEMMA FollowsIs ==
    ASSUME IdInv, NEW u \in Upload, NEW p, NEW s,
           worker' = [worker EXCEPT ![u] = [pc |-> p, doc |-> worker[u].doc,
                                            version |-> worker[u].version, prior |-> s]]
    PROVE  PlanFollows(u, p)
  BY DEF PlanFollows, IdInv, Delivery

\* ... also where only the pc changes.
LEMMA AtFollows ==
    ASSUME IdInv, NEW u \in Upload, NEW from, NEW to, At(u, from, to) PROVE PlanFollows(u, to)
<1>1. worker[u] = Delivery(worker[u])
  BY DEF IdInv
<1>2. [worker[u] EXCEPT !.pc = to] = [pc |-> to, doc |-> worker[u].doc,
                                      version |-> worker[u].version, prior |-> worker[u].prior]
  BY <1>1 DEF Delivery
<1>3. worker' = [worker EXCEPT ![u] = [pc |-> to, doc |-> worker[u].doc,
                                       version |-> worker[u].version, prior |-> worker[u].prior]]
  BY <1>2 DEF At
<1> QED BY <1>3, FollowsIs

\* A delivery that follows keeps the ids apart, if at most its own document gets a claim.
LEMMA FollowsIdInv ==
    ASSUME IdInv, NEW u \in Upload, worker[u].pc \notin {"queued", "done"},
           NEW p, PlanFollows(u, p), p \in {"documents", "claims", "attach"} => Pending(u),
           UNCHANGED used, Claimed' \subseteq used.ids,
           \A d \in Doc : claims[d] = Missing =>
             (claims'[d] = Missing \/ (Pending(u) /\ ~Pending(u)' /\ d = worker[u].doc))
    PROVE  IdInv'
<1>1. \A v \in Upload : /\ Pending(v)' => Pending(v)
                        /\ worker'[v].doc = worker[v].doc /\ worker'[v] = Delivery(worker'[v])
  BY DEF Pending, PlanFollows, IdInv
<1>2. ASSUME NEW v \in Upload, Pending(v)'
      PROVE  /\ worker'[v].doc \in Doc \cap used.ids /\ claims'[worker'[v].doc] = Missing
             /\ \A x \in Upload : Pending(x)' /\ worker'[x].doc = worker'[v].doc => v = x
  <2>1. /\ Pending(v) /\ worker'[v].doc = worker[v].doc /\ worker[v].doc \in Doc \cap used.ids
        /\ claims[worker[v].doc] = Missing
    BY <1>1, <1>2 DEF IdInv
  <2>2. Pending(u) /\ worker[v].doc = worker[u].doc => v = u
    BY <2>1 DEF IdInv
  <2>3. claims'[worker[v].doc] = Missing
    BY <1>2, <2>1, <2>2
  <2>4. \A x \in Upload : Pending(x)' /\ worker'[x].doc = worker'[v].doc => v = x
    BY <1>1, <2>1 DEF IdInv
  <2> QED BY <2>1, <2>3, <2>4
<1>3. \A v \in Upload : worker'[v].pc \notin {"queued", "done"} => worker'[v].doc \in Doc
  BY <1>1 DEF IdInv, PlanFollows
<1> QED BY <1>1, <1>2, <1>3 DEF IdInv, PlanFollows

\* A worker leaves requests and plan alone, and no claim comes back by it.
Ingested == /\ UNCHANGED <<rq, plan, form>>
            /\ claims' \in Claims
            /\ \A d \in Doc : claims[d] # Missing => claims'[d] # Missing
            /\ \A d \in Doc : Retired(claims[d]) => Retired(claims'[d])
            /\ IdInv'

\* ingest_document takes an id that no document or claim has.
LEMMA StartIngested ==
    ASSUME KnowledgeInv, NEW u \in Upload, NEW d \in Doc, StartIngest(u, d) PROVE Ingested
<1> DEFINE n == worker'[u]
<1>1. /\ worker = [v \in Upload |-> worker[v]] /\ used = [ids |-> used.ids, crashes |-> used.crashes]
      /\ Claimed \subseteq used.ids /\ claims \in Claims
  BY DEF KnowledgeInv, IdInv, ReqInv
<1>2. /\ worker' = [v \in Upload |-> worker'[v]]
      /\ worker'[u].pc = "documents" /\ worker'[u].doc = d /\ worker'[u] = Delivery(worker'[u])
      /\ \A v \in Upload : v # u => worker'[v] = worker[v]
  BY <1>1 DEF StartIngest, Delivery
<1>3. used' = [ids |-> used'.ids, crashes |-> used'.crashes] /\ used'.ids = used.ids \cup {d}
      /\ d \notin used.ids
  BY <1>1 DEF StartIngest
<1>4. claims' = claims /\ claims[d] = Missing
  BY <1>1, <1>3 DEF StartIngest, Claimed
<1>5. ASSUME NEW v \in Upload, Pending(v)'
      PROVE  /\ worker'[v].doc \in Doc \cap used'.ids /\ claims'[worker'[v].doc] = Missing
             /\ \A x \in Upload : Pending(x)' /\ worker'[x].doc = worker'[v].doc => v = x
  BY <1>2, <1>3, <1>4, <1>5 DEF KnowledgeInv, IdInv, Pending
<1>6. \A v \in Upload : worker'[v].pc \notin {"queued", "done"} => worker'[v].doc \in Doc
  BY <1>2 DEF KnowledgeInv, IdInv
<1>7. Claimed' \subseteq used'.ids
  BY <1>1, <1>3, <1>4 DEF Claimed
<1>8. \A v \in Upload : worker'[v] = Delivery(worker'[v])
  BY <1>2 DEF KnowledgeInv, IdInv
<1>9. IdInv'
  BY <1>2, <1>3, <1>5, <1>6, <1>7, <1>8 DEF IdInv
<1> QED BY <1>1, <1>4, <1>9 DEF Ingested, StartIngest

\* Superseding documents leaves the claims alone.
LEMMA DocumentsIngested ==
    ASSUME KnowledgeInv, NEW u \in Upload, SupersedeDocuments(u) PROVE Ingested
<1> DEFINE s == {d \in Saved : docs[d].status # "deleted"}
<1>1. worker[u] = Delivery(worker[u]) /\ worker[u].pc = "documents" /\ UNCHANGED <<claims, used>>
  BY DEF KnowledgeInv, IdInv, SupersedeDocuments
<1>2. [worker[u] EXCEPT !.pc = "claims", !.prior = s]
        = [pc |-> "claims", doc |-> worker[u].doc, version |-> worker[u].version, prior |-> s]
  <2> HIDE DEF s
  <2> DEFINE x == [pc |-> "claims", doc |-> worker[u].doc, version |-> worker[u].version,
                   prior |-> worker[u].prior]
  <2>1. [worker[u] EXCEPT !.pc = "claims"] = x
    BY <1>1 DEF Delivery
  <2>2. [x EXCEPT !.prior = s]
          = [pc |-> "claims", doc |-> worker[u].doc, version |-> worker[u].version, prior |-> s]
    OBVIOUS
  <2>3. [worker[u] EXCEPT !.pc = "claims", !.prior = s]
          = [[worker[u] EXCEPT !.pc = "claims"] EXCEPT !.prior = s]
    OBVIOUS
  <2> HIDE DEF x
  <2> QED BY <2>1, <2>2, <2>3
<1>3. worker' = [worker EXCEPT ![u] = [pc |-> "claims", doc |-> worker[u].doc,
                                       version |-> worker[u].version, prior |-> s]]
  <2>1. worker' = [worker EXCEPT ![u] = [worker[u] EXCEPT !.pc = "claims", !.prior = s]]
    BY DEF SupersedeDocuments
  <2> QED BY <1>2, <2>1
<1> HIDE DEF s
<1>4. PlanFollows(u, "claims")
  BY <1>3, FollowsIs DEF KnowledgeInv
<1>5. Claimed' \subseteq used.ids
  BY <1>1 DEF Claimed, KnowledgeInv, IdInv
<1>6. IdInv'
  BY <1>1, <1>4, <1>5, FollowsIdInv DEF KnowledgeInv, Pending
<1> QED BY <1>1, <1>6 DEF Ingested, SupersedeDocuments, KnowledgeInv, ReqInv

\* Superseding claims leaves none active that it touches.
LEMMA ClaimsIngested ==
    ASSUME KnowledgeConstants, KnowledgeInv, NEW u \in Upload, SupersedeClaims(u) PROVE Ingested
<1>1. /\ claims \in Claims /\ worker[u].pc = "claims" /\ UNCHANGED used
      /\ claims' = [d \in Doc |-> IF d \in Claimed \cap worker[u].prior
                                  THEN [Retire(claims[d]) EXCEPT !.active = FALSE] ELSE claims[d]]
  BY DEF KnowledgeInv, ReqInv, SupersedeClaims, At
<1>2. ASSUME NEW c \in ClaimRecord
      PROVE  LET n == [Retire(c) EXCEPT !.active = FALSE] IN n \in ClaimRecord /\ Retired(n)
  <2>1. Retire(c) \in ClaimRecord
    BY DEF Retire, ClaimRecord
  <2>2. [Retire(c) EXCEPT !.active = FALSE] \in ClaimRecord
        /\ ~[Retire(c) EXCEPT !.active = FALSE].active
    BY <2>1 DEF ClaimRecord
  <2> QED BY <2>2 DEF Retired, KnowledgeConstants
<1>3. \A d \in Doc : \/ claims'[d] = claims[d]
                     \/ claims[d] # Missing /\ claims'[d] \in ClaimRecord /\ Retired(claims'[d])
  <2> TAKE d \in Doc
  <2>1. CASE d \in Claimed \cap worker[u].prior
    <3>1. claims[d] # Missing /\ claims[d] \in ClaimRecord
      BY <1>1, <2>1 DEF Claimed, Claims
    <3>2. claims'[d] = [Retire(claims[d]) EXCEPT !.active = FALSE]
      BY <1>1, <2>1
    <3> QED BY <1>2, <3>1, <3>2
  <2>2. CASE d \notin Claimed \cap worker[u].prior
    BY <1>1, <2>2
  <2> QED BY <2>1, <2>2
<1>4. claims' = [d \in Doc |-> claims'[d]]
  BY <1>1
<1>5. claims' \in Claims /\ \A d \in Doc : claims[d] = Missing <=> claims'[d] = Missing
  BY <1>1, <1>3, <1>4 DEF Claims, Retired
<1>6. PlanFollows(u, "attach")
  BY AtFollows DEF KnowledgeInv, SupersedeClaims
<1>7. Claimed' \subseteq used.ids
  BY <1>5 DEF Claimed, KnowledgeInv, IdInv
<1>8. IdInv'
  BY <1>1, <1>5, <1>6, <1>7, FollowsIdInv DEF KnowledgeInv, Pending
<1> QED BY <1>3, <1>5, <1>8 DEF Ingested, SupersedeClaims

\* The claim attached is the first with its document's id.
LEMMA AttachIngested ==
    ASSUME KnowledgeConstants, KnowledgeInv, NEW u \in Upload, AttachClaims(u) PROVE Ingested
<1>1. /\ claims \in Claims /\ worker[u].pc = "attach" /\ UNCHANGED used
      /\ claims' = [claims EXCEPT ![worker[u].doc] = NewClaim]
      /\ worker[u].doc \in Doc \cap used.ids /\ claims[worker[u].doc] = Missing
  BY DEF KnowledgeInv, ReqInv, IdInv, AttachClaims, At, Pending
<1>2. NewClaim \in ClaimRecord /\ NewClaim # Missing
  <2>1. NewClaim \in ClaimRecord
    BY DEF NewClaim, ClaimRecord
  <2> QED BY <2>1 DEF KnowledgeConstants
<1>3. claims' \in Claims /\ \A d \in Doc : d # worker[u].doc => claims'[d] = claims[d]
  BY <1>1, <1>2 DEF Claims
<1>4. PlanFollows(u, "save")
  BY AtFollows DEF KnowledgeInv, AttachClaims
<1>5. Claimed' \subseteq used.ids
  BY <1>1, <1>3 DEF Claimed, KnowledgeInv, IdInv
<1>6. ~Pending(u)' /\ Pending(u)
  BY <1>1, <1>4 DEF PlanFollows, Pending
<1>7. IdInv'
  BY <1>1, <1>3, <1>4, <1>5, <1>6, FollowsIdInv DEF KnowledgeInv
<1>8. \A d \in Doc : claims[d] # Missing => claims'[d] = claims[d]
  BY <1>1, <1>3
<1> QED BY <1>3, <1>7, <1>8 DEF Ingested, AttachClaims, Retired

\* The last two saves leave the claims alone.
LEMMA SavesIngested ==
    ASSUME KnowledgeInv, NEW u \in Upload, SaveDocument(u) \/ SaveReceipt(u) PROVE Ingested
<1>1. PICK p \in {"receipt", "done"} : PlanFollows(u, p)
  BY AtFollows DEF KnowledgeInv, SaveDocument, SaveReceipt
<1>2. worker[u].pc \in {"save", "receipt"} /\ UNCHANGED <<claims, used>>
  BY DEF SaveDocument, SaveReceipt, At
<1>3. Claimed' \subseteq used.ids
  BY <1>2 DEF Claimed, KnowledgeInv, IdInv
<1>4. IdInv'
  BY <1>1, <1>2, <1>3, FollowsIdInv DEF KnowledgeInv
<1> QED BY <1>2, <1>4 DEF Ingested, SaveDocument, SaveReceipt, KnowledgeInv, ReqInv

\* The delivery after a death starts over, with another id.
LEMMA DiesIngested ==
    ASSUME KnowledgeInv, NEW u \in Upload, WorkerDies(u) PROVE Ingested
<1>1. /\ worker' = [worker EXCEPT ![u] = Waiting] /\ claims' = claims
      /\ used' = [used EXCEPT !.crashes = @ + 1] /\ IdInv /\ claims \in Claims
  BY DEF WorkerDies, KnowledgeInv, ReqInv
<1>2. used' = [ids |-> used'.ids, crashes |-> used'.crashes] /\ used'.ids = used.ids
  BY <1>1 DEF IdInv
<1>3. /\ worker' = [v \in Upload |-> worker'[v]] /\ worker'[u].pc = "queued"
      /\ \A v \in Upload : worker'[v] = Delivery(worker'[v])
      /\ \A v \in Upload : v # u => worker'[v] = worker[v]
  BY <1>1 DEF IdInv, Waiting, Delivery
<1>4. IdInv'
  BY <1>1, <1>2, <1>3 DEF IdInv, Pending, Claimed
<1> QED BY <1>1, <1>4 DEF Ingested, WorkerDies

\* Every step of a worker leaves requests and plan alone and revives nothing.
LEMMA IngestIs ==
    ASSUME KnowledgeConstants, KnowledgeInv, NEW u \in Upload, Ingest(u) PROVE Ingested
  BY StartIngested, DocumentsIngested, ClaimsIngested, AttachIngested, SavesIngested, DiesIngested
  DEF Ingest

\* The invariant is kept by every step of a worker.
LEMMA IngestKnowledgeInv == ASSUME KnowledgeInv, Ingested PROVE KnowledgeInv'
<1>1. \A r \in Request : Kept(rq[r]) => Kept(rq[r])'
  <2> SUFFICES ASSUME NEW r \in Request, Kept(rq[r]) PROVE Kept(rq[r])'
    OBVIOUS
  <2>1. rq[r].pc \notin {"new", "done"} => rq[r].doc \in Doc
    BY DEF KnowledgeInv, ReqInv, Sane
  <2> QED BY <2>1 DEF Kept, Ingested
<1>2. ReqInv'
  BY <1>1 DEF KnowledgeInv, ReqInv, Ingested, Sane
<1> QED BY <1>2, SamePlan DEF KnowledgeInv, Ingested

\* A lease that lapses, or nothing, keeps the invariant.
LEMMA RestKnowledgeInv ==
    ASSUME KnowledgeInv, ProjectionLeaseLapses \/ UNCHANGED knowledgeVars PROVE KnowledgeInv'
<1>1. UNCHANGED <<claims, worker, rq, plan, form>> /\ UsedKept
  BY DEF ProjectionLeaseLapses, knowledgeVars, UsedKept
<1>2. ReqInv'
  BY <1>1 DEF KnowledgeInv, ReqInv, Sane, Kept
<1> QED BY <1>1, <1>2, SamePlan, SameIds DEF KnowledgeInv

\* The invariant is inductive.
LEMMA NextKnowledgeInv == ASSUME KnowledgeConstants PROVE KnowledgeInv /\ [KnowledgeNext]_knowledgeVars => KnowledgeInv'
<1> SUFFICES ASSUME KnowledgeInv, [KnowledgeNext]_knowledgeVars PROVE KnowledgeInv'
  OBVIOUS
<1>1. ASSUME NEW r \in Request, RequestStep(r) PROVE KnowledgeInv'
  BY <1>1, ReviewSteps, StepsKnowledgeInv DEF KnowledgeInv
<1>2. ASSUME NEW u \in Upload, Ingest(u) PROVE KnowledgeInv'
  BY <1>2, IngestIs, IngestKnowledgeInv
<1> QED BY <1>1, <1>2, RestKnowledgeInv DEF KnowledgeNext

\* The invariant holds in every state.
THEOREM KnowledgeInvHolds == ASSUME KnowledgeConstants PROVE KnowledgeSpec => []KnowledgeInv
<1>1. KnowledgeInit => KnowledgeInv
  BY InitKnowledgeInv
<1> QED BY <1>1, NextKnowledgeInv, PTL DEF KnowledgeSpec

\* apply_confirmed_claim_projection puts a projection in the plan at most once for
\* its key, through replays, deaths and lost leases (knowledge.py:612).
THEOREM ProjectedOnceAlways == ASSUME KnowledgeConstants PROVE KnowledgeSpec => []ProjectedOnce
<1>1. KnowledgeInv => ProjectedOnce
  BY DEF KnowledgeInv, NotesInv
<1> QED BY <1>1, KnowledgeInvHolds, PTL

\* A superseded or deleted claim comes back only through a request that read it while
\* it was active (knowledge.py:581, :640); a worker that ingests revives none.
THEOREM OnlyReadersRevive ==
    ASSUME KnowledgeConstants PROVE KnowledgeSpec => [][RevivedByReader]_knowledgeVars
<1>1. KnowledgeInv /\ [KnowledgeNext]_knowledgeVars => [RevivedByReader]_knowledgeVars
  <2> SUFFICES ASSUME KnowledgeInv, KnowledgeNext PROVE RevivedByReader
    OBVIOUS
  <2>1. ASSUME NEW r \in Request, RequestStep(r) PROVE RevivedByReader
    <3>1. Edits(r)
      BY <2>1, ReviewSteps DEF KnowledgeInv, RequestSteps
    <3> QED BY <3>1 DEF Edits, RevivedByReader
  <2>2. ASSUME NEW u \in Upload, Ingest(u) PROVE RevivedByReader
    <3>1. Ingested
      BY <2>2, IngestIs
    <3> QED BY <3>1 DEF Ingested, RevivedByReader
  <2>3. CASE ProjectionLeaseLapses
    BY <2>3 DEF ProjectionLeaseLapses, RevivedByReader
  <2> QED BY <2>1, <2>2, <2>3 DEF KnowledgeNext
<1> QED BY <1>1, KnowledgeInvHolds, PTL DEF KnowledgeSpec

\* While no two saves overlapped, no projection takes a planning note away: the draft
\* it writes was made from the plan it replaces.
THEOREM NothingIsLost ==
    ASSUME KnowledgeConstants
    PROVE  KnowledgeSpec => [][plan'.clean => plan.facts \subseteq plan'.facts]_knowledgeVars
<1>1. ASSUME KnowledgeInv, NEW r \in Request, RequestSteps(r), plan'.clean
      PROVE  plan.facts \subseteq plan'.facts
  <2>1. PICK z \in ClaimRequests : Projects(r, z)
    BY <1>1 DEF RequestSteps
  <2>2. CASE UNCHANGED plan
    BY <2>2
  <2>3. CASE rq[r].pc = "write" /\ Plan!WritePlan(r)
    <3>1. plan'.facts = form[r].facts /\ plan.clean /\ form[r].checked = plan.version
      BY <1>1, <2>3 DEF Plan!WritePlan
    <3>2. NotesTrusted(r)
      BY <1>1, <3>1 DEF KnowledgeInv, NotesInv
    <3> QED BY <2>3, <3>1, <3>2 DEF NotesTrusted
  <2> QED BY <2>1, <2>2, <2>3 DEF Projects, Plan!ReadPlan, Plan!CheckPlan, Plan!DropPlan
<1>2. KnowledgeInv /\ [KnowledgeNext]_knowledgeVars
        => [plan'.clean => plan.facts \subseteq plan'.facts]_knowledgeVars
  <2> SUFFICES ASSUME KnowledgeInv, KnowledgeNext, plan'.clean
               PROVE  plan.facts \subseteq plan'.facts
    OBVIOUS
  <2>1. ASSUME NEW r \in Request, RequestStep(r) PROVE plan.facts \subseteq plan'.facts
    BY <1>1, <2>1, ReviewSteps DEF KnowledgeInv
  <2>2. ASSUME NEW u \in Upload, Ingest(u) PROVE UNCHANGED plan
    BY <2>2, IngestIs DEF Ingested
  <2>3. ProjectionLeaseLapses => UNCHANGED plan
    BY DEF ProjectionLeaseLapses
  <2> QED BY <2>1, <2>2, <2>3 DEF KnowledgeNext
<1> QED BY <1>2, KnowledgeInvHolds, PTL DEF KnowledgeSpec

-----------------------------------------------------------------------------
\* The documents.  An ingest keeps its id and its version until the document is saved;
\* no other document has that id, so a save never replaces one, and the newest document
\* stays: the next version is always one more than a version there is.
Unsaved(u) == worker[u].pc \in {"documents", "claims", "attach", "save"}

DocTypes == /\ docs \in [Doc -> DocRecord \cup {Missing}]
            /\ receipts \in [Upload -> Doc \cup {Missing}]
            /\ PL!TableTypeOK
DocIds == /\ Saved \subseteq used.ids
          /\ \A u \in Upload : Unsaved(u) =>
               /\ worker[u].version \in Nat /\ worker[u].doc \in used.ids \ Saved
               /\ \A v \in Upload : Unsaved(v) /\ worker[v].doc = worker[u].doc => u = v
DocReads == \A r \in Request : rq[r].pc = "save" /\ rq[r].what = "document" => rq[r].doc \in Saved
DocNewest == Saved # {} => \E d \in Saved : \A x \in Saved : docs[x].version <= docs[d].version

DocInv == DocTypes /\ DocIds /\ DocReads /\ DocNewest

\* The documents there are stay, with their versions.
DocsStay == /\ docs' \in [Doc -> DocRecord \cup {Missing}]
            /\ \A d \in Doc : docs[d] = Missing <=> docs'[d] = Missing
            /\ \A d \in Saved : docs'[d].version = docs[d].version

\* Documents that are left alone stay.
LEMMA SameDocsStay == ASSUME DocTypes, UNCHANGED docs PROVE DocsStay
  BY DEF DocTypes, DocsStay

\* The newest document stays the newest.
LEMMA StayNewest == ASSUME DocInv, DocsStay PROVE Saved' = Saved /\ DocNewest'
<1>1. Saved' = Saved
  BY DEF DocsStay, Saved
<1>2. CASE Saved # {}
  <2>1. PICK d \in Saved : \A x \in Saved : docs[x].version <= docs[d].version
    BY <1>2 DEF DocInv, DocNewest
  <2>2. \A x \in Saved : docs'[x].version <= docs'[d].version
    BY <2>1 DEF DocsStay
  <2> QED BY <1>1, <2>1, <2>2 DEF DocNewest
<1> QED BY <1>1, <1>2 DEF DocNewest

\* The version an ingest takes is a number: 1 more than the newest one.
LEMMA VersionIsNat ==
    ASSUME DocInv PROVE Max({docs[x].version : x \in Saved} \cup {0}) \in Nat
<1> DEFINE S == {docs[x].version : x \in Saved} \cup {0}
<1>2. \A x \in Saved : docs[x].version \in Nat
  BY DEF DocInv, DocTypes, Saved, DocRecord
<1>3. S \subseteq Nat
  BY <1>2
<1>4. \E m \in S : \A y \in S : m >= y
  <2>1. CASE Saved = {}
    <3>1. S = {0}
      BY <2>1
    <3> QED BY <3>1
  <2>2. CASE Saved # {}
    <3>1. PICK d \in Saved : \A x \in Saved : docs[x].version <= docs[d].version
      BY <2>2 DEF DocInv, DocNewest
    <3>2. docs[d].version \in S /\ \A y \in S : docs[d].version >= y
      BY <1>2, <3>1
    <3> QED BY <3>2
  <2> QED BY <2>1, <2>2
<1> HIDE DEF S
<1>5. Max(S) \in S
  BY <1>4 DEF Max
<1> QED BY <1>3, <1>5 DEF S

\* What the steps of a lease write is a row.
LEMMA PlanLeaseTyped ==
    ASSUME PL!TableTypeOK, NEW r \in Request,
           \/ UNCHANGED planLease
           \/ PL!Acquire(r, "knowledge:planning") \/ PL!Release(r, "knowledge:planning")
           \/ PL!Abandon(r) \/ PL!Lapse("knowledge:planning")
    PROVE  PL!TableTypeOK'
<1> DEFINE N == "knowledge:planning"
           H == Request \cup {Free, Orphan}
<1>1. /\ planLease \in [{N} -> [holder : H, lapsed : BOOLEAN]]
      /\ planLease[N].holder \in H /\ planLease[N].lapsed \in BOOLEAN
  BY DEF PL!TableTypeOK
<1>2. ASSUME NEW rec \in [holder : H, lapsed : BOOLEAN], planLease' = [planLease EXCEPT ![N] = rec]
      PROVE  PL!TableTypeOK'
  BY <1>1, <1>2 DEF PL!TableTypeOK
<1>5. CASE PL!Acquire(r, N)
  <2>1. PL!HeldBy(r) \in [holder : H, lapsed : BOOLEAN]
    BY DEF PL!HeldBy
  <2> QED BY <1>2, <1>5, <2>1 DEF PL!Acquire
<1>6. CASE PL!Release(r, N)
  <2>1. PL!NoLease \in [holder : H, lapsed : BOOLEAN]
    BY DEF PL!NoLease
  <2> QED BY <1>1, <1>2, <1>6, <2>1 DEF PL!Release, PL!TableTypeOK
<1>3. CASE PL!Abandon(r)
  <2>1. [planLease[N] EXCEPT !.holder = Orphan] \in [holder : H, lapsed : BOOLEAN]
    BY <1>1
  <2>2. \A n \in {N} : (IF PL!Holds(r, n) THEN [planLease[n] EXCEPT !.holder = Orphan]
                        ELSE planLease[n]) \in [holder : H, lapsed : BOOLEAN]
    BY <1>1, <2>1
  <2> QED BY <1>3, <2>2 DEF PL!TableTypeOK, PL!Abandon
<1>4. CASE PL!Lapse(N)
  <2>1. [planLease[N] EXCEPT !.lapsed = TRUE] \in [holder : H, lapsed : BOOLEAN]
    BY <1>1
  <2> QED BY <1>1, <1>4, <2>1 DEF PL!TableTypeOK, PL!Lapse
<1> QED BY <1>1, <1>3, <1>4, <1>5, <1>6 DEF PL!TableTypeOK

-----------------------------------------------------------------------------
\* An ingest that moves on keeps its document and its version.
LEMMA AtMoves ==
    ASSUME IdInv, NEW u \in Upload, NEW from, NEW to, At(u, from, to)
    PROVE  /\ worker[u].pc = from /\ worker'[u].pc = to /\ worker'[u].doc = worker[u].doc
           /\ worker'[u].version = worker[u].version
           /\ \A v \in Upload : v # u => worker'[v] = worker[v]
<1>1. worker[u] = Delivery(worker[u])
  BY DEF IdInv
<1>2. [worker[u] EXCEPT !.pc = to] = [pc |-> to, doc |-> worker[u].doc,
                                      version |-> worker[u].version, prior |-> worker[u].prior]
  BY <1>1 DEF Delivery
<1>3. worker'[u] = [worker[u] EXCEPT !.pc = to] /\ \A v \in Upload : v # u => worker'[v] = worker[v]
  BY DEF At, IdInv
<1> QED BY <1>2, <1>3 DEF At

\* Ingests that lose none of their document, their version and their place.
LEMMA MovesDocIds ==
    ASSUME DocInv, Saved' = Saved, used.ids \subseteq used'.ids,
           \A u \in Upload : Unsaved(u)' =>
             Unsaved(u) /\ worker'[u].doc = worker[u].doc /\ worker'[u].version = worker[u].version
    PROVE  DocIds'
  BY DEF DocInv, DocIds

\* Requests that are left alone, with the documents there were.
LEMMA SameReads == ASSUME DocInv, Saved \subseteq Saved', UNCHANGED rq PROVE DocReads'
  BY DEF DocInv, DocReads

\* The steps of an ingest before the document is saved, and after.
LEMMA IngestDocInv ==
    ASSUME KnowledgeConstants, KnowledgeInv, DocInv, NEW u \in Upload, Ingest(u)
    PROVE  DocInv'
<1>0. IdInv /\ DocTypes
  BY DEF KnowledgeInv, DocInv
<1>1. ASSUME NEW d \in Doc, StartIngest(u, d) PROVE DocInv'
  <2> DEFINE m == Max({docs[x].version : x \in Saved} \cup {0})
  <2>1. m \in Nat
    BY VersionIsNat
  <2> HIDE DEF m
  <2>2. /\ worker' = [worker EXCEPT ![u] = [pc |-> "documents", doc |-> d, prior |-> {}, version |-> 1 + m]]
        /\ d \notin used.ids /\ used' = [used EXCEPT !.ids = @ \cup {d}]
        /\ UNCHANGED <<docs, receipts, rq, planLease>>
    BY <1>1 DEF StartIngest, m
  <2>3. used'.ids = used.ids \cup {d}
    BY <1>0, <2>2 DEF IdInv
  <2>4. /\ worker'[u].doc = d /\ worker'[u].version = 1 + m
        /\ \A v \in Upload : v # u => worker'[v] = worker[v]
    BY <1>0, <2>2 DEF IdInv
  <2>5. Saved' = Saved /\ DocNewest' /\ DocTypes'
    BY <2>2, SameDocsStay, StayNewest, PlanLeaseTyped, <1>0 DEF DocInv, DocTypes, PL!TableTypeOK
  <2>6. DocIds'
    BY <2>1, <2>2, <2>3, <2>4, <2>5 DEF DocInv, DocIds, Unsaved
  <2> QED BY <2>2, <2>5, <2>6, SameReads DEF DocInv
<1>2. CASE SupersedeDocuments(u)
  <2>1. /\ worker' = [worker EXCEPT ![u].pc = "claims", ![u].prior = {d \in Saved : docs[d].status # "deleted"}]
        /\ worker[u].pc = "documents" /\ UNCHANGED <<receipts, rq, planLease, used>>
        /\ docs' = [d \in Doc |-> IF d \in Saved THEN Retire(docs[d]) ELSE docs[d]]
    BY <1>2 DEF SupersedeDocuments
  <2>2. ASSUME NEW c \in DocRecord PROVE Retire(c) \in DocRecord /\ Retire(c).version = c.version
    BY DEF Retire, DocRecord
  <2>3. \A d \in Saved : docs[d] \in DocRecord
    BY <1>0 DEF DocTypes, Saved
  <2>4. DocsStay
    BY <1>0, <2>1, <2>2, <2>3 DEF DocsStay, DocTypes, Saved, KnowledgeConstants
  <2>5. Saved' = Saved /\ DocNewest'
    BY <2>4, StayNewest
  <2>6. \A v \in Upload : worker'[v].doc = worker[v].doc /\ worker'[v].version = worker[v].version
    <3> DEFINE s == {d \in Saved : docs[d].status # "deleted"}
    <3>1. worker' = [worker EXCEPT ![u] = [worker[u] EXCEPT !.pc = "claims", !.prior = s]]
      BY <2>1
    <3> HIDE DEF s
    <3>2. worker[u] = Delivery(worker[u]) /\ worker = [v \in Upload |-> worker[v]]
      BY <1>0 DEF IdInv
    <3> DEFINE x == [worker[u] EXCEPT !.pc = "claims", !.prior = s]
    <3>3. x.doc = worker[u].doc /\ x.version = worker[u].version
      BY <3>2 DEF Delivery
    <3>4. worker' = [worker EXCEPT ![u] = x]
      BY <3>1
    <3> HIDE DEF x
    <3> QED BY <3>2, <3>3, <3>4
  <2>7. \A v \in Upload : Unsaved(v)' => Unsaved(v)
    BY <1>0, <2>1 DEF IdInv, Unsaved
  <2>8. DocIds'
    BY <2>1, <2>5, <2>6, <2>7, MovesDocIds
  <2> QED BY <1>0, <2>1, <2>4, <2>5, <2>8, SameReads DEF DocInv, DocTypes, DocsStay, PL!TableTypeOK
<1>3. CASE SupersedeClaims(u) \/ AttachClaims(u)
  <2>1. PICK from \in {"claims", "attach"}, to \in {"attach", "save"} : At(u, from, to)
    BY <1>3 DEF SupersedeClaims, AttachClaims
  <2>2. UNCHANGED <<docs, receipts, rq, planLease, used>>
    BY <1>3 DEF SupersedeClaims, AttachClaims
  <2>3. Saved' = Saved /\ DocNewest'
    BY <1>0, <2>2, SameDocsStay, StayNewest
  <2>4. DocIds'
    BY <1>0, <2>1, <2>2, <2>3, AtMoves, MovesDocIds DEF Unsaved
  <2> QED BY <1>0, <2>2, <2>3, <2>4, SameReads DEF DocInv, DocTypes, PL!TableTypeOK
<1>4. CASE SaveDocument(u)
  <2> DEFINE w == worker[u].doc
             new == [version |-> worker[u].version, status |-> "extracted"]
  <2>1. /\ At(u, "save", "receipt") /\ docs' = [docs EXCEPT ![w] = new]
        /\ UNCHANGED <<receipts, rq, planLease, used>>
    BY <1>4 DEF SaveDocument
  <2>2. /\ worker[u].pc = "save" /\ worker'[u].pc = "receipt"
        /\ \A v \in Upload : v # u => worker'[v] = worker[v]
    BY <1>0, <2>1, AtMoves
  <2>3. Unsaved(u) /\ ~Unsaved(u)'
    BY <2>2 DEF Unsaved
  <2>4. w \in Doc /\ w \in used.ids \ Saved /\ worker[u].version \in Nat
    BY <1>0, <2>2, <2>3 DEF IdInv, DocInv, DocIds
  <2>5. new \in DocRecord /\ new.version = worker[u].version
    BY <2>4 DEF DocRecord
  <2> HIDE DEF new
  <2>6. /\ docs' \in [Doc -> DocRecord \cup {Missing}] /\ docs'[w] = new
        /\ \A d \in Doc : d # w => docs'[d] = docs[d]
    BY <1>0, <2>1, <2>4, <2>5 DEF DocTypes
  <2>7. Saved' = Saved \cup {w}
    BY <2>4, <2>5, <2>6 DEF Saved, KnowledgeConstants
  <2>8. DocIds'
    <3>1. \A v \in Upload : Unsaved(v)' => /\ v # u /\ Unsaved(v)
                                           /\ worker'[v] = worker[v] /\ worker[v].doc # w
      BY <2>2, <2>3 DEF DocInv, DocIds, Unsaved
    <3>2. ASSUME NEW v \in Upload, Unsaved(v)'
          PROVE  /\ worker'[v].version \in Nat /\ worker'[v].doc \in used'.ids \ Saved'
                 /\ \A x \in Upload : Unsaved(x)' /\ worker'[x].doc = worker'[v].doc => v = x
      BY <2>1, <2>7, <3>1, <3>2 DEF DocInv, DocIds
    <3> QED BY <2>1, <2>4, <2>7, <3>2 DEF DocInv, DocIds
  <2>9. DocNewest'
    <3>1. \A x \in Saved : x \in Doc /\ docs'[x] = docs[x] /\ docs[x].version \in Nat
      BY <1>0, <2>4, <2>6 DEF Saved, DocTypes, DocRecord
    <3>2. CASE Saved = {}
      BY <2>4, <2>5, <2>6, <2>7, <3>2 DEF DocNewest
    <3>3. CASE Saved # {}
      <4>1. PICK d \in Saved : \A x \in Saved : docs[x].version <= docs[d].version
        BY <3>3 DEF DocInv, DocNewest
      <4>2. CASE docs[d].version <= worker[u].version
        <5>1. \A x \in Saved' : docs'[x].version <= docs'[w].version
          BY <2>4, <2>5, <2>6, <2>7, <3>1, <4>1, <4>2
        <5> QED BY <2>7, <5>1 DEF DocNewest
      <4>3. CASE ~(docs[d].version <= worker[u].version)
        <5>1. \A x \in Saved' : docs'[x].version <= docs'[d].version
          BY <2>4, <2>5, <2>6, <2>7, <3>1, <4>1, <4>3
        <5> QED BY <2>7, <4>1, <5>1 DEF DocNewest
      <4> QED BY <4>2, <4>3
    <3> QED BY <3>2, <3>3
  <2> QED BY <1>0, <2>1, <2>6, <2>7, <2>8, <2>9, SameReads DEF DocInv, DocTypes, PL!TableTypeOK
<1>5. CASE SaveReceipt(u)
  <2>1. At(u, "receipt", "done") /\ UNCHANGED <<docs, rq, planLease, used>>
        /\ receipts' = [receipts EXCEPT ![u] = worker[u].doc]
    BY <1>5 DEF SaveReceipt
  <2>2. worker[u].doc \in Doc
    BY <1>0, <2>1, AtMoves DEF IdInv
  <2>3. Saved' = Saved /\ DocNewest'
    BY <1>0, <2>1, SameDocsStay, StayNewest
  <2>4. DocIds'
    BY <1>0, <2>1, <2>3, AtMoves, MovesDocIds DEF Unsaved
  <2> QED BY <1>0, <2>1, <2>2, <2>3, <2>4, SameReads DEF DocInv, DocTypes, PL!TableTypeOK
<1>6. CASE WorkerDies(u)
  <2>1. /\ worker' = [worker EXCEPT ![u] = Waiting] /\ UNCHANGED <<docs, receipts, rq, planLease>>
        /\ used' = [used EXCEPT !.crashes = @ + 1]
    BY <1>6 DEF WorkerDies
  <2>2. used'.ids = used.ids
    BY <1>0, <2>1 DEF IdInv
  <2>3. Saved' = Saved /\ DocNewest'
    BY <1>0, <2>1, SameDocsStay, StayNewest
  <2>4. DocIds'
    BY <1>0, <2>1, <2>2, <2>3, MovesDocIds DEF Unsaved, Waiting, IdInv
  <2> QED BY <1>0, <2>1, <2>3, <2>4, SameReads DEF DocInv, DocTypes, PL!TableTypeOK
<1> QED BY <1>1, <1>2, <1>3, <1>4, <1>5, <1>6 DEF Ingest

\* A request never takes a document away, and deletes one it has found.
LEMMA RequestDocInv ==
    ASSUME KnowledgeConstants, KnowledgeInv, DocInv, NEW r \in Request, RequestStep(r)
    PROVE  DocInv'
<1>0. IdInv /\ DocTypes /\ rq \in [Request -> ClaimRequests]
  BY DEF KnowledgeInv, ReqInv, DocInv
<1>1. UNCHANGED <<receipts, worker>> /\ used'.ids = used.ids
  <2>1. UNCHANGED receipts
    BY DEF RequestStep, ReadReview, ReadDelete, ReadProjection, SaveClaimReview, SaveDelete,
           TakeProjectionLease, ReadOverlay, CheckOverlay, WriteOverlay, SaveProjection, RequestDies
  <2>2. UNCHANGED worker /\ UsedKept
    BY ReviewSteps DEF KnowledgeInv, RequestSteps
  <2> QED BY <1>0, <2>1, <2>2 DEF UsedKept, IdInv
<1>2. PL!TableTypeOK'
  <2>1. \/ UNCHANGED planLease
        \/ PL!Acquire(r, "knowledge:planning") \/ PL!Release(r, "knowledge:planning")
        \/ PL!Abandon(r)
    BY DEF RequestStep, ReadReview, ReadDelete, ReadProjection, SaveClaimReview, SaveDelete,
           TakeProjectionLease, ReadOverlay, CheckOverlay, WriteOverlay, SaveProjection, RequestDies
  <2> QED BY <1>0, <2>1, PlanLeaseTyped DEF DocTypes
<1>3. DocsStay
  <2>1. CASE SaveDelete(r) /\ rq[r].what = "document"
    <3>1. rq[r].pc = "save" /\ docs' = [docs EXCEPT ![rq[r].doc].status = "deleted"]
      BY <2>1 DEF SaveDelete
    <3>2. rq[r].doc \in Saved
      BY <2>1, <3>1 DEF DocInv, DocReads
    <3>3. docs[rq[r].doc] \in DocRecord /\ rq[r].doc \in Doc
      BY <1>0, <3>2 DEF Saved, DocTypes
    <3> DEFINE new == [docs[rq[r].doc] EXCEPT !.status = "deleted"]
    <3>4. new \in DocRecord /\ new.version = docs[rq[r].doc].version
      BY <3>3 DEF DocRecord
    <3>5. docs' = [docs EXCEPT ![rq[r].doc] = new]
      BY <3>1
    <3> HIDE DEF new
    <3> QED BY <1>0, <3>2, <3>3, <3>4, <3>5 DEF DocsStay, DocTypes, Saved, KnowledgeConstants
  <2>2. CASE UNCHANGED docs
    BY <1>0, <2>2, SameDocsStay
  <2>3. \/ SaveDelete(r) /\ rq[r].what = "document"
        \/ UNCHANGED docs
    BY DEF RequestStep, ReadReview, ReadDelete, ReadProjection, SaveClaimReview, SaveDelete,
           TakeProjectionLease, ReadOverlay, CheckOverlay, WriteOverlay, SaveProjection, RequestDies
  <2> QED BY <2>1, <2>2, <2>3
<1>4. Saved' = Saved /\ DocNewest'
  BY <1>3, StayNewest
<1>5. DocIds'
  BY <1>1, <1>4, MovesDocIds DEF Unsaved
<1>6. \A s \in Request : s # r => rq'[s] = rq[s]
  BY ReviewSteps DEF KnowledgeInv, RequestSteps, RequestGoes, ReqInv
<1>7. rq'[r].pc = "save" /\ rq'[r].what = "document" => rq'[r].doc \in Saved
  <2>1. ASSUME NEW d \in Doc, NEW what \in {"claim", "document"}, ReadDelete(r, d, what)
        PROVE  rq'[r].what = "document" => rq'[r].doc \in Saved
    <3> DEFINE n == [New EXCEPT !.pc = "save", !.doc = d, !.copy = claims[d], !.what = what]
    <3>1. rq'[r] = n
      BY <1>0, <2>1 DEF ReadDelete
    <3>2. n.what = what /\ n.doc = d
      BY DEF New
    <3> QED BY <2>1, <3>1, <3>2 DEF ReadDelete
  <2>2. ASSUME NEW d \in Doc, NEW s \in {"confirmed", "rejected"}, ReadReview(r, d, s)
        PROVE  rq'[r].what # "document"
    <3> DEFINE n == [New EXCEPT !.pc = "save", !.doc = d, !.copy = claims[d], !.what = s]
    <3>1. rq'[r] = n
      BY <1>0, <2>2 DEF ReadReview
    <3>2. n.what = s
      BY DEF New
    <3> QED BY <3>1, <3>2
  <2>3. ASSUME \/ \E d \in Doc, k \in ProjectionKey, c \in Change : ReadProjection(r, d, k, c)
               \/ SaveClaimReview(r) \/ SaveDelete(r) \/ TakeProjectionLease(r) \/ ReadOverlay(r)
               \/ CheckOverlay(r) \/ WriteOverlay(r) \/ SaveProjection(r) \/ RequestDies(r)
        PROVE  rq'[r].pc # "save"
    <3>1. \/ \E p \in {"lease", "plan", "check", "write", "claim"} : rq' = [rq EXCEPT ![r].pc = p]
          \/ rq' = Done(r)
          \/ \E d \in Doc, k \in ProjectionKey, c \in Change :
               rq' = [rq EXCEPT ![r] = [pc |-> "lease", doc |-> d, copy |-> claims[d],
                                        what |-> "project", key |-> k, change |-> c]]
      BY <2>3 DEF ReadProjection, SaveClaimReview, SaveDelete, TakeProjectionLease, ReadOverlay,
                  CheckOverlay, WriteOverlay, SaveProjection, RequestDies
    <3>2. ASSUME NEW p \in {"lease", "plan", "check", "write", "claim"}, rq' = [rq EXCEPT ![r].pc = p]
          PROVE  rq'[r].pc # "save"
      BY <1>0, <3>2 DEF ClaimRequests
    <3>3. ASSUME rq' = Done(r) PROVE rq'[r].pc # "save"
      <4>1. rq'[r] = [New EXCEPT !.pc = "done"]
        BY <1>0, <3>3 DEF Done
      <4> QED BY <4>1 DEF New
    <3>4. ASSUME NEW d, NEW k, NEW c,
                 rq' = [rq EXCEPT ![r] = [pc |-> "lease", doc |-> d, copy |-> claims[d],
                                          what |-> "project", key |-> k, change |-> c]]
          PROVE  rq'[r].pc # "save"
      BY <1>0, <3>4
    <3> QED BY <3>1, <3>2, <3>3, <3>4
  <2> QED BY <2>1, <2>2, <2>3 DEF RequestStep
<1>8. DocReads'
  BY <1>4, <1>6, <1>7 DEF DocInv, DocReads
<1> QED BY <1>0, <1>1, <1>2, <1>3, <1>4, <1>5, <1>8 DEF DocInv, DocTypes, DocsStay

\* The documents are sound in every state.
THEOREM DocInvHolds == ASSUME KnowledgeConstants PROVE KnowledgeSpec => []DocInv
<1>1. KnowledgeInit => DocInv
  <2> SUFFICES ASSUME KnowledgeInit PROVE DocInv
    OBVIOUS
  <2>1. /\ docs = [d \in Doc |-> Missing] /\ receipts = [u \in Upload |-> Missing]
        /\ worker = [u \in Upload |-> Waiting] /\ rq = [r \in Request |-> New]
    BY DEF KnowledgeInit
  <2>2. Saved = {} /\ Waiting.pc = "queued" /\ New.pc = "new"
    BY <2>1 DEF Saved, Waiting, New
  <2>3. PL!TableTypeOK
    BY DEF KnowledgeInit, PL!TableInit, PL!TableTypeOK, PL!NoLease
  <2> QED BY <2>1, <2>2, <2>3 DEF DocInv, DocTypes, DocIds, DocReads, DocNewest, Unsaved
<1>2. KnowledgeInv /\ DocInv /\ [KnowledgeNext]_knowledgeVars => DocInv'
  <2> SUFFICES ASSUME KnowledgeInv, DocInv, [KnowledgeNext]_knowledgeVars PROVE DocInv'
    OBVIOUS
  <2>1. CASE ProjectionLeaseLapses \/ UNCHANGED knowledgeVars
    <3>1. UNCHANGED <<docs, receipts, worker, rq>> /\ UsedKept
      BY <2>1 DEF ProjectionLeaseLapses, knowledgeVars, UsedKept
    <3>2. UNCHANGED planLease \/ PL!Lapse("knowledge:planning")
      BY <2>1 DEF ProjectionLeaseLapses, knowledgeVars
    <3>3. PL!TableTypeOK'
      <4>1. CASE UNCHANGED planLease
        BY <4>1 DEF DocInv, DocTypes, PL!TableTypeOK
      <4>2. CASE PL!Lapse("knowledge:planning")
        <5> DEFINE N == "knowledge:planning"
                   H == Request \cup {Free, Orphan}
        <5>1. planLease \in [{N} -> [holder : H, lapsed : BOOLEAN]]
          BY DEF DocInv, DocTypes, PL!TableTypeOK
        <5>2. [planLease[N] EXCEPT !.lapsed = TRUE] \in [holder : H, lapsed : BOOLEAN]
          BY <5>1
        <5> QED BY <4>2, <5>1, <5>2 DEF PL!TableTypeOK, PL!Lapse
      <4> QED BY <3>2, <4>1, <4>2
    <3>4. used'.ids = used.ids
      BY <3>1 DEF UsedKept, KnowledgeInv, IdInv
    <3>5. Saved' = Saved /\ DocNewest'
      BY <3>1, SameDocsStay, StayNewest DEF DocInv
    <3>6. DocIds'
      BY <3>1, <3>4, <3>5, MovesDocIds DEF Unsaved
    <3> QED BY <3>1, <3>3, <3>5, <3>6, SameReads DEF DocInv, DocTypes
  <2> QED BY <2>1, IngestDocInv, RequestDocInv DEF KnowledgeNext
<1> QED BY <1>1, <1>2, KnowledgeInvHolds, PTL DEF KnowledgeSpec

\* Documents, claims, receipts and the lease have their types through every step of
\* ingest_document, review_claim, apply_confirmed_claim_projection and delete_knowledge.
THEOREM KnowledgeTyped == ASSUME KnowledgeConstants PROVE KnowledgeSpec => []KnowledgeTypeOK
<1>1. KnowledgeInv /\ DocInv => KnowledgeTypeOK
  BY DEF KnowledgeInv, ReqInv, Claims, DocInv, DocTypes, KnowledgeTypeOK
<1> QED BY <1>1, KnowledgeInvHolds, DocInvHolds, PTL

-----------------------------------------------------------------------------
(***************************************************************************)
(* Proofs about Decisions, for any number of requests, keys, analyses and    *)
(* observations, through deaths and lapses of the lease: a key has one       *)
(* decision, a verdict its evidence, a transfer one outcome, and each        *)
(* version of the calibration counts one observation more than the last.     *)
(*                                                                         *)
(* A step of a request Goes to another state and either Measures (rows of    *)
(* observations and versions) or Decides (rows of decisions, answers).       *)
(***************************************************************************)

Decided == [key : IdempotencyKey, analysis : Analysis]
Observed == [hours : Hours, outcome : Nat]
Version == [mean : Nat \X Nat, base : Nat, strength : Nat, count : Nat, of : Nat]
Prior == [version : Nat, mean : Nat \X Nat, base : Nat, strength : Nat, count : Nat]
Points == {"idle", "found", "check", "insert", "prior", "calibrate", "look", "record", "release"}
Doing == [at : Points, key : IdempotencyKey \cup {NoValue}, analysis : Analysis \cup {NoValue},
          seen : SUBSET Decided, obs : Nat, outcome : Nat, prior : Prior \cup {NoValue}]

Types == /\ decisions \subseteq Decided
         /\ observations \in Seq(Observed)
         /\ calibrations \in Seq(Version)
         /\ q \in [Caller -> Doing]
         /\ CL!TableTypeOK
         /\ log = [answers |-> log.answers, lapses |-> log.lapses]

\* A request that has recorded an observation and not yet calibrated with it.
Calibrating(e) == e.at \in {"prior", "calibrate"}
\* A prior is a version that was there, with as many observations, or the assumption.
IsVersion(p, rec) == p.mean = rec.mean /\ p.base = rec.base /\ p.strength = rec.strength
SoundPrior(p) == /\ p \in Prior /\ p.count = p.version /\ p.version <= Len(calibrations)
                 /\ p.version > 0 => /\ p.base = calibrations[1].base
                                     /\ IsVersion(p, calibrations[p.version])
                 /\ p.version = 0 => p.mean = <<p.base, 1>>
Uncounted(o) == \A m \in DOMAIN calibrations : calibrations[m].of # o

\* What a request knows.
CallFits(e) ==
    /\ e.at \in {"found", "check", "insert"} =>
         e.key \in IdempotencyKey /\ e.analysis \in Analysis /\ e.seen \subseteq decisions
    /\ e.at \in {"check", "insert"} => e.seen = {}
    /\ Calibrating(e) => e.obs \in DOMAIN observations /\ Uncounted(e.obs)
    /\ e.at \in {"calibrate", "record"} => SoundPrior(e.prior)

AnswersRight ==
    \A x \in log.answers : x.got \in decisions /\ (x.got.analysis # x.asked => x.got \notin x.seen)
KeyInv == (\A d, e \in decisions : d.key = e.key => d = e) /\ AnswersRight
EvidInv == /\ VerdictsAreFounded
           /\ \A e \in evaluations : e.cites # 0 => e.cites \in DOMAIN observations
OutInv == \A i, j \in DOMAIN observations :
            observations[i].outcome # 0 /\ observations[i].outcome = observations[j].outcome => i = j
OwnObs == \A r, s \in Caller : Calibrating(q[r]) /\ Calibrating(q[s]) /\ q[r].obs = q[s].obs => r = s
CalInv == /\ VersionsAreCounted
          /\ \A m \in DOMAIN calibrations : calibrations[m].of \in DOMAIN observations

DecisionsInv == /\ Types /\ KeyInv /\ EvidInv /\ OutInv /\ CalInv /\ OwnObs
                /\ \A r \in Caller : CallFits(q[r])

-----------------------------------------------------------------------------
\* The kinds of step of a request.
CallGoes(r, e) == /\ e \in Doing /\ q' = [q EXCEPT ![r] = e] /\ CL!TableTypeOK'
                  /\ log' = [answers |-> log'.answers, lapses |-> log'.lapses]

Observes(o) == /\ o \in Observed /\ observations' = Append(observations, o)
               /\ o.outcome # 0 => OutcomeOf(o.outcome) = {}
NextVersion(v) == \E p \in Prior : /\ SoundPrior(p) /\ p.version = Len(calibrations)
                               /\ v = Updated(p, observations'[v.of].hours, v.of)
Adds(r, v) == /\ v \in Version /\ calibrations' = Append(calibrations, v) /\ NextVersion(v)
              /\ v.count = Len(calibrations) + 1
              /\ calibrations # <<>> => v.base = calibrations[1].base
              /\ Uncounted(v.of) /\ v.of \in DOMAIN observations'
              /\ \A s \in Caller \ {r} : Calibrating(q[s]) => q[s].obs # v.of

\* Rows of observations and versions; no decision.
Measures(r, e) ==
    /\ UNCHANGED <<decisions, evaluations>> /\ log'.answers = log.answers
    /\ UNCHANGED observations \/ \E o \in Observed : Observes(o)
    /\ UNCHANGED calibrations \/ (~Calibrating(e) /\ \E v \in Version : Adds(r, v))
    /\ Calibrating(e) => \/ Calibrating(q[r]) /\ e.obs = q[r].obs
                         \/ e.obs = Len(observations) + 1 /\ e.obs \in DOMAIN observations'

Decides(r, e) ==
    /\ UNCHANGED <<observations, calibrations, evaluations>>
    /\ decisions \subseteq decisions' /\ decisions' \subseteq Decided
    /\ \A c, d \in decisions' : c.key = d.key => c = d
    /\ AnswersRight' /\ e = NoCall

CallSteps(r, e) == CallGoes(r, e) /\ CallFits(e)' /\ (Measures(r, e) \/ Decides(r, e))

-----------------------------------------------------------------------------
\* A sequence and the one that is one element longer.
LEMMA AppendIs ==
    ASSUME NEW S, NEW s \in Seq(S), NEW x \in S
    PROVE  /\ Append(s, x) \in Seq(S) /\ Len(Append(s, x)) = Len(s) + 1 /\ Len(s) \in Nat
           /\ DOMAIN s = 1..Len(s) /\ DOMAIN Append(s, x) = 1..(Len(s) + 1)
           /\ \A i \in DOMAIN s : Append(s, x)[i] = s[i]
           /\ Append(s, x)[Len(s) + 1] = x
  BY AppendProperties, LenProperties

\* What grows keeps what it had.
RowsGrown == /\ DOMAIN observations \subseteq DOMAIN observations'
             /\ \A i \in DOMAIN observations : observations'[i] = observations[i]
             /\ DOMAIN calibrations \subseteq DOMAIN calibrations'
             /\ \A m \in DOMAIN calibrations : calibrations'[m] = calibrations[m]
             /\ Len(calibrations) <= Len(calibrations')
             /\ DOMAIN calibrations = 1..Len(calibrations)
             /\ DOMAIN calibrations' = 1..Len(calibrations')
             /\ decisions \subseteq decisions'

\* Decisions, observations and versions are only ever added.
LEMMA StepsGrow ==
    ASSUME Types, NEW r \in Caller, NEW e, CallSteps(r, e) PROVE RowsGrown
<1> DEFINE Obs == /\ DOMAIN observations \subseteq DOMAIN observations'
                  /\ \A i \in DOMAIN observations : observations'[i] = observations[i]
           Cal == /\ DOMAIN calibrations \subseteq DOMAIN calibrations'
                  /\ \A m \in DOMAIN calibrations : calibrations'[m] = calibrations[m]
                  /\ Len(calibrations) <= Len(calibrations')
                  /\ DOMAIN calibrations = 1..Len(calibrations)
                  /\ DOMAIN calibrations' = 1..Len(calibrations')
<1>1. Obs
  <2>1. CASE UNCHANGED observations
    BY <2>1
  <2>2. ASSUME NEW o \in Observed, Observes(o) PROVE Obs
    BY <2>2, AppendIs DEF Types, Observes
  <2> QED BY <2>1, <2>2 DEF CallSteps, Measures, Decides
<1>2. Cal
  <2>1. CASE UNCHANGED calibrations
    BY <2>1, LenProperties DEF Types
  <2>2. ASSUME NEW v \in Version, Adds(r, v) PROVE Cal
    BY <2>2, AppendIs DEF Types, Adds
  <2> QED BY <2>1, <2>2 DEF CallSteps, Measures, Decides
<1>3. decisions \subseteq decisions'
  BY DEF CallSteps, Measures, Decides
<1> QED BY <1>1, <1>2, <1>3 DEF RowsGrown

\* Every variable keeps its type.
LEMMA StepsTypes ==
    ASSUME Types, NEW r \in Caller, NEW e, CallSteps(r, e) PROVE Types'
<1>1. observations' \in Seq(Observed)
  <2>1. ASSUME NEW o \in Observed, Observes(o) PROVE observations' \in Seq(Observed)
    BY <2>1, AppendIs DEF Types, Observes
  <2> QED BY <2>1 DEF Types, CallSteps, Measures, Decides
<1>2. calibrations' \in Seq(Version)
  <2>1. ASSUME NEW v \in Version, Adds(r, v) PROVE calibrations' \in Seq(Version)
    BY <2>1, AppendIs DEF Types, Adds
  <2> QED BY <2>1 DEF Types, CallSteps, Measures, Decides
<1>3. decisions' \subseteq Decided
  BY DEF Types, CallSteps, Measures, Decides
<1>4. q' \in [Caller -> Doing] /\ CL!TableTypeOK'
      /\ log' = [answers |-> log'.answers, lapses |-> log'.lapses]
  BY DEF Types, CallSteps, CallGoes
<1> QED BY <1>1, <1>2, <1>3, <1>4 DEF Types

\* What a request knows stays true while others step: rows stay, and nobody else counts
\* its observation.
LEMMA StepsFit ==
    ASSUME DecisionsInv, NEW r \in Caller, NEW e, CallSteps(r, e), NEW s \in Caller PROVE CallFits(q[s])'
<1>1. CASE s = r
  <2>1. q'[r] = e
    BY DEF DecisionsInv, Types, CallSteps, CallGoes
  <2>2. CallFits(e)'
    BY DEF CallSteps
  <2> QED BY <1>1, <2>1, <2>2 DEF CallFits, Calibrating, Uncounted, SoundPrior
<1>2. CASE s # r
  <2>1. q'[s] = q[s] /\ CallFits(q[s]) /\ q[s] \in Doing
    BY <1>2 DEF DecisionsInv, Types, CallSteps, CallGoes
  <2>2. RowsGrown
    BY StepsGrow DEF DecisionsInv
  <2>3. ASSUME Calibrating(q[s]) PROVE Uncounted(q[s].obs)'
    <3>1. \A m \in DOMAIN calibrations : calibrations[m].of # q[s].obs
      BY <2>1, <2>3 DEF CallFits, Uncounted
    <3>2. CASE UNCHANGED calibrations
      BY <2>1, <3>1, <3>2 DEF Uncounted
    <3>3. ASSUME NEW v \in Version, Adds(r, v) PROVE Uncounted(q[s].obs)'
      <4>1. q[s].obs # v.of
        BY <1>2, <2>3, <3>3 DEF Adds
      <4>2. /\ DOMAIN calibrations' = 1..(Len(calibrations) + 1) /\ DOMAIN calibrations = 1..Len(calibrations)
            /\ calibrations'[Len(calibrations) + 1] = v
            /\ \A i \in DOMAIN calibrations : calibrations'[i] = calibrations[i]
            /\ Len(calibrations) \in Nat
        BY <3>3, AppendIs DEF DecisionsInv, Types, Adds
      <4>3. \A m \in DOMAIN calibrations' : m \in DOMAIN calibrations \/ m = Len(calibrations) + 1
        BY <4>2
      <4> QED BY <2>1, <3>1, <4>1, <4>2, <4>3 DEF Uncounted
    <3> QED BY <3>2, <3>3 DEF CallSteps, Measures, Decides
  <2>4. ASSUME q[s].at \in {"calibrate", "record"} PROVE SoundPrior(q[s].prior)'
    <3>1. SoundPrior(q[s].prior)
      BY <2>1, <2>4 DEF CallFits
    <3>2. /\ q[s].prior.version \in Nat /\ Len(calibrations) \in Nat
          /\ Len(calibrations) <= Len(calibrations') /\ Len(calibrations') \in Nat
      BY <2>2, <3>1, StepsTypes, LenProperties DEF RowsGrown, DecisionsInv, Types, SoundPrior, Prior
    <3>3. q[s].prior.version > 0 => /\ calibrations'[1] = calibrations[1]
                                    /\ calibrations'[q[s].prior.version] = calibrations[q[s].prior.version]
      BY <2>2, <3>1, <3>2 DEF RowsGrown, SoundPrior
    <3> QED BY <2>1, <3>1, <3>2, <3>3 DEF SoundPrior
  <2> QED BY <2>1, <2>2, <2>3, <2>4 DEF CallFits, Calibrating, RowsGrown
<1> QED BY <1>1, <1>2

\* No two requests calibrate with one observation.
LEMMA StepsOwn ==
    ASSUME DecisionsInv, NEW r \in Caller, NEW e, CallSteps(r, e) PROVE OwnObs'
<1>1. q'[r] = e /\ \A s \in Caller : s # r => q'[s] = q[s]
  BY DEF DecisionsInv, Types, CallSteps, CallGoes
<1>2. ASSUME Calibrating(e), NEW s \in Caller, s # r, Calibrating(q[s]) PROVE q[s].obs # e.obs
  <2>1. Measures(r, e)
    BY <1>2 DEF CallSteps, Decides, NoCall, Calibrating
  <2>2. CASE Calibrating(q[r]) /\ e.obs = q[r].obs
    BY <1>2, <2>2 DEF DecisionsInv, OwnObs
  <2>3. CASE e.obs = Len(observations) + 1
    <3>1. q[s].obs \in 1..Len(observations) /\ Len(observations) \in Nat
      BY <1>2, LenProperties DEF DecisionsInv, CallFits, Types
    <3> QED BY <2>3, <3>1
  <2> QED BY <1>2, <2>1, <2>2, <2>3 DEF Measures
<1> QED BY <1>1, <1>2 DEF DecisionsInv, OwnObs, Calibrating

\* A key keeps its one decision, an answer what it said.
LEMMA StepsKeys == ASSUME DecisionsInv, NEW r \in Caller, NEW e, CallSteps(r, e) PROVE KeyInv'
<1>1. CASE Measures(r, e)
  BY <1>1 DEF Measures, DecisionsInv, KeyInv, AnswersRight
<1>2. CASE Decides(r, e)
  BY <1>2 DEF Decides, KeyInv
<1> QED BY <1>1, <1>2 DEF CallSteps

\* What a verdict cites does not change.
LEMMA StepsEvid == ASSUME DecisionsInv, NEW r \in Caller, NEW e, CallSteps(r, e) PROVE EvidInv'
<1>1. RowsGrown /\ evaluations' = evaluations
  BY StepsGrow DEF DecisionsInv, CallSteps, Measures, Decides
<1> QED BY <1>1 DEF DecisionsInv, EvidInv, VerdictsAreFounded, RowsGrown

\* A transfer gets no second outcome.
LEMMA StepsOut == ASSUME DecisionsInv, NEW r \in Caller, NEW e, CallSteps(r, e) PROVE OutInv'
<1>1. CASE UNCHANGED observations
  BY <1>1 DEF DecisionsInv, OutInv
<1>2. ASSUME NEW o \in Observed, Observes(o) PROVE OutInv'
  <2>1. /\ DOMAIN observations' = 1..(Len(observations) + 1) /\ DOMAIN observations = 1..Len(observations)
        /\ observations'[Len(observations) + 1] = o
        /\ \A i \in DOMAIN observations : observations'[i] = observations[i]
        /\ Len(observations) \in Nat
    BY <1>2, AppendIs DEF DecisionsInv, Types, Observes
  <2>2. \A i \in DOMAIN observations' : i \in DOMAIN observations \/ i = Len(observations) + 1
    BY <2>1
  <2>3. o.outcome # 0 => \A i \in DOMAIN observations : observations[i].outcome # o.outcome
    BY <1>2 DEF Observes, OutcomeOf
  <2> QED BY <2>1, <2>2, <2>3 DEF DecisionsInv, OutInv
<1> QED BY <1>1, <1>2 DEF CallSteps, Measures, Decides

\* A version added is the next one, with the base of the first and an observation that
\* no other counts.
LEMMA StepsCal == ASSUME DecisionsInv, NEW r \in Caller, NEW e, CallSteps(r, e) PROVE CalInv'
<1>1. RowsGrown
  BY StepsGrow DEF DecisionsInv
<1>2. CASE UNCHANGED calibrations
  BY <1>1, <1>2 DEF DecisionsInv, CalInv, VersionsAreCounted, RowsGrown
<1>3. ASSUME NEW v \in Version, Adds(r, v) PROVE CalInv'
  <2> DEFINE n == Len(calibrations)
  <2>1. /\ DOMAIN calibrations' = 1..(n + 1) /\ DOMAIN calibrations = 1..n
        /\ calibrations'[n + 1] = v /\ n \in Nat
        /\ \A i \in DOMAIN calibrations : calibrations'[i] = calibrations[i]
        /\ (n # 0 => calibrations # <<>>)
    BY <1>3, AppendIs DEF DecisionsInv, Types, Adds
  <2> HIDE DEF n
  <2>2. v.count = n + 1 /\ (n # 0 => v.base = calibrations[1].base) /\ Uncounted(v.of)
        /\ v.of \in DOMAIN observations'
    BY <1>3, <2>1 DEF Adds, n
  <2>3. \A m \in DOMAIN calibrations' : m \in DOMAIN calibrations \/ m = n + 1
    BY <2>1
  <2>4. v.base = calibrations'[1].base
    BY <2>1, <2>2
  <2>5. ASSUME NEW k \in DOMAIN calibrations'
        PROVE  /\ calibrations'[k].count = k /\ calibrations'[k].base = calibrations'[1].base
               /\ \A m \in 1..(k - 1) : calibrations'[m].of # calibrations'[k].of
               /\ calibrations'[k].of \in DOMAIN observations'
    <3>1. CASE k = n + 1
      <4>1. \A m \in 1..(k - 1) : m \in DOMAIN calibrations /\ calibrations'[m] = calibrations[m]
        BY <2>1, <3>1
      <4> QED BY <2>1, <2>2, <2>4, <3>1, <4>1 DEF Uncounted
    <3>2. CASE k \in DOMAIN calibrations
      <4>1. /\ calibrations[k].count = k /\ calibrations[k].base = calibrations[1].base
            /\ \A m \in 1..(k - 1) : calibrations[m].of # calibrations[k].of
            /\ calibrations[k].of \in DOMAIN observations
        BY <3>2 DEF DecisionsInv, CalInv, VersionsAreCounted
      <4>2. \A m \in 1..(k - 1) : m \in DOMAIN calibrations
        BY <2>1, <3>2
      <4>3. 1 \in DOMAIN calibrations
        BY <2>1, <3>2
      <4> QED BY <1>1, <2>1, <3>2, <4>1, <4>2, <4>3 DEF RowsGrown
    <3> QED BY <2>3, <3>1, <3>2
  <2> QED BY <2>5 DEF CalInv, VersionsAreCounted
<1> QED BY <1>2, <1>3 DEF CallSteps, Measures, Decides

\* The invariant is kept by every step of a request.
LEMMA StepsDecisionsInv == ASSUME DecisionsInv, NEW r \in Caller, NEW e, CallSteps(r, e) PROVE DecisionsInv'
<1>1. Types' /\ KeyInv' /\ EvidInv' /\ OutInv' /\ CalInv' /\ OwnObs'
  BY StepsTypes, StepsKeys, StepsEvid, StepsOut, StepsCal, StepsOwn DEF DecisionsInv
<1>2. \A s \in Caller : CallFits(q[s])'
  BY StepsFit
<1> QED BY <1>1, <1>2 DEF DecisionsInv

-----------------------------------------------------------------------------

\* The lease table keeps its type.
LEMMA TableStep ==
    ASSUME CL!TableTypeOK, NEW r \in Caller,
           \/ UNCHANGED calLease \/ CL!Acquire(r, "calibration") \/ CL!Release(r, "calibration")
           \/ CL!Abandon(r)
    PROVE  CL!TableTypeOK'
<1> DEFINE Row == [holder : Caller \cup {Free, Orphan}, lapsed : BOOLEAN]
<1>1. CL!NoLease \in Row /\ CL!HeldBy(r) \in Row
  BY DEF CL!NoLease, CL!HeldBy
<1>2. calLease \in [{"calibration"} -> Row]
  BY DEF CL!TableTypeOK
<1>3. CASE UNCHANGED calLease
  BY <1>3 DEF CL!TableTypeOK
<1>4. CASE CL!Acquire(r, "calibration") \/ CL!Release(r, "calibration")
  <2>1. calLease' \in [{"calibration"} -> Row]
    BY <1>1, <1>2, <1>4 DEF CL!Acquire, CL!Release
  <2> QED BY <2>1 DEF CL!TableTypeOK
<1>5. CASE CL!Abandon(r)
  <2>1. \A n \in {"calibration"} : [calLease[n] EXCEPT !.holder = Orphan] \in Row /\ calLease[n] \in Row
    BY <1>2
  <2>2. calLease' \in [{"calibration"} -> Row]
    BY <1>5, <2>1 DEF CL!Abandon
  <2> QED BY <2>2 DEF CL!TableTypeOK
<1> QED BY <1>3, <1>4, <1>5

\* A request that is done knows nothing.
LEMMA QuietIs == NoCall \in Doing /\ NoCall.at = "idle" /\ CallFits(NoCall)' /\ ~Calibrating(NoCall)
  BY DEF NoCall, Doing, Points, CallFits, Calibrating

\* What a step without rows has to show.
LEMMA Nothing ==
    ASSUME DecisionsInv, NEW r \in Caller, NEW e \in Doing, q' = [q EXCEPT ![r] = e], CL!TableTypeOK',
           UNCHANGED <<decisions, observations, calibrations, evaluations, log>>,
           CallFits(e), Calibrating(e) => Calibrating(q[r]) /\ e.obs = q[r].obs
    PROVE  CallSteps(r, e)
<1>1. CallFits(e)'
  BY DEF CallFits, Uncounted, SoundPrior, Calibrating
<1>2. log' = [answers |-> log'.answers, lapses |-> log'.lapses]
  BY DEF DecisionsInv, Types
<1> QED BY <1>1, <1>2 DEF CallSteps, CallGoes, Measures

\* create_decision looks its key up.
LEMMA BeginDecisionSteps ==
    ASSUME DecisionsInv, NEW r \in Caller, NEW key \in IdempotencyKey, NEW analysis \in Analysis,
           BeginDecision(r, key, analysis)
    PROVE  \E e \in Doing : CallSteps(r, e)
<1> DEFINE at == IF WithKey(key) = {} THEN "check" ELSE "found"
<1>1. PICK e : e = [NoCall EXCEPT !.at = at, !.key = key, !.analysis = analysis, !.seen = WithKey(key)]
  OBVIOUS
<1>2. WithKey(key) \subseteq decisions /\ decisions \subseteq Decided /\ at \in {"check", "found"}
  BY DEF WithKey, DecisionsInv, Types
<1>3. at = "check" => WithKey(key) = {}
  OBVIOUS
<1> HIDE DEF at
<1>4. /\ e \in Doing /\ e.at = at /\ e.key = key /\ e.analysis = analysis /\ e.seen = WithKey(key)
  BY <1>1, <1>2 DEF NoCall, Doing, Points
<1>5. q' = [q EXCEPT ![r] = e] /\ CL!TableTypeOK'
  BY <1>1, TableStep DEF BeginDecision, at, DecisionsInv, Types
<1>6. CallFits(e) /\ ~Calibrating(e)
  BY <1>2, <1>3, <1>4 DEF CallFits, Calibrating
<1> QED BY <1>4, <1>5, <1>6, Nothing DEF BeginDecision

\* An answer that is right, with at most its own decision inserted.
LEMMA AnswerIs ==
    ASSUME DecisionsInv, NEW r \in Caller, NEW d \in decisions', NEW how, Answer(r, d, how),
           decisions \subseteq decisions', decisions' \subseteq Decided,
           \A c, x \in decisions' : c.key = x.key => c = x,
           d.analysis # q[r].analysis => d \notin q[r].seen,
           UNCHANGED <<observations, calibrations, evaluations, calLease>>
    PROVE  CallSteps(r, NoCall)
<1>1. \A x \in log'.answers : \/ x \in log.answers
                              \/ x = [asked |-> q[r].analysis, seen |-> q[r].seen, got |-> d, how |-> how]
  BY DEF Answer
<1>2. AnswersRight'
  BY <1>1 DEF DecisionsInv, KeyInv, AnswersRight
<1>3. CL!TableTypeOK' /\ log' = [answers |-> log'.answers, lapses |-> log'.lapses]
  BY TableStep DEF DecisionsInv, Types, Answer
<1> QED BY <1>2, <1>3, QuietIs DEF Answer, CallSteps, CallGoes, Decides

\* A decision that was found is returned to the request that made it only.
LEMMA ReturnDecisionSteps ==
    ASSUME DecisionsInv, NEW r \in Caller, ReturnDecision(r) PROVE \E e \in Doing : CallSteps(r, e)
<1>1. PICK d \in q[r].seen : IF SameRequest(d, r) THEN Answer(r, d, "returned")
                             ELSE q' = [q EXCEPT ![r] = NoCall] /\ UNCHANGED log
  BY DEF ReturnDecision
<1>2. d \in decisions /\ UNCHANGED <<decisions, observations, calibrations, evaluations, calLease>>
  BY DEF ReturnDecision, DecisionsInv, CallFits
<1>3. CASE SameRequest(d, r)
  BY <1>1, <1>2, <1>3, AnswerIs, QuietIs DEF SameRequest, DecisionsInv, KeyInv, Types
<1>4. CASE ~SameRequest(d, r)
  <2>1. CL!TableTypeOK' /\ CallFits(NoCall)
    BY <1>2, TableStep DEF DecisionsInv, Types, CallFits, NoCall, Calibrating
  <2> QED BY <1>1, <1>2, <1>4, <2>1, QuietIs, Nothing
<1> QED BY <1>3, <1>4

\* _ensure_analysis_fresh.
LEMMA CheckFreshSteps ==
    ASSUME DecisionsInv, NEW r \in Caller, CheckFresh(r) PROVE \E e \in Doing : CallSteps(r, e)
<1>1. CL!TableTypeOK' /\ UNCHANGED <<decisions, observations, calibrations, evaluations, log>>
  BY TableStep DEF CheckFresh, DecisionsInv, Types
<1>2. CASE q' = [q EXCEPT ![r].at = "insert"]
  <2>1. PICK e : e = [q[r] EXCEPT !.at = "insert"]
    OBVIOUS
  <2>2. q[r] \in Doing /\ CallFits(q[r]) /\ q[r].at = "check"
    BY DEF DecisionsInv, Types, CheckFresh
  <2>3. /\ e \in Doing /\ e.at = "insert" /\ e.key = q[r].key /\ e.analysis = q[r].analysis
        /\ e.seen = q[r].seen
    BY <2>1, <2>2 DEF Doing, Points
  <2>4. q' = [q EXCEPT ![r] = e] /\ CallFits(e) /\ ~Calibrating(e)
    BY <1>2, <2>1, <2>2, <2>3 DEF CallFits, Calibrating
  <2> QED BY <1>1, <2>3, <2>4, Nothing
<1>3. CASE q' = [q EXCEPT ![r] = NoCall]
  <2>1. CallFits(NoCall)
    BY DEF CallFits, NoCall, Calibrating
  <2> QED BY <1>1, <1>3, <2>1, QuietIs, Nothing
<1> QED BY <1>2, <1>3 DEF CheckFresh

\* The insert, or the row that was inserted in between.
LEMMA InsertDecisionSteps ==
    ASSUME DecisionsInv, NEW r \in Caller, InsertDecision(r) PROVE \E e \in Doing : CallSteps(r, e)
<1> DEFINE rec == [key |-> q[r].key, analysis |-> q[r].analysis]
<1>1. /\ q[r].key \in IdempotencyKey /\ q[r].analysis \in Analysis /\ q[r].seen = {}
      /\ UNCHANGED <<observations, calibrations, evaluations, calLease>>
      /\ decisions \subseteq Decided /\ \A c, d \in decisions : c.key = d.key => c = d
  BY DEF InsertDecision, DecisionsInv, CallFits, KeyInv, Types
<1>2. CASE Taken(q[r].key)
  <2>1. PICK d \in WithKey(q[r].key) : Answer(r, d, "raced") /\ UNCHANGED decisions
    BY <1>2 DEF InsertDecision
  <2>2. d \in decisions'
    BY <2>1 DEF WithKey
  <2> QED BY <1>1, <2>1, <2>2, AnswerIs, QuietIs
<1>3. CASE ~Taken(q[r].key)
  <2>1. decisions' = decisions \cup {rec} /\ Answer(r, rec, "made")
    BY <1>3 DEF InsertDecision
  <2>2. rec \in Decided /\ rec.key = q[r].key /\ rec.analysis = q[r].analysis
    BY <1>1 DEF Decided
  <2>3. \A d \in decisions : d.key # q[r].key
    BY <1>3 DEF Taken, WithKey
  <2> HIDE DEF rec
  <2>4. \A c, d \in decisions' : c.key = d.key => c = d
    BY <1>1, <2>1, <2>2, <2>3
  <2> QED BY <1>1, <2>1, <2>2, <2>4, AnswerIs, QuietIs
<1> QED BY <1>2, <1>3

-----------------------------------------------------------------------------

\* record_setup_duration_observation adds an observation that no version counts yet.
LEMMA RecordObservationSteps ==
    ASSUME DecisionsConstants, DecisionsInv, NEW r \in Caller, NEW h \in Hours, NEW eligible \in BOOLEAN,
           RecordObservation(r, h, eligible)
    PROVE  \E e \in Doing : CallSteps(r, e)
<1> DEFINE o == [hours |-> h, outcome |-> 0]
           n == Len(observations)
<1>1. o \in Observed /\ observations' = Append(observations, o)
      /\ UNCHANGED <<decisions, calibrations, evaluations, calLease, log>>
  BY DEF Observed, RecordObservation, Observe
<1>2. /\ DOMAIN observations' = 1..(n + 1) /\ DOMAIN observations = 1..n /\ n \in Nat
      /\ observations' \in Seq(Observed)
  BY <1>1, AppendIs DEF DecisionsInv, Types
<1>3. Observes(o)
  BY <1>1 DEF Observes
<1>4. CL!TableTypeOK' /\ log' = [answers |-> log'.answers, lapses |-> log'.lapses]
  BY <1>1, TableStep DEF DecisionsInv, Types
<1>5. \A m \in DOMAIN calibrations : calibrations[m].of # n + 1
  BY <1>2 DEF DecisionsInv, CalInv
<1> HIDE DEF o, n
<1>6. CASE eligible
  <2>1. PICK e : e = [NoCall EXCEPT !.at = "prior", !.obs = n + 1]
    OBVIOUS
  <2>2. e \in Doing /\ e.at = "prior" /\ e.obs = n + 1
    <3>1. n + 1 \in Nat
      BY <1>2
    <3>2. e = [at |-> "prior", key |-> NoValue, analysis |-> NoValue, seen |-> {}, obs |-> n + 1,
               outcome |-> 0, prior |-> NoValue]
      BY <2>1 DEF NoCall
    <3> QED BY <3>1, <3>2 DEF Doing, Points
  <2>3. q' = [q EXCEPT ![r] = e]
    BY <1>6, <2>1 DEF RecordObservation, n
  <2>4. CallFits(e)'
    BY <1>1, <1>2, <1>5, <2>2 DEF CallFits, Calibrating, Uncounted
  <2>5. e.obs = Len(observations) + 1 /\ e.obs \in DOMAIN observations'
    BY <1>2, <2>2 DEF n
  <2>6. Measures(r, e)
    BY <1>1, <1>3, <2>5 DEF Measures, Observes
  <2> QED BY <1>4, <2>2, <2>3, <2>4, <2>6 DEF CallSteps, CallGoes
<1>7. CASE ~eligible
  <2>1. PICK e : e = q[r]
    OBVIOUS
  <2>2. e \in Doing /\ q' = [q EXCEPT ![r] = e] /\ CallFits(e)
    BY <1>7, <2>1 DEF RecordObservation, DecisionsInv, Types
  <2>3. CallFits(e)'
    BY <1>1, <1>2, <2>2 DEF CallFits, Calibrating, Uncounted, SoundPrior
  <2>4. Measures(r, e)
    BY <1>1, <1>3, <2>1 DEF Measures
  <2> QED BY <1>4, <2>2, <2>3, <2>4 DEF CallSteps, CallGoes
<1> QED BY <1>6, <1>7

\* The latest version, or the assumption, is a sound prior.
LEMMA LatestIsSound ==
    ASSUME DecisionsConstants, DecisionsInv, NEW assumed \in Nat
    PROVE  SoundPrior(Latest(assumed))
<1> DEFINE n == Len(calibrations)
           new == [version |-> 0, mean |-> <<assumed, 1>>, base |-> assumed,
                   strength |-> PriorStrength, count |-> 0]
           rec == calibrations[n]
           old == [version |-> n, mean |-> rec.mean, base |-> rec.base,
                   strength |-> rec.strength, count |-> rec.count]
<1>1. n \in Nat /\ DOMAIN calibrations = 1..n /\ calibrations \in Seq(Version)
  BY LenProperties DEF DecisionsInv, Types
<1>2. CASE calibrations = <<>>
  <2>1. Latest(assumed) = new
    BY <1>2 DEF Latest
  <2>2. new \in Prior /\ new.count = new.version /\ new.version = 0 /\ new.mean = <<new.base, 1>>
    BY DEF Prior, DecisionsConstants
  <2> HIDE DEF new
  <2> QED BY <1>1, <2>1, <2>2 DEF SoundPrior
<1>3. CASE calibrations # <<>>
  <2>1. Latest(assumed) = old
    BY <1>3 DEF Latest
  <2>2. n > 0
    BY <1>1, <1>3, EmptySeq
  <2>3. rec \in Version /\ rec.count = n /\ rec.base = calibrations[1].base
    BY <1>1, <2>2, ElementOfSeq DEF DecisionsInv, CalInv, VersionsAreCounted
  <2>4. /\ old \in Prior /\ old.count = old.version /\ old.version = n /\ old.base = calibrations[1].base
        /\ IsVersion(old, calibrations[n])
    BY <1>1, <2>3 DEF Prior, Version, IsVersion
  <2> HIDE DEF old
  <2> QED BY <1>1, <2>1, <2>2, <2>4 DEF SoundPrior
<1> QED BY <1>2, <1>3

\* update_setup_hours counts one more and keeps the base.
LEMMA UpdatedIs ==
    ASSUME DecisionsConstants, NEW p \in Prior, NEW h \in Hours, NEW o \in Nat
    PROVE  LET v == Updated(p, h, o) IN
           v \in Version /\ v.count = p.count + 1 /\ v.base = p.base /\ v.of = o
<1> DEFINE w == Weight(p)
           m1 == w * p.mean[1] + h * p.mean[2]
           m2 == p.mean[2] * (w + 1)
<1>1. /\ p.mean[1] \in Nat /\ p.mean[2] \in Nat /\ p.count \in Nat /\ p.strength \in Nat
      /\ p.base \in Nat /\ h \in Nat
  BY DEF Prior, DecisionsConstants
<1>2. w \in Nat
  BY <1>1 DEF Weight
<1>3. \A a, b \in Nat : a * b \in Nat
  OBVIOUS
<1> HIDE DEF w
<1>4. m1 \in Nat /\ m2 \in Nat
  BY <1>1, <1>2, <1>3
<1>5. Updated(p, h, o) = [mean |-> <<m1, m2>>, base |-> p.base, strength |-> p.strength,
                          count |-> p.count + 1, of |-> o]
  BY DEF Updated, w
<1> HIDE DEF m1, m2
<1> QED BY <1>1, <1>4, <1>5 DEF Version

\* The prior of an observation.
LEMMA ReadPriorSteps ==
    ASSUME DecisionsConstants, DecisionsInv, NEW r \in Caller, ReadPrior(r) PROVE \E e \in Doing : CallSteps(r, e)
<1>1. PICK e : e = [q[r] EXCEPT !.at = "calibrate", !.prior = Latest(AssumedHours)]
  OBVIOUS
<1>2. q[r] \in Doing /\ CallFits(q[r]) /\ q[r].at = "prior" /\ SoundPrior(Latest(AssumedHours))
  BY LatestIsSound DEF DecisionsInv, Types, ReadPrior, DecisionsConstants
<1> DEFINE p == Latest(AssumedHours)
<1> HIDE DEF p
<1>3. e \in Doing /\ e.at = "calibrate" /\ e.obs = q[r].obs /\ e.prior = p
  BY <1>1, <1>2 DEF Doing, Points, SoundPrior, p
<1>4. q' = [q EXCEPT ![r] = e] /\ CL!TableTypeOK'
  <2>1. q' = [q EXCEPT ![r] = [q[r] EXCEPT !.at = "calibrate", !.prior = Latest(AssumedHours)]]
    BY DEF ReadPrior
  <2> QED BY <1>1, <2>1, TableStep DEF ReadPrior, DecisionsInv, Types
<1>5. CallFits(e)
  BY <1>2, <1>3 DEF CallFits, Calibrating, p
<1> QED BY <1>2, <1>3, <1>4, <1>5, Nothing DEF ReadPrior, Calibrating

\* A version that is not taken is the next one: the prior it is made from is the latest.
LEMMA VersionAdds ==
    ASSUME DecisionsConstants, DecisionsInv, NEW r \in Caller, NEW p, SoundPrior(p),
           NEW h \in Hours, NEW o \in Nat, ~VersionTaken(p.version + 1), observations'[o].hours = h,
           calibrations' = Append(calibrations, Updated(p, h, o)),
           Uncounted(o), o \in DOMAIN observations',
           \A s \in Caller \ {r} : Calibrating(q[s]) => q[s].obs # o
    PROVE  \E v \in Version : Adds(r, v)
<1> DEFINE v == Updated(p, h, o)
<1>1. p \in Prior /\ p.count = p.version /\ p.version <= Len(calibrations)
      /\ (p.version > 0 => p.base = calibrations[1].base)
  BY DEF SoundPrior
<1>2. Len(calibrations) \in Nat /\ DOMAIN calibrations = 1..Len(calibrations) /\ p.version \in Nat
  BY <1>1, LenProperties DEF DecisionsInv, Types, Prior
<1>3. p.version = Len(calibrations)
  BY <1>1, <1>2 DEF VersionTaken
<1>4. v \in Version /\ v.count = p.count + 1 /\ v.base = p.base /\ v.of = o
  BY <1>1, UpdatedIs
<1>5. calibrations # <<>> => p.version > 0
  BY <1>2, <1>3, EmptySeq DEF DecisionsInv, Types
<1>6. v = Updated(p, observations'[v.of].hours, v.of)
  BY <1>4
<1> HIDE DEF v
<1>7. NextVersion(v)
  BY <1>1, <1>3, <1>6 DEF NextVersion
<1>8. Adds(r, v)
  BY <1>1, <1>3, <1>4, <1>5, <1>7 DEF Adds, v
<1> QED BY <1>4, <1>8

\* The calibration of an observation, or the conflict that ends it.
LEMMA CalibrateSteps ==
    ASSUME DecisionsConstants, DecisionsInv, NEW r \in Caller, Calibrate(r) PROVE \E e \in Doing : CallSteps(r, e)
<1>1. /\ q' = [q EXCEPT ![r] = NoCall] /\ CL!TableTypeOK'
      /\ UNCHANGED <<decisions, observations, evaluations, log>>
      /\ log' = [answers |-> log'.answers, lapses |-> log'.lapses]
  BY TableStep DEF Calibrate, DecisionsInv, Types
<1>2. SoundPrior(q[r].prior) /\ q[r].obs \in DOMAIN observations /\ Uncounted(q[r].obs)
      /\ Calibrating(q[r]) /\ q[r] \in Doing
  BY DEF Calibrate, DecisionsInv, CallFits, Calibrating, Types
<1>3. CASE UNCHANGED calibrations
  BY <1>1, <1>3, QuietIs DEF CallSteps, CallGoes, Measures
<1>4. CASE ~VersionTaken(q[r].prior.version + 1)
  <2>1. calibrations' = Append(calibrations,
                               Updated(q[r].prior, observations[q[r].obs].hours, q[r].obs))
    BY <1>4 DEF Calibrate
  <2>2. observations[q[r].obs].hours \in Hours /\ q[r].obs \in Nat
    <3>1. observations \in [1..Len(observations) -> Observed]
      BY LenProperties DEF DecisionsInv, Types
    <3>2. observations[q[r].obs] \in Observed
      BY <1>2, <3>1
    <3> QED BY <1>2, <3>2 DEF Observed, Doing
  <2>3. \A s \in Caller \ {r} : Calibrating(q[s]) => q[s].obs # q[r].obs
    BY <1>2 DEF DecisionsInv, OwnObs
  <2>4. \E v \in Version : Adds(r, v)
    BY <1>1, <1>2, <1>4, <2>1, <2>2, <2>3, VersionAdds
  <2> QED BY <1>1, <2>4, QuietIs DEF CallSteps, CallGoes, Measures
<1> QED BY <1>3, <1>4 DEF Calibrate

\* outcome takes the lease.
LEMMA BeginOutcomeSteps ==
    ASSUME DecisionsInv, NEW r \in Caller, BeginOutcome(r, 1) PROVE \E e \in Doing : CallSteps(r, e)
<1>1. PICK e : e = [NoCall EXCEPT !.at = "look", !.outcome = 1]
  OBVIOUS
<1>2. e \in Doing /\ e.at = "look" /\ CallFits(e) /\ ~Calibrating(e)
  BY <1>1 DEF NoCall, Doing, Points, CallFits, Calibrating
<1>3. q' = [q EXCEPT ![r] = e] /\ CL!TableTypeOK'
  BY <1>1, TableStep DEF BeginOutcome, DecisionsInv, Types
<1> QED BY <1>2, <1>3, Nothing DEF BeginOutcome

\* An outcome that is there is returned.
LEMMA LookForOutcomeSteps ==
    ASSUME DecisionsConstants, DecisionsInv, NEW r \in Caller, LookForOutcome(r)
    PROVE  \E e \in Doing : CallSteps(r, e)
<1> DEFINE at == IF OutcomeOf(q[r].outcome) # {} THEN "release" ELSE "record"
           p == Latest(ActionHours)
<1>1. PICK e : e = [q[r] EXCEPT !.at = at, !.prior = p]
  OBVIOUS
<1>2. q[r] \in Doing /\ SoundPrior(p) /\ at \in {"release", "record"}
  BY LatestIsSound DEF DecisionsInv, Types, DecisionsConstants
<1>3. q' = [q EXCEPT ![r] = e] /\ CL!TableTypeOK'
  <2>1. q' = [q EXCEPT ![r] = [q[r] EXCEPT !.at = at, !.prior = p]]
    BY DEF LookForOutcome
  <2> QED BY <1>1, <2>1, TableStep DEF LookForOutcome, DecisionsInv, Types
<1> HIDE DEF at, p
<1>4. e \in Doing /\ e.at = at /\ e.prior = p
  BY <1>1, <1>2 DEF Doing, Points, SoundPrior
<1>5. CallFits(e) /\ ~Calibrating(e)
  BY <1>2, <1>4 DEF CallFits, Calibrating
<1> QED BY <1>3, <1>4, <1>5, Nothing DEF LookForOutcome

\* record_calibrated_outcome adds both rows or neither.
LEMMA RecordOutcomeSteps ==
    ASSUME DecisionsConstants, DecisionsInv, NEW r \in Caller, NEW h \in Hours, RecordOutcome(r, h)
    PROVE  \E e \in Doing : CallSteps(r, e)
<1> DEFINE t == q[r].outcome
           o == [hours |-> h, outcome |-> t]
           n == Len(observations)
<1>1. PICK e : e = [q[r] EXCEPT !.at = "release"]
  OBVIOUS
<1>2. q[r] \in Doing /\ SoundPrior(q[r].prior) /\ t \in Nat
  BY DEF DecisionsInv, Types, Doing, CallFits, RecordOutcome
<1>3. e \in Doing /\ e.at = "release"
  BY <1>1, <1>2 DEF Doing, Points
<1>4. CallFits(e)' /\ ~Calibrating(e)
  BY <1>3 DEF CallFits, Calibrating
<1>5. q' = [q EXCEPT ![r] = e] /\ CL!TableTypeOK' /\ UNCHANGED <<decisions, evaluations, log>>
      /\ log' = [answers |-> log'.answers, lapses |-> log'.lapses]
  BY <1>1, TableStep DEF RecordOutcome, DecisionsInv, Types
<1>6. CASE UNCHANGED <<observations, calibrations>>
  BY <1>3, <1>4, <1>5, <1>6 DEF CallSteps, CallGoes, Measures
<1>7. CASE /\ OutcomeOf(t) = {} /\ ~VersionTaken(q[r].prior.version + 1) /\ Observe(h, t)
           /\ calibrations' = Append(calibrations, Updated(q[r].prior, h, n + 1))
  <2>1. o \in Observed /\ o.outcome = t /\ observations' = Append(observations, o)
    BY <1>2, <1>7 DEF Observed, Observe
  <2>9. o.hours = h
    OBVIOUS
  <2> HIDE DEF o
  <2>2. Observes(o)
    BY <1>7, <2>1 DEF Observes
  <2>3. n \in Nat /\ DOMAIN observations = 1..n /\ DOMAIN observations' = 1..(n + 1)
        /\ observations'[n + 1] = o
    BY <2>1, AppendIs DEF DecisionsInv, Types
  <2> HIDE DEF n
  <2>4. Uncounted(n + 1) /\ n + 1 \in DOMAIN observations' /\ n + 1 \in Nat
    BY <2>3 DEF DecisionsInv, CalInv, Uncounted
  <2>5. \A s \in Caller : Calibrating(q[s]) => q[s].obs # n + 1
    BY <2>3 DEF DecisionsInv, CallFits
  <2>6. \E v \in Version : Adds(r, v)
    BY <1>2, <1>7, <2>3, <2>4, <2>5, <2>9, VersionAdds
  <2>7. Measures(r, e)
    BY <1>4, <1>5, <2>1, <2>2, <2>6 DEF Measures
  <2> QED BY <1>3, <1>4, <1>5, <2>7 DEF CallSteps, CallGoes
<1> QED BY <1>6, <1>7 DEF RecordOutcome

\* A request that ends or dies leaves all rows as they are.
LEMMA EndsSteps ==
    ASSUME DecisionsInv, NEW r \in Caller, EndOutcome(r) \/ CallerDies(r) PROVE \E e \in Doing : CallSteps(r, e)
<1>1. /\ q' = [q EXCEPT ![r] = NoCall] /\ CL!TableTypeOK'
      /\ UNCHANGED <<decisions, observations, calibrations, evaluations>>
  BY TableStep DEF EndOutcome, CallerDies, DecisionsInv, Types
<1>2. log'.answers = log.answers /\ log' = [answers |-> log'.answers, lapses |-> log'.lapses]
  BY DEF EndOutcome, CallerDies, DecisionsInv, Types
<1> QED BY <1>1, <1>2, QuietIs DEF CallSteps, CallGoes, Measures

\* Every action of a request is one of the two kinds of step.
LEMMA CallerSteps ==
    ASSUME DecisionsConstants, DecisionsInv, NEW r \in Caller, DecisionStep(r)
    PROVE  \E e \in Doing : CallSteps(r, e)
  BY BeginDecisionSteps, ReturnDecisionSteps, CheckFreshSteps, InsertDecisionSteps,
     RecordObservationSteps, ReadPriorSteps, CalibrateSteps, BeginOutcomeSteps, LookForOutcomeSteps,
     RecordOutcomeSteps, EndsSteps DEF DecisionStep

-----------------------------------------------------------------------------

\* The invariant holds when nothing was decided.
LEMMA InitDecisionsInv == ASSUME DecisionsConstants, DecisionsInit PROVE DecisionsInv
<1>1. /\ decisions = {} /\ observations = <<>> /\ calibrations = <<>> /\ evaluations = {}
      /\ q = [r \in Caller |-> NoCall] /\ log = [answers |-> {}, lapses |-> 0]
  BY DEF DecisionsInit
<1>2. /\ observations \in Seq(Observed) /\ calibrations \in Seq(Version)
      /\ DOMAIN observations = {} /\ DOMAIN calibrations = {}
  BY <1>1
<1>3. NoCall \in Doing /\ NoCall.at = "idle"
  BY QuietIs
<1>4. CL!TableTypeOK
  BY DEF DecisionsInit, CL!TableInit, CL!TableTypeOK, CL!NoLease
<1>5. \A r \in Caller : q[r] \in Doing /\ CallFits(q[r]) /\ ~Calibrating(q[r])
  BY <1>1, <1>3 DEF CallFits, Calibrating
<1>6. Types
  BY <1>1, <1>2, <1>3, <1>4 DEF Types
<1>7. KeyInv /\ EvidInv /\ OutInv /\ CalInv /\ OwnObs
  BY <1>1, <1>2, <1>5
  DEF KeyInv, AnswersRight, EvidInv, VerdictsAreFounded, OutInv, CalInv, VersionsAreCounted, OwnObs
<1> QED BY <1>5, <1>6, <1>7 DEF DecisionsInv

\* A checkpoint that cites an observation has its hours.
LEMMA CheckEvid ==
    ASSUME DecisionsInv, NEW due \in BOOLEAN, NEW value, NEW threshold, NEW atMost \in BOOLEAN,
           NEW cites, CheckCheckpoint(due, value, threshold, atMost, cites)
    PROVE  EvidInv'
<1> DEFINE val == EvidenceValue(cites, value)
           state == CheckpointState(due, val, threshold, atMost)
           e == [state |-> state, value |-> val, cites |-> cites, threshold |-> threshold,
                 atMost |-> atMost]
<1>1. evaluations' = evaluations \cup {e} /\ UNCHANGED observations /\ ~Refused(cites, value)
  BY DEF CheckCheckpoint
<1>2. e.state = state /\ e.value = val /\ e.cites = cites
  OBVIOUS
<1>3. state \in {"met", "breached"} => val # NoValue
  BY DEF CheckpointState
<1>4. cites # 0 => val = <<observations[cites].hours>> /\ cites \in DOMAIN observations
  BY <1>1 DEF EvidenceValue, Refused
<1> HIDE DEF e, val, state
<1> QED BY <1>1, <1>2, <1>3, <1>4 DEF DecisionsInv, EvidInv, VerdictsAreFounded

\* What no request does leaves decisions, observations and versions alone.
LEMMA OthersDecisionsInv ==
    ASSUME DecisionsInv, UNCHANGED <<decisions, observations, calibrations, q>>, log'.answers = log.answers,
           log' = [answers |-> log'.answers, lapses |-> log'.lapses], CL!TableTypeOK', EvidInv'
    PROVE  DecisionsInv'
<1>1. Types' /\ KeyInv' /\ OutInv' /\ CalInv' /\ OwnObs'
  BY DEF DecisionsInv, Types, KeyInv, AnswersRight, OutInv, CalInv, VersionsAreCounted, OwnObs, Calibrating
<1>2. \A r \in Caller : CallFits(q[r])'
  BY DEF DecisionsInv, CallFits, Calibrating, Uncounted, SoundPrior
<1> QED BY <1>1, <1>2 DEF DecisionsInv

\* Verdicts stay founded while nothing is checked.
LEMMA SameEvid == ASSUME DecisionsInv, UNCHANGED <<observations, evaluations>> PROVE EvidInv'
  BY DEF DecisionsInv, EvidInv, VerdictsAreFounded

\* A lease that lapses keeps the type of the table.
LEMMA LapseTable == ASSUME CL!TableTypeOK, CL!Lapse("calibration") PROVE CL!TableTypeOK'
<1> DEFINE Row == [holder : Caller \cup {Free, Orphan}, lapsed : BOOLEAN]
<1>1. calLease \in [{"calibration"} -> Row]
  BY DEF CL!TableTypeOK
<1>2. [calLease["calibration"] EXCEPT !.lapsed = TRUE] \in Row
  BY <1>1
<1>3. calLease' \in [{"calibration"} -> Row]
  BY <1>1, <1>2 DEF CL!Lapse
<1> QED BY <1>3 DEF CL!TableTypeOK

\* The invariant is inductive.
LEMMA NextDecisionsInv == ASSUME DecisionsConstants PROVE DecisionsInv /\ [DecisionsNext]_decisionVars => DecisionsInv'
<1> SUFFICES ASSUME DecisionsInv, [DecisionsNext]_decisionVars PROVE DecisionsInv'
  OBVIOUS
<1>1. ASSUME NEW r \in Caller, DecisionStep(r) PROVE DecisionsInv'
  BY <1>1, CallerSteps, StepsDecisionsInv
<1>2. ASSUME NEW due \in BOOLEAN, NEW value \in {NoValue} \cup {<<h>> : h \in Hours},
             NEW threshold \in Hours, NEW atMost \in BOOLEAN, NEW cites \in 0..MaxObservations,
             CheckCheckpoint(due, value, threshold, atMost, cites)
      PROVE  DecisionsInv'
  <2>1. UNCHANGED <<decisions, observations, calibrations, q, calLease, log>>
    BY <1>2 DEF CheckCheckpoint
  <2>2. CL!TableTypeOK' /\ log' = [answers |-> log'.answers, lapses |-> log'.lapses]
    BY <2>1 DEF DecisionsInv, Types, CL!TableTypeOK
  <2> QED BY <1>2, <2>1, <2>2, CheckEvid, OthersDecisionsInv
<1>3. CASE Move \/ UNCHANGED decisionVars
  <2>1. UNCHANGED <<decisions, observations, calibrations, evaluations, q, calLease, log>>
    BY <1>3 DEF Move, decisionVars
  <2>2. CL!TableTypeOK' /\ log' = [answers |-> log'.answers, lapses |-> log'.lapses]
    BY <2>1 DEF DecisionsInv, Types, CL!TableTypeOK
  <2> QED BY <2>1, <2>2, SameEvid, OthersDecisionsInv
<1>4. CASE CalibrationLeaseLapses
  <2>1. UNCHANGED <<decisions, observations, calibrations, evaluations, q>> /\ CL!TableTypeOK'
    BY <1>4, LapseTable DEF CalibrationLeaseLapses, DecisionsInv, Types
  <2>2. log'.answers = log.answers /\ log' = [answers |-> log'.answers, lapses |-> log'.lapses]
    BY <1>4 DEF CalibrationLeaseLapses, DecisionsInv, Types
  <2> QED BY <2>1, <2>2, SameEvid, OthersDecisionsInv
<1> QED BY <1>1, <1>2, <1>3, <1>4 DEF DecisionsNext

\* The invariant holds in every state.
THEOREM DecisionsInvHolds == ASSUME DecisionsConstants PROVE DecisionsSpec => []DecisionsInv
<1>1. DecisionsInit => DecisionsInv
  BY InitDecisionsInv
<1> QED BY <1>1, NextDecisionsInv, PTL DEF DecisionsSpec

\* Type correctness of decisions, observations, versions and the lease.
THEOREM DecisionsTypes == ASSUME DecisionsConstants PROVE DecisionsSpec => []DecisionsTypeOK
<1>1. DecisionsInv => DecisionsTypeOK
  <2> SUFFICES ASSUME DecisionsInv PROVE DecisionsTypeOK
    OBVIOUS
  <2>1. calibrations \in [1..Len(calibrations) -> Version]
    BY LenProperties DEF DecisionsInv, Types
  <2>2. \A n \in DOMAIN calibrations : calibrations[n].count \in Nat
    BY <2>1 DEF Version
  <2> QED BY <2>2 DEF DecisionsInv, Types, DecisionsTypeOK, Decided, Observed
<1> QED BY <1>1, DecisionsInvHolds, PTL

\* A key has one decision whatever races, and an answer names another request's decision
\* only if it was made after the request had looked (api/routes.py:473).
THEOREM OneDecisionAKey == ASSUME DecisionsConstants PROVE DecisionsSpec => []OneDecisionPerKey
<1>1. DecisionsInv => OneDecisionPerKey
  BY DEF DecisionsInv, KeyInv, AnswersRight, OneDecisionPerKey
<1> QED BY <1>1, DecisionsInvHolds, PTL

\* A checkpoint is met or breached by a value, and by the value of what it cites
\* (_normalize_checkpoint_evidence, evaluate_checkpoint).
THEOREM VerdictsHaveEvidence == ASSUME DecisionsConstants PROVE DecisionsSpec => []VerdictsAreFounded
<1>1. DecisionsInv => VerdictsAreFounded
  BY DEF DecisionsInv, EvidInv
<1> QED BY <1>1, DecisionsInvHolds, PTL

\* Version n counts n different observations on the base of the first, with and without
\* the lease, whoever calibrates from whichever version it read (create_calibration).
THEOREM VersionsCountObservations ==
    ASSUME DecisionsConstants PROVE DecisionsSpec => []VersionsAreCounted
<1>1. DecisionsInv => VersionsAreCounted
  BY DEF DecisionsInv, CalInv
<1> QED BY <1>1, DecisionsInvHolds, PTL

\* A transfer has at most one outcome, whatever is retried, dies or loses its lease
\* (record_calibrated_outcome).
THEOREM OneOutcomeATransfer == ASSUME DecisionsConstants PROVE DecisionsSpec => []OneOutcome
<1>1. DecisionsInv => OneOutcome
  <2> SUFFICES ASSUME DecisionsInv, NEW i \in DOMAIN observations, observations[i].outcome # 0
               PROVE  Cardinality(OutcomeOf(observations[i].outcome)) = 1
    BY DEF OneOutcome
  <2>1. OutcomeOf(observations[i].outcome) = {i}
    BY DEF DecisionsInv, OutInv, OutcomeOf
  <2> QED BY <2>1, FS_Singleton
<1> QED BY <1>1, DecisionsInvHolds, PTL

\* Both: who decided and what became of it can be read from the rows.
THEOREM DecisionsFounded == ASSUME DecisionsConstants PROVE DecisionsSpec => []DecisionsAreFounded
<1>1. OneDecisionPerKey /\ VerdictsAreFounded => DecisionsAreFounded
  BY DEF DecisionsAreFounded
<1> QED BY <1>1, OneDecisionAKey, VerdictsHaveEvidence, PTL

-----------------------------------------------------------------------------
\* The means.  A sum of the samples solves the equations of a running total; whatever solves
\* them, the mean of a version is the one of the assumption and the samples.
Sample(m) == observations[calibrations[m].of].hours
Solves(g, n) == g = [m \in 0..n |-> IF m = 0 THEN 0 ELSE g[m - 1] + Sample(m)]
IsMean(rec, t) == rec.mean[1] * (rec.strength + rec.count) = rec.mean[2] * (rec.strength * rec.base + t)

MeanInv == \A n \in 0..Len(calibrations) :
             /\ \E g : Solves(g, n)
             /\ \A g : Solves(g, n) => g[n] \in Nat /\ (n > 0 => IsMean(calibrations[n], g[n]))

\* The mean of the samples of a prior and one more, over one more weight.
LEMMA OneMore ==
    ASSUME NEW w \in Nat, NEW a \in Nat, NEW b \in Nat, NEW c \in Nat, NEW h \in Nat, a * w = b * c
    PROVE  (w * a + h * b) * (w + 1) = (b * (w + 1)) * (c + h)
<1>1. w * a = b * c
  OBVIOUS
<1>2. b * c \in Nat /\ h * b \in Nat /\ b * (c + h) = b * c + h * b /\ b * (c + h) \in Nat
  OBVIOUS
<1>3. w * a + h * b = b * (c + h)
  BY <1>1, <1>2
<1>4. \A x, y, z \in Nat : (x * y) * z = (x * z) * y
  OBVIOUS
<1> QED BY <1>3, <1>4

\* update_setup_hours from the mean of a prior gives the mean with the new sample.
LEMMA UpdatedIsMean ==
    ASSUME NEW p \in Prior, NEW t \in Nat, NEW h \in Nat, NEW o, IsMean(p, t)
    PROVE  IsMean(Updated(p, h, o), t + h)
<1> DEFINE w == Weight(p)
           c == p.strength * p.base + t
<1>1. /\ p.mean[1] \in Nat /\ p.mean[2] \in Nat /\ p.count \in Nat /\ p.strength \in Nat /\ p.base \in Nat
  BY DEF Prior
<1>2. \A x, y \in Nat : x * y \in Nat
  OBVIOUS
<1>3. w \in Nat /\ w = p.strength + p.count /\ p.strength * p.base \in Nat /\ c \in Nat
  BY <1>1, <1>2 DEF Weight
<1>4. p.mean[1] * w = p.mean[2] * c
  BY <1>3 DEF IsMean
<1>5. p.strength + (p.count + 1) = w + 1 /\ p.strength * p.base + (t + h) = c + h
  <2>1. \A x, y, z \in Nat : x + (y + z) = (x + y) + z
    OBVIOUS
  <2>2. p.strength + (p.count + 1) = (p.strength + p.count) + 1
    BY <1>1, <2>1
  <2> HIDE DEF w
  <2>3. p.strength * p.base + (t + h) = c + h
    BY <1>3, <2>1
  <2> QED BY <1>3, <2>2, <2>3
<1> HIDE DEF w, c
<1>6. (w * p.mean[1] + h * p.mean[2]) * (w + 1) = (p.mean[2] * (w + 1)) * (c + h)
  BY <1>1, <1>3, <1>4, OneMore
<1>7. /\ Updated(p, h, o).mean = <<w * p.mean[1] + h * p.mean[2], p.mean[2] * (w + 1)>>
      /\ Updated(p, h, o).strength = p.strength /\ Updated(p, h, o).base = p.base
      /\ Updated(p, h, o).count = p.count + 1
  BY DEF Updated, w
<1> QED BY <1>5, <1>6, <1>7 DEF IsMean

\* The sums of the versions there are do not change when rows are added.
LEMMA SameSums ==
    ASSUME DecisionsInv, RowsGrown, NEW n \in 0..Len(calibrations), NEW g
    PROVE  Solves(g, n)' <=> Solves(g, n)
<1>1. Len(calibrations) \in Nat
  BY LenProperties DEF DecisionsInv, Types
<1>2. \A m \in 0..n : m # 0 => m \in DOMAIN calibrations
  BY <1>1 DEF RowsGrown
<1>3. \A m \in 0..n : m # 0 => Sample(m)' = Sample(m)
  BY <1>2 DEF RowsGrown, DecisionsInv, CalInv, Sample
<1>4. [m \in 0..n |-> IF m = 0 THEN 0 ELSE g[m - 1] + Sample(m)']
        = [m \in 0..n |-> IF m = 0 THEN 0 ELSE g[m - 1] + Sample(m)]
  BY <1>3
<1> QED BY <1>4 DEF Solves

\* So the versions there are keep their means.
LEMMA OldMeans ==
    ASSUME DecisionsInv, MeanInv, RowsGrown, NEW n \in 0..Len(calibrations)
    PROVE  /\ \E g : Solves(g, n)'
           /\ \A g : Solves(g, n)' => g[n] \in Nat /\ (n > 0 => IsMean(calibrations'[n], g[n]))
<1>1. n > 0 => calibrations'[n] = calibrations[n]
  <2>1. Len(calibrations) \in Nat
    BY LenProperties DEF DecisionsInv, Types
  <2> QED BY <2>1 DEF RowsGrown
<1>2. \A g : Solves(g, n)' <=> Solves(g, n)
  BY SameSums
<1> QED BY <1>1, <1>2 DEF MeanInv

\* A request that measures adds a version with the mean of the one it followed and its sample.
LEMMA StepsMean ==
    ASSUME DecisionsConstants, DecisionsInv, MeanInv, NEW r \in Caller, NEW e, CallSteps(r, e)
    PROVE  MeanInv'
<1>1. RowsGrown
  BY StepsGrow DEF DecisionsInv
<1>2. CASE UNCHANGED calibrations
  <2>1. \A n \in 0..Len(calibrations) :
          /\ \E g : Solves(g, n)'
          /\ \A g : Solves(g, n)' => g[n] \in Nat /\ (n > 0 => IsMean(calibrations'[n], g[n]))
    BY <1>1, OldMeans
  <2> QED BY <1>2, <2>1 DEF MeanInv
<1>3. ASSUME NEW v \in Version, Adds(r, v) PROVE MeanInv'
  <2>0. PICK k, h : k = Len(calibrations) /\ h = observations'[v.of].hours
    OBVIOUS
  <2>1. /\ k \in Nat /\ Len(calibrations') = k + 1 /\ calibrations'[k + 1] = v
        /\ \A i \in 1..k : calibrations'[i] = calibrations[i]
    BY <1>3, <2>0, AppendIs DEF DecisionsInv, Types, Adds
  <2>2. h \in Nat
    <3>1. Types' /\ v.of \in DOMAIN observations'
      BY <1>3, StepsTypes DEF DecisionsInv, Adds
    <3>2. observations' \in [1..Len(observations') -> Observed]
      BY <3>1, LenProperties DEF Types
    <3>3. observations'[v.of] \in Observed
      BY <3>1, <3>2
    <3> QED BY <2>0, <3>3 DEF Observed, DecisionsConstants
  <2>3. Sample(k + 1)' = h
    BY <2>0, <2>1 DEF Sample
  <2>4. PICK p \in Prior : SoundPrior(p) /\ p.version = k /\ v = Updated(p, h, v.of)
    BY <1>3, <2>0 DEF Adds, NextVersion
  <2>5. /\ \E g : Solves(g, k)'
        /\ \A g : Solves(g, k)' => g[k] \in Nat /\ (k > 0 => IsMean(calibrations'[k], g[k]))
    <3>1. k \in 0..Len(calibrations)
      BY <2>0, <2>1
    <3> QED BY <1>1, <3>1, OldMeans
  <2>6. ASSUME NEW g, Solves(g, k)' PROVE g[k] \in Nat /\ IsMean(p, g[k])
    <3>1. g[k] \in Nat
      BY <2>5, <2>6
    <3>2. CASE k > 0
      <4>1. IsMean(calibrations'[k], g[k]) /\ calibrations'[k] = calibrations[k]
        BY <2>1, <2>5, <2>6, <3>2
      <4>2. IsVersion(p, calibrations[k]) /\ p.count = k
        BY <2>4, <3>2 DEF SoundPrior
      <4>3. calibrations[k].count = k
        BY <2>0, <2>1, <3>2, LenProperties DEF DecisionsInv, CalInv, VersionsAreCounted, Types
      <4> QED BY <3>1, <4>1, <4>2, <4>3 DEF IsVersion, IsMean
    <3>3. CASE k = 0
      <4>1. g[0] = 0
        <5>1. g = [m \in 0..k |-> IF m = 0 THEN 0 ELSE g[m - 1] + Sample(m)']
          BY <2>6 DEF Solves
        <5> QED BY <3>3, <5>1
      <4>2. /\ p.mean[1] = p.base /\ p.mean[2] = 1 /\ p.count = 0 /\ p.base \in Nat /\ p.strength \in Nat
        BY <2>4, <3>3 DEF SoundPrior, Prior
      <4>3. p.base * p.strength = p.strength * p.base /\ p.strength * p.base \in Nat
        BY <4>2
      <4>4. 1 * (p.strength * p.base + 0) = p.strength * p.base /\ p.strength + 0 = p.strength
        BY <4>2, <4>3
      <4> QED BY <3>1, <3>3, <4>1, <4>2, <4>3, <4>4 DEF IsMean
    <3> QED BY <2>1, <3>1, <3>2, <3>3
  <2>7. \E g : Solves(g, k + 1)'
    <3>1. PICK f : Solves(f, k)'
      BY <2>5
    <3> DEFINE g == [m \in 0..(k + 1) |-> IF m = k + 1 THEN f[k] + h ELSE f[m]]
    <3>2. f = [m \in 0..k |-> IF m = 0 THEN 0 ELSE f[m - 1] + Sample(m)']
      BY <3>1 DEF Solves
    <3>3. \A m \in 0..(k + 1) : g[m] = IF m = 0 THEN 0 ELSE g[m - 1] + Sample(m)'
      <4> SUFFICES ASSUME NEW m \in 0..(k + 1)
                   PROVE  g[m] = IF m = 0 THEN 0 ELSE g[m - 1] + Sample(m)'
        OBVIOUS
      <4>1. CASE m = k + 1
        <5>1. m # 0 /\ m - 1 = k /\ g[m] = f[k] + h /\ g[k] = f[k]
          BY <2>1, <4>1
        <5> QED BY <2>3, <4>1, <5>1
      <4>2. CASE m # k + 1
        <5>1. m \in 0..k /\ g[m] = f[m]
          BY <2>1, <4>2
        <5>2. m # 0 => g[m - 1] = f[m - 1]
          BY <2>1, <5>1
        <5> QED BY <3>2, <5>1, <5>2
      <4> QED BY <4>1, <4>2
    <3>4. g = [m \in 0..(k + 1) |-> g[m]]
      OBVIOUS
    <3> HIDE DEF g
    <3>5. g = [m \in 0..(k + 1) |-> IF m = 0 THEN 0 ELSE g[m - 1] + Sample(m)']
      BY <3>3, <3>4
    <3> QED BY <3>5 DEF Solves
  <2>8. ASSUME NEW g, Solves(g, k + 1)' PROVE g[k + 1] \in Nat /\ IsMean(calibrations'[k + 1], g[k + 1])
    <3> DEFINE f == [m \in 0..k |-> g[m]]
    <3>1. g = [m \in 0..(k + 1) |-> IF m = 0 THEN 0 ELSE g[m - 1] + Sample(m)']
      BY <2>8 DEF Solves
    <3>2. g[k + 1] = f[k] + h
      <4>1. k + 1 \in 0..(k + 1) /\ k + 1 # 0 /\ (k + 1) - 1 = k /\ k \in 0..k
        BY <2>1
      <4> QED BY <2>3, <3>1, <4>1
    <3>3. \A m \in 0..k : f[m] = IF m = 0 THEN 0 ELSE f[m - 1] + Sample(m)'
      <4> SUFFICES ASSUME NEW m \in 0..k PROVE f[m] = IF m = 0 THEN 0 ELSE f[m - 1] + Sample(m)'
        OBVIOUS
      <4>1. m \in 0..(k + 1) /\ f[m] = g[m] /\ (m # 0 => m - 1 \in 0..k /\ f[m - 1] = g[m - 1])
        BY <2>1
      <4> QED BY <3>1, <4>1
    <3>4. f = [m \in 0..k |-> f[m]]
      OBVIOUS
    <3> HIDE DEF f
    <3>5. f = [m \in 0..k |-> IF m = 0 THEN 0 ELSE f[m - 1] + Sample(m)']
      BY <3>3, <3>4
    <3>6. f[k] \in Nat /\ IsMean(p, f[k])
      BY <2>6, <3>5 DEF Solves
    <3> QED BY <2>1, <2>2, <2>4, <3>2, <3>6, UpdatedIsMean
  <2>9. ASSUME NEW n \in 0..(k + 1)
        PROVE  /\ \E g : Solves(g, n)'
               /\ \A g : Solves(g, n)' => g[n] \in Nat /\ (n > 0 => IsMean(calibrations'[n], g[n]))
    <3>1. CASE n = k + 1
      BY <2>7, <2>8, <3>1
    <3>2. CASE n # k + 1
      <4>1. n \in 0..Len(calibrations)
        BY <2>0, <2>1, <3>2
      <4> QED BY <1>1, <4>1, OldMeans
    <3> QED BY <3>1, <3>2
  <2> QED BY <2>1, <2>9 DEF MeanInv
<1> QED BY <1>2, <1>3 DEF CallSteps, Measures, Decides

\* The means hold in every state.
THEOREM MeansHold == ASSUME DecisionsConstants PROVE DecisionsSpec => []MeanInv
<1>1. DecisionsInit => MeanInv
  <2> SUFFICES ASSUME DecisionsInit PROVE MeanInv
    OBVIOUS
  <2>1. calibrations = <<>> /\ Len(calibrations) = 0
    BY DEF DecisionsInit
  <2>2. ASSUME NEW n \in 0..0
        PROVE  /\ \E g : Solves(g, n)
               /\ \A g : Solves(g, n) => g[n] \in Nat /\ (n > 0 => IsMean(calibrations[n], g[n]))
    <3>1. n = 0
      OBVIOUS
    <3> DEFINE z == [m \in 0..0 |-> 0]
    <3>2. z = [m \in 0..0 |-> IF m = 0 THEN 0 ELSE z[m - 1] + Sample(m)]
      OBVIOUS
    <3> HIDE DEF z
    <3>3. Solves(z, n)
      BY <3>1, <3>2 DEF Solves
    <3>4. ASSUME NEW g, Solves(g, n) PROVE g[n] = 0
      <4>1. g = [m \in 0..n |-> IF m = 0 THEN 0 ELSE g[m - 1] + Sample(m)]
        BY <3>4 DEF Solves
      <4> QED BY <3>1, <4>1
    <3> QED BY <3>1, <3>3, <3>4
  <2> QED BY <2>1, <2>2 DEF MeanInv
<1>2. DecisionsInv /\ MeanInv /\ [DecisionsNext]_decisionVars => MeanInv'
  <2> SUFFICES ASSUME DecisionsInv, MeanInv, [DecisionsNext]_decisionVars PROVE MeanInv'
    OBVIOUS
  <2>1. ASSUME NEW r \in Caller, DecisionStep(r) PROVE MeanInv'
    BY <2>1, CallerSteps, StepsMean
  <2>2. CASE UNCHANGED <<observations, calibrations>>
    <3>1. \A g, n : Solves(g, n)' <=> Solves(g, n)
      BY <2>2 DEF Solves, Sample
    <3> QED BY <2>2, <3>1 DEF MeanInv
  <2>3. \/ \E r \in Caller : DecisionStep(r)
        \/ UNCHANGED <<observations, calibrations>>
    BY DEF DecisionsNext, Move, CalibrationLeaseLapses, CheckCheckpoint, decisionVars
  <2> QED BY <2>1, <2>2, <2>3
<1> QED BY <1>1, <1>2, DecisionsInvHolds, PTL DEF DecisionsSpec

\* A version of the calibration counts one observation more than the last, each observation
\* once, and its mean is the mean of the assumption and all of them, whichever versions the
\* requests read before (update_setup_hours, create_calibration, record_calibrated_outcome).
THEOREM CalibrationIsChain == ASSUME DecisionsConstants PROVE DecisionsSpec => []CalibrationChain
<1>1. DecisionsInv /\ MeanInv /\ OneOutcome => CalibrationChain
  <2> SUFFICES ASSUME DecisionsInv, MeanInv, NEW n \in DOMAIN calibrations
               PROVE  calibrations[n].mean[1] * (calibrations[n].strength + n)
                        = calibrations[n].mean[2] * (calibrations[n].strength * calibrations[n].base + SumTo(n))
    BY DEF CalibrationChain, DecisionsInv, CalInv
  <2> DEFINE f == CHOOSE s : s = [m \in 0..n |-> IF m = 0 THEN 0 ELSE s[m - 1] + observations[calibrations[m].of].hours]
  <2>1. n \in 1..Len(calibrations) /\ n \in Nat /\ n > 0 /\ Len(calibrations) \in Nat
    BY LenProperties DEF DecisionsInv, Types
  <2>2. n \in 0..Len(calibrations)
    BY <2>1
  <2>3. \E g : g = [m \in 0..n |-> IF m = 0 THEN 0 ELSE g[m - 1] + observations[calibrations[m].of].hours]
    BY <2>2 DEF MeanInv, Solves, Sample
  <2>4. f = [m \in 0..n |-> IF m = 0 THEN 0 ELSE f[m - 1] + observations[calibrations[m].of].hours]
    BY <2>3
  <2>5. SumTo(n) = f[n]
    BY DEF SumTo
  <2> HIDE DEF f
  <2>6. Solves(f, n)
    BY <2>4 DEF Solves, Sample
  <2>7. IsMean(calibrations[n], f[n])
    BY <2>1, <2>2, <2>6 DEF MeanInv
  <2>8. calibrations[n].count = n
    BY DEF DecisionsInv, CalInv, VersionsAreCounted
  <2> QED BY <2>5, <2>7, <2>8 DEF IsMean
<1> QED BY <1>1, DecisionsInvHolds, MeansHold, OneOutcomeATransfer, PTL

-----------------------------------------------------------------------------
(*****************************************************************************)
(* Lease: its inductive invariant, the guarantee of a holder that renews in   *)
(* time, and the refinement of BoundedLease.                                  *)
(*****************************************************************************)

\* Every token in use was issued, no two processes use the same one, and a
\* holder's stamp is the row's.
TokensIssued == /\ row # NoRow => row.token < issued /\ row.stamp <= clock
                /\ \A p \in Believers : token[p] < issued /\ stamp[p] <= clock

TokensDiffer == \A p, p2 \in Believers : p # p2 => token[p] # token[p2]

StampsAgree == \A p \in Believers : HasRow(p) => stamp[p] = row.stamp

IInv == TypeOK /\ TokensIssued /\ TokensDiffer /\ StampsAgree /\ CurrentHolderHasRow

-----------------------------------------------------------------------------
\* No token was issued yet.
LEMMA InitIInv == Init => IInv
  BY LeaseConstants
  DEF Init, IInv, TypeOK, TokensIssued, TokensDiffer, StampsAgree,
      CurrentHolderHasRow, Believers

\* The five actions keep the types.
LEMMA NextTypeOK == TypeOK /\ [Next]_vars => TypeOK'
<1> SUFFICES ASSUME TypeOK, [Next]_vars PROVE TypeOK'
  OBVIOUS
<1> USE LeaseConstants DEF TypeOK
<1>1. CASE UNCHANGED vars
  BY <1>1 DEF vars
<1>2. ASSUME NEW p \in Process, AcquireLease(p) PROVE TypeOK'
  BY <1>2 DEF AcquireLease
<1>3. ASSUME NEW p \in Process, RenewLease(p) PROVE TypeOK'
  BY <1>3 DEF RenewLease, HasRow
<1>4. ASSUME NEW p \in Process, ReleaseLease(p) PROVE TypeOK'
  BY <1>4 DEF ReleaseLease
<1>5. ASSUME NEW p \in Process, Crash(p) PROVE TypeOK'
  BY <1>5 DEF Crash
<1>6. CASE Tick
  BY <1>6 DEF Tick
<1> QED
  BY <1>1, <1>2, <1>3, <1>4, <1>5, <1>6 DEF Next

\* A step of the lease keeps its inductive invariant.
LEMMA NextIInv == IInv /\ [Next]_vars => IInv'
<1> SUFFICES ASSUME IInv, [Next]_vars PROVE IInv'
  OBVIOUS
<1>0. TypeOK'
  BY NextTypeOK DEF IInv
<1> USE LeaseConstants, <1>0 DEF IInv, Believers, HasRow, InTerm
<1>1. CASE UNCHANGED vars
  BY <1>1 DEF vars, TokensIssued, TokensDiffer, StampsAgree, CurrentHolderHasRow
<1>2. ASSUME NEW p \in Process, AcquireLease(p) PROVE IInv'
  <2>1. TokensIssued'
    BY <1>2 DEF AcquireLease, TypeOK, TokensIssued
  <2>2. TokensDiffer'
    BY <1>2 DEF AcquireLease, TypeOK, TokensIssued, TokensDiffer
  <2>3. StampsAgree'
    BY <1>2 DEF AcquireLease, TypeOK, TokensIssued, StampsAgree
  \* A current holder has the row, so the row is not overdue.
  <2>4. \A p2 \in Believers : ~InTerm(p2)
    BY <1>2 DEF AcquireLease, Expired, TypeOK, StampsAgree, CurrentHolderHasRow
  <2>5. CurrentHolderHasRow'
    BY <1>2, <2>4 DEF AcquireLease, TypeOK, CurrentHolderHasRow
  <2> QED
    BY <2>1, <2>2, <2>3, <2>5
<1>3. ASSUME NEW p \in Process, RenewLease(p) PROVE IInv'
  BY <1>3 DEF RenewLease, TypeOK, TokensIssued, TokensDiffer, StampsAgree,
              CurrentHolderHasRow
<1>4. ASSUME NEW p \in Process, ReleaseLease(p) PROVE IInv'
  BY <1>4 DEF ReleaseLease, TypeOK, TokensIssued, TokensDiffer, StampsAgree,
              CurrentHolderHasRow
<1>5. ASSUME NEW p \in Process, Crash(p) PROVE IInv'
  BY <1>5 DEF Crash, TypeOK, TokensIssued, TokensDiffer, StampsAgree,
              CurrentHolderHasRow
<1>6. CASE Tick
  BY <1>6 DEF Tick, TypeOK, TokensIssued, TokensDiffer, StampsAgree,
              CurrentHolderHasRow
<1> QED
  BY <1>1, <1>2, <1>3, <1>4, <1>5, <1>6 DEF Next

\* The inductive invariant holds of every behaviour.
THEOREM Invariance == Spec => []IInv
  BY InitIInv, NextIInv, PTL DEF Spec

\* Types, for any number of contenders, grants and ticks.
THEOREM LeaseTypes == Spec => []TypeOK
<1>1. IInv => TypeOK
  BY DEF IInv
<1> QED
  BY <1>1, Invariance, PTL

\* A process that acquired or renewed within the last Seconds still has the row.
THEOREM HolderKeepsRow == Spec => []CurrentHolderHasRow
<1>1. IInv => CurrentHolderHasRow
  BY DEF IInv
<1> QED
  BY <1>1, Invariance, PTL

\* Two processes never both acquired or renewed within the last Seconds.
THEOREM HolderIsAlone == Spec => []OneCurrentHolder
<1>1. IInv => OneCurrentHolder
  BY LeaseConstants
  DEF IInv, OneCurrentHolder, CurrentHolderHasRow, TokensDiffer, HasRow, Believers
<1> QED
  BY <1>1, Invariance, PTL

\* A token that lost the row is worthless for good: nothing any process does
\* makes it the row's again.
THEOREM LostTokensStayLost == Spec => LostIsLost
<1>1. IInv /\ [Next]_vars =>
        [\A p \in Believers : ~HasRow(p) /\ p \in Believers' => ~HasRow(p)']_vars
  <2> SUFFICES ASSUME IInv, Next, NEW p \in Believers, ~HasRow(p), p \in Believers'
               PROVE  ~HasRow(p)'
    OBVIOUS
  <2> USE LeaseConstants DEF IInv, TypeOK, Believers, HasRow, TokensIssued, TokensDiffer
  <2>1. ASSUME NEW p2 \in Process, AcquireLease(p2) PROVE ~HasRow(p)'
    BY <2>1 DEF AcquireLease
  <2>2. ASSUME NEW p2 \in Process, RenewLease(p2) PROVE ~HasRow(p)'
    BY <2>2 DEF RenewLease
  <2>3. ASSUME NEW p2 \in Process, ReleaseLease(p2) \/ Crash(p2) PROVE ~HasRow(p)'
    BY <2>3 DEF ReleaseLease, Crash
  <2>4. CASE Tick
    BY <2>4 DEF Tick
  <2> QED
    BY <2>1, <2>2, <2>3, <2>4 DEF Next
<1> QED
  BY <1>1, Invariance, PTL DEF Spec, LostIsLost

-----------------------------------------------------------------------------
\* Who the refinement mapping names as the holder.
OwnerNamed == /\ row = NoRow => Owner = Free
              /\ \A p \in Process : HasRow(p) <=> Owner = p
              /\ row # NoRow /\ (\A p \in Process : ~HasRow(p)) => Owner = Orphan

\* At most one process has the row, so CHOOSE picks it.
LEMMA OwnerIsNamed == IInv => OwnerNamed
<1> SUFFICES ASSUME IInv PROVE OwnerNamed
  OBVIOUS
<1>1. \A p, p2 \in Process : HasRow(p) /\ HasRow(p2) => p = p2
  BY LeaseConstants DEF IInv, TypeOK, TokensDiffer, Believers, HasRow
<1>2. ASSUME NEW p \in Process, HasRow(p) PROVE Owner = p
  BY <1>1, <1>2 DEF Owner, HasRow
<1>3. ASSUME NEW p \in Process, Owner = p PROVE HasRow(p)
  BY <1>3, LeaseConstants DEF Owner
<1> QED
  BY <1>2, <1>3 DEF Owner, OwnerNamed

\* The table without rows maps to a free lease.
LEMMA MappedInit == Init => Abstract!LeaseInit
  BY DEF Init, Abstract!LeaseInit, Owner, Expired

\* Each transaction, crash and tick maps to a step of BoundedLease or to a stutter.
LEMMA MappedNext ==
  IInv /\ OwnerNamed /\ OwnerNamed' /\ [Next]_vars => [Abstract!LeaseNext]_(Abstract!leaseVars)
<1> SUFFICES ASSUME IInv, OwnerNamed, OwnerNamed', [Next]_vars
             PROVE  [Abstract!LeaseNext]_(Abstract!leaseVars)
      OBVIOUS
<1> USE LeaseConstants DEF OwnerNamed
<1>1. CASE UNCHANGED vars
  BY <1>1 DEF vars, Abstract!leaseVars, Owner, Expired, HasRow
<1>2. ASSUME NEW p \in Process, AcquireLease(p) PROVE Abstract!Acquire(p)
  BY <1>2 DEF AcquireLease, Abstract!Acquire, Abstract!CanAcquire, Expired,
                          HasRow, IInv, TypeOK
<1>3. ASSUME NEW p \in Process, RenewLease(p) PROVE Abstract!Renew(p)
  BY <1>3 DEF RenewLease, Abstract!Renew, Expired, HasRow, IInv, TypeOK
<1>4. ASSUME NEW p \in Process, ReleaseLease(p) PROVE Abstract!Release(p)
  BY <1>4 DEF ReleaseLease, Abstract!Release, Abstract!leaseVars, Expired,
                          HasRow, IInv, TypeOK
<1>5. ASSUME NEW p \in Process, Crash(p) PROVE Abstract!Abandon(p)
  BY <1>5 DEF Crash, Abstract!Abandon, Expired, HasRow, IInv, TypeOK
<1>6. CASE Tick
  BY <1>6 DEF Tick, Abstract!LeaseNext, Abstract!Lapse, Abstract!leaseVars,
                          Expired, HasRow, IInv, TypeOK
<1> QED
  BY <1>1, <1>2, <1>3, <1>4, <1>5, <1>6 DEF Next, Abstract!LeaseNext

\* The store's lease transactions implement BoundedLease.
THEOREM LeaseRefinesBoundedLease == Spec => Refines
<1> QED
  BY MappedInit, MappedNext, OwnerIsNamed, Invariance, PTL
  DEF Spec, Refines, Abstract!LeaseSpec

(*****************************************************************************)
(* ImportCommit: first the data, whatever became of the lease (DataInv); then *)
(* the number of records made (CommitsInv); then what only holds while no     *)
(* lease ran out, when a committer is alone: its copy follows the record      *)
(* (LeaseInv), no record is made twice for free (CountInv), and the overlay   *)
(* knows only what was read back (KnownInv); last the versions of the overlay *)
(* (PlanInv).                                                                 *)
(*****************************************************************************)

TimecueRecord == [row : Key, parent : Ids, staffed : BOOLEAN]

Locals == [pc : {"idle", "load", "manual", "row", "save", "merge", "write", "end"},
           batch : Batch \cup {NoBatch}, live : BOOLEAN, resume : BOOLEAN, confirm : BOOLEAN,
           row : Nat \ {0}, mem : BatchRecord \cup {NoBatch}]

\* What a record, saved or copied, is whatever became of the lease: a mapping is of a row
\* of Timecue tc that was made for the key, only a row without one is created, and the
\* receipts are true.
NamesIn(r, k, tc) ==
    /\ Entity[k] # "assignments" => r.map[k] # 0 /\ tc[r.map[k]].row = k
    /\ Entity[k] # "projects" => r.map[Parent[k]] # 0
    /\ Entity[k] = "tasks" => tc[r.map[k]].parent = r.map[Parent[k]]
    /\ Entity[k] = "assignments" => tc[r.map[Parent[k]]].staffed

MadeFor(id, k, tc) == Entity[k] # "assignments" /\ id \in 1..Len(tc) /\ tc[id].row = k

SoundRecord(r, tc) ==
    \A k \in Key : /\ r.map[k] # 0 => MadeFor(r.map[k], k, tc)
                   /\ r.map[k] = 0 => k \in r.fresh
                   /\ r.receipt[k] \in Final => NamesIn(r, k, tc)

Copies == {"manual", "row", "save", "merge", "write", "end"}

\* What committer with the locals m may be about to do.
Fits(m) ==
    /\ m \in Locals
    /\ m.pc = "idle" => m = Idle
    /\ m.pc # "idle" => m.batch \in Batch /\ batches[m.batch] # NoBatch
    /\ m.pc \in Copies <=> m.mem # NoBatch
    /\ m.pc = "save" => m.row \in DOMAIN Order
    /\ m.pc = "merge" => MergeReady(m.mem)
    /\ m.mem # NoBatch => SoundRecord(m.mem, timecue)

DataInv ==
    /\ batches \in [Batch -> BatchRecord \cup {NoBatch}]
    /\ timecue \in Seq(TimecueRecord) /\ Len(timecue) <= MaxRecords
    /\ counters \in [commits : Nat, faults : Nat, lapsed : BOOLEAN, edits : SUBSET Edit]
    /\ L!TableTypeOK
    /\ DOMAIN cm = Committer
    /\ \A b \in Batch : batches[b] # NoBatch => SoundRecord(batches[b], timecue)
    /\ \A c \in Committer : Fits(cm[c])

\* The keys a committer may still come to.
Later(m) == IF m.pc = "save" THEN m.row + 1 ELSE m.row
Ahead(k) == {c \in Committer : /\ cm[c].pc \in {"load", "row", "save"}
                               /\ \E i \in DOMAIN Order : i >= Later(cm[c]) /\ Order[i] = k}

Busy == {c \in Committer : cm[c].pc # "idle"}
Uploads == {b \in Batch : batches[b] # NoBatch}

CommitsInv ==
    /\ IsFiniteSet(Busy) /\ IsFiniteSet(Uploads)
    /\ \A k \in Key : Cardinality(Made(k)) + Cardinality(Ahead(k)) <= counters.commits

\* As long as no lease ran out, who is at work has the lease.
Alone == /\ ~importLease["imports:commit"].lapsed
         /\ \A c \in Committer : cm[c].pc # "idle" => L!Holds(c, "imports:commit")

\* The copy m.mem of the record r knows what r says, and everything it knows finally was
\* saved, but for the row that is being saved.
Follows(m, r) ==
    /\ m.mem.fresh = r.fresh
    /\ \A k \in Key :
      /\ r.map[k] # 0 => m.mem.map[k] = r.map[k]
      /\ r.receipt[k] \in Final => m.mem.receipt[k] \in Final
      /\ m.mem.receipt[k] \in Final /\ (m.pc # "save" \/ Order[m.row] # k) =>
           r.receipt[k] \in Final /\ r.map[k] = m.mem.map[k]

Got(k) == {b \in Fresh(k) : \/ batches[b].map[k] # 0
                            \/ \E c \in Committer : /\ cm[c].batch = b /\ cm[c].mem # NoBatch
                                                    /\ cm[c].mem.map[k] # 0}

LeaseInv == counters.lapsed \/
    /\ Alone
    /\ \A c \in Committer : cm[c].mem # NoBatch => Follows(cm[c], batches[cm[c].batch])

CountInv == counters.lapsed \/
    \A k \in Key : Cardinality(Made(k)) <= Cardinality(Got(k)) + counters.faults

Known(id) == \E b \in Batch : ReadBack(batches[b], id)

KnownInv == counters.lapsed \/
    /\ \A id \in overlay.facts \ Edit : Known(id)
    /\ \A w \in Committer \cup Manager : draft[w].at # "none" => \A id \in draft[w].facts \ Edit : Known(id)

\* The version of a clean overlay tells what it contains.
Trusted(d) ==
    /\ d.at = "read" => d.read <= overlay.version /\ (d.read = overlay.version => d.facts = overlay.facts)
    /\ d.at = "checked" => d.checked <= overlay.version
                           /\ (d.expects /\ d.checked = overlay.version => overlay.facts \subseteq d.facts)

PlanInv ==
    /\ O!OverlayTypeOK
    /\ overlay.clean => \A w \in Committer \cup Manager : Trusted(draft[w])

-----------------------------------------------------------------------------
\* Timecue only adds records, and puts workers on tasks.
Grown(tc, tc2) ==
    /\ Len(tc) <= Len(tc2)
    /\ \A i \in 1..Len(tc) : /\ tc2[i].row = tc[i].row /\ tc2[i].parent = tc[i].parent
                             /\ tc[i].staffed => tc2[i].staffed

\* A record stays sound if Timecue grows, if a row gets a mapping and if a receipt
\* becomes final that is true.
LEMMA Refit ==
    ASSUME ImportConstants, NEW tc, NEW tc2, Len(tc) \in Nat, Len(tc2) \in Nat, Grown(tc, tc2),
           NEW r \in BatchRecord, NEW r2 \in BatchRecord, SoundRecord(r, tc), r2.fresh = r.fresh,
           \A k \in Key : r2.map[k] = r.map[k] \/ (r.map[k] = 0 /\ MadeFor(r2.map[k], k, tc2)),
           \A k \in Key : r2.receipt[k] \in Final => r.receipt[k] \in Final \/ NamesIn(r2, k, tc2)
    PROVE  SoundRecord(r2, tc2)
<1>1. ASSUME NEW k \in Key, r.map[k] # 0
      PROVE  r2.map[k] = r.map[k] /\ MadeFor(r2.map[k], k, tc2)
    <2>1. MadeFor(r.map[k], k, tc)
        BY <1>1 DEF SoundRecord
    <2> QED BY <1>1, <2>1 DEF MadeFor, Grown
<1>2. ASSUME NEW k \in Key, r2.map[k] # 0
      PROVE  MadeFor(r2.map[k], k, tc2)
    BY <1>1, <1>2
<1>3. ASSUME NEW k \in Key, r2.map[k] = 0
      PROVE  k \in r2.fresh
    BY <1>1, <1>3 DEF SoundRecord
<1>4. ASSUME NEW k \in Key, NamesIn(r, k, tc)
      PROVE  NamesIn(r2, k, tc2)
    <2>1. Parent[k] \in Key
        BY DEF ImportConstants
    <2>2. Entity[k] # "assignments" => r2.map[k] = r.map[k] /\ r2.map[k] # 0 /\ tc2[r2.map[k]].row = k
        BY <1>1, <1>4 DEF NamesIn, MadeFor
    <2>3. Entity[k] # "projects" => r2.map[Parent[k]] = r.map[Parent[k]] /\ r2.map[Parent[k]] # 0
        BY <1>1, <1>4, <2>1 DEF NamesIn
    <2>4. Entity[k] = "tasks" => tc2[r2.map[k]].parent = r2.map[Parent[k]]
        <3>1. HAVE Entity[k] = "tasks"
        <3>2. MadeFor(r.map[k], k, tc)
            BY <1>4, <3>1 DEF NamesIn, SoundRecord
        <3>3. tc2[r.map[k]].parent = tc[r.map[k]].parent
            BY <3>2 DEF MadeFor, Grown
        <3> QED BY <1>4, <2>2, <2>3, <3>1, <3>3 DEF NamesIn
    <2>5. Entity[k] = "assignments" => tc2[r2.map[Parent[k]]].staffed
        <3>1. HAVE Entity[k] = "assignments"
        <3>2. MadeFor(r.map[Parent[k]], Parent[k], tc)
            BY <1>4, <2>1, <3>1 DEF NamesIn, SoundRecord
        <3> QED BY <1>4, <2>3, <3>1, <3>2 DEF NamesIn, MadeFor, Grown
    <2> QED BY <2>2, <2>3, <2>4, <2>5 DEF NamesIn
<1>5. ASSUME NEW k \in Key, r2.receipt[k] \in Final
      PROVE  NamesIn(r2, k, tc2)
    BY <1>4, <1>5 DEF SoundRecord
<1> QED BY <1>2, <1>3, <1>5 DEF SoundRecord

\* A sound record is sound in a Timecue that has grown.
LEMMA SoundGrows ==
    ASSUME ImportConstants, NEW tc, NEW tc2, Len(tc) \in Nat, Len(tc2) \in Nat, Grown(tc, tc2),
           NEW r \in BatchRecord, SoundRecord(r, tc)
    PROVE  SoundRecord(r, tc2)
BY Refit

\* Appending a record, and assigning a worker, make Timecue grow.
LEMMA AppendGrows ==
    ASSUME timecue \in Seq(TimecueRecord), NEW e \in TimecueRecord
    PROVE  /\ Append(timecue, e) \in Seq(TimecueRecord) /\ Grown(timecue, Append(timecue, e))
           /\ Len(Append(timecue, e)) = Len(timecue) + 1
           /\ Append(timecue, e)[Len(timecue) + 1] = e
BY AppendProperties, LenProperties DEF Grown

\* So does putting a worker on a task.
LEMMA StaffGrows ==
    ASSUME timecue \in Seq(TimecueRecord), NEW i \in 1..Len(timecue)
    PROVE  LET tc == [timecue EXCEPT ![i].staffed = TRUE]
           IN  tc \in Seq(TimecueRecord) /\ Grown(timecue, tc) /\ Len(tc) = Len(timecue) /\ tc[i].staffed
<1> DEFINE tc == [timecue EXCEPT ![i].staffed = TRUE]
<1>1. timecue \in [1..Len(timecue) -> TimecueRecord] /\ Len(timecue) \in Nat
    BY LenProperties
<1>2. tc = [j \in 1..Len(timecue) |-> IF j = i THEN [timecue[i] EXCEPT !.staffed = TRUE] ELSE timecue[j]]
    BY <1>1
<1>3. tc \in [1..Len(timecue) -> TimecueRecord]
    BY <1>1, <1>2 DEF TimecueRecord
<1>4. tc \in Seq(TimecueRecord) /\ Len(tc) = Len(timecue)
    BY <1>1, <1>3
<1>5. \A j \in 1..Len(timecue) : /\ tc[j].row = timecue[j].row /\ tc[j].parent = timecue[j].parent
                                 /\ timecue[j].staffed => tc[j].staffed
    BY <1>1, <1>2 DEF TimecueRecord
<1>6. tc[i].staffed
    BY <1>1, <1>2 DEF TimecueRecord
<1> QED BY <1>1, <1>4, <1>5, <1>6 DEF Grown

-----------------------------------------------------------------------------
\* The kinds of step of a committer.
Goes(c, m) == m \in Locals /\ cm' = [cm EXCEPT ![c] = m]

Starts(c, m) ==
    /\ Goes(c, m)
    /\ cm[c].pc = "idle" /\ m.pc = "load" /\ m.row = 1 /\ m.mem = NoBatch
    /\ m.batch \in Batch /\ batches[m.batch] # NoBatch
    /\ L!Acquire(c, "imports:commit")
    /\ counters' = [counters EXCEPT !.commits = @ + 1]
    /\ UNCHANGED <<batches, timecue>>

Loads(c, m) ==
    /\ Goes(c, m)
    /\ cm[c].pc = "load" /\ m.pc \in {"manual", "row"}
    /\ m.batch = cm[c].batch /\ m.row = cm[c].row /\ m.mem = batches[m.batch]
    /\ UNCHANGED <<batches, timecue, importLease, counters>>

Troubled == counters' = [counters EXCEPT !.faults = @ + 1]
Leaving(c) == L!Release(c, "imports:commit") \/ L!Abandon(c)

Leaves(c) ==
    /\ cm[c].pc # "idle" /\ cm' = [cm EXCEPT ![c] = Idle]
    /\ Leaving(c)
    /\ Troubled \/ (cm[c].mem = NoBatch /\ UNCHANGED counters)
    /\ UNCHANGED <<batches, timecue>>

\* What becomes of the copy: its current row may get a mapping and a final receipt.
Mine(m, k) == m.pc = "save" /\ Order[m.row] = k
Rewrites(r, m) ==
    /\ m.mem \in BatchRecord /\ m.mem.fresh = r.fresh
    /\ \A k \in Key :
         /\ \/ m.mem.map[k] = r.map[k]
            \/ r.map[k] = 0 /\ MadeFor(m.mem.map[k], k, timecue') /\ Mine(m, k)
         /\ r.receipt[k] \in Final => m.mem.receipt[k] \in Final
         /\ m.mem.receipt[k] \in Final =>
              r.receipt[k] \in Final \/ (Mine(m, k) /\ NamesIn(m.mem, k, timecue'))

\* What becomes of Timecue.
Creates(c, m) ==
    \E e \in TimecueRecord :
       /\ Len(timecue) < MaxRecords
       /\ timecue' = Append(timecue, e)
       /\ m.row = cm[c].row /\ Mine(m, e.row)
       /\ cm[c].mem.map[e.row] = 0
       /\ m.mem.map[e.row] # 0 \/ Troubled
Staffs == \E i \in 1..Len(timecue) : timecue' = [timecue EXCEPT ![i].staffed = TRUE]
Sends(c, m) == UNCHANGED timecue \/ Staffs \/ Creates(c, m)

Works(c, m) ==
    /\ Goes(c, m)
    /\ cm[c].pc \in {"manual", "row", "merge", "write"} /\ m.pc \in {"row", "save", "merge", "write", "end"}
    /\ m.batch = cm[c].batch /\ m.row >= cm[c].row
    /\ m.pc \in {"row", "save"} => cm[c].pc = "row"
    /\ m.pc = "save" => m.row \in DOMAIN Order
    /\ m.pc = "merge" => MergeReady(m.mem)
    /\ Rewrites(cm[c].mem, m)
    /\ Sends(c, m)
    /\ Troubled \/ UNCHANGED counters
    /\ UNCHANGED <<batches, importLease>>

Saves(c, m) ==
    /\ Goes(c, m)
    /\ cm[c].pc = "save" /\ m.pc = "row"
    /\ m.batch = cm[c].batch /\ m.row = cm[c].row + 1 /\ m.mem = cm[c].mem
    /\ batches' = [batches EXCEPT ![cm[c].batch] = cm[c].mem]
    /\ UNCHANGED <<timecue, importLease, counters>>

Steps(c) == Leaves(c) \/ End(c) \/ \E m \in Locals : Starts(c, m) \/ Loads(c, m) \/ Works(c, m) \/ Saves(c, m)

\* The steps that leave records and committers alone.
Aside == /\ UNCHANGED <<batches, timecue, cm>>
         /\ UNCHANGED <<importLease, counters>> \/ LeaseLapses
            \/ (UNCHANGED importLease /\ \E e \in Edit : counters' = [counters EXCEPT !.edits = @ \cup {e}])

\* What a committer with a copy is.
LEMMA Working ==
    ASSUME ImportConstants, DataInv, NEW c \in Committer, cm[c].pc \in Copies
    PROVE  /\ cm[c] \in Locals /\ cm[c].mem \in BatchRecord /\ SoundRecord(cm[c].mem, timecue)
           /\ cm[c].batch \in Batch /\ batches[cm[c].batch] \in BatchRecord
BY DEF DataInv, Fits, Locals, Copies, ImportConstants

\* The row of a committer at a row.
LEMMA RowIsKey ==
    ASSUME ImportConstants, DataInv, NEW c \in Committer, AtRow(c)
    PROVE  /\ cm[c].row \in DOMAIN Order /\ CurrentRow(c) \in Key
           /\ Mapped(c) \in Ids /\ ParentId(c) \in Ids /\ Parent[CurrentRow(c)] \in Key
<1>1. cm[c] \in Locals /\ cm[c].mem \in BatchRecord
    BY Working DEF AtRow, Copies
<1>2. cm[c].row \in DOMAIN Order
    BY <1>1, LenProperties DEF AtRow, Locals, ImportConstants
<1>3. CurrentRow(c) \in Key
    BY <1>2 DEF CurrentRow, Key
<1> QED BY <1>1, <1>2, <1>3 DEF ImportConstants, Mapped, ParentId, BatchRecord

\* The locals with another copy, point and row, and those of a commit that begins.
Became(m, r, pc, n) == [m EXCEPT !.mem = r, !.pc = pc, !.row = n]
Beginning(b, live, resume, confirm) ==
    [Idle EXCEPT !.pc = "load", !.batch = b, !.live = live, !.resume = resume, !.confirm = confirm]

\* They are locals, as is what a commit begins with.
LEMMA BecameLocals ==
    ASSUME NEW m \in Locals, NEW r \in BatchRecord, NEW n \in Nat \ {0}, NEW pc \in Copies
    PROVE  /\ Became(m, r, pc, n) \in Locals
           /\ Became(m, r, pc, n).pc = pc /\ Became(m, r, pc, n).mem = r
           /\ Became(m, r, pc, n).row = n /\ Became(m, r, pc, n).batch = m.batch
<1>1. PICK m1 : m1 = [m EXCEPT !.mem = r]
    OBVIOUS
<1>2. PICK m2 : m2 = [m1 EXCEPT !.pc = pc]
    OBVIOUS
<1>3. Became(m, r, pc, n) = [m2 EXCEPT !.row = n]
    BY <1>1, <1>2 DEF Locals, Became
<1>4. m1 \in Locals
    BY <1>1 DEF Locals
<1>5. m2 \in Locals
    BY <1>2, <1>4 DEF Locals, Copies
<1>6. Became(m, r, pc, n) \in Locals
    BY <1>3, <1>5 DEF Locals
<1>7. /\ Became(m, r, pc, n).pc = pc /\ Became(m, r, pc, n).mem = r
      /\ Became(m, r, pc, n).row = n /\ Became(m, r, pc, n).batch = m.batch
    BY DEF Locals, Became
<1> QED BY <1>6, <1>7

\* A commit begins at the first row, without a copy.
LEMMA BeginLocals ==
    ASSUME NEW b \in Batch, NEW live \in BOOLEAN, NEW resume \in BOOLEAN, NEW confirm \in BOOLEAN
    PROVE  LET m == Beginning(b, live, resume, confirm)
           IN  m \in Locals /\ m.pc = "load" /\ m.batch = b /\ m.row = 1 /\ m.mem = NoBatch
<1> DEFINE m == Beginning(b, live, resume, confirm)
<1>1. Idle \in Locals
    BY DEF Idle, Locals
<1>2. m = [[[[[Idle EXCEPT !.pc = "load"] EXCEPT !.batch = b] EXCEPT !.live = live]
             EXCEPT !.resume = resume] EXCEPT !.confirm = confirm]
    BY <1>1 DEF Locals, Beginning
<1>3. PICK m1 : m1 = [Idle EXCEPT !.pc = "load"]
    OBVIOUS
<1>4. PICK m2 : m2 = [m1 EXCEPT !.batch = b]
    OBVIOUS
<1>5. PICK m3 : m3 = [m2 EXCEPT !.live = live]
    OBVIOUS
<1>6. PICK m4 : m4 = [m3 EXCEPT !.resume = resume]
    OBVIOUS
<1>7. m1 \in Locals
    BY <1>1, <1>3 DEF Locals
<1>8. m2 \in Locals
    BY <1>4, <1>7 DEF Locals
<1>9. m3 \in Locals
    BY <1>5, <1>8 DEF Locals
<1>10. m4 \in Locals
    BY <1>6, <1>9 DEF Locals
<1>11. m \in Locals
    BY <1>2, <1>3, <1>4, <1>5, <1>6, <1>10 DEF Locals
<1>12. m.pc = "load" /\ m.batch = b /\ m.row = Idle.row /\ m.mem = Idle.mem
    BY <1>1 DEF Locals, Beginning
<1> QED BY <1>11, <1>12 DEF Idle

\* A step that writes a receipt works.
LEMMA ReceiptWorks ==
    ASSUME ImportConstants, DataInv, NEW c \in Committer, AtRow(c),
           NEW status \in Receipts, NEW id \in Ids, Receipt(c, status, id),
           ~Terminal(cm[c].mem.receipt[CurrentRow(c)]),
           id = Mapped(c) \/ (Mapped(c) = 0 /\ MadeFor(id, CurrentRow(c), timecue')),
           status \in Final => \A r \in BatchRecord :
              r.map = [cm[c].mem.map EXCEPT ![CurrentRow(c)] = id] => NamesIn(r, CurrentRow(c), timecue'),
           \/ UNCHANGED timecue \/ Staffs
           \/ \E e \in TimecueRecord : /\ Len(timecue) < MaxRecords /\ timecue' = Append(timecue, e)
                                       /\ e.row = CurrentRow(c) /\ Mapped(c) = 0 /\ (id # 0 \/ Troubled),
           Troubled \/ UNCHANGED counters, UNCHANGED <<batches, importLease>>
    PROVE  \E m \in Locals : Works(c, m)
<1> DEFINE k == CurrentRow(c)
           r == cm[c].mem
           r2 == [r EXCEPT !.receipt[k] = status, !.map[k] = id]
           m == [cm[c] EXCEPT !.mem = r2, !.pc = "save"]
<1>1. cm[c] \in Locals /\ r \in BatchRecord /\ k \in Key /\ cm[c].row \in DOMAIN Order
    BY Working, RowIsKey DEF AtRow, Copies
<1>2. cm' = [cm EXCEPT ![c] = m]
    BY <1>1 DEF Receipt, Locals, BatchRecord, DataInv
<1>3. /\ r2.receipt = [r.receipt EXCEPT ![k] = status] /\ r2.map = [r.map EXCEPT ![k] = id]
      /\ r2.fresh = r.fresh /\ r2 \in BatchRecord
    BY <1>1 DEF BatchRecord
<1>4. r.receipt \in [Key -> Receipts] /\ r.map \in [Key -> Ids]
    BY <1>1 DEF BatchRecord
<1>5. m \in Locals /\ m.pc = "save" /\ m.mem = r2 /\ m.row = cm[c].row /\ m.batch = cm[c].batch
    BY <1>1, <1>3 DEF Locals
<1> HIDE DEF r2, m
<1>6. Mine(m, k)
    BY <1>5 DEF Mine, CurrentRow
<1>7. Rewrites(r, m)
    <2> SUFFICES ASSUME NEW x \in Key
                 PROVE  /\ \/ r2.map[x] = r.map[x]
                           \/ r.map[x] = 0 /\ MadeFor(r2.map[x], x, timecue') /\ Mine(m, x)
                        /\ r.receipt[x] \in Final => r2.receipt[x] \in Final
                        /\ r2.receipt[x] \in Final =>
                             r.receipt[x] \in Final \/ (Mine(m, x) /\ NamesIn(r2, x, timecue'))
        BY <1>3, <1>5 DEF Rewrites
    <2>1. CASE x # k
        BY <1>3, <1>4, <2>1
    <2>2. CASE x = k
        <3>1. r2.map[x] = id /\ r2.receipt[x] = status /\ r.map[x] = Mapped(c)
            BY <1>1, <1>3, <1>4, <2>2 DEF Mapped
        <3>2. r.receipt[x] \notin Final
            BY <2>2 DEF Terminal
        <3>3. status \in Final => NamesIn(r2, k, timecue')
            BY <1>3
        <3> QED BY <1>6, <2>2, <3>1, <3>2, <3>3
    <2> QED BY <2>1, <2>2
<1>8. Sends(c, m)
    <2>1. ASSUME NEW e \in TimecueRecord, Len(timecue) < MaxRecords, timecue' = Append(timecue, e),
                 e.row = CurrentRow(c), Mapped(c) = 0, id # 0 \/ Troubled
          PROVE  Creates(c, m)
        <3>1. cm[c].mem.map[e.row] = 0 /\ m.mem.map[e.row] = id
            BY <1>1, <1>3, <1>4, <1>5, <2>1 DEF Mapped
        <3> QED BY <1>5, <1>6, <2>1, <3>1 DEF Creates
    <2> QED BY <2>1 DEF Sends
<1>9. cm[c].row \in Nat
    BY <1>1 DEF Locals
<1>10. Works(c, m)
    BY <1>1, <1>2, <1>5, <1>7, <1>8, <1>9 DEF Works, Goes, AtRow
<1> QED BY <1>5, <1>10

\* A change of the copy that maps no row and makes no receipt final works, at no row.
Touches(r, r2) == /\ r2 \in BatchRecord /\ r2.map = r.map /\ r2.fresh = r.fresh
                  /\ \A k \in Key : r2.receipt[k] \in Final <=> r.receipt[k] \in Final

\* A step that only touches its copy is work.
LEMMA CopyWorks ==
    ASSUME ImportConstants, DataInv, NEW c \in Committer, NEW m \in Locals,
           cm[c].pc \in {"manual", "row", "merge", "write"}, cm' = [cm EXCEPT ![c] = m],
           m.pc \in {"row", "merge", "write", "end"}, m.pc = "row" => cm[c].pc = "row",
           m.pc = "merge" => MergeReady(m.mem), m.batch = cm[c].batch, m.row >= cm[c].row,
           Touches(cm[c].mem, m.mem), UNCHANGED <<batches, timecue, importLease, counters>>
    PROVE  Steps(c)
<1>1. Rewrites(cm[c].mem, m)
    BY DEF Rewrites, Touches
<1>2. Works(c, m)
    BY <1>1 DEF Works, Goes, Sends
<1> QED BY <1>2 DEF Steps

\* Each action of a committer is one of the kinds.
LEMMA BeginStarts ==
    ASSUME ImportConstants, DataInv, NEW c \in Committer, NEW b \in Batch,
           NEW live \in BOOLEAN, NEW resume \in BOOLEAN, NEW confirm \in BOOLEAN,
           Begin(c, b, live, resume, confirm)
    PROVE  Steps(c)
<1> DEFINE m == Beginning(b, live, resume, confirm)
<1>1. cm' = [cm EXCEPT ![c] = m]
    BY DEF Begin, Beginning
<1>2. m \in Locals /\ m.pc = "load" /\ m.batch = b /\ m.row = 1 /\ m.mem = NoBatch
    BY BeginLocals
<1> HIDE DEF m
<1>3. Starts(c, m)
    BY <1>1, <1>2 DEF Starts, Goes, Begin
<1> QED BY <1>2, <1>3 DEF Steps

\* The early returns leave, everything else reads the record.
LEMMA LoadLoads ==
    ASSUME ImportConstants, DataInv, NEW c \in Committer, Load(c)
    PROVE  Steps(c)
<1> DEFINE r == batches[cm[c].batch]
<1>1. cm[c] \in Locals /\ cm[c].mem = NoBatch /\ cm[c].batch \in Batch /\ r \in BatchRecord
    BY DEF DataInv, Load, Fits, Copies
<1>2. CASE r.status = "applied" \/ (Unfinished(r) /\ ~cm[c].resume)
    BY <1>1, <1>2 DEF Load, Steps, Leaves, Leaving
<1>3. CASE ~(r.status = "applied" \/ (Unfinished(r) /\ ~cm[c].resume))
    <2> DEFINE m == [cm[c] EXCEPT !.mem = r, !.pc = IF cm[c].live THEN "row" ELSE "manual"]
    <2>1. cm' = [cm EXCEPT ![c] = m]
        BY <1>1, <1>3 DEF Load, Locals, DataInv
    <2>2. m \in Locals /\ m.pc \in {"manual", "row"} /\ m.batch = cm[c].batch /\ m.row = cm[c].row /\ m.mem = r
        BY <1>1 DEF Locals
    <2>3. UNCHANGED <<batches, timecue, importLease, counters>> /\ cm[c].pc = "load"
        BY <1>3 DEF Load
    <2> HIDE DEF m
    <2> QED BY <2>1, <2>2, <2>3 DEF Steps, Loads, Goes
<1> QED BY <1>2, <1>3

\* A commit without a client finishes no row.
LEMMA ManualOnlyWorks ==
    ASSUME ImportConstants, DataInv, NEW c \in Committer, ManualOnly(c)
    PROVE  Steps(c)
<1> DEFINE r == cm[c].mem
           rowReceipts == [k \in Key |-> IF Terminal(r.receipt[k]) THEN r.receipt[k] ELSE "manual"]
           r2 == [r EXCEPT !.status = "needs_reconciliation", !.receipt = rowReceipts]
<1>1. cm[c] \in Locals /\ r \in BatchRecord /\ cm[c].pc = "manual"
    BY Working DEF ManualOnly, Copies
<1>2. cm' = [cm EXCEPT ![c] = Became(cm[c], r2, "end", cm[c].row)]
    BY <1>1 DEF ManualOnly, Locals, BatchRecord, DataInv, Became
<1>3. rowReceipts \in [Key -> Receipts]
    BY <1>1 DEF BatchRecord, Receipts
<1>4. r2 \in BatchRecord /\ r2.map = r.map /\ r2.fresh = r.fresh /\ r2.receipt = rowReceipts
    BY <1>1, <1>3 DEF BatchRecord
<1>5. \A k \in Key : rowReceipts[k] \in Final <=> r.receipt[k] \in Final
    BY DEF Terminal, Final
<1> HIDE DEF rowReceipts, r2
<1>8. cm[c].row \in Nat \ {0}
    BY <1>1 DEF Locals
<1> DEFINE m == Became(cm[c], r2, "end", cm[c].row)
<1>6. m \in Locals /\ m.pc = "end" /\ m.mem = r2 /\ m.batch = cm[c].batch /\ m.row = cm[c].row
    <2>1. cm[c] \in Locals /\ r2 \in BatchRecord
        BY <1>1, <1>4
    <2>2. "end" \in Copies
        BY DEF Copies
    <2> QED BY <1>8, <2>1, <2>2, BecameLocals
<1>10. cm' = [cm EXCEPT ![c] = m]
    BY <1>2
<1>7. UNCHANGED <<batches, timecue, importLease, counters>>
    BY DEF ManualOnly
<1> HIDE DEF m
<1>9. Touches(cm[c].mem, m.mem) /\ m.row >= cm[c].row
    BY <1>4, <1>5, <1>6, <1>8 DEF Touches
<1> HIDE DEF r
<1> QED BY <1>1, <1>6, <1>7, <1>9, <1>10, CopyWorks

\* Passing a settled row.
LEMMA SkipWorks ==
    ASSUME ImportConstants, DataInv, NEW c \in Committer, Skip(c)
    PROVE  Steps(c)
<1> DEFINE m == [cm[c] EXCEPT !.row = @ + 1]
<1>1. cm[c] \in Locals /\ cm[c].mem \in BatchRecord /\ cm[c].pc = "row"
    BY Working DEF Skip, AtRow, Copies
<1>2. cm' = [cm EXCEPT ![c] = m]
    BY DEF Skip, DataInv
<1>3. m \in Locals /\ m.pc = "row" /\ m.mem = cm[c].mem /\ m.batch = cm[c].batch /\ m.row >= cm[c].row
    BY <1>1 DEF Locals
<1>4. UNCHANGED <<batches, timecue, importLease, counters>> /\ Touches(cm[c].mem, m.mem)
    BY <1>1, <1>3 DEF Skip, Touches
<1> HIDE DEF m
<1> QED BY <1>1, <1>2, <1>3, <1>4, CopyWorks

\* A receipt that is not final is written over one that is none.
LEMMA PassWorks ==
    ASSUME ImportConstants, DataInv, NEW c \in Committer, AtRow(c), NEW status \in Receipts \ Final,
           cm[c].mem.receipt[CurrentRow(c)] \notin Final,
           cm' = [cm EXCEPT ![c].mem.receipt[CurrentRow(c)] = status, ![c].row = @ + 1],
           UNCHANGED <<batches, timecue, importLease, counters>>
    PROVE  Steps(c)
<1> DEFINE k == CurrentRow(c)
           r == cm[c].mem
           r2 == [r EXCEPT !.receipt[k] = status]
<1>1. cm[c] \in Locals /\ r \in BatchRecord /\ k \in Key /\ cm[c].pc = "row"
    BY Working, RowIsKey DEF AtRow, Copies
<1>2. cm' = [cm EXCEPT ![c] = Became(cm[c], r2, "row", cm[c].row + 1)]
    BY <1>1 DEF Locals, BatchRecord, DataInv, Became
<1>3. /\ r2 \in BatchRecord /\ r2.map = r.map /\ r2.fresh = r.fresh
      /\ r2.receipt = [r.receipt EXCEPT ![k] = status] /\ r.receipt \in [Key -> Receipts]
    BY <1>1 DEF BatchRecord
<1>4. \A x \in Key : r2.receipt[x] \in Final <=> r.receipt[x] \in Final
    BY <1>1, <1>3
<1> HIDE DEF r2
<1>5. cm[c].row \in Nat /\ cm[c].row + 1 \in Nat \ {0}
    BY <1>1 DEF Locals
<1> DEFINE m == Became(cm[c], r2, "row", cm[c].row + 1)
<1>6. m \in Locals /\ m.pc = "row" /\ m.mem = r2 /\ m.batch = cm[c].batch /\ m.row = cm[c].row + 1
    <2>1. cm[c] \in Locals /\ r2 \in BatchRecord
        BY <1>1, <1>3
    <2>2. "row" \in Copies
        BY DEF Copies
    <2> QED BY <1>5, <2>1, <2>2, BecameLocals
<1>9. cm' = [cm EXCEPT ![c] = m]
    BY <1>2
<1> HIDE DEF m
<1>7. m.row >= cm[c].row
    BY <1>5, <1>6
<1>8. Touches(cm[c].mem, m.mem)
    BY <1>3, <1>4, <1>6 DEF Touches
<1> HIDE DEF r
<1> QED BY <1>1, <1>6, <1>7, <1>8, <1>9, CopyWorks

\* A row whose parent has no mapping becomes blocked.
LEMMA BlockedWorks ==
    ASSUME ImportConstants, DataInv, NEW c \in Committer, Blocked(c)
    PROVE  Steps(c)
<1>1. AtRow(c) /\ cm[c].mem.receipt[CurrentRow(c)] \notin Final
    BY DEF Blocked, Open, Terminal
<1>2. "blocked" \in Receipts \ Final
    BY DEF Receipts, Final
<1> QED BY <1>1, <1>2, PassWorks DEF Blocked

\* An assignment without a profile becomes a manual step.
LEMMA NoProfileWorks ==
    ASSUME ImportConstants, DataInv, NEW c \in Committer, NoProfile(c)
    PROVE  Steps(c)
<1>1. AtRow(c) /\ cm[c].mem.receipt[CurrentRow(c)] \notin Final
    BY DEF NoProfile, Open, Terminal
<1>2. "manual" \in Receipts \ Final
    BY DEF Receipts, Final
<1> QED BY <1>1, <1>2, PassWorks DEF NoProfile

\* A row is created and, if it was read back, mapped.
LEMMA CreateWorks ==
    ASSUME ImportConstants, DataInv, NEW c \in Committer, Create(c)
    PROVE  Steps(c)
<1> DEFINE k == CurrentRow(c)
           n == Len(timecue) + 1
           e == NewRecord(c)
<1>1. /\ AtRow(c) /\ ~Terminal(cm[c].mem.receipt[k]) /\ Entity[k] \in {"projects", "tasks"}
      /\ CanSend(c) /\ Mapped(c) = 0 /\ Len(timecue) < MaxRecords /\ UNCHANGED <<batches, importLease>>
    BY DEF Create, Open
<1>2. /\ k \in Key /\ Mapped(c) \in Ids /\ ParentId(c) \in Ids /\ Parent[k] \in Key
      /\ timecue \in Seq(TimecueRecord) /\ Len(timecue) \in Nat /\ cm[c].mem \in BatchRecord
    BY <1>1, RowIsKey, LenProperties, Working DEF DataInv, AtRow, Copies
<1>3. e \in TimecueRecord /\ e.row = k /\ (Entity[k] = "tasks" => e.parent = ParentId(c))
    BY <1>2 DEF NewRecord, TimecueRecord, Ids, ImportConstants
<1>4. n \in Ids /\ 0 \in Ids /\ n # 0
    BY <1>1, <1>2 DEF Ids, ImportConstants
<1> HIDE DEF e
<1>5. CASE timecue' = Append(timecue, e) /\ Receipt(c, "applied", n) /\ UNCHANGED counters
    <2>1. Len(timecue') = n /\ timecue'[n] = e
        BY <1>2, <1>3, <1>5, AppendGrows
    <2>2. MadeFor(n, k, timecue')
        BY <1>1, <1>2, <1>3, <2>1 DEF MadeFor
    <2>3. ASSUME NEW r \in BatchRecord, r.map = [cm[c].mem.map EXCEPT ![k] = n]
          PROVE  NamesIn(r, k, timecue')
        <3>1. r.map[k] = n
            BY <1>2, <2>3 DEF BatchRecord
        <3>2. Entity[k] = "tasks" => ParentId(c) # 0 /\ r.map[Parent[k]] = ParentId(c)
            BY <1>1, <1>2, <2>3 DEF BatchRecord, CanSend, ParentId, ImportConstants
        <3> QED BY <1>1, <1>3, <1>4, <2>1, <3>1, <3>2 DEF NamesIn
    <2>4. "applied" \in Receipts
        BY DEF Receipts, Final
    <2>5. \E m \in Locals : Works(c, m)
        BY <1>1, <1>2, <1>3, <1>4, <1>5, <2>2, <2>3, <2>4, ReceiptWorks
    <2> QED BY <2>5 DEF Steps
<1>6. ASSUME NEW status \in {UnreadReceipt, "failed"}, Receipt(c, status, 0), Fault,
             timecue' = Append(timecue, e) \/ UNCHANGED timecue
      PROVE  Steps(c)
    <2>1. status \in Receipts /\ status \notin Final
        BY DEF Receipts, Final, UnreadReceipt
    <2>2. Troubled
        BY <1>6 DEF Fault, Troubled
    <2>3. \E m \in Locals : Works(c, m)
        BY <1>1, <1>3, <1>4, <1>6, <2>1, <2>2, ReceiptWorks
    <2> QED BY <2>3 DEF Steps
<1> QED BY <1>5, <1>6 DEF Create, e

\* A mapped row is looked up; its receipt becomes true or is not final.
LEMMA VerifyWorks ==
    ASSUME ImportConstants, DataInv, NEW c \in Committer, Verify(c)
    PROVE  Steps(c)
<1> DEFINE k == CurrentRow(c)
           id == Mapped(c)
<1>1. /\ AtRow(c) /\ ~Terminal(cm[c].mem.receipt[k]) /\ Entity[k] \in {"projects", "tasks"}
      /\ CanSend(c) /\ id # 0 /\ UNCHANGED <<batches, timecue, importLease>>
    BY DEF Verify, Open
<1>2. /\ k \in Key /\ id \in Ids /\ ParentId(c) \in Ids /\ Parent[k] \in Key
      /\ cm[c].mem \in BatchRecord /\ SoundRecord(cm[c].mem, timecue)
    BY <1>1, RowIsKey, Working DEF AtRow, Copies
<1>3. MadeFor(id, k, timecue)
    BY <1>1, <1>2 DEF SoundRecord, Mapped
<1>4. ASSUME NEW status \in Receipts, Receipt(c, status, id), Troubled \/ UNCHANGED counters,
             status \in Final => InProject(c)
      PROVE  Steps(c)
    <2>1. ASSUME NEW r \in BatchRecord, r.map = [cm[c].mem.map EXCEPT ![k] = id], InProject(c)
          PROVE  NamesIn(r, k, timecue')
        <3>1. r.map = cm[c].mem.map
            BY <1>2, <2>1 DEF BatchRecord, Mapped
        <3>2. Entity[k] = "tasks" => ParentId(c) # 0 /\ timecue[id].parent = ParentId(c)
            BY <1>1, <2>1 DEF CanSend, InProject
        <3> QED BY <1>1, <1>3, <3>1, <3>2 DEF NamesIn, MadeFor, Mapped, ParentId
    <2>2. \E m \in Locals : Works(c, m)
        BY <1>1, <1>2, <1>4, <2>1, ReceiptWorks
    <2> QED BY <2>2 DEF Steps
<1>5. {"verified", "applied", "failed", "needs_reconciliation"} \subseteq Receipts
    BY DEF Receipts, Final
<1>6. "needs_reconciliation" \notin Final /\ "failed" \notin Final
    BY DEF Final
<1>7. CASE InProject(c) /\ UNCHANGED counters
           /\ \E status \in {"verified"} \cup (IF Entity[k] = "tasks" THEN {"applied"} ELSE {}) : Receipt(c, status, id)
    BY <1>4, <1>5, <1>7
<1>8. CASE Receipt(c, "needs_reconciliation", id) /\ (UNCHANGED counters \/ Fault)
    BY <1>4, <1>5, <1>6, <1>8 DEF Fault, Troubled
<1>9. CASE Receipt(c, "failed", id) /\ Fault
    BY <1>4, <1>5, <1>6, <1>9 DEF Fault, Troubled
<1> QED BY <1>7, <1>8, <1>9 DEF Verify

\* A worker is put on the task that the parent row is mapped to.
LEMMA AssignWorks ==
    ASSUME ImportConstants, DataInv, NEW c \in Committer, Assign(c)
    PROVE  Steps(c)
<1> DEFINE k == CurrentRow(c)
<1>1. /\ AtRow(c) /\ ~Terminal(cm[c].mem.receipt[k]) /\ Entity[k] = "assignments"
      /\ CanSend(c) /\ UNCHANGED <<batches, importLease>>
    BY DEF Assign, Open
<1>2. /\ k \in Key /\ Mapped(c) \in Ids /\ 0 \in Ids /\ Parent[k] \in Key
      /\ cm[c].mem \in BatchRecord /\ SoundRecord(cm[c].mem, timecue) /\ timecue \in Seq(TimecueRecord)
    BY <1>1, RowIsKey, Working DEF AtRow, Copies, DataInv, Ids, ImportConstants
<1>3. Mapped(c) = 0 /\ ParentId(c) # 0 /\ ParentId(c) \in 1..Len(timecue)
    BY <1>1, <1>2 DEF SoundRecord, MadeFor, Mapped, ParentId, CanSend
<1>4. CASE timecue' = [timecue EXCEPT ![ParentId(c)].staffed = TRUE] /\ Receipt(c, "applied", 0) /\ UNCHANGED counters
    <2>1. timecue'[ParentId(c)].staffed
        BY <1>2, <1>3, <1>4, StaffGrows
    <2>2. ASSUME NEW r \in BatchRecord, r.map = [cm[c].mem.map EXCEPT ![k] = 0]
          PROVE  NamesIn(r, k, timecue')
        <3>1. r.map = cm[c].mem.map
            BY <1>2, <1>3, <2>2 DEF BatchRecord, Mapped
        <3> QED BY <1>1, <1>3, <2>1, <3>1 DEF NamesIn, ParentId
    <2>3. "applied" \in Receipts /\ Staffs
        BY <1>3, <1>4 DEF Receipts, Final, Staffs
    <2>4. \E m \in Locals : Works(c, m)
        BY <1>1, <1>2, <1>3, <1>4, <2>2, <2>3, ReceiptWorks
    <2> QED BY <2>4 DEF Steps
<1>5. ASSUME NEW status \in {UnreadReceipt, "failed"}, Receipt(c, status, 0), Fault,
             timecue' = [timecue EXCEPT ![ParentId(c)].staffed = TRUE] \/ UNCHANGED timecue
      PROVE  Steps(c)
    <2>1. status \in Receipts /\ status \notin Final
        BY DEF Receipts, Final, UnreadReceipt
    <2>2. Troubled /\ (Staffs \/ UNCHANGED timecue)
        BY <1>3, <1>5 DEF Fault, Troubled, Staffs
    <2>3. \E m \in Locals : Works(c, m)
        BY <1>1, <1>2, <1>3, <1>5, <2>1, <2>2, ReceiptWorks
    <2> QED BY <2>3 DEF Steps
<1> QED BY <1>4, <1>5 DEF Assign

\* A failed lookup of a project and a death end the commit with a fault.
LEMMA LookupFailsLeaves ==
    ASSUME ImportConstants, DataInv, NEW c \in Committer, LookupFails(c)
    PROVE  Steps(c)
BY DEF LookupFails, Open, AtRow, Fault, Troubled, Steps, Leaves, Leaving

\* A committer that dies leaves its row of the lease behind.
LEMMA DiesLeaves ==
    ASSUME ImportConstants, DataInv, NEW c \in Committer, CommitterDies(c)
    PROVE  Steps(c)
BY DEF CommitterDies, Fault, Troubled, Steps, Leaves, Leaving

\* The whole copy is saved.
LEMMA SaveSaves ==
    ASSUME ImportConstants, DataInv, NEW c \in Committer, Save(c)
    PROVE  Steps(c)
<1> DEFINE m == Became(cm[c], cm[c].mem, "row", cm[c].row + 1)
<1>1. cm[c] \in Locals /\ cm[c].mem \in BatchRecord /\ cm[c].pc = "save"
    BY Working DEF Save, Copies
<1>2. cm[c].row + 1 \in Nat \ {0} /\ "row" \in Copies
    BY <1>1 DEF Locals, Copies
<1>3. cm' = [cm EXCEPT ![c] = m]
    BY <1>1 DEF Save, Locals, DataInv, Became
<1>4. m \in Locals /\ m.pc = "row" /\ m.mem = cm[c].mem /\ m.row = cm[c].row + 1 /\ m.batch = cm[c].batch
    BY <1>1, <1>2, BecameLocals
<1>5. /\ batches' = [batches EXCEPT ![cm[c].batch] = cm[c].mem]
      /\ UNCHANGED <<timecue, importLease, counters>>
    BY DEF Save
<1> HIDE DEF m
<1>6. Saves(c, m)
    BY <1>1, <1>3, <1>4, <1>5 DEF Saves, Goes
<1> QED BY <1>4, <1>6 DEF Steps

\* The steps after the last row give the copy a status and say what planning took of it.
LEMMA EndingWorks ==
    ASSUME ImportConstants, DataInv, NEW c \in Committer, cm[c].pc \in {"row", "merge", "write"},
           NEW r \in BatchRecord, Touches(cm[c].mem, r), NEW pc \in {"merge", "end"},
           pc = "merge" => MergeReady(r), cm' = [cm EXCEPT ![c] = Became(cm[c], r, pc, cm[c].row)],
           UNCHANGED <<batches, timecue, importLease, counters>>
    PROVE  Steps(c)
<1> DEFINE m == Became(cm[c], r, pc, cm[c].row)
<1>1. cm[c] \in Locals /\ pc \in Copies
    BY Working DEF Copies
<1>2. cm[c].row \in Nat \ {0}
    BY <1>1 DEF Locals
<1>3. m \in Locals /\ m.pc = pc /\ m.mem = r /\ m.row = cm[c].row /\ m.batch = cm[c].batch
    BY <1>1, <1>2, BecameLocals
<1>4. cm' = [cm EXCEPT ![c] = m]
    OBVIOUS
<1> HIDE DEF m
<1>5. /\ m.row >= cm[c].row /\ Touches(cm[c].mem, m.mem) /\ m.pc \in {"row", "merge", "write", "end"}
      /\ m.pc = "merge" => MergeReady(m.mem)
    BY <1>2, <1>3
<1>6. cm[c].pc \in {"manual", "row", "merge", "write"} /\ (m.pc = "row" => cm[c].pc = "row")
    BY <1>3
<1> QED BY <1>3, <1>4, <1>5, <1>6, CopyWorks

\* The rows are done: the copy gets its status.
LEMMA FinishWorks ==
    ASSUME ImportConstants, DataInv, NEW c \in Committer, Finish(c)
    PROVE  Steps(c)
<1> DEFINE r == cm[c].mem
           status == StatusOf({r.receipt[k] : k \in Key} \cup {"verified"})
           done == [r EXCEPT !.status = status]
<1>1. cm[c] \in Locals /\ r \in BatchRecord /\ cm[c].pc = "row"
    BY Working DEF Finish, Copies
<1>2. status \in {"applied", "partially_applied", "needs_reconciliation"}
    BY DEF StatusOf
<1>3. done \in BatchRecord /\ Touches(r, done)
    <2> HIDE DEF status
    <2> QED BY <1>1, <1>2 DEF BatchRecord, Touches
<1>4. UNCHANGED <<batches, timecue, importLease, counters>>
    BY DEF Finish
<1>5. \/ /\ MergeReady(done)
         /\ cm' = [cm EXCEPT ![c].mem = done, ![c].pc = "merge"]
      \/ cm' = [cm EXCEPT ![c].mem = done, ![c].pc = "end"]
    BY DEF Finish
<1> HIDE DEF done
<1>6. CASE MergeReady(done) /\ cm' = [cm EXCEPT ![c].mem = done, ![c].pc = "merge"]
    <2>1. cm' = [cm EXCEPT ![c] = Became(cm[c], done, "merge", cm[c].row)]
        BY <1>1, <1>6 DEF Became, DataInv, Locals
    <2> QED BY <1>1, <1>3, <1>4, <1>6, <2>1, EndingWorks
<1>7. CASE cm' = [cm EXCEPT ![c].mem = done, ![c].pc = "end"]
    <2>1. cm' = [cm EXCEPT ![c] = Became(cm[c], done, "end", cm[c].row)]
        BY <1>1, <1>7 DEF Became, DataInv, Locals
    <2> QED BY <1>1, <1>3, <1>4, <2>1, EndingWorks
<1> QED BY <1>5, <1>6, <1>7

\* The overlay gets the mapped ids, or a conflict is recorded.
LEMMA MergeWorks ==
    ASSUME ImportConstants, DataInv, NEW c \in Committer, Merge(c)
    PROVE  Steps(c)
<1> DEFINE r == cm[c].mem
<1>1. cm[c] \in Locals /\ r \in BatchRecord /\ cm[c].pc = "merge"
    BY Working DEF Merge, Copies
<1>2. UNCHANGED <<batches, timecue, importLease, counters>>
    BY DEF Merge
<1>3. CASE cm' = [cm EXCEPT ![c].pc = "write"]
    <2> DEFINE m == [cm[c] EXCEPT !.pc = "write"]
    <2>1. cm' = [cm EXCEPT ![c] = m]
        BY <1>3 DEF DataInv
    <2>2. m \in Locals /\ m.pc = "write" /\ m.mem = r /\ m.row = cm[c].row /\ m.batch = cm[c].batch
        BY <1>1 DEF Locals
    <2> HIDE DEF m
    <2>3. m.row >= cm[c].row /\ Touches(r, m.mem)
        BY <1>1, <2>2 DEF Locals, Touches
    <2> QED BY <1>1, <1>2, <2>1, <2>2, <2>3, CopyWorks
<1>4. CASE cm' = [cm EXCEPT ![c].pc = "end", ![c].mem.planning = "needs_reconciliation",
                            ![c].mem.status = "needs_reconciliation"]
    <2> DEFINE r2 == [r EXCEPT !.planning = "needs_reconciliation", !.status = "needs_reconciliation"]
    <2>1. cm' = [cm EXCEPT ![c] = Became(cm[c], r2, "end", cm[c].row)]
        BY <1>1, <1>4 DEF Became, DataInv, Locals, BatchRecord
    <2>2. r2 \in BatchRecord /\ Touches(r, r2)
        BY <1>1 DEF BatchRecord, Touches
    <2> HIDE DEF r2
    <2> QED BY <1>1, <1>2, <2>1, <2>2, EndingWorks
<1> QED BY <1>3, <1>4 DEF Merge

\* The overlay is written.
LEMMA ConfirmWorks ==
    ASSUME ImportConstants, DataInv, NEW c \in Committer, Confirm(c)
    PROVE  Steps(c)
<1> DEFINE r == cm[c].mem
           r2 == [r EXCEPT !.planning = "confirmed"]
<1>1. cm[c] \in Locals /\ r \in BatchRecord /\ cm[c].pc = "write"
    BY Working DEF Confirm, Copies
<1>2. cm' = [cm EXCEPT ![c] = Became(cm[c], r2, "end", cm[c].row)]
    BY <1>1 DEF Confirm, Became, DataInv, Locals, BatchRecord
<1>3. r2 \in BatchRecord /\ Touches(r, r2)
    BY <1>1 DEF BatchRecord, Touches
<1>4. UNCHANGED <<batches, timecue, importLease, counters>>
    BY DEF Confirm
<1> HIDE DEF r2
<1> QED BY <1>1, <1>2, <1>3, <1>4, EndingWorks

\* What any step does.
LEMMA NextSteps ==
    ASSUME ImportConstants, DataInv, [ImportNext]_importVars
    PROVE  \/ \E b \in Batch : Preview(b)
           \/ \E c \in Committer : Steps(c)
           \/ Aside
<1>1. CASE UNCHANGED importVars
    BY <1>1 DEF importVars, Aside
<1>2. ASSUME NEW c \in Committer, CommitStep(c) \/ CommitterDies(c)
      PROVE  Steps(c)
    <2>1. ASSUME End(c) PROVE Steps(c)
        BY <2>1 DEF Steps
    <2>2. ASSUME \E b \in Batch, live, resume, confirm \in BOOLEAN : Begin(c, b, live, resume, confirm)
          PROVE  Steps(c)
        BY <2>2, BeginStarts
    <2>3. ASSUME Load(c) \/ ManualOnly(c) \/ Skip(c) \/ Blocked(c) \/ NoProfile(c)
          PROVE  Steps(c)
        BY <2>3, LoadLoads, ManualOnlyWorks, SkipWorks, BlockedWorks, NoProfileWorks
    <2>4. ASSUME Create(c) \/ Verify(c) \/ Assign(c) \/ LookupFails(c) \/ CommitterDies(c)
          PROVE  Steps(c)
        BY <2>4, CreateWorks, VerifyWorks, AssignWorks, LookupFailsLeaves, DiesLeaves
    <2>5. ASSUME Save(c) \/ Finish(c) \/ Merge(c) \/ Confirm(c)
          PROVE  Steps(c)
        BY <2>5, SaveSaves, FinishWorks, MergeWorks, ConfirmWorks
    <2> QED BY <1>2, <2>1, <2>2, <2>3, <2>4, <2>5 DEF CommitStep
<1>3. ASSUME NEW m \in Manager, SubmitForm(m) \/ \E e \in Edit, expects \in BOOLEAN : OpenForm(m, e, expects)
      PROVE  Aside
    BY <1>3 DEF SubmitForm, OpenForm, Aside
<1>4. ASSUME LeaseLapses PROVE Aside
    BY <1>4 DEF LeaseLapses, Aside
<1> QED BY <1>1, <1>2, <1>3, <1>4 DEF ImportNext, Proceed

-----------------------------------------------------------------------------
\* Every action of the lease keeps its row's type.
LEMMA TableTypes ==
    ASSUME L!TableTypeOK, NEW c \in Committer,
           \/ L!Acquire(c, "imports:commit") \/ L!Release(c, "imports:commit") \/ L!Abandon(c)
           \/ L!Lapse("imports:commit") \/ UNCHANGED importLease
    PROVE  L!TableTypeOK'
<1> DEFINE Row == [holder : Committer \cup {Free, Orphan}, lapsed : BOOLEAN]
           n == "imports:commit"
<1>1. importLease \in [{n} -> Row]
    BY DEF L!TableTypeOK
<1>2. importLease[n] \in Row
    BY <1>1
<1>3. \A x \in {n} : [importLease[x] EXCEPT !.holder = Orphan] \in Row /\ importLease[x] \in Row
    BY <1>2
<1>4. [importLease[n] EXCEPT !.lapsed = TRUE] \in Row
    BY <1>2
<1>5. L!NoLease \in Row /\ L!HeldBy(c) \in Row
    BY DEF L!NoLease, L!HeldBy
<1> HIDE DEF Row
<1>6. ASSUME L!Acquire(c, n) PROVE importLease' \in [{n} -> Row]
    BY <1>1, <1>5, <1>6 DEF L!Acquire
<1>7. ASSUME L!Release(c, n) PROVE importLease' \in [{n} -> Row]
    BY <1>1, <1>5, <1>7 DEF L!Release
<1>8. ASSUME L!Abandon(c) PROVE importLease' \in [{n} -> Row]
    BY <1>3, <1>8 DEF L!Abandon
<1>9. ASSUME L!Lapse(n) PROVE importLease' \in [{n} -> Row]
    BY <1>1, <1>4, <1>9 DEF L!Lapse
<1>10. importLease' \in [{n} -> Row]
    BY <1>1, <1>6, <1>7, <1>8, <1>9
<1> QED BY <1>10 DEF Row, L!TableTypeOK

\* A step keeps the data if Timecue grows and what is new of records and committers fits.
LEMMA DataKept ==
    ASSUME ImportConstants, DataInv,
           timecue' \in Seq(TimecueRecord), Len(timecue') <= MaxRecords, Grown(timecue, timecue'),
           counters' \in [commits : Nat, faults : Nat, lapsed : BOOLEAN, edits : SUBSET Edit],
           L!TableTypeOK', DOMAIN cm' = Committer,
           batches' \in [Batch -> BatchRecord \cup {NoBatch}],
           \A b \in Batch : batches[b] # NoBatch => batches'[b] # NoBatch,
           \A b \in Batch : batches'[b] = batches[b] \/ SoundRecord(batches'[b], timecue'),
           \A c \in Committer : cm'[c] = cm[c] \/ Fits(cm[c])'
    PROVE  DataInv'
<1>1. Len(timecue) \in Nat /\ Len(timecue') \in Nat
    BY LenProperties DEF DataInv
<1>2. ASSUME NEW b \in Batch, batches'[b] # NoBatch
      PROVE  SoundRecord(batches'[b], timecue')
    <2>1. CASE batches'[b] = batches[b]
        <3>1. batches[b] \in BatchRecord /\ SoundRecord(batches[b], timecue)
            BY <1>2, <2>1 DEF DataInv
        <3> QED BY <1>1, <2>1, <3>1, SoundGrows
    <2> QED BY <2>1
<1>3. ASSUME NEW c \in Committer
      PROVE  Fits(cm[c])'
    <2>1. CASE cm'[c] = cm[c]
        <3>1. Fits(cm[c])
            BY DEF DataInv
        <3>2. cm[c].mem # NoBatch => SoundRecord(cm[c].mem, timecue')
            <4>1. HAVE cm[c].mem # NoBatch
            <4>2. cm[c].mem \in BatchRecord /\ SoundRecord(cm[c].mem, timecue)
                BY <3>1, <4>1 DEF Fits, Locals
            <4> QED BY <1>1, <4>2, SoundGrows
        <3> QED BY <2>1, <3>1, <3>2 DEF Fits
    <2> QED BY <2>1
<1> QED BY <1>2, <1>3 DEF DataInv

\* Nothing was previewed yet.
LEMMA InitDataInv ==
    ASSUME ImportConstants, ImportInit
    PROVE  DataInv
<1>1. timecue \in Seq(TimecueRecord) /\ Len(timecue) <= MaxRecords
    BY EmptySeq DEF ImportInit, ImportConstants
<1>2. counters \in [commits : Nat, faults : Nat, lapsed : BOOLEAN, edits : SUBSET Edit]
    BY DEF ImportInit
<1>3. L!TableTypeOK
    BY DEF ImportInit, L!TableInit, L!TableTypeOK, L!NoLease
<1>4. Idle \in Locals /\ Idle.pc = "idle" /\ Idle.mem = NoBatch
    BY DEF Idle, Locals
<1>5. \A c \in Committer : Fits(cm[c])
    BY <1>4 DEF ImportInit, Fits, Copies
<1> QED BY <1>1, <1>2, <1>3, <1>5 DEF ImportInit, DataInv

\* A new record takes its mappings from sound ones.
LEMMA PreviewDataInv ==
    ASSUME ImportConstants, DataInv, NEW b \in Batch, Preview(b)
    PROVE  DataInv'
<1>1. PICK m \in [Key -> Ids], profiled \in Profiled :
         /\ \A k \in Key : IF Earlier(k) = {} THEN m[k] = 0 ELSE m[k] \in Earlier(k)
         /\ batches' = [batches EXCEPT ![b] =
                          [status |-> "ready", planning |-> "proposed", map |-> m,
                           receipt |-> [k \in Key |-> "none"], profiled |-> profiled,
                           fresh |-> {k \in Key : m[k] = 0}]]
    BY DEF Preview
<1> DEFINE r == [status |-> "ready", planning |-> "proposed", map |-> m,
                 receipt |-> [k \in Key |-> "none"], profiled |-> profiled, fresh |-> {k \in Key : m[k] = 0}]
<1>2. r \in BatchRecord
    BY DEF BatchRecord, ImportConstants, Receipts
<1>3. ASSUME NEW k \in Key, m[k] # 0
      PROVE  MadeFor(m[k], k, timecue)
    <2>1. PICK x \in Batch : batches[x] # NoBatch /\ batches[x].map[k] = m[k]
        BY <1>1, <1>3 DEF Earlier
    <2> QED BY <1>3, <2>1 DEF DataInv, SoundRecord
<1>4. SoundRecord(r, timecue)
    BY <1>3 DEF SoundRecord, Final
<1>5. r # NoBatch
    BY <1>2 DEF ImportConstants
<1>6. batches' = [batches EXCEPT ![b] = r] /\ UNCHANGED <<timecue, importLease, overlay, draft, cm, counters>>
    BY <1>1 DEF Preview
<1> HIDE DEF r
<1>7. Grown(timecue, timecue) /\ L!TableTypeOK'
    BY <1>6, LenProperties DEF Grown, L!TableTypeOK, DataInv
<1> QED BY <1>2, <1>4, <1>5, <1>6, <1>7, DataKept DEF DataInv

\* The steps that leave records alone keep their soundness.
LEMMA AsideDataInv ==
    ASSUME ImportConstants, DataInv, Aside
    PROVE  DataInv'
<1>1. Grown(timecue, timecue)
    BY LenProperties DEF Grown, DataInv
<1>2. counters' \in [commits : Nat, faults : Nat, lapsed : BOOLEAN, edits : SUBSET Edit]
    <2>1. CASE UNCHANGED counters
        BY <2>1 DEF DataInv
    <2>2. CASE LeaseLapses
        <3>1. PICK n : n = [counters EXCEPT !.faults = @ + 1]
            OBVIOUS
        <3>2. n \in [commits : Nat, faults : Nat, lapsed : BOOLEAN, edits : SUBSET Edit]
            BY <3>1 DEF DataInv
        <3>3. counters' = [n EXCEPT !.lapsed = TRUE]
            BY <2>2, <3>1 DEF LeaseLapses, DataInv
        <3> QED BY <3>2, <3>3
    <2>3. CASE \E e \in Edit : counters' = [counters EXCEPT !.edits = @ \cup {e}]
        BY <2>3 DEF DataInv
    <2> QED BY <2>1, <2>2, <2>3 DEF Aside
<1>3. L!TableTypeOK'
    <2>1. CASE UNCHANGED importLease
        BY <2>1 DEF L!TableTypeOK, DataInv
    <2>2. CASE L!Lapse("imports:commit")
        <3>1. [importLease["imports:commit"] EXCEPT !.lapsed = TRUE]
                \in [holder : Committer \cup {Free, Orphan}, lapsed : BOOLEAN]
            BY DEF DataInv, L!TableTypeOK
        <3> QED BY <2>2, <3>1 DEF L!Lapse, L!TableTypeOK, DataInv
    <2> QED BY <2>1, <2>2 DEF Aside, LeaseLapses
<1>4. UNCHANGED <<batches, timecue, cm>>
    BY DEF Aside
<1> QED BY <1>1, <1>2, <1>3, <1>4, DataKept DEF DataInv

\* A committer saves only sound copies, and its work keeps the copy sound.
LEMMA StepsDataInv ==
    ASSUME ImportConstants, DataInv, NEW c \in Committer, Steps(c)
    PROVE  DataInv'
<1>1. timecue \in Seq(TimecueRecord) /\ Len(timecue) <= MaxRecords /\ Grown(timecue, timecue)
    BY LenProperties DEF Grown, DataInv
<1>2. DOMAIN cm = Committer /\ cm[c] \in Locals /\ Fits(cm[c]) /\ Idle.pc = "idle" /\ Idle.mem = NoBatch
    BY DEF DataInv, Fits, Idle
<1>3. Fits(Idle)'
    BY <1>2 DEF Fits, Idle, Locals, Copies
<1>4. CASE Leaves(c)
    <2>1. L!TableTypeOK'
        BY <1>4, TableTypes DEF Leaves, Leaving, DataInv
    <2>2. counters' \in [commits : Nat, faults : Nat, lapsed : BOOLEAN, edits : SUBSET Edit]
        BY <1>4 DEF Leaves, Troubled, DataInv
    <2>3. cm' = [cm EXCEPT ![c] = Idle] /\ UNCHANGED <<batches, timecue>>
        BY <1>4 DEF Leaves
    <2>4. \A d \in Committer : cm'[d] = cm[d] \/ Fits(cm[d])'
        BY <1>2, <1>3, <2>3
    <2> QED BY <1>1, <1>2, <2>1, <2>2, <2>3, <2>4, DataKept DEF DataInv
<1>5. CASE End(c)
    <2>1. L!TableTypeOK'
        BY <1>5, TableTypes DEF End, DataInv
    <2>2. cm' = [cm EXCEPT ![c] = Idle] /\ UNCHANGED <<timecue, counters>>
          /\ batches' = [batches EXCEPT ![cm[c].batch] = cm[c].mem] /\ cm[c].pc \in Copies
        BY <1>5 DEF End, Copies
    <2>3. cm[c].mem \in BatchRecord /\ SoundRecord(cm[c].mem, timecue) /\ cm[c].batch \in Batch /\ cm[c].mem # NoBatch
        BY <2>2, Working DEF ImportConstants
    <2>4. \A d \in Committer : cm'[d] = cm[d] \/ Fits(cm[d])'
        BY <1>2, <1>3, <2>2
    <2> QED BY <1>1, <1>2, <2>1, <2>2, <2>3, <2>4, DataKept DEF DataInv
<1>6. ASSUME NEW m \in Locals, Starts(c, m)
      PROVE  DataInv'
    <2>1. L!TableTypeOK'
        BY <1>6, TableTypes DEF Starts, DataInv
    <2>2. counters' \in [commits : Nat, faults : Nat, lapsed : BOOLEAN, edits : SUBSET Edit]
        BY <1>6 DEF Starts, DataInv
    <2>3. cm' = [cm EXCEPT ![c] = m] /\ UNCHANGED <<batches, timecue>>
        BY <1>6 DEF Starts, Goes
    <2>4. Fits(m)'
        BY <1>6 DEF Starts, Fits, Copies
    <2>5. \A d \in Committer : cm'[d] = cm[d] \/ Fits(cm[d])'
        BY <1>2, <2>3, <2>4
    <2> QED BY <1>1, <1>2, <2>1, <2>2, <2>3, <2>5, DataKept DEF DataInv
<1>7. ASSUME NEW m \in Locals, Loads(c, m)
      PROVE  DataInv'
    <2>1. cm' = [cm EXCEPT ![c] = m] /\ UNCHANGED <<batches, timecue, importLease, counters>>
        BY <1>7 DEF Loads, Goes
    <2>2. L!TableTypeOK'
        BY <2>1, TableTypes DEF DataInv
    <2>3. m.batch \in Batch /\ batches[m.batch] # NoBatch /\ m.mem = batches[m.batch]
        BY <1>2, <1>7 DEF Loads, Fits
    <2>4. SoundRecord(m.mem, timecue)
        BY <2>3 DEF DataInv
    <2>5. Fits(m)'
        BY <1>7, <2>1, <2>3, <2>4 DEF Loads, Fits, Copies
    <2>6. \A d \in Committer : cm'[d] = cm[d] \/ Fits(cm[d])'
        BY <1>2, <2>1, <2>5
    <2> QED BY <1>1, <1>2, <2>1, <2>2, <2>6, DataKept DEF DataInv
<1>8. ASSUME NEW m \in Locals, Saves(c, m)
      PROVE  DataInv'
    <2>1. cm' = [cm EXCEPT ![c] = m] /\ UNCHANGED <<timecue, importLease, counters>>
          /\ batches' = [batches EXCEPT ![cm[c].batch] = cm[c].mem] /\ cm[c].pc \in Copies
        BY <1>8 DEF Saves, Goes, Copies
    <2>2. L!TableTypeOK'
        BY <2>1, TableTypes DEF DataInv
    <2>3. cm[c].mem \in BatchRecord /\ SoundRecord(cm[c].mem, timecue) /\ cm[c].batch \in Batch /\ cm[c].mem # NoBatch
        BY <2>1, Working DEF ImportConstants
    <2>4. Fits(m)'
        BY <1>8, <2>1, <2>3 DEF Saves, Fits, Copies, DataInv
    <2>5. \A d \in Committer : cm'[d] = cm[d] \/ Fits(cm[d])'
        BY <1>2, <2>1, <2>4
    <2> QED BY <1>1, <1>2, <2>1, <2>2, <2>3, <2>5, DataKept DEF DataInv
<1>9. ASSUME NEW m \in Locals, Works(c, m)
      PROVE  DataInv'
    <2>1. cm' = [cm EXCEPT ![c] = m] /\ UNCHANGED <<batches, importLease>> /\ cm[c].pc \in Copies
        BY <1>9 DEF Works, Goes, Copies
    <2>2. L!TableTypeOK'
        BY <2>1, TableTypes DEF DataInv
    <2>3. counters' \in [commits : Nat, faults : Nat, lapsed : BOOLEAN, edits : SUBSET Edit]
        BY <1>9 DEF Works, Troubled, DataInv
    <2>4. timecue' \in Seq(TimecueRecord) /\ Len(timecue') <= MaxRecords /\ Grown(timecue, timecue')
        <3>1. CASE UNCHANGED timecue
            BY <1>1, <3>1
        <3>2. CASE Staffs
            BY <1>1, <3>2, StaffGrows DEF Staffs
        <3>3. CASE Creates(c, m)
            BY <1>1, <3>3, AppendGrows, LenProperties DEF Creates, ImportConstants
        <3> QED BY <1>9, <3>1, <3>2, <3>3 DEF Works, Sends
    <2>5. SoundRecord(m.mem, timecue') /\ m.mem # NoBatch
        <3>1. cm[c].mem \in BatchRecord /\ SoundRecord(cm[c].mem, timecue) /\ Rewrites(cm[c].mem, m)
            BY <1>9, <2>1, Working DEF Works
        <3>2. Len(timecue) \in Nat /\ Len(timecue') \in Nat
            BY <1>1, <2>4, LenProperties
        <3>3. m.mem \in BatchRecord
            BY <3>1 DEF Rewrites
        <3>4. SoundRecord(m.mem, timecue')
            BY <2>4, <3>1, <3>2, <3>3, Refit DEF Rewrites
        <3> QED BY <3>3, <3>4 DEF ImportConstants
    <2>6. Fits(m)'
        BY <1>2, <1>9, <2>1, <2>5 DEF Works, Fits, Copies
    <2>7. \A d \in Committer : cm'[d] = cm[d] \/ Fits(cm[d])'
        BY <1>2, <2>1, <2>6
    <2> QED BY <1>2, <2>1, <2>2, <2>3, <2>4, <2>7, DataKept DEF DataInv
<1> QED BY <1>4, <1>5, <1>6, <1>7, <1>8, <1>9 DEF Steps

\* Every step keeps the data sound.
LEMMA NextDataInv ==
    ASSUME ImportConstants, DataInv, [ImportNext]_importVars
    PROVE  DataInv'
BY NextSteps, PreviewDataInv, AsideDataInv, StepsDataInv

\* The data are sound in every behaviour.
LEMMA DataInvHolds ==
    ASSUME ImportConstants
    PROVE  ImportSpec => []DataInv
<1>1. ImportInit => DataInv
    BY InitDataInv
<1>2. DataInv /\ [ImportNext]_importVars => DataInv'
    BY NextDataInv
<1> QED BY <1>1, <1>2, PTL DEF ImportSpec

\* A saved receipt that says applied or verified names a row of Timecue that was made for
\* it, whatever leases lapsed and committers died (_commit_import_locked).
THEOREM AppliedIsThere ==
    ASSUME ImportConstants
    PROVE  ImportSpec => []ReceiptsAreTrue
<1>1. ASSUME DataInv
      PROVE  ReceiptsAreTrue
    <2> SUFFICES ASSUME NEW b \in Batch, batches[b] # NoBatch, NEW k \in Key, batches[b].receipt[k] \in Final
                 PROVE  Names(batches[b], k)
        BY DEF ReceiptsAreTrue
    <2>1. NamesIn(batches[b], k, timecue)
        BY <1>1 DEF DataInv, SoundRecord
    <2>2. Entity[k] \in {"projects", "tasks", "assignments"}
        BY DEF ImportConstants
    <2> QED BY <2>1, <2>2 DEF NamesIn, Names
<1>2. DataInv => ReceiptsAreTrue
    BY <1>1
<1> QED BY <1>2, DataInvHolds, PTL
-----------------------------------------------------------------------------

\* The Timecue records of a row are finitely many; a worker on a task is no new record, a
\* record appended is one more of its row.
LEMMA MadeFinite ==
    ASSUME DataInv, NEW k \in Key
    PROVE  IsFiniteSet(Made(k)) /\ Made(k) \subseteq 1..Len(timecue) /\ Len(timecue) \in Nat
<1>1. Len(timecue) \in Nat /\ DOMAIN timecue = 1..Len(timecue)
    BY LenProperties DEF DataInv
<1>2. Made(k) \subseteq 1..Len(timecue)
    BY <1>1 DEF Made
<1>3. IsFiniteSet(1..Len(timecue))
    BY <1>1, FS_Interval
<1> QED BY <1>1, <1>2, <1>3, FS_Subset

\* A worker on a task is no new record.
LEMMA MadeKept ==
    ASSUME DataInv, UNCHANGED timecue \/ Staffs, NEW k \in Key
    PROVE  Made(k)' = Made(k)
<1>1. CASE UNCHANGED timecue
    BY <1>1 DEF Made
<1>2. CASE Staffs
    <2>1. PICK i \in 1..Len(timecue) : timecue' = [timecue EXCEPT ![i].staffed = TRUE]
        BY <1>2 DEF Staffs
    <2>2. timecue \in [1..Len(timecue) -> TimecueRecord]
        BY LenProperties DEF DataInv
    <2>3. DOMAIN timecue' = DOMAIN timecue /\ \A j \in DOMAIN timecue : timecue'[j].row = timecue[j].row
        BY <2>1, <2>2 DEF TimecueRecord
    <2> QED BY <2>3 DEF Made
<1> QED BY <1>1, <1>2

\* A record appended is one more of its row.
LEMMA MadeGrows ==
    ASSUME DataInv, NEW e \in TimecueRecord, timecue' = Append(timecue, e), NEW k \in Key
    PROVE  IF e.row = k THEN Cardinality(Made(k)') = Cardinality(Made(k)) + 1 ELSE Made(k)' = Made(k)
<1> DEFINE n == Len(timecue)
<1>1. /\ n \in Nat /\ DOMAIN timecue = 1..n /\ DOMAIN timecue' = 1..(n + 1)
      /\ \A i \in 1..n : timecue'[i] = timecue[i]
      /\ timecue'[n + 1] = e
    BY AppendProperties, LenProperties DEF DataInv
<1> HIDE DEF n
<1>2. 1..(n + 1) = 1..n \cup {n + 1} /\ n + 1 \notin 1..n
    BY <1>1
<1>3. CASE e.row = k
    <2>1. Made(k)' = Made(k) \cup {n + 1} /\ n + 1 \notin Made(k)
        BY <1>1, <1>2, <1>3 DEF Made
    <2> QED BY <1>3, <2>1, MadeFinite, FS_AddElement
<1>4. CASE e.row # k
    BY <1>1, <1>2, <1>4 DEF Made
<1> QED BY <1>3, <1>4

\* A committer that works goes no row back, and one that creates a record has passed its row.
LEMMA WorksGoOn ==
    ASSUME ImportConstants, DataInv, NEW c \in Committer, NEW m \in Locals, NEW k \in Key,
           Loads(c, m) \/ Works(c, m) \/ Saves(c, m)
    PROVE  Ahead(k)' \subseteq Ahead(k)
<1>1. cm' = [cm EXCEPT ![c] = m] /\ DOMAIN cm = Committer /\ cm[c] \in Locals
    BY DEF Loads, Works, Saves, Goes, DataInv, Fits
<1>2. SUFFICES ASSUME m.pc \in {"load", "row", "save"}
               PROVE  cm[c].pc \in {"load", "row", "save"} /\ Later(m) >= Later(cm[c])
    <2>1. ASSUME NEW d \in Ahead(k)' PROVE d \in Ahead(k)
        <3>1. d \in Committer /\ cm'[d].pc \in {"load", "row", "save"}
              /\ \E i \in DOMAIN Order : i >= Later(cm'[d]) /\ Order[i] = k
            BY <2>1 DEF Ahead
        <3>2. CASE d = c
            <4>1. cm'[d] = m
                BY <1>1, <3>2
            <4>2. PICK i \in DOMAIN Order : i >= Later(m) /\ Order[i] = k
                BY <3>1, <4>1
            <4>3. i \in Nat /\ Later(m) \in Nat /\ Later(cm[c]) \in Nat
                BY <1>1, LenProperties DEF ImportConstants, Later, Locals
            <4>4. cm[c].pc \in {"load", "row", "save"} /\ i >= Later(cm[c])
                BY <1>2, <3>1, <4>1, <4>2, <4>3
            <4> QED BY <3>2, <4>2, <4>4 DEF Ahead
        <3>3. CASE d # c
            BY <1>1, <3>1, <3>3 DEF Ahead
        <3> QED BY <3>2, <3>3
    <2> QED BY <2>1
<1>3. CASE Loads(c, m)
    BY <1>1, <1>2, <1>3 DEF Loads, Later, Locals
<1>4. CASE Works(c, m)
    <2>1. cm[c].pc = "row" /\ m.row >= cm[c].row /\ m.row \in Nat /\ cm[c].row \in Nat
        BY <1>1, <1>2, <1>4 DEF Works, Locals
    <2> QED BY <1>2, <2>1 DEF Later
<1>5. CASE Saves(c, m)
    BY <1>1, <1>2, <1>5 DEF Saves, Later, Locals
<1> QED BY <1>3, <1>4, <1>5

\* Who creates a record has passed its row for good, as no key occurs twice.
LEMMA CreatorPasses ==
    ASSUME ImportConstants, DataInv, NEW c \in Committer, NEW m \in Locals, NEW k \in Key,
           Works(c, m), m.row = cm[c].row, Mine(m, k)
    PROVE  c \in Ahead(k) /\ c \notin Ahead(k)'
<1>1. cm' = [cm EXCEPT ![c] = m] /\ DOMAIN cm = Committer /\ cm[c].pc = "row" /\ m.pc = "save"
      /\ m.row \in DOMAIN Order /\ Order[m.row] = k
    BY DEF Works, Goes, DataInv, Mine
<1>2. m.row \in Nat /\ \A i \in DOMAIN Order : i \in Nat
    BY LenProperties DEF Locals, ImportConstants
<1>3. c \in Ahead(k)
    BY <1>1, <1>2 DEF Ahead, Later
<1>4. \A i \in DOMAIN Order : Order[i] = k => i = m.row
    BY <1>1 DEF ImportConstants
<1>5. Later(m) = m.row + 1 /\ cm'[c] = m
    BY <1>1 DEF Later
<1>6. \A i \in DOMAIN Order : Order[i] = k => ~(i >= Later(m))
    BY <1>2, <1>4, <1>5
<1>7. c \notin Ahead(k)'
    BY <1>5, <1>6 DEF Ahead
<1> QED BY <1>3, <1>7

-----------------------------------------------------------------------------
\* The committers that may come to a row are among those at work.
LEMMA AheadFinite ==
    ASSUME DataInv, CommitsInv, NEW k \in Key
    PROVE  IsFiniteSet(Ahead(k)) /\ Cardinality(Ahead(k)) \in Nat /\ Cardinality(Made(k)) \in Nat
<1>1. Ahead(k) \subseteq Busy
    BY DEF Ahead, Busy
<1>2. IsFiniteSet(Ahead(k))
    BY <1>1, FS_Subset DEF CommitsInv
<1> QED BY <1>2, MadeFinite, FS_CardinalityType

\* A step that makes no record and brings no committer before a row, or exchanges the one
\* for the other, keeps the count of the row.
LEMMA CountKept ==
    ASSUME ImportConstants, DataInv, CommitsInv, NEW k \in Key, counters'.commits >= counters.commits, counters'.commits \in Nat,
           \/ Made(k)' = Made(k) /\ Ahead(k)' \subseteq Ahead(k)
           \/ \E c \in Committer : /\ Cardinality(Made(k)') = Cardinality(Made(k)) + 1
                                   /\ Ahead(k)' \subseteq Ahead(k) \ {c} /\ c \in Ahead(k)
           \/ \E c \in Committer : /\ Made(k)' = Made(k) /\ Ahead(k)' \subseteq Ahead(k) \cup {c}
                                   /\ counters'.commits = counters.commits + 1
    PROVE  Cardinality(Made(k)') + Cardinality(Ahead(k)') <= counters'.commits
<1> DEFINE A == Ahead(k)
           B == Ahead(k)'
<1>1. IsFiniteSet(A) /\ Cardinality(A) \in Nat /\ Cardinality(Made(k)) \in Nat /\ counters.commits \in Nat
    BY AheadFinite DEF DataInv
<1>2. Cardinality(Made(k)) + Cardinality(A) <= counters.commits
    BY DEF CommitsInv
<1> HIDE DEF A, B
<1>3. CASE Made(k)' = Made(k) /\ B \subseteq A
    <2>1. Cardinality(B) \in Nat /\ Cardinality(B) <= Cardinality(A)
        BY <1>1, <1>3, FS_Subset, FS_CardinalityType
    <2> QED BY <1>1, <1>2, <1>3, <2>1 DEF A, B
<1>4. ASSUME NEW c \in Committer, Cardinality(Made(k)') = Cardinality(Made(k)) + 1, B \subseteq A \ {c}, c \in A
      PROVE  Cardinality(Made(k)') + Cardinality(B) <= counters'.commits
    <2>1. IsFiniteSet(A \ {c}) /\ Cardinality(A \ {c}) = Cardinality(A) - 1
        BY <1>1, <1>4, FS_RemoveElement
    <2>2. Cardinality(B) \in Nat /\ Cardinality(B) <= Cardinality(A \ {c})
        BY <1>4, <2>1, FS_Subset, FS_CardinalityType
    <2> QED BY <1>1, <1>2, <1>4, <2>1, <2>2
<1>5. ASSUME NEW c \in Committer, Made(k)' = Made(k), B \subseteq A \cup {c}, counters'.commits = counters.commits + 1
      PROVE  Cardinality(Made(k)') + Cardinality(B) <= counters'.commits
    <2>0. /\ IsFiniteSet(A \cup {c})
          /\ Cardinality(A \cup {c}) = IF c \in A THEN Cardinality(A) ELSE Cardinality(A) + 1
        BY <1>1, FS_AddElement
    <2>1. Cardinality(A \cup {c}) \in Nat /\ Cardinality(A \cup {c}) <= Cardinality(A) + 1
        BY <1>1, <2>0
    <2>2. Cardinality(B) \in Nat /\ Cardinality(B) <= Cardinality(A \cup {c})
        BY <1>5, <2>0, FS_Subset, FS_CardinalityType
    <2> QED BY <1>1, <1>2, <1>5, <2>1, <2>2
<1> QED BY <1>3, <1>4, <1>5 DEF A, B

\* No step but the start of a commit gives a committer work, and only a preview makes a batch.
LEMMA FewAtWork ==
    ASSUME ImportConstants, DataInv, CommitsInv, [ImportNext]_importVars
    PROVE  IsFiniteSet(Busy') /\ IsFiniteSet(Uploads')
<1>1. DOMAIN cm = Committer /\ Idle.pc = "idle" /\ IsFiniteSet(Busy) /\ IsFiniteSet(Uploads)
      /\ batches \in [Batch -> BatchRecord \cup {NoBatch}] /\ NoBatch \notin BatchRecord
    BY DEF DataInv, CommitsInv, Idle, ImportConstants
<1>2. (\E c \in Committer : Busy' \subseteq Busy \cup {c}) \/ Busy' \subseteq Busy
    <2>1. ASSUME NEW c \in Committer, Steps(c)
          PROVE  Busy' \subseteq Busy \cup {c}
        <3>1. \A d \in Committer : d # c => cm'[d] = cm[d]
            BY <1>1, <2>1 DEF Steps, Leaves, End, Starts, Loads, Works, Saves, Goes
        <3> QED BY <3>1 DEF Busy
    <2>2. ASSUME UNCHANGED cm
          PROVE  Busy' \subseteq Busy
        BY <2>2 DEF Busy
    <2> QED BY <2>1, <2>2, NextSteps DEF Preview, Aside
<1>3. (\E b \in Batch : Uploads' \subseteq Uploads \cup {b}) \/ Uploads' \subseteq Uploads
    <2>1. ASSUME NEW b \in Batch, \A x \in Batch : x # b => batches'[x] = batches[x]
          PROVE  Uploads' \subseteq Uploads \cup {b}
        BY <2>1 DEF Uploads
    <2>2. ASSUME UNCHANGED batches
          PROVE  Uploads' \subseteq Uploads
        BY <2>2 DEF Uploads
    <2>3. ASSUME NEW b \in Batch, Preview(b)
          PROVE  \A x \in Batch : x # b => batches'[x] = batches[x]
        BY <1>1, <2>3 DEF Preview
    <2>4. ASSUME NEW c \in Committer, Steps(c)
          PROVE  UNCHANGED batches \/ \E b \in Batch : \A x \in Batch : x # b => batches'[x] = batches[x]
        <3>1. CASE End(c)
            <4>1. cm[c].batch \in Batch
                BY <3>1, Working DEF End, Copies
            <4> QED BY <1>1, <3>1, <4>1 DEF End
        <3>2. ASSUME NEW m \in Locals, Saves(c, m)
              PROVE  \E b \in Batch : \A x \in Batch : x # b => batches'[x] = batches[x]
            <4>1. cm[c].batch \in Batch
                BY <3>2, Working DEF Saves, Copies
            <4> QED BY <1>1, <3>2, <4>1 DEF Saves
        <3> QED BY <2>4, <3>1, <3>2 DEF Steps, Leaves, Starts, Loads, Works
    <2> QED BY <2>1, <2>2, <2>3, <2>4, NextSteps DEF Aside
<1>4. IsFiniteSet(Busy')
    BY <1>1, <1>2, FS_AddElement, FS_Subset
<1>5. IsFiniteSet(Uploads')
    BY <1>1, <1>3, FS_AddElement, FS_Subset
<1> QED BY <1>4, <1>5

\* No commit, no record.
LEMMA InitCommitsInv ==
    ASSUME ImportConstants, ImportInit
    PROVE  CommitsInv
<1>1. Busy = {} /\ Uploads = {} /\ Idle.pc = "idle"
    BY DEF ImportInit, Busy, Uploads, Idle
<1>2. ASSUME NEW k \in Key
      PROVE  Made(k) = {} /\ Ahead(k) = {}
    BY EmptySeq DEF ImportInit, Made, Ahead, Idle
<1>3. IsFiniteSet({}) /\ Cardinality({}) = 0 /\ counters.commits = 0
    BY FS_EmptySet DEF ImportInit
<1> QED BY <1>1, <1>2, <1>3 DEF CommitsInv

\* Each commit brings one committer before a row, who makes at most one record of it.
LEMMA NextCommitsInv ==
    ASSUME ImportConstants, DataInv, CommitsInv, [ImportNext]_importVars
    PROVE  CommitsInv'
<1>1. DOMAIN cm = Committer /\ Idle.pc = "idle" /\ counters.commits \in Nat /\ counters'.commits \in Nat
    BY NextDataInv DEF DataInv, Idle
<1>2. ASSUME NEW k \in Key
      PROVE  Cardinality(Made(k)') + Cardinality(Ahead(k)') <= counters'.commits
    <2>1. ASSUME UNCHANGED <<timecue, cm>>, counters'.commits = counters.commits
          PROVE  Cardinality(Made(k)') + Cardinality(Ahead(k)') <= counters'.commits
        <3>1. Made(k)' = Made(k) /\ Ahead(k)' \subseteq Ahead(k)
            BY <2>1 DEF Made, Ahead
        <3> QED BY <1>1, <2>1, <3>1, CountKept
    <2>2. ASSUME NEW b \in Batch, Preview(b)
          PROVE  UNCHANGED <<timecue, cm>> /\ counters'.commits = counters.commits
        BY <2>2 DEF Preview
    <2>3. ASSUME Aside
          PROVE  UNCHANGED <<timecue, cm>> /\ counters'.commits = counters.commits
        BY <2>3 DEF Aside, LeaseLapses, DataInv
    <2>4. ASSUME NEW c \in Committer, Steps(c)
          PROVE  Cardinality(Made(k)') + Cardinality(Ahead(k)') <= counters'.commits
        <3>1. CASE Leaves(c) \/ End(c)
            <4>1. cm' = [cm EXCEPT ![c] = Idle] /\ UNCHANGED timecue /\ counters'.commits = counters.commits
                BY <3>1 DEF Leaves, End, Troubled, DataInv
            <4>2. Ahead(k)' \subseteq Ahead(k)
                BY <1>1, <4>1 DEF Ahead
            <4>3. Made(k)' = Made(k)
                BY <4>1, MadeKept
            <4> QED BY <1>1, <4>1, <4>2, <4>3, CountKept
        <3>2. ASSUME NEW m \in Locals, Starts(c, m)
              PROVE  Cardinality(Made(k)') + Cardinality(Ahead(k)') <= counters'.commits
            <4>1. cm' = [cm EXCEPT ![c] = m] /\ UNCHANGED timecue /\ counters'.commits = counters.commits + 1
                BY <3>2 DEF Starts, Goes, DataInv
            <4>2. Ahead(k)' \subseteq Ahead(k) \cup {c}
                BY <1>1, <4>1 DEF Ahead
            <4>3. Made(k)' = Made(k)
                BY <4>1, MadeKept
            <4> QED BY <1>1, <4>1, <4>2, <4>3, CountKept
        <3>3. ASSUME NEW m \in Locals, Loads(c, m) \/ Saves(c, m)
              PROVE  Cardinality(Made(k)') + Cardinality(Ahead(k)') <= counters'.commits
            <4>1. UNCHANGED timecue /\ counters'.commits = counters.commits
                BY <3>3 DEF Loads, Saves
            <4>2. Made(k)' = Made(k)
                BY <4>1, MadeKept
            <4>3. Ahead(k)' \subseteq Ahead(k)
                BY <3>3, WorksGoOn
            <4> QED BY <1>1, <4>1, <4>2, <4>3, CountKept
        <3>4. ASSUME NEW m \in Locals, Works(c, m)
              PROVE  Cardinality(Made(k)') + Cardinality(Ahead(k)') <= counters'.commits
            <4>1. counters'.commits = counters.commits
                BY <3>4 DEF Works, Troubled, DataInv
            <4>2. Ahead(k)' \subseteq Ahead(k)
                BY <3>4, WorksGoOn
            <4>3. CASE Made(k)' = Made(k)
                BY <1>1, <4>1, <4>2, <4>3, CountKept
            <4>4. CASE UNCHANGED timecue \/ Staffs
                BY <4>3, <4>4, MadeKept
            <4>5. CASE Creates(c, m)
                <5>1. PICK e \in TimecueRecord : /\ timecue' = Append(timecue, e)
                                                 /\ m.row = cm[c].row /\ Mine(m, e.row)
                    BY <4>5 DEF Creates
                <5>2. CASE e.row = k
                    <6>1. c \in Ahead(k) /\ c \notin Ahead(k)'
                        BY <3>4, <5>1, <5>2, CreatorPasses
                    <6>2. Cardinality(Made(k)') = Cardinality(Made(k)) + 1
                        BY <5>1, <5>2, MadeGrows
                    <6>3. Ahead(k)' \subseteq Ahead(k) \ {c}
                        BY <4>2, <6>1
                    <6> QED BY <1>1, <4>1, <6>1, <6>2, <6>3, CountKept
                <5>3. CASE e.row # k
                    <6>1. Made(k)' = Made(k)
                        BY <5>1, <5>3, MadeGrows
                    <6> QED BY <4>3, <6>1
                <5> QED BY <5>2, <5>3
            <4> QED BY <3>4, <4>4, <4>5 DEF Works, Sends
        <3> QED BY <2>4, <3>1, <3>2, <3>3, <3>4 DEF Steps
    <2> QED BY <2>1, <2>2, <2>3, <2>4, NextSteps
<1> QED BY <1>2, FewAtWork DEF CommitsInv

-----------------------------------------------------------------------------
\* Who is at work alone holds the lease, and nobody else has a copy.
LEMMA OneAtWork ==
    ASSUME DataInv, Alone, NEW c \in Committer, cm[c].pc # "idle", NEW d \in Committer, d # c
    PROVE  cm[d].pc = "idle" /\ cm[d].mem = NoBatch
BY DEF Alone, L!Holds, DataInv, Fits, Copies

\* Once a lease ran out, that stays known.
LEMMA LapsedStays ==
    ASSUME ImportConstants, DataInv, [ImportNext]_importVars, ~counters'.lapsed
    PROVE  ~counters.lapsed /\ counters'.faults \in Nat /\ counters.faults \in Nat
           /\ counters'.faults >= counters.faults
<1>1. counters.faults \in Nat /\ counters'.faults \in Nat
    BY NextDataInv DEF DataInv
<1>2. ASSUME UNCHANGED counters
      PROVE  counters'.lapsed = counters.lapsed /\ counters'.faults >= counters.faults
    BY <1>1, <1>2
<1>3. ASSUME NEW c \in Committer, Steps(c)
      PROVE  counters'.lapsed = counters.lapsed /\ counters'.faults >= counters.faults
    <2>1. UNCHANGED counters \/ Troubled \/ counters' = [counters EXCEPT !.commits = @ + 1]
        BY <1>3 DEF Steps, Leaves, End, Starts, Loads, Works, Saves
    <2>2. ASSUME Troubled \/ counters' = [counters EXCEPT !.commits = @ + 1]
          PROVE  counters'.lapsed = counters.lapsed /\ counters'.faults >= counters.faults
        BY <1>1, <2>2 DEF Troubled, DataInv
    <2> QED BY <1>2, <2>1, <2>2
<1>4. ASSUME Aside
      PROVE  counters'.lapsed = counters.lapsed /\ counters'.faults >= counters.faults
    <2>1. ~LeaseLapses
        BY DEF LeaseLapses, DataInv
    <2>2. UNCHANGED counters \/ \E e \in Edit : counters' = [counters EXCEPT !.edits = @ \cup {e}]
        BY <1>4, <2>1 DEF Aside
    <2> QED BY <1>1, <2>2 DEF DataInv
<1> QED BY <1>1, <1>2, <1>3, <1>4, NextSteps DEF Preview

\* Who takes the lease finds it free, and so nobody at work.
LEMMA AloneKept ==
    ASSUME ImportConstants, DataInv, Alone, [ImportNext]_importVars, ~counters'.lapsed
    PROVE  Alone'
<1> DEFINE n == "imports:commit"
<1>1. DOMAIN cm = Committer /\ Idle.pc = "idle" /\ n \in DOMAIN importLease
      /\ importLease \in [{n} -> [holder : Committer \cup {Free, Orphan}, lapsed : BOOLEAN]]
    BY DEF DataInv, Idle, L!TableTypeOK
<1>2. ASSUME UNCHANGED <<importLease, cm>> PROVE Alone'
    BY <1>2 DEF Alone, L!Holds
<1>3. ASSUME Aside PROVE Alone'
    BY <1>2, <1>3 DEF Aside, LeaseLapses, DataInv
<1>4. ASSUME NEW c \in Committer, Steps(c)
      PROVE  Alone'
    <2>1. \A d \in Committer : d # c => cm'[d] = cm[d]
        BY <1>1, <1>4 DEF Steps, Leaves, End, Starts, Loads, Works, Saves, Goes
    <2>2. CASE Leaves(c) \/ End(c)
        <3>1. cm[c].pc # "idle" /\ cm' = [cm EXCEPT ![c] = Idle] /\ (L!Release(c, n) \/ L!Abandon(c))
            BY <2>2 DEF Leaves, Leaving, End
        <3>2. \A d \in Committer : cm'[d].pc = "idle"
            BY <1>1, <2>1, <3>1, OneAtWork
        <3>3. ~importLease'[n].lapsed
            BY <1>1, <3>1 DEF Alone, L!Release, L!Abandon, L!NoLease, L!Holds
        <3> QED BY <3>2, <3>3 DEF Alone
    <2>3. ASSUME NEW m \in Locals, Starts(c, m)
          PROVE  Alone'
        <3>1. cm' = [cm EXCEPT ![c] = m] /\ L!Acquire(c, n)
            BY <2>3 DEF Starts, Goes
        <3>2. importLease[n].holder = Free
            BY <3>1 DEF L!Acquire, L!CanAcquire, Alone
        <3>3. \A d \in Committer : cm[d].pc = "idle"
            BY <3>2 DEF Alone, L!Holds, ImportConstants
        <3>4. importLease'[n] = L!HeldBy(c)
            BY <1>1, <3>1 DEF L!Acquire
        <3> QED BY <2>1, <3>3, <3>4 DEF Alone, L!Holds, L!HeldBy
    <2>4. ASSUME NEW m \in Locals, Loads(c, m) \/ Works(c, m) \/ Saves(c, m)
          PROVE  Alone'
        <3>1. cm[c].pc # "idle" /\ UNCHANGED importLease
            BY <2>4 DEF Loads, Works, Saves
        <3> QED BY <2>1, <3>1 DEF Alone, L!Holds
    <2> QED BY <1>4, <2>2, <2>3, <2>4 DEF Steps
<1> QED BY <1>2, <1>3, <1>4, NextSteps DEF Preview

\* A copy that was read just now says what the record says; a copy that was saved too.
LEMMA CopyFollows ==
    ASSUME NEW m, NEW r, m.mem = r
    PROVE  Follows(m, r)
BY DEF Follows

\* Work on a copy loses nothing and finishes nothing but the row that is saved next.
LEMMA WorkFollows ==
    ASSUME NEW l, NEW m, NEW r, Follows(l, r), l.pc # "save", Rewrites(l.mem, m)
    PROVE  Follows(m, r)
BY DEF Follows, Rewrites, Mine

\* The copy of the one committer at work keeps up with the record.
LEMMA FollowsKept ==
    ASSUME ImportConstants, DataInv, Alone, [ImportNext]_importVars,
           \A c \in Committer : cm[c].mem # NoBatch => Follows(cm[c], batches[cm[c].batch]),
           NEW d \in Committer, cm'[d].mem # NoBatch
    PROVE  Follows(cm'[d], batches'[cm'[d].batch])
<1>1. DOMAIN cm = Committer /\ DOMAIN batches = Batch /\ Idle.mem = NoBatch
      /\ \A c \in Committer : cm[c].mem # NoBatch => cm[c].batch \in Batch /\ batches[cm[c].batch] # NoBatch
    BY DEF DataInv, Idle, Fits, Copies
<1>2. ASSUME cm'[d] = cm[d], batches'[cm[d].batch] = batches[cm[d].batch]
      PROVE  Follows(cm'[d], batches'[cm'[d].batch])
    BY <1>2
<1>3. ASSUME NEW b \in Batch, Preview(b)
      PROVE  cm'[d] = cm[d] /\ batches'[cm[d].batch] = batches[cm[d].batch]
    BY <1>1, <1>3 DEF Preview
<1>4. ASSUME NEW c \in Committer, Steps(c)
      PROVE  Follows(cm'[d], batches'[cm'[d].batch])
    <2>1. ASSUME c # d
          PROVE  FALSE
        <3>1. cm'[d] = cm[d]
            BY <1>1, <1>4, <2>1 DEF Steps, Leaves, End, Starts, Loads, Works, Saves, Goes
        <3>2. cm[c].pc = "idle"
            BY <2>1, <3>1, OneAtWork DEF DataInv, Fits, Copies
        <3>3. PICK m \in Locals : Starts(c, m)
            BY <1>4, <3>2 DEF Steps, Leaves, End, Loads, Works, Saves
        <3>4. importLease["imports:commit"].holder = Free /\ importLease["imports:commit"].holder = d
            BY <3>1, <3>3 DEF Starts, L!Acquire, L!CanAcquire, Alone, L!Holds, DataInv, Fits, Copies
        <3> QED BY <3>4 DEF ImportConstants
    <2>2. ASSUME NEW m \in Locals, Loads(d, m)
          PROVE  Follows(cm'[d], batches'[cm'[d].batch])
        <3>1. cm'[d] = m /\ m.mem = batches'[m.batch]
            BY <1>1, <2>2 DEF Loads, Goes
        <3> QED BY <3>1, CopyFollows
    <2>3. ASSUME NEW m \in Locals, Saves(d, m)
          PROVE  Follows(cm'[d], batches'[cm'[d].batch])
        <3>1. cm[d].batch \in Batch
            BY <2>3, Working DEF Saves, Copies
        <3>2. cm'[d] = m /\ m.mem = batches'[m.batch]
            BY <1>1, <2>3, <3>1 DEF Saves, Goes
        <3> QED BY <3>2, CopyFollows
    <2>4. ASSUME NEW m \in Locals, Works(d, m)
          PROVE  Follows(cm'[d], batches'[cm'[d].batch])
        <3>1. cm'[d] = m /\ m.batch = cm[d].batch /\ UNCHANGED batches /\ cm[d].pc \in Copies /\ cm[d].pc # "save"
              /\ Rewrites(cm[d].mem, m)
            BY <1>1, <2>4 DEF Works, Goes, Copies
        <3>2. cm[d].mem # NoBatch
            BY <3>1 DEF DataInv, Fits
        <3> QED BY <3>1, <3>2, WorkFollows
    <2>5. ASSUME Leaves(d) \/ End(d) \/ \E m \in Locals : Starts(d, m)
          PROVE  FALSE
        BY <1>1, <2>5 DEF Leaves, End, Starts, Goes
    <2> QED BY <1>4, <2>1, <2>2, <2>3, <2>4, <2>5 DEF Steps
<1> QED BY <1>2, <1>3, <1>4, NextSteps DEF Aside

\* Nobody is at work yet.
LEMMA InitLeaseInv ==
    ASSUME ImportConstants, ImportInit
    PROVE  LeaseInv
BY DEF ImportInit, LeaseInv, Alone, Idle, L!TableInit, L!NoLease

\* Until a lease runs out, one committer works on a copy that follows the record.
LEMMA NextLeaseInv ==
    ASSUME ImportConstants, DataInv, LeaseInv, [ImportNext]_importVars
    PROVE  LeaseInv'
<1> SUFFICES ASSUME ~counters'.lapsed
             PROVE  Alone' /\ \A c \in Committer : cm'[c].mem # NoBatch => Follows(cm'[c], batches'[cm'[c].batch])
    BY DEF LeaseInv, Follows
<1>1. Alone /\ \A c \in Committer : cm[c].mem # NoBatch => Follows(cm[c], batches[cm[c].batch])
    BY LapsedStays DEF LeaseInv
<1> QED BY <1>1, AloneKept, FollowsKept

-----------------------------------------------------------------------------
\* What a record or the copy of its committer knows of a row is not forgotten, unless the
\* committer with that copy leaves.
LEMMA GotKept ==
    ASSUME ImportConstants, DataInv, LeaseInv, [ImportNext]_importVars, ~counters'.lapsed, NEW k \in Key
    PROVE  \/ Got(k) \subseteq Got(k)'
           \/ counters'.faults = counters.faults + 1 /\ UNCHANGED timecue /\ \E b \in Batch : Got(k) \ {b} \subseteq Got(k)'
<1>1. /\ DOMAIN cm = Committer /\ DOMAIN batches = Batch /\ Idle.mem = NoBatch
      /\ Alone /\ \A c \in Committer : cm[c].mem # NoBatch => Follows(cm[c], batches[cm[c].batch])
    BY LapsedStays DEF DataInv, Idle, LeaseInv
<1>2. ASSUME NEW b \in Batch, Preview(b)
      PROVE  Got(k) \subseteq Got(k)'
    BY <1>1, <1>2 DEF Preview, Got, Fresh
<1>3. ASSUME UNCHANGED <<batches, cm>>
      PROVE  Got(k) \subseteq Got(k)'
    BY <1>3 DEF Got, Fresh
<1>4. ASSUME NEW c \in Committer, Steps(c)
      PROVE  \/ Got(k) \subseteq Got(k)'
             \/ counters'.faults = counters.faults + 1 /\ UNCHANGED timecue /\ \E b \in Batch : Got(k) \ {b} \subseteq Got(k)'
    <2>1. \A d \in Committer : d # c => cm'[d] = cm[d]
        BY <1>1, <1>4 DEF Steps, Leaves, End, Starts, Loads, Works, Saves, Goes
    <2>2. ASSUME UNCHANGED batches, cm[c].mem = NoBatch
          PROVE  Got(k) \subseteq Got(k)'
        BY <2>1, <2>2 DEF Got, Fresh
    <2>3. ASSUME cm[c].pc \in Copies, batches' = [batches EXCEPT ![cm[c].batch] = cm[c].mem]
          PROVE  Got(k) \subseteq Got(k)'
        <3>1. cm[c].mem # NoBatch /\ cm[c].batch \in Batch /\ batches[cm[c].batch] # NoBatch /\ cm[c].pc # "idle"
            BY <2>3 DEF DataInv, Fits, Copies
        <3>2. /\ cm[c].mem.fresh = batches[cm[c].batch].fresh
              /\ batches[cm[c].batch].map[k] # 0 => cm[c].mem.map[k] = batches[cm[c].batch].map[k]
            BY <1>1, <3>1 DEF Follows
        <3>3. \A d \in Committer : d # c => cm[d].mem = NoBatch
            BY <1>1, <3>1, OneAtWork
        <3>4. ASSUME NEW b \in Got(k) PROVE b \in Got(k)'
            <4>1. CASE b = cm[c].batch
                <5>1. cm[c].mem.map[k] # 0 /\ k \in cm[c].mem.fresh /\ batches'[b] = cm[c].mem
                    BY <1>1, <2>3, <3>1, <3>2, <3>3, <4>1 DEF Got, Fresh
                <5> QED BY <3>1, <4>1, <5>1 DEF Got, Fresh
            <4>2. CASE b # cm[c].batch
                <5>1. batches'[b] = batches[b] /\ batches[b].map[k] # 0 /\ b \in Fresh(k)
                    BY <1>1, <2>3, <3>3, <4>2 DEF Got, Fresh
                <5> QED BY <5>1 DEF Got, Fresh
            <4> QED BY <4>1, <4>2
        <3> QED BY <3>4
    <2>4. ASSUME Leaves(c), Troubled
          PROVE  counters'.faults = counters.faults + 1 /\ UNCHANGED timecue /\ \E b \in Batch : Got(k) \ {b} \subseteq Got(k)'
        <3>1. cm[c].batch \in Batch /\ UNCHANGED <<batches, timecue>> /\ counters'.faults = counters.faults + 1
            BY <2>4 DEF Leaves, Troubled, DataInv, Fits
        <3>2. Got(k) \ {cm[c].batch} \subseteq Got(k)'
            BY <2>1, <3>1 DEF Got, Fresh
        <3> QED BY <3>1, <3>2
    <2>5. ASSUME Leaves(c), ~Troubled
          PROVE  Got(k) \subseteq Got(k)'
        BY <2>2, <2>5 DEF Leaves
    <2>6. ASSUME NEW m \in Locals, Starts(c, m) \/ Loads(c, m)
          PROVE  Got(k) \subseteq Got(k)'
        <3>1. cm[c].mem = NoBatch /\ UNCHANGED batches
            BY <2>6 DEF Starts, Loads, DataInv, Fits, Copies
        <3> QED BY <2>2, <3>1
    <2>7. ASSUME NEW m \in Locals, Works(c, m)
          PROVE  Got(k) \subseteq Got(k)'
        <3>1. cm'[c] = m /\ m.batch = cm[c].batch /\ UNCHANGED batches /\ m.mem # NoBatch
              /\ (cm[c].mem.map[k] # 0 => m.mem.map[k] = cm[c].mem.map[k])
            BY <1>1, <2>7 DEF Works, Goes, Rewrites, ImportConstants
        <3>2. ASSUME NEW b \in Got(k) PROVE b \in Got(k)'
            <4>1. b \in Fresh(k)' /\ UNCHANGED batches
                BY <3>1 DEF Got, Fresh
            <4>2. CASE batches[b].map[k] # 0
                BY <4>1, <4>2 DEF Got
            <4>3. ASSUME NEW d \in Committer, cm[d].batch = b, cm[d].mem # NoBatch, cm[d].mem.map[k] # 0
                  PROVE  b \in Got(k)'
                <5>1. cm'[d].batch = b /\ cm'[d].mem # NoBatch /\ cm'[d].mem.map[k] # 0
                    BY <2>1, <3>1, <4>3
                <5> QED BY <4>1, <5>1 DEF Got
            <4> QED BY <4>2, <4>3 DEF Got
        <3> QED BY <3>2
    <2>8. ASSUME End(c) \/ \E m \in Locals : Saves(c, m)
          PROVE  Got(k) \subseteq Got(k)'
        BY <2>3, <2>8 DEF End, Saves, Copies
    <2> QED BY <1>4, <2>4, <2>5, <2>6, <2>7, <2>8 DEF Steps
<1> QED BY <1>2, <1>3, <1>4, NextSteps DEF Aside

\* Who creates a record and comes to know it, makes its batch one that got the row.
LEMMA CreatorGets ==
    ASSUME ImportConstants, DataInv, LeaseInv, ~counters.lapsed,
           NEW c \in Committer, NEW m \in Locals, NEW k \in Key, Works(c, m),
           cm[c].mem.map[k] = 0, m.mem.map[k] # 0
    PROVE  cm[c].batch \in Got(k)' /\ cm[c].batch \notin Got(k)
<1>1. cm[c].pc \in Copies /\ cm[c].pc # "idle" /\ cm'[c] = m /\ m.batch = cm[c].batch /\ UNCHANGED batches
      /\ m.mem # NoBatch /\ m.mem.fresh = cm[c].mem.fresh
    BY DEF Works, Goes, Copies, DataInv, Rewrites, ImportConstants
<1>2. cm[c].mem # NoBatch /\ cm[c].batch \in Batch /\ batches[cm[c].batch] # NoBatch /\ SoundRecord(cm[c].mem, timecue)
    BY <1>1 DEF DataInv, Fits
<1>3. Alone /\ Follows(cm[c], batches[cm[c].batch])
    BY <1>2 DEF LeaseInv
<1>4. k \in batches[cm[c].batch].fresh /\ batches[cm[c].batch].map[k] = 0
    BY <1>2, <1>3 DEF SoundRecord, Follows
<1>5. \A d \in Committer : d # c => cm[d].mem = NoBatch
    BY <1>1, <1>3, OneAtWork
<1>6. cm[c].batch \notin Got(k)
    BY <1>4, <1>5 DEF Got
<1>7. cm[c].batch \in Got(k)'
    BY <1>1, <1>2, <1>4 DEF Got, Fresh
<1> QED BY <1>6, <1>7

\* The batches that got a row are among those that lacked it.
LEMMA GotFinite ==
    ASSUME CommitsInv, NEW k \in Key
    PROVE  IsFiniteSet(Got(k)) /\ Cardinality(Got(k)) \in Nat
           /\ IsFiniteSet(Fresh(k)) /\ Cardinality(Fresh(k)) \in Nat
           /\ Cardinality(Got(k)) <= Cardinality(Fresh(k))
<1>1. Fresh(k) \subseteq Uploads /\ Got(k) \subseteq Fresh(k)
    BY DEF Fresh, Uploads, Got
<1>2. IsFiniteSet(Fresh(k))
    BY <1>1, FS_Subset DEF CommitsInv
<1> QED BY <1>1, <1>2, FS_Subset, FS_CardinalityType

\* Every record made is one that its batch got, or one that a fault cost.
LEMMA InitCountInv ==
    ASSUME ImportConstants, ImportInit
    PROVE  CountInv
<1>1. ASSUME NEW k \in Key PROVE Cardinality(Made(k)) = 0 /\ Got(k) = {} /\ counters.faults = 0
    <2>1. Made(k) = {} /\ Got(k) = {}
        BY DEF ImportInit, Made, Got, Fresh
    <2> QED BY <2>1, FS_EmptySet DEF ImportInit
<1> QED BY <1>1, FS_EmptySet DEF CountInv

\* A step that makes a record gives its batch the row, or costs a fault.
LEMMA NextCountInv ==
    ASSUME ImportConstants, DataInv, CommitsInv, LeaseInv, CountInv, [ImportNext]_importVars
    PROVE  CountInv'
<1> SUFFICES ASSUME ~counters'.lapsed, NEW k \in Key
             PROVE  Cardinality(Made(k)') <= Cardinality(Got(k)') + counters'.faults
    BY DEF CountInv
<1> DEFINE G == Got(k)
           H == Got(k)'
           f == counters.faults
           g == counters'.faults
<1>1. ~counters.lapsed /\ f \in Nat /\ g \in Nat /\ g >= f
    BY LapsedStays
<1>2. IsFiniteSet(G) /\ Cardinality(G) \in Nat
    BY GotFinite
<1>3. IsFiniteSet(H) /\ Cardinality(H) \in Nat
    <2>1. H \subseteq Uploads'
        BY DEF Got, Fresh, Uploads
    <2> QED BY <2>1, FewAtWork, FS_Subset, FS_CardinalityType
<1>4. Cardinality(Made(k)) <= Cardinality(G) + f
    BY <1>1 DEF CountInv
<1>5. Cardinality(Made(k)) \in Nat
    BY MadeFinite, FS_CardinalityType
<1>6. G \subseteq H \/ (g = f + 1 /\ UNCHANGED timecue /\ \E b \in Batch : G \ {b} \subseteq H)
    BY GotKept
<1>7. /\ \/ Made(k)' = Made(k)
         \/ \E c \in Committer, m \in Locals : Works(c, m) /\ Creates(c, m)
    <2>1. ASSUME UNCHANGED timecue \/ Staffs PROVE Made(k)' = Made(k)
        BY <2>1, MadeKept
    <2> QED BY <2>1, NextSteps DEF Preview, Aside, Steps, Leaves, End, Starts, Loads, Works, Saves, Sends
<1>8. ASSUME NEW c \in Committer, NEW m \in Locals, Works(c, m), Creates(c, m)
      PROVE  \/ Made(k)' = Made(k)
             \/ /\ Cardinality(Made(k)') = Cardinality(Made(k)) + 1
                /\ g = f + 1 \/ \E b : b \in H /\ b \notin G
    <2>1. PICK e \in TimecueRecord : /\ timecue' = Append(timecue, e)
                                     /\ cm[c].mem.map[e.row] = 0
                                     /\ m.mem.map[e.row] # 0 \/ Troubled
        BY <1>8 DEF Creates
    <2>2. CASE e.row # k
        BY <2>1, <2>2, MadeGrows
    <2>3. CASE e.row = k
        <3>1. Cardinality(Made(k)') = Cardinality(Made(k)) + 1
            BY <2>1, <2>3, MadeGrows
        <3>2. CASE Troubled
            BY <3>1, <3>2 DEF Troubled, DataInv
        <3>3. CASE m.mem.map[k] # 0
            <4>1. cm[c].batch \in H /\ cm[c].batch \notin G
                BY <1>1, <1>8, <2>1, <2>3, <3>3, CreatorGets
            <4> QED BY <3>1, <4>1
        <3> QED BY <2>1, <2>3, <3>2, <3>3
    <2> QED BY <2>2, <2>3
<1> HIDE DEF G, H, f, g
<1>9. CASE G \subseteq H
    <2>1. Cardinality(G) <= Cardinality(H)
        BY <1>3, <1>9, FS_Subset
    <2>2. CASE Made(k)' = Made(k)
        BY <1>1, <1>2, <1>3, <1>4, <1>5, <2>1, <2>2 DEF H, g
    <2>3. ASSUME Cardinality(Made(k)') = Cardinality(Made(k)) + 1, g = f + 1
          PROVE  Cardinality(Made(k)') <= Cardinality(H) + g
        BY <1>1, <1>2, <1>3, <1>4, <1>5, <2>1, <2>3
    <2>4. ASSUME Cardinality(Made(k)') = Cardinality(Made(k)) + 1, NEW b \in H, b \notin G
          PROVE  Cardinality(Made(k)') <= Cardinality(H) + g
        <3>1. Cardinality(G \cup {b}) = Cardinality(G) + 1
            BY <1>2, <2>4, FS_AddElement
        <3>2. Cardinality(G \cup {b}) <= Cardinality(H)
            BY <1>3, <1>9, <2>4, FS_Subset
        <3> QED BY <1>1, <1>2, <1>3, <1>4, <1>5, <2>4, <3>1, <3>2
    <2> QED BY <1>7, <1>8, <2>2, <2>3, <2>4 DEF H, g
<1>10. ASSUME g = f + 1, UNCHANGED timecue, NEW b \in Batch, G \ {b} \subseteq H
       PROVE  Cardinality(Made(k)') <= Cardinality(H) + g
    <2>1. Made(k)' = Made(k)
        BY <1>10, MadeKept
    <2>2. /\ IsFiniteSet(G \ {b})
          /\ Cardinality(G \ {b}) = IF b \in G THEN Cardinality(G) - 1 ELSE Cardinality(G)
        BY <1>2, FS_RemoveElement
    <2>3. Cardinality(G \ {b}) <= Cardinality(H)
        BY <1>3, <1>10, FS_Subset
    <2> QED BY <1>1, <1>2, <1>3, <1>4, <1>5, <1>10, <2>1, <2>2, <2>3
<1> QED BY <1>6, <1>9, <1>10 DEF H, g

\* No record is made twice for free: a row has at most as many Timecue records as there were
\* commits and, while no lease ran out, at most one for each upload that was previewed without
\* a mapping and one for each fault.
THEOREM RecordsAccounted ==
    ASSUME ImportConstants
    PROVE  ImportSpec => []RecordsAreAccounted
<1> DEFINE Inv == DataInv /\ CommitsInv /\ LeaseInv /\ CountInv
<1>1. ImportInit => Inv
    BY InitDataInv, InitCommitsInv, InitLeaseInv, InitCountInv
<1>2. Inv /\ [ImportNext]_importVars => Inv'
    BY NextDataInv, NextCommitsInv, NextLeaseInv, NextCountInv
<1>3. Inv => RecordsAreAccounted
    <2> SUFFICES ASSUME Inv, NEW k \in Key
                 PROVE  /\ Cardinality(Made(k)) <= counters.commits
                        /\ counters.lapsed \/ Cardinality(Made(k)) <= Cardinality(Fresh(k)) + counters.faults
        BY DEF RecordsAreAccounted
    <2>1. Cardinality(Made(k)) \in Nat /\ Cardinality(Ahead(k)) \in Nat /\ counters.commits \in Nat /\ counters.faults \in Nat
        BY AheadFinite DEF DataInv
    <2>2. Cardinality(Got(k)) \in Nat /\ Cardinality(Fresh(k)) \in Nat /\ Cardinality(Got(k)) <= Cardinality(Fresh(k))
        BY GotFinite
    <2>3. Cardinality(Made(k)) + Cardinality(Ahead(k)) <= counters.commits
        BY DEF CommitsInv
    <2>4. counters.lapsed \/ Cardinality(Made(k)) <= Cardinality(Got(k)) + counters.faults
        BY DEF CountInv
    <2> QED BY <2>1, <2>2, <2>3, <2>4
<1> QED BY <1>1, <1>2, <1>3, PTL DEF ImportSpec

\* What a row promises of a commit: its receipts are true and its records are accounted for.
THEOREM CommitAccounted ==
    ASSUME ImportConstants
    PROVE  ImportSpec => []CommitIsAccounted
<1>1. ReceiptsAreTrue /\ RecordsAreAccounted => CommitIsAccounted
    BY DEF CommitIsAccounted
<1> QED BY <1>1, AppliedIsThere, RecordsAccounted, PTL

-----------------------------------------------------------------------------

\* The writers of the planning overlay, and the kinds of step of one of them: what an import
\* adds has been read back, unless a lease ran out.
Writers == Committer \cup Manager
Facts == 1..MaxRecords \cup Edit
Drafts == [at : {"none", "read", "checked"}, expects : BOOLEAN, read : Nat,
           facts : SUBSET Facts, checked : Nat]

Justified(added) == added \subseteq Facts /\ (counters.lapsed \/ \A id \in added \ Edit : Known(id))

Plans(w) ==
    \/ \E expects \in BOOLEAN : O!ReadPlan(w, expects)
    \/ \E added : Justified(added) /\ O!CheckPlan(w, added)
    \/ O!ConflictPlan(w) \/ O!WritePlan(w) \/ O!DropPlan(w)

\* What a batch is ready to merge are ids of Timecue records that its saved record has with
\* final receipts, unless a lease ran out.
LEMMA MergedAreJustified ==
    ASSUME ImportConstants, DataInv, LeaseInv, NEW c \in Committer, cm[c].pc = "merge"
    PROVE  Justified(MergedIds(cm[c].mem))
<1>1. cm[c].mem \in BatchRecord /\ SoundRecord(cm[c].mem, timecue) /\ MergeReady(cm[c].mem) /\ cm[c].batch \in Batch
      /\ cm[c].mem # NoBatch /\ batches[cm[c].batch] # NoBatch
    BY Working DEF Copies, DataInv, Fits, ImportConstants
<1>2. ASSUME NEW k \in Key, Entity[k] # "assignments"
      PROVE  cm[c].mem.map[k] \in 1..MaxRecords
    <2>1. cm[c].mem.map[k] # 0 /\ MadeFor(cm[c].mem.map[k], k, timecue)
        BY <1>1, <1>2 DEF MergeReady, SoundRecord, NamesIn
    <2>2. Len(timecue) \in Nat /\ Len(timecue) <= MaxRecords /\ MaxRecords \in Nat
        BY LenProperties DEF DataInv, ImportConstants
    <2> QED BY <2>1, <2>2 DEF MadeFor
<1>3. ASSUME ~counters.lapsed, NEW k \in Key
      PROVE  Known(cm[c].mem.map[k])
    <2>1. Follows(cm[c], batches[cm[c].batch])
        BY <1>1, <1>3 DEF LeaseInv
    <2>2. batches[cm[c].batch].receipt[k] \in Final /\ batches[cm[c].batch].map[k] = cm[c].mem.map[k]
        BY <1>1, <2>1 DEF Follows, MergeReady
    <2> QED BY <1>1, <2>2 DEF Known, ReadBack
<1> QED BY <1>2, <1>3 DEF Justified, MergedIds, Facts

\* What any step does with the overlay.
LEMMA NextPlans ==
    ASSUME ImportConstants, DataInv, LeaseInv, [ImportNext]_importVars
    PROVE  UNCHANGED <<overlay, draft>> \/ \E w \in Writers : Plans(w)
<1>1. CASE UNCHANGED importVars
    BY <1>1 DEF importVars
<1>2. ASSUME NEW b \in Batch, Preview(b)
      PROVE  UNCHANGED <<overlay, draft>>
    BY <1>2 DEF Preview
<1>3. ASSUME NEW c \in Committer, CommitStep(c) \/ CommitterDies(c)
      PROVE  UNCHANGED <<overlay, draft>> \/ \E w \in Writers : Plans(w)
    <2>1. c \in Writers
        BY DEF Writers
    <2>2. CASE CommitterDies(c)
        BY <2>1, <2>2 DEF CommitterDies, Plans
    <2>3. CASE Merge(c)
        <3>1. Justified(MergedIds(cm[c].mem))
            BY <2>3, MergedAreJustified DEF Merge
        <3>2. O!CheckPlan(c, MergedIds(cm[c].mem)) \/ O!ConflictPlan(c)
            BY <2>3 DEF Merge
        <3>3. Plans(c)
            BY <3>1, <3>2 DEF Plans
        <3> QED BY <2>1, <3>3
    <2>4. CASE Finish(c)
        <3>1. O!ReadPlan(c, TRUE) \/ UNCHANGED <<overlay, draft>>
            BY <2>4 DEF Finish
        <3>2. O!ReadPlan(c, TRUE) => Plans(c)
            BY DEF Plans
        <3> QED BY <2>1, <3>1, <3>2
    <2>5. CASE Confirm(c)
        <3>1. Plans(c)
            BY <2>5 DEF Confirm, Plans
        <3> QED BY <2>1, <3>1
    <2>6. CASE \E b \in Batch, live, resume, confirm \in BOOLEAN : Begin(c, b, live, resume, confirm)
        BY <2>6 DEF Begin
    <2>7. CASE \/ Load(c) \/ ManualOnly(c) \/ Skip(c) \/ Blocked(c) \/ Create(c) \/ Verify(c)
               \/ LookupFails(c) \/ NoProfile(c) \/ Assign(c) \/ Save(c) \/ End(c)
        BY <2>7 DEF Load, ManualOnly, Skip, Blocked, Create, Verify, LookupFails, NoProfile, Assign, Save, End
    <2> QED BY <1>3, <2>2, <2>3, <2>4, <2>5, <2>6, <2>7 DEF CommitStep
<1>4. ASSUME LeaseLapses
      PROVE  UNCHANGED <<overlay, draft>>
    BY <1>4 DEF LeaseLapses
<1>5. ASSUME NEW m \in Manager, SubmitForm(m)
      PROVE  Plans(m)
    <2>1. ASSUME NEW e \in counters.edits, O!CheckPlan(m, {e})
          PROVE  Plans(m)
        <3>1. e \in Edit
            BY DEF DataInv
        <3>2. Justified({e})
            BY <3>1 DEF Justified, Facts
        <3> QED BY <2>1, <3>2 DEF Plans
    <2> QED BY <1>5, <2>1 DEF SubmitForm, Plans
<1>6. ASSUME NEW m \in Manager, NEW e \in Edit, NEW expects \in BOOLEAN, OpenForm(m, e, expects)
      PROVE  Plans(m)
    BY <1>6 DEF OpenForm, Plans
<1> QED BY <1>1, <1>2, <1>3, <1>4, <1>5, <1>6 DEF ImportNext, Proceed, Writers

-----------------------------------------------------------------------------
\* What each kind of step makes of a writer's draft.
LEMMA DraftTypes ==
    ASSUME overlay \in [version : Nat, facts : SUBSET Facts, clean : BOOLEAN], draft \in [Writers -> Drafts],
           NEW w \in Writers, Plans(w)
    PROVE  /\ \E d \in Drafts : draft' = [draft EXCEPT ![w] = d]
           /\ overlay' \in [version : Nat, facts : SUBSET Facts, clean : BOOLEAN]
<1>1. O!NoDraft \in Drafts
    BY DEF O!NoDraft, Drafts
<1>2. ASSUME NEW expects \in BOOLEAN, O!ReadPlan(w, expects)
      PROVE  \E d \in Drafts : draft' = [draft EXCEPT ![w] = d]
    <2>1. PICK d1 : d1 = [O!NoDraft EXCEPT !.at = "read"]
        OBVIOUS
    <2>2. PICK d2 : d2 = [d1 EXCEPT !.facts = overlay.facts]
        OBVIOUS
    <2>3. PICK d3 : d3 = [d2 EXCEPT !.read = overlay.version]
        OBVIOUS
    <2> DEFINE d == [d3 EXCEPT !.expects = expects]
    <2>4. d1 \in Drafts
        BY <1>1, <2>1 DEF Drafts
    <2>5. d2 \in Drafts
        BY <2>2, <2>4 DEF Drafts
    <2>6. d3 \in Drafts
        BY <2>3, <2>5 DEF Drafts
    <2>7. d \in Drafts
        BY <2>6 DEF Drafts
    <2>8. draft' = [draft EXCEPT ![w] = d]
        BY <1>1, <1>2, <2>1, <2>2, <2>3 DEF O!ReadPlan, Drafts
    <2> QED BY <2>7, <2>8
<1>3. ASSUME NEW added, Justified(added), O!CheckPlan(w, added)
      PROVE  \E d \in Drafts : draft' = [draft EXCEPT ![w] = d]
    <2>1. PICK d1 : d1 = [draft[w] EXCEPT !.at = "checked"]
        OBVIOUS
    <2>2. PICK d2 : d2 = [d1 EXCEPT !.facts = draft[w].facts \cup added]
        OBVIOUS
    <2> DEFINE d == [d2 EXCEPT !.checked = overlay.version]
    <2>3. d1 \in Drafts
        BY <2>1 DEF Drafts
    <2>4. d2 \in Drafts
        BY <1>3, <2>2, <2>3 DEF Drafts, Justified
    <2>5. d \in Drafts
        BY <2>4 DEF Drafts
    <2>6. draft' = [draft EXCEPT ![w] = d]
        BY <1>3, <2>1, <2>2 DEF O!CheckPlan, Drafts
    <2> QED BY <2>5, <2>6
<1>4. ASSUME O!ConflictPlan(w) \/ O!WritePlan(w) \/ O!DropPlan(w)
      PROVE  \E d \in Drafts : draft' = [draft EXCEPT ![w] = d]
    BY <1>1, <1>4 DEF O!ConflictPlan, O!WritePlan, O!DropPlan
<1>5. overlay' \in [version : Nat, facts : SUBSET Facts, clean : BOOLEAN]
    <2>1. CASE O!WritePlan(w)
        BY <2>1 DEF O!WritePlan, Drafts
    <2> QED BY <2>1 DEF Plans, O!ReadPlan, O!CheckPlan, O!ConflictPlan, O!DropPlan
<1> QED BY <1>2, <1>3, <1>4, <1>5 DEF Plans

\* The version of an overlay that no two saves overlapped on tells what it contains.
LEMMA NextPlanInv ==
    ASSUME PlanInv, NEW w \in Writers, Plans(w)
    PROVE  PlanInv' /\ O!LossIsOverlap
<1>1. /\ overlay \in [version : Nat, facts : SUBSET Facts, clean : BOOLEAN]
      /\ draft \in [Writers -> Drafts]
    BY DEF PlanInv, O!OverlayTypeOK, Writers, Drafts, Facts
<1>2. O!OverlayTypeOK'
    <2>1. PICK d \in Drafts : draft' = [draft EXCEPT ![w] = d]
        BY <1>1, DraftTypes
    <2>2. draft' \in [Writers -> Drafts]
        BY <1>1, <2>1
    <2> QED BY <1>1, <2>2, DraftTypes DEF O!OverlayTypeOK, Writers, Drafts, Facts
<1>3. overlay.version \in Nat /\ \A x \in Writers : draft[x].read \in Nat /\ draft[x].checked \in Nat
    BY <1>1 DEF Drafts
<1>4. overlay'.clean => overlay.clean
    <2>1. O!WritePlan(w) => (overlay'.clean => overlay.clean)
        BY <1>1 DEF O!WritePlan
    <2>2. ~O!WritePlan(w) => UNCHANGED overlay
        BY DEF Plans, O!ReadPlan, O!CheckPlan, O!ConflictPlan, O!DropPlan
    <2> QED BY <2>1, <2>2
<1>5. ASSUME overlay.clean, overlay'.clean
      PROVE  (\A x \in Writers : Trusted(draft[x])') /\ O!LossIsOverlap
    <2>1. \A x \in Writers : Trusted(draft[x])
        BY <1>5 DEF PlanInv, Writers
    <2>2. ASSUME O!ConflictPlan(w) \/ O!DropPlan(w)
          PROVE  (\A x \in Writers : Trusted(draft[x])') /\ O!LossIsOverlap
        <3>1. draft' = [draft EXCEPT ![w] = O!NoDraft] /\ UNCHANGED overlay /\ O!NoDraft.at = "none"
            BY <2>2 DEF O!ConflictPlan, O!DropPlan, O!NoDraft
        <3> QED BY <1>1, <2>1, <3>1 DEF Trusted, O!LossIsOverlap
    <2>3. ASSUME NEW expects \in BOOLEAN, O!ReadPlan(w, expects)
          PROVE  (\A x \in Writers : Trusted(draft[x])') /\ O!LossIsOverlap
        <3>1. /\ UNCHANGED overlay /\ \A x \in Writers : x # w => draft'[x] = draft[x]
              /\ draft'[w].at = "read" /\ draft'[w].read = overlay.version /\ draft'[w].facts = overlay.facts
            BY <1>1, <2>3 DEF O!ReadPlan, O!NoDraft
        <3> QED BY <1>3, <2>1, <3>1 DEF Trusted, O!LossIsOverlap
    <2>4. ASSUME NEW added, O!CheckPlan(w, added)
          PROVE  (\A x \in Writers : Trusted(draft[x])') /\ O!LossIsOverlap
        <3>1. /\ UNCHANGED overlay /\ \A x \in Writers : x # w => draft'[x] = draft[x]
              /\ draft'[w].at = "checked" /\ draft'[w].checked = overlay.version
              /\ draft'[w].facts = draft[w].facts \cup added /\ draft'[w].expects = draft[w].expects
              /\ draft[w].at = "read" /\ (draft[w].expects => draft[w].read = overlay.version)
            BY <1>1, <2>4 DEF O!CheckPlan, O!Accepts, Drafts
        <3>2. draft[w].expects => overlay.facts \subseteq draft'[w].facts
            BY <2>1, <3>1 DEF Trusted
        <3> QED BY <1>3, <2>1, <3>1, <3>2 DEF Trusted, O!LossIsOverlap
    <2>5. ASSUME O!WritePlan(w)
          PROVE  (\A x \in Writers : Trusted(draft[x])') /\ O!LossIsOverlap
        <3>1. /\ \A x \in Writers : x # w => draft'[x] = draft[x]
              /\ draft[w].at = "checked" /\ draft'[w].at = "none" /\ draft[w].checked = overlay.version
              /\ overlay'.version = overlay.version + 1 /\ overlay'.facts = draft[w].facts
            BY <1>1, <1>5, <2>5 DEF O!WritePlan, O!NoDraft
        <3>2. \A x \in Writers : Trusted(draft[x])'
            BY <1>3, <2>1, <3>1 DEF Trusted
        <3>3. O!LossIsOverlap
            BY <2>1, <3>1 DEF Trusted, O!LossIsOverlap, Writers
        <3> QED BY <3>2, <3>3
    <2> QED BY <2>2, <2>3, <2>4, <2>5 DEF Plans
<1> QED BY <1>2, <1>4, <1>5 DEF PlanInv, O!LossIsOverlap, Writers

\* Every step keeps the versions trustworthy and loses nothing in silence.
LEMMA PlanInvKept ==
    ASSUME ImportConstants, DataInv, LeaseInv, PlanInv, [ImportNext]_importVars
    PROVE  PlanInv' /\ O!LossIsOverlap
<1>1. CASE UNCHANGED <<overlay, draft>>
    BY <1>1 DEF PlanInv, O!OverlayTypeOK, Trusted, O!LossIsOverlap
<1> QED BY <1>1, NextPlans, NextPlanInv

\* An empty overlay nobody has read.
LEMMA InitPlanInv ==
    ASSUME ImportConstants, ImportInit
    PROVE  PlanInv
BY DEF ImportInit, O!OverlayInit, O!NoDraft, PlanInv, O!OverlayTypeOK, Trusted

\* A fact that was read back stays so, while no lease runs out.
LEMMA KnownKept ==
    ASSUME ImportConstants, DataInv, LeaseInv, [ImportNext]_importVars, ~counters'.lapsed, NEW id, id # 0, Known(id)
    PROVE  Known(id)'
<1>1. PICK b \in Batch, k \in Key : batches[b] # NoBatch /\ batches[b].map[k] = id /\ batches[b].receipt[k] \in Final
    BY DEF Known, ReadBack
<1>2. SUFFICES ASSUME batches'[b] # batches[b]
               PROVE  batches'[b] # NoBatch /\ batches'[b].map[k] = id /\ batches'[b].receipt[k] \in Final
    BY <1>1 DEF Known, ReadBack
<1>3. DOMAIN batches = Batch /\ ~counters.lapsed
    BY LapsedStays DEF DataInv
<1>4. PICK c \in Committer : cm[c].pc \in Copies /\ batches' = [batches EXCEPT ![cm[c].batch] = cm[c].mem]
    <2>1. ASSUME NEW x \in Batch, Preview(x) PROVE FALSE
        BY <1>1, <1>2, <1>3, <2>1 DEF Preview
    <2>2. PICK c \in Committer : Steps(c)
        BY <1>2, <2>1, NextSteps DEF Aside
    <2> QED BY <1>2, <2>2 DEF Steps, Leaves, Starts, Loads, Works, Saves, End, Copies
<1>5. b = cm[c].batch /\ batches'[b] = cm[c].mem
    BY <1>2, <1>3, <1>4
<1>6. cm[c].mem # NoBatch
    BY <1>4 DEF DataInv, Fits
<1>7. Follows(cm[c], batches[b])
    BY <1>3, <1>5, <1>6 DEF LeaseInv
<1> QED BY <1>1, <1>5, <1>6, <1>7 DEF Follows

\* An empty overlay knows nothing.
LEMMA InitKnownInv ==
    ASSUME ImportConstants, ImportInit
    PROVE  KnownInv
BY DEF ImportInit, O!OverlayInit, O!NoDraft, KnownInv

\* What a step brings into a draft or the overlay was read back.
LEMMA NextKnownInv ==
    ASSUME ImportConstants, DataInv, LeaseInv, PlanInv, KnownInv, [ImportNext]_importVars
    PROVE  KnownInv'
<1> SUFFICES ASSUME ~counters'.lapsed
             PROVE  /\ \A id \in overlay'.facts \ Edit : Known(id)'
                    /\ \A w \in Writers : draft'[w].at # "none" => \A id \in draft'[w].facts \ Edit : Known(id)'
    BY DEF KnownInv, Writers
<1>1. /\ ~counters.lapsed
      /\ \A id \in overlay.facts \ Edit : Known(id)
      /\ \A w \in Writers : draft[w].at # "none" => \A id \in draft[w].facts \ Edit : Known(id)
    BY LapsedStays DEF KnownInv, Writers
<1>2. \A id \in Facts \ Edit : Known(id) => Known(id)'
    <2>1. \A id \in Facts \ Edit : id # 0
        BY DEF Facts, ImportConstants
    <2> QED BY <2>1, KnownKept
<1>3. /\ overlay \in [version : Nat, facts : SUBSET Facts, clean : BOOLEAN]
      /\ draft \in [Writers -> Drafts]
    BY DEF PlanInv, O!OverlayTypeOK, Writers, Drafts, Facts
<1>4. overlay.facts \subseteq Facts /\ \A w \in Writers : draft[w].facts \subseteq Facts
    BY <1>3 DEF Drafts
<1>5. ASSUME NEW w \in Writers, Plans(w)
      PROVE  /\ \A id \in overlay'.facts \ Edit : id \in Facts /\ Known(id)
             /\ \A x \in Writers : draft'[x].at # "none" => \A id \in draft'[x].facts \ Edit : id \in Facts /\ Known(id)
    <2>1. \A x \in Writers : x # w => draft'[x] = draft[x]
        BY <1>3, <1>5, DraftTypes
    <2>2. CASE O!ConflictPlan(w) \/ O!DropPlan(w)
        <3>1. draft'[w].at = "none" /\ UNCHANGED overlay
            BY <1>3, <2>2 DEF O!ConflictPlan, O!DropPlan, O!NoDraft
        <3> QED BY <1>1, <1>4, <2>1, <3>1
    <2>3. CASE O!WritePlan(w)
        <3>1. draft'[w].at = "none" /\ draft[w].at # "none" /\ overlay'.facts = draft[w].facts
            BY <1>3, <2>3 DEF O!WritePlan, O!NoDraft
        <3> QED BY <1>1, <1>4, <2>1, <3>1
    <2>4. ASSUME NEW expects \in BOOLEAN, O!ReadPlan(w, expects)
          PROVE  draft'[w].facts = overlay.facts /\ UNCHANGED overlay
        BY <1>3, <2>4 DEF O!ReadPlan, O!NoDraft
    <2>5. ASSUME NEW added, Justified(added), O!CheckPlan(w, added)
          PROVE  /\ draft'[w].facts = draft[w].facts \cup added /\ UNCHANGED overlay
                 /\ draft[w].at # "none" /\ \A id \in added \ Edit : id \in Facts /\ Known(id)
        BY <1>1, <1>3, <2>5 DEF O!CheckPlan, Justified, Drafts
    <2> QED BY <1>1, <1>4, <1>5, <2>1, <2>2, <2>3, <2>4, <2>5 DEF Plans
<1>6. CASE UNCHANGED <<overlay, draft>>
    BY <1>1, <1>2, <1>4, <1>6
<1> QED BY <1>2, <1>5, <1>6, NextPlans

-----------------------------------------------------------------------------
\* The invariants of the data, the copies and the overlay together.
LEMMA PlanningHolds ==
    ASSUME ImportConstants
    PROVE  ImportSpec => [](DataInv /\ LeaseInv /\ PlanInv /\ KnownInv)
<1>1. ImportInit => DataInv /\ LeaseInv /\ PlanInv /\ KnownInv
    BY InitDataInv, InitLeaseInv, InitPlanInv, InitKnownInv
<1>2. DataInv /\ LeaseInv /\ PlanInv /\ KnownInv /\ [ImportNext]_importVars => (DataInv /\ LeaseInv /\ PlanInv /\ KnownInv)'
    BY NextDataInv, NextLeaseInv, PlanInvKept, NextKnownInv
<1> QED BY <1>1, <1>2, PTL DEF ImportSpec

\* The variables of the import and the commits have their types: what is merged into the
\* overlay are ids of Timecue, and a lease has a holder of the table.
THEOREM ImportTypes ==
    ASSUME ImportConstants
    PROVE  ImportSpec => []ImportTypeOK
<1>1. DataInv /\ PlanInv => ImportTypeOK
    <2> SUFFICES ASSUME DataInv, PlanInv PROVE ImportTypeOK
        OBVIOUS
    <2>1. \A c \in Committer : cm[c].mem \in BatchRecord \cup {NoBatch}
        BY DEF DataInv, Fits, Locals
    <2> QED BY <2>1 DEF DataInv, PlanInv, ImportTypeOK, TimecueRecord
<1> QED BY <1>1, PlanningHolds, PTL

\* While no lease ran out, the overlay knows a Timecue id only if a saved record has it with a
\* final receipt: merge_confirmed_planning takes nothing that was not read back.
THEOREM PlanningReadBack ==
    ASSUME ImportConstants
    PROVE  ImportSpec => []PlanningIsReadBack
<1>1. KnownInv => PlanningIsReadBack
    BY DEF KnownInv, PlanningIsReadBack, Known
<1> QED BY <1>1, PlanningHolds, PTL

\* An edit of a manager or an imported fact disappears from the overlay only through a form
\* that names no version, or after two saves that overlapped (imports.py:757, store.py:440).
THEOREM EditsLast ==
    ASSUME ImportConstants
    PROVE  ImportSpec => EditsSurvive
<1>1. DataInv /\ LeaseInv /\ PlanInv /\ KnownInv /\ [ImportNext]_importVars => [O!LossIsOverlap]_importVars
    BY PlanInvKept
<1> QED BY <1>1, PlanningHolds, PTL DEF ImportSpec, EditsSurvive

(*****************************************************************************)
(* Signals: what a refresher and a review may be about to do (SignalsInv).    *)
(*****************************************************************************)

Refreshing == [at : {"idle", "load", "store", "cache", "list", "publish", "document", "claim", "end"},
               id : Id \cup {None}, seen : [Id -> Status], todo : SUBSET Id, item : Id \cup {None}]
Requests == [at : {"idle", "read", "apply", "save", "delete"}, id : Id \cup {None},
             revision : 0..MaxRevision, status : {"none", "confirmed", "rejected"},
             changes : BOOLEAN, claims : SUBSET Id]

\* A refresher stores only a signal that was not settled when it read the signals, and a review
\* saves only a decision on a signal.
RefresherFits(m) ==
    /\ m \in Refreshing
    /\ m.at # "idle" => m.id \in Id
    /\ m.at \in {"document", "claim"} => m.item \in Id
    /\ m.at = "store" => ~IsSettled(m.seen[m.id])

RequestFits(m) ==
    /\ m \in Requests
    /\ m.at \in {"read", "apply", "save"} => m.id \in Id /\ m.status # "none"

SignalsInv ==
    /\ SignalsTypeOK
    /\ DOMAIN rf = Refresher /\ \A r \in Refresher : RefresherFits(rf[r])
    /\ DOMAIN rv = Reviewer /\ \A v \in Reviewer : RequestFits(rv[v])

-----------------------------------------------------------------------------
\* A request that waits, and the kinds of step of a refresher and of a request.
LEMMA ReadyFits ==
    ASSUME SignalsConstants
    PROVE  RefresherFits(Ready) /\ RequestFits(NoRequest) /\ Ready.at = "idle" /\ NoRequest.at = "idle"
BY DEF SignalsConstants, RefresherFits, RequestFits, Refreshing, Requests, Ready, NoRequest, Unseen, Status

\* A step of a refresher leaves it at what fits.
LEMMA RefreshFits ==
    ASSUME SignalsConstants, SignalsInv, NEW r \in Refresher, Refresh(r)
    PROVE  \E m : RefresherFits(m) /\ rf' = [rf EXCEPT ![r] = m]
<1>1. RefresherFits(rf[r]) /\ rf[r] \in Refreshing /\ signals \in [Id -> Status] /\ worklog \in 1..MaxRevision
      /\ DOMAIN rf = Refresher
    BY DEF SignalsInv, RefresherFits, SignalsTypeOK
<1>2. Unseen \in [Id -> Status] /\ Ready \in Refreshing
    BY ReadyFits DEF Unseen, Status, RefresherFits
<1>3. ASSUME NEW source \in Source, TakeSnapshot(r, source)
      PROVE  \E m : RefresherFits(m) /\ rf' = [rf EXCEPT ![r] = m]
    <2>1. <<source, worklog>> \in Id
        BY <1>1 DEF Id
    <2>2. PICK at \in {"list", "load"} : rf' = [rf EXCEPT ![r] = [Ready EXCEPT !.id = <<source, worklog>>, !.at = at]]
        BY <1>3 DEF TakeSnapshot
    <2>3. RefresherFits([Ready EXCEPT !.id = <<source, worklog>>, !.at = at])
        BY <1>2, <2>1, <2>2 DEF RefresherFits, Refreshing
    <2> QED BY <2>2, <2>3
<1>4. ASSUME LoadSignals(r)
      PROVE  \E m : RefresherFits(m) /\ rf' = [rf EXCEPT ![r] = m]
    <2>1. rf[r].id \in Id
        BY <1>1, <1>4 DEF LoadSignals, RefresherFits
    <2>2. CASE IsSettled(signals[rf[r].id])
        <3>1. rf' = [rf EXCEPT ![r] = [rf[r] EXCEPT !.at = AfterSave(r)]] /\ AfterSave(r) \in {"cache", "end"}
            BY <1>4, <2>2 DEF LoadSignals, AfterSave
        <3>2. RefresherFits([rf[r] EXCEPT !.at = AfterSave(r)])
            BY <1>1, <2>1, <3>1 DEF RefresherFits, Refreshing
        <3> QED BY <3>1, <3>2
    <2>3. CASE ~IsSettled(signals[rf[r].id])
        <3>1. rf' = [rf EXCEPT ![r] = [rf[r] EXCEPT !.at = "store", !.seen = signals]]
            BY <1>1, <1>4, <2>3 DEF LoadSignals
        <3>2. RefresherFits([rf[r] EXCEPT !.at = "store", !.seen = signals])
            BY <1>1, <2>1, <2>3 DEF RefresherFits, Refreshing
        <3> QED BY <3>1, <3>2
    <2> QED BY <2>2, <2>3
<1>5. ASSUME StoreSignals(r)
      PROVE  \E m : RefresherFits(m) /\ rf' = [rf EXCEPT ![r] = m]
    <2>1. rf' = [rf EXCEPT ![r] = [rf[r] EXCEPT !.at = AfterSave(r), !.seen = Unseen]] /\ AfterSave(r) \in {"cache", "end"}
        BY <1>1, <1>5 DEF StoreSignals, AfterSave
    <2>2. RefresherFits([rf[r] EXCEPT !.at = AfterSave(r), !.seen = Unseen])
        BY <1>1, <1>2, <1>5, <2>1 DEF RefresherFits, Refreshing, StoreSignals
    <2> QED BY <2>1, <2>2
<1>6. ASSUME FillCache(r) \/ PublishDocument(r) \/ PublishClaim(r)
      PROVE  \E m : RefresherFits(m) /\ rf' = [rf EXCEPT ![r] = m]
    <2>1. \/ rf' = [rf EXCEPT ![r] = [rf[r] EXCEPT !.at = "list"]] /\ rf[r].at = "cache"
          \/ rf' = [rf EXCEPT ![r] = [rf[r] EXCEPT !.at = "claim"]] /\ rf[r].at = "document"
          \/ rf' = [rf EXCEPT ![r] = [rf[r] EXCEPT !.at = "publish"]] /\ rf[r].at = "claim"
        BY <1>6 DEF FillCache, PublishDocument, PublishClaim
    <2>2. rf[r].at = "cache" => RefresherFits([rf[r] EXCEPT !.at = "list"])
        BY <1>1 DEF RefresherFits, Refreshing
    <2>3. rf[r].at = "document" => RefresherFits([rf[r] EXCEPT !.at = "claim"])
        BY <1>1 DEF RefresherFits, Refreshing
    <2>4. rf[r].at = "claim" => RefresherFits([rf[r] EXCEPT !.at = "publish"])
        BY <1>1 DEF RefresherFits, Refreshing
    <2> QED BY <2>1, <2>2, <2>3, <2>4
<1>7. ASSUME ListSignals(r)
      PROVE  \E m : RefresherFits(m) /\ rf' = [rf EXCEPT ![r] = m]
    <2> DEFINE todo == {i \in Id : i[2] = Revision(r) /\ signals[i] \in {"proposed", "confirmed"}}
    <2>1. rf' = [rf EXCEPT ![r] = [rf[r] EXCEPT !.at = "publish", !.todo = todo]] /\ rf[r].at = "list" /\ todo \subseteq Id
        BY <1>1, <1>7 DEF ListSignals
    <2> HIDE DEF todo
    <2>2. RefresherFits([rf[r] EXCEPT !.at = "publish", !.todo = todo])
        BY <1>1, <2>1 DEF RefresherFits, Refreshing
    <2> QED BY <2>1, <2>2
<1>8. ASSUME NEW i \in Id, LookForNote(r, i)
      PROVE  \E m : RefresherFits(m) /\ rf' = [rf EXCEPT ![r] = m]
    <2>1. rf[r].at = "publish" /\ rf[r].todo \ {i} \subseteq Id
        BY <1>1, <1>8 DEF LookForNote, Refreshing
    <2>2. \/ rf' = [rf EXCEPT ![r] = [rf[r] EXCEPT !.at = "document", !.item = i, !.todo = rf[r].todo \ {i}]]
          \/ rf' = [rf EXCEPT ![r] = [rf[r] EXCEPT !.todo = rf[r].todo \ {i}]]
        BY <1>1, <1>8 DEF LookForNote, Refreshing
    <2>3. RefresherFits([rf[r] EXCEPT !.at = "document", !.item = i, !.todo = rf[r].todo \ {i}])
        BY <1>1, <2>1 DEF RefresherFits, Refreshing
    <2>4. RefresherFits([rf[r] EXCEPT !.todo = rf[r].todo \ {i}])
        BY <1>1, <2>1 DEF RefresherFits, Refreshing
    <2> QED BY <2>2, <2>3, <2>4
<1>9. ASSUME Refreshed(r)
      PROVE  \E m : RefresherFits(m) /\ rf' = [rf EXCEPT ![r] = m]
    BY <1>9, ReadyFits DEF Refreshed
<1> QED BY <1>3, <1>4, <1>5, <1>6, <1>7, <1>8, <1>9 DEF Refresh

\* A review that begins.
BeginningReview(i, status, changes, rev) ==
    [NoRequest EXCEPT !.at = "read", !.id = i, !.revision = rev, !.status = status, !.changes = changes]

\* A review begins with a decision on a signal.
LEMMA BeginningFits ==
    ASSUME SignalsConstants, NEW i \in Id, NEW status, status \in {"confirmed", "rejected"}, NEW changes \in BOOLEAN,
           NEW rev \in 1..MaxRevision
    PROVE  RequestFits(BeginningReview(i, status, changes, rev))
<1>1. PICK m1 : m1 = [NoRequest EXCEPT !.at = "read"]
    OBVIOUS
<1>2. PICK m2 : m2 = [m1 EXCEPT !.id = i]
    OBVIOUS
<1>3. PICK m3 : m3 = [m2 EXCEPT !.revision = rev]
    OBVIOUS
<1>4. PICK m4 : m4 = [m3 EXCEPT !.status = status]
    OBVIOUS
<1>5. PICK m5 : m5 = [m4 EXCEPT !.changes = changes]
    OBVIOUS
<1>6. NoRequest \in Requests
    BY ReadyFits DEF RequestFits
<1>7. m1 \in Requests
    BY <1>1, <1>6 DEF Requests
<1>8. m2 \in Requests
    BY <1>2, <1>7 DEF Requests
<1>9. m3 \in Requests
    BY <1>3, <1>8 DEF Requests, SignalsConstants
<1>10. m4 \in Requests
    BY <1>4, <1>9 DEF Requests
<1>11. m5 \in Requests
    BY <1>5, <1>10 DEF Requests
<1>12. BeginningReview(i, status, changes, rev) = m5
    BY <1>1, <1>2, <1>3, <1>4, <1>5, <1>6 DEF BeginningReview, Requests
<1>13. m5.id = i /\ m5.status = status
    BY <1>4, <1>2, <1>3, <1>5, <1>7, <1>8, <1>9, <1>10 DEF Requests
<1> QED BY <1>11, <1>12, <1>13 DEF RequestFits

\* A step of a request leaves it at what fits.
LEMMA ReviewFits ==
    ASSUME SignalsConstants, SignalsInv, NEW v \in Reviewer, Review(v)
    PROVE  \E m : RequestFits(m) /\ rv' = [rv EXCEPT ![v] = m]
<1>1. RequestFits(rv[v]) /\ rv[v] \in Requests /\ DOMAIN rv = Reviewer /\ worklog \in 1..MaxRevision
    BY DEF SignalsInv, RequestFits, SignalsTypeOK
<1>2. ASSUME NEW i \in Id, NEW status, status \in {"confirmed", "rejected"}, NEW changes \in BOOLEAN, BeginReview(v, i, status, changes)
      PROVE  \E m : RequestFits(m) /\ rv' = [rv EXCEPT ![v] = m]
    BY <1>1, <1>2, BeginningFits DEF BeginReview, BeginningReview
<1>3. ASSUME NEW at, at \in {"apply", "save"}, rv[v].at \in {"read", "apply"}
      PROVE  RequestFits([rv[v] EXCEPT !.at = at])
    BY <1>1, <1>3 DEF RequestFits, Requests
<1>4. ASSUME ReadSignal(v)
      PROVE  \E m : RequestFits(m) /\ rv' = [rv EXCEPT ![v] = m]
    <2>1. PICK at : at = IF rv[v].changes THEN "apply" ELSE "save"
        OBVIOUS
    <2>2. RequestFits([rv[v] EXCEPT !.at = at])
        BY <1>3, <1>4, <2>1 DEF ReadSignal
    <2>3. rv' = [rv EXCEPT ![v] = [rv[v] EXCEPT !.at = at]] \/ rv' = [rv EXCEPT ![v] = NoRequest]
        BY <1>4, <2>1 DEF ReadSignal
    <2> QED BY <2>2, <2>3, ReadyFits
<1>5. ASSUME ApplyChange(v)
      PROVE  \E m : RequestFits(m) /\ rv' = [rv EXCEPT ![v] = m]
    <2>1. RequestFits([rv[v] EXCEPT !.at = "save"])
        BY <1>3, <1>5 DEF ApplyChange
    <2>2. rv' = [rv EXCEPT ![v] = [rv[v] EXCEPT !.at = "save"]] \/ rv' = [rv EXCEPT ![v] = NoRequest]
        BY <1>5 DEF ApplyChange
    <2> QED BY <2>1, <2>2, ReadyFits
<1>6. ASSUME SaveReview(v) \/ DeleteNote(v)
      PROVE  \E m : RequestFits(m) /\ rv' = [rv EXCEPT ![v] = m]
    BY <1>6, ReadyFits DEF SaveReview, DeleteNote
<1>7. ASSUME BeginDelete(v)
      PROVE  \E m : RequestFits(m) /\ rv' = [rv EXCEPT ![v] = m]
    <2>1. PICK m1 : m1 = [NoRequest EXCEPT !.at = "delete"]
        OBVIOUS
    <2> DEFINE noteClaims == {i \in Id : notes.claims[i] # "none"}
               m == [m1 EXCEPT !.claims = noteClaims]
    <2>2. noteClaims \subseteq Id /\ NoRequest \in Requests
        BY ReadyFits DEF RequestFits
    <2>3. rv' = [rv EXCEPT ![v] = m]
        BY <1>7, <2>1, <2>2 DEF BeginDelete, Requests
    <2> HIDE DEF noteClaims
    <2>4. m1 \in Requests /\ m1.at = "delete"
        BY <2>1, <2>2 DEF Requests
    <2>5. m \in Requests /\ m.at = "delete"
        BY <2>2, <2>4 DEF Requests
    <2>6. RequestFits(m)
        BY <2>5 DEF RequestFits
    <2> QED BY <2>3, <2>6
<1> QED BY <1>2, <1>4, <1>5, <1>6, <1>7 DEF Review

-----------------------------------------------------------------------------
\* The worklog, the signals, the notes and the tally keep their types.
LEMMA NextSignalsTypeOK ==
    ASSUME SignalsConstants, SignalsInv, [SignalsNext]_signalVars
    PROVE  SignalsTypeOK'
<1>1. /\ worklog \in 1..MaxRevision /\ signals \in [Id -> Status]
      /\ notes \in [doc : {"none", "active", "deleted"}, claims : [Id -> {"none", "active", "deleted"}]]
      /\ tally \in [cache : SUBSET (1..MaxRevision), applied : SUBSET Id, crashes : 0..MaxDeaths]
    BY DEF SignalsInv, SignalsTypeOK
<1>2. worklog' \in 1..MaxRevision
    <2>1. CASE Revise
        BY <1>1, <2>1 DEF Revise, SignalsConstants
    <2>2. CASE ~Revise
        <3>1. UNCHANGED worklog
            BY <2>2 DEF SignalsNext, signalVars, Dies, Refresh, Review, TakeSnapshot, LoadSignals, StoreSignals, FillCache,
                   ListSignals, LookForNote, PublishDocument, PublishClaim, Refreshed, BeginReview, ReadSignal,
                   ApplyChange, SaveReview, BeginDelete, DeleteNote
        <3> QED BY <1>1, <3>1
    <2> QED BY <2>1, <2>2
<1>3. signals' \in [Id -> Status]
    <2>1. ASSUME NEW r \in Refresher, StoreSignals(r)
          PROVE  signals' \in [Id -> Status]
        BY <1>1, <2>1 DEF StoreSignals, Status, Settled
    <2>2. ASSUME NEW v \in Reviewer, SaveReview(v)
          PROVE  signals' \in [Id -> Status]
        <3>1. rv[v].id \in Id /\ rv[v].status \in Status
            BY <2>2 DEF SaveReview, SignalsInv, RequestFits, Requests, Status, Settled
        <3> QED BY <1>1, <2>2, <3>1 DEF SaveReview
    <2>3. \/ \E r \in Refresher : StoreSignals(r)
          \/ \E v \in Reviewer : SaveReview(v)
          \/ UNCHANGED signals
        BY DEF SignalsNext, signalVars, Revise, Dies, Refresh, Review, TakeSnapshot, LoadSignals, FillCache,
               ListSignals, LookForNote, PublishDocument, PublishClaim, Refreshed, BeginReview, ReadSignal,
               ApplyChange, BeginDelete, DeleteNote
    <2> QED BY <1>1, <2>1, <2>2, <2>3
<1>4. notes' \in [doc : {"none", "active", "deleted"}, claims : [Id -> {"none", "active", "deleted"}]]
    <2>1. ASSUME NEW r \in Refresher, PublishDocument(r) \/ PublishClaim(r)
          PROVE  notes' \in [doc : {"none", "active", "deleted"}, claims : [Id -> {"none", "active", "deleted"}]]
        <3>1. [notes EXCEPT !.doc = "active"] \in [doc : {"none", "active", "deleted"}, claims : [Id -> {"none", "active", "deleted"}]]
            BY <1>1
        <3>2. [notes.claims EXCEPT ![rf[r].item] = "active"] \in [Id -> {"none", "active", "deleted"}]
            BY <1>1
        <3> QED BY <1>1, <2>1, <3>1, <3>2 DEF PublishDocument, PublishClaim
    <2>2. ASSUME NEW v \in Reviewer, DeleteNote(v)
          PROVE  notes' \in [doc : {"none", "active", "deleted"}, claims : [Id -> {"none", "active", "deleted"}]]
        BY <1>1, <2>2 DEF DeleteNote
    <2>3. \/ \E r \in Refresher : PublishDocument(r) \/ PublishClaim(r)
          \/ \E v \in Reviewer : DeleteNote(v)
          \/ UNCHANGED notes
        BY DEF SignalsNext, signalVars, Revise, Dies, Refresh, Review, TakeSnapshot, LoadSignals, StoreSignals, FillCache,
               ListSignals, LookForNote, Refreshed, BeginReview, ReadSignal, ApplyChange, SaveReview, BeginDelete
    <2> QED BY <1>1, <2>1, <2>2, <2>3
<1>5. tally' \in [cache : SUBSET (1..MaxRevision), applied : SUBSET Id, crashes : 0..MaxDeaths]
    <2>1. ASSUME NEW r \in Refresher, FillCache(r)
          PROVE  tally' \in [cache : SUBSET (1..MaxRevision), applied : SUBSET Id, crashes : 0..MaxDeaths]
        <3>1. Revision(r) \in 1..MaxRevision
            BY <2>1 DEF FillCache, SignalsInv, RefresherFits, Id, Revision
        <3> QED BY <1>1, <2>1, <3>1 DEF FillCache
    <2>2. ASSUME NEW v \in Reviewer, ApplyChange(v)
          PROVE  tally' \in [cache : SUBSET (1..MaxRevision), applied : SUBSET Id, crashes : 0..MaxDeaths]
        <3>1. rv[v].id \in Id
            BY <2>2 DEF ApplyChange, SignalsInv, RequestFits
        <3> QED BY <1>1, <2>2, <3>1 DEF ApplyChange
    <2>3. ASSUME Dies
          PROVE  tally' \in [cache : SUBSET (1..MaxRevision), applied : SUBSET Id, crashes : 0..MaxDeaths]
        BY <1>1, <2>3 DEF Dies, SignalsConstants
    <2>4. \/ \E r \in Refresher : FillCache(r)
          \/ \E v \in Reviewer : ApplyChange(v)
          \/ Dies
          \/ UNCHANGED tally
        BY DEF SignalsNext, signalVars, Revise, Refresh, Review, TakeSnapshot, LoadSignals, StoreSignals,
               ListSignals, LookForNote, PublishDocument, PublishClaim, Refreshed, BeginReview, ReadSignal,
               SaveReview, BeginDelete, DeleteNote
    <2> QED BY <1>1, <2>1, <2>2, <2>3, <2>4
<1> QED BY <1>2, <1>3, <1>4, <1>5 DEF SignalsTypeOK

\* Nobody has read a signal yet.
LEMMA InitSignalsInv ==
    ASSUME SignalsConstants, SignalsInit
    PROVE  SignalsInv
<1>1. SignalsTypeOK
    BY DEF SignalsInit, SignalsTypeOK, Status, SignalsConstants
<1> QED BY <1>1, ReadyFits DEF SignalsInit, SignalsInv

\* Every step keeps who stores a signal that was not settled when it was read.
LEMMA NextSignalsInv ==
    ASSUME SignalsConstants, SignalsInv, [SignalsNext]_signalVars
    PROVE  SignalsInv'
<1>1. DOMAIN rf = Refresher /\ DOMAIN rv = Reviewer
      /\ (\A r \in Refresher : RefresherFits(rf[r])) /\ (\A v \in Reviewer : RequestFits(rv[v]))
    BY DEF SignalsInv
<1>2. \/ UNCHANGED rf
      \/ \E r \in Refresher : \E m : RefresherFits(m) /\ rf' = [rf EXCEPT ![r] = m]
    <2>1. UNCHANGED rf \/ (\E r \in Refresher : Refresh(r)) \/ (\E r \in Refresher : rf' = [rf EXCEPT ![r] = Ready])
        BY DEF SignalsNext, signalVars, Revise, Dies, Review, BeginReview, ReadSignal, ApplyChange, SaveReview, BeginDelete, DeleteNote
    <2> QED BY <2>1, RefreshFits, ReadyFits
<1>3. \/ UNCHANGED rv
      \/ \E v \in Reviewer : \E m : RequestFits(m) /\ rv' = [rv EXCEPT ![v] = m]
    <2>1. UNCHANGED rv \/ (\E v \in Reviewer : Review(v)) \/ (\E v \in Reviewer : rv' = [rv EXCEPT ![v] = NoRequest])
        BY DEF SignalsNext, signalVars, Revise, Dies, Refresh, TakeSnapshot, LoadSignals, StoreSignals, FillCache, ListSignals,
               LookForNote, PublishDocument, PublishClaim, Refreshed
    <2> QED BY <2>1, ReviewFits, ReadyFits
<1>4. DOMAIN rf' = Refresher /\ \A r \in Refresher : RefresherFits(rf'[r])
    BY <1>1, <1>2
<1>5. DOMAIN rv' = Reviewer /\ \A v \in Reviewer : RequestFits(rv'[v])
    BY <1>1, <1>3
<1> QED BY <1>4, <1>5, NextSignalsTypeOK DEF SignalsInv, RefresherFits, RequestFits, Refreshing, Requests

\* The invariant holds in every behaviour.
LEMMA SignalsInvHolds ==
    ASSUME SignalsConstants
    PROVE  SignalsSpec => []SignalsInv
<1>1. SignalsInit => SignalsInv
    BY InitSignalsInv
<1>2. SignalsInv /\ [SignalsNext]_signalVars => SignalsInv'
    BY NextSignalsInv
<1> QED BY <1>1, <1>2, PTL DEF SignalsSpec

\* The signals, the notes and the tally have their types.
THEOREM SignalsTypes ==
    ASSUME SignalsConstants
    PROVE  SignalsSpec => []SignalsTypeOK
<1>1. SignalsInv => SignalsTypeOK
    BY DEF SignalsInv
<1> QED BY <1>1, SignalsInvHolds, PTL

\* A settled signal changes only because the worklog has another revision, or through a review
\* or a save that read it before it was settled (store.py:533, :577).
THEOREM SettledLast ==
    ASSUME SignalsConstants
    PROVE  SignalsSpec => [][SettledChanges]_signalVars
<1>1. SignalsInv /\ [SignalsNext]_signalVars => [SettledChanges]_signalVars
    <2> SUFFICES ASSUME SignalsInv, SignalsNext, NEW i \in Id, signals[i] \in Settled, signals'[i] # signals[i]
                 PROVE  \/ \E r \in Refresher : /\ rf[r].at = "store" /\ rf'[r].at # "store"
                                                /\ IF i = rf[r].id THEN rf[r].seen[i] \notin Settled
                                                   ELSE i[2] # Revision(r) /\ signals'[i] = "superseded"
                        \/ \E v \in Reviewer : rv[v].at = "save" /\ rv[v].id = i /\ rv'[v].at = "idle"
        BY DEF SettledChanges, signalVars
    <2>1. \/ \E r \in Refresher : StoreSignals(r)
          \/ \E v \in Reviewer : SaveReview(v)
        BY DEF SignalsNext, signalVars, Revise, Dies, Refresh, Review, TakeSnapshot, LoadSignals, FillCache,
               ListSignals, LookForNote, PublishDocument, PublishClaim, Refreshed, BeginReview, ReadSignal,
               ApplyChange, BeginDelete, DeleteNote
    <2>2. ASSUME NEW r \in Refresher, StoreSignals(r)
          PROVE  /\ rf[r].at = "store" /\ rf'[r].at # "store"
                 /\ IF i = rf[r].id THEN rf[r].seen[i] \notin Settled
                    ELSE i[2] # Revision(r) /\ signals'[i] = "superseded"
        <3>1. rf[r] \in Refreshing /\ DOMAIN rf = Refresher /\ rf[r].at = "store" /\ rf[r].seen[rf[r].id] \notin Settled
            BY <2>2 DEF StoreSignals, SignalsInv, RefresherFits, IsSettled
        <3>2. rf'[r].at = AfterSave(r) /\ AfterSave(r) # "store"
            BY <2>2, <3>1 DEF StoreSignals, AfterSave, Refreshing
        <3>3. signals'[i] = IF i = rf[r].id THEN "proposed"
                            ELSE IF rf[r].seen[i] # "none" /\ i[2] # Revision(r) THEN "superseded"
                            ELSE signals[i]
            BY <2>2 DEF StoreSignals
        <3> QED BY <3>1, <3>2, <3>3
    <2>3. ASSUME NEW v \in Reviewer, SaveReview(v)
          PROVE  rv[v].at = "save" /\ rv[v].id = i /\ rv'[v].at = "idle"
        BY <2>3 DEF SaveReview, SignalsInv, SignalsTypeOK, NoRequest
    <2> QED BY <2>1, <2>2, <2>3
<1> QED BY <1>1, SignalsInvHolds, PTL DEF SignalsSpec

\* A note that the manager deleted comes back only through a publication that looked for it
\* before (worklog_evidence.py:119).
THEOREM DeletionLasts ==
    ASSUME SignalsConstants
    PROVE  SignalsSpec => [][DeletionChanges]_signalVars
<1>1. SignalsInv /\ [SignalsNext]_signalVars => [DeletionChanges]_signalVars
    <2> SUFFICES ASSUME SignalsInv, SignalsNext, notes.doc = "deleted", notes'.doc # "deleted"
                 PROVE  \E r \in Refresher : rf[r].at = "document"
        BY DEF DeletionChanges, signalVars
    <2>1. \/ \E r \in Refresher : PublishDocument(r) \/ PublishClaim(r)
          \/ \E v \in Reviewer : DeleteNote(v)
        BY DEF SignalsNext, signalVars, Revise, Dies, Refresh, Review, TakeSnapshot, LoadSignals, StoreSignals, FillCache,
               ListSignals, LookForNote, Refreshed, BeginReview, ReadSignal, ApplyChange, SaveReview, BeginDelete
    <2>2. notes \in [doc : {"none", "active", "deleted"}, claims : [Id -> {"none", "active", "deleted"}]]
        BY DEF SignalsInv, SignalsTypeOK
    <2> QED BY <2>1, <2>2 DEF PublishDocument, PublishClaim, DeleteNote
<1> QED BY <1>1, SignalsInvHolds, PTL DEF SignalsSpec

(*****************************************************************************)
(* Records: what the parts promise together.                                  *)
(*****************************************************************************)

\* Every record that is saved, and every copy of one in memory, has its type, whatever steps
\* of the parts are taken.
THEOREM RecordsTyped ==
    ASSUME ImportConstants, KnowledgeConstants, SignalsConstants, DecisionsConstants
    PROVE  RecordsSpec => []RecordsTypeOK
<1>1. /\ TypeOK /\ ImportTypeOK /\ KnowledgeTypeOK /\ SignalsTypeOK /\ DecisionsTypeOK
      => RecordsTypeOK
    BY DEF RecordsTypeOK
<1> QED BY <1>1, LeaseTypes, ImportTypes, KnowledgeTyped, SignalsTypes, DecisionsTypes, PTL DEF RecordsSpec

\* What was reviewed, superseded or deleted stays so: claims, signals and published notes
\* (review_claim, save_signal, delete_knowledge).
THEOREM SettledRecordsStay ==
    ASSUME KnowledgeConstants, SignalsConstants
    PROVE  RecordsSpec => SettledStays
<1>1. [SettledChanges]_signalVars /\ [DeletionChanges]_signalVars
        => [SettledChanges /\ DeletionChanges]_signalVars
    OBVIOUS
<1> QED BY <1>1, OnlyReadersRevive, SettledLast, DeletionLasts, PTL DEF RecordsSpec, SettledStays
=============================================================================
