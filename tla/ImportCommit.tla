---------------------------- MODULE ImportCommit ----------------------------
(***************************************************************************)
(* The commit of previewed imports (services/imports.py).  A batch is a      *)
(* record of the database: its rows with the Timecue ids they are mapped to, *)
(* a receipt per row and a status.  A committer reads the whole record into  *)
(* memory, takes the rows in order (projects, tasks, assignments), sends one *)
(* request per row, reads back, and saves the whole record after each row.   *)
(* The lease of the organization lasts 180 seconds and is never renewed.     *)
(*                                                                         *)
(* Faults: a request that is lost before or after it had its effect, a       *)
(* readback that does not show the row yet, a death between two steps, a     *)
(* lease that runs out.  MaxFaults bounds them.                              *)
(*                                                                         *)
(* profiled says whether the assigned workers have Timecue profiles.  Left   *)
(* out: the contents of the rows (see ImportPreview), team assignments, and  *)
(* the preview hash, which no step of a commit changes.                      *)
(***************************************************************************)
EXTENDS Naturals, Sequences, FiniteSets, Holders

CONSTANTS Batch, Committer, Manager,
          Order,            \* the keys of the supported rows, in ENTITY_ORDER
          Entity,           \* [Key -> {"projects", "tasks", "assignments"}]
          Parent,           \* the row a task or an assignment refers to
          Edit,             \* facts a manager may add to the overlay
          Profiled,         \* whether an upload's workers have profiles: a set of Booleans
          NoBatch,
          MaxRecords, MaxFaults, MaxCommits

Key == {Order[i] : i \in DOMAIN Order}

VARIABLES batches,   \* the saved records
          timecue,   \* the projects and tasks of Timecue, oldest first: [row, parent, staffed]
          importLease, overlay, draft,
          cm,        \* cm[c]: what committer c is doing, with its copy of the record
          counters

importVars == <<batches, timecue, importLease, overlay, draft, cm, counters>>

L == INSTANCE LeaseTable WITH Process <- Committer, Name <- {"imports:commit"},
                              lease <- importLease
O == INSTANCE PlanningOverlay WITH Writer <- Committer \cup Manager, Fact <- 1..MaxRecords \cup Edit

Ids == 0..MaxRecords      \* 0: no mapping
Final == {"applied", "verified"}
Receipts == Final \cup {"none", "failed", "blocked", "manual", "needs_reconciliation"}
BatchRecord == [status : {"ready", "applied", "partially_applied", "needs_reconciliation"},
                planning : {"proposed", "confirmed", "needs_reconciliation"},
                receipt : [Key -> Receipts], map : [Key -> Ids], fresh : SUBSET Key, profiled : BOOLEAN]

\* What the proofs assume of the constants.
ImportConstants ==
    /\ Order \in Seq(Key)
    /\ \A i, j \in DOMAIN Order : Order[i] = Order[j] => i = j
    /\ Entity \in [Key -> {"projects", "tasks", "assignments"}] /\ Parent \in [Key -> Key]
    /\ \A k \in Key : /\ Entity[k] = "tasks" => Entity[Parent[k]] = "projects"
                      /\ Entity[k] = "assignments" => Entity[Parent[k]] = "tasks"
    /\ Profiled \subseteq BOOLEAN
    /\ NoBatch \notin BatchRecord
    /\ Free \notin Committer /\ Orphan \notin Committer /\ Free # Orphan
    /\ Committer \cap Manager = {}
    /\ MaxRecords \in Nat

Idle == [pc |-> "idle", batch |-> NoBatch, live |-> TRUE, resume |-> FALSE, confirm |-> FALSE,
         row |-> 1, mem |-> NoBatch]

ImportTypeOK ==
    /\ batches \in [Batch -> BatchRecord \cup {NoBatch}]
    /\ timecue \in Seq([row : Key, parent : Ids, staffed : BOOLEAN])
    /\ L!TableTypeOK /\ O!OverlayTypeOK
    /\ \A c \in Committer : cm[c].mem \in BatchRecord \cup {NoBatch}

ImportInit ==
    /\ batches = [b \in Batch |-> NoBatch]
    /\ timecue = <<>>
    /\ L!TableInit /\ O!OverlayInit
    /\ cm = [c \in Committer |-> Idle]
    /\ counters = [commits |-> 0, faults |-> 0, lapsed |-> FALSE, edits |-> {}]

Fault == counters.faults < MaxFaults /\ counters' = [counters EXCEPT !.faults = @ + 1]

-----------------------------------------------------------------------------
\* preview_import of the same source: a row takes the mapping an earlier record
\* has for its key, if one has (_previous_mappings).
Earlier(k) == {batches[b].map[k] : b \in {x \in Batch : batches[x] # NoBatch}} \ {0}

Preview(b) ==
    /\ batches[b] = NoBatch
    /\ \E m \in [Key -> Ids], profiled \in Profiled :
         /\ \A k \in Key : IF Earlier(k) = {} THEN m[k] = 0 ELSE m[k] \in Earlier(k)
         /\ batches' = [batches EXCEPT ![b] =
                          [status |-> "ready", planning |-> "proposed", map |-> m,
                           receipt |-> [k \in Key |-> "none"], profiled |-> profiled,
                           fresh |-> {k \in Key : m[k] = 0}]]
    /\ UNCHANGED <<timecue, importLease, overlay, draft, cm, counters>>

\* commit_import: no lease, no commit (409).
Begin(c, b, live, resume, confirm) ==
    /\ cm[c].pc = "idle"
    /\ batches[b] # NoBatch
    /\ counters.commits < MaxCommits
    /\ L!Acquire(c, "imports:commit")
    /\ cm' = [cm EXCEPT ![c] = [Idle EXCEPT !.pc = "load", !.batch = b, !.live = live,
                                            !.resume = resume, !.confirm = confirm]]
    /\ counters' = [counters EXCEPT !.commits = @ + 1]
    /\ UNCHANGED <<batches, timecue, overlay, draft>>

Unfinished(r) == r.status \in {"partially_applied", "needs_reconciliation"}

\* The early returns of _commit_import_locked, or the copy of the record.
Load(c) ==
    LET r == batches[cm[c].batch] IN
    /\ cm[c].pc = "load"
    /\ IF r.status = "applied" \/ (Unfinished(r) /\ ~cm[c].resume)
       THEN cm' = [cm EXCEPT ![c] = Idle] /\ L!Release(c, "imports:commit")
       ELSE /\ cm' = [cm EXCEPT ![c].mem = r, ![c].pc = IF cm[c].live THEN "row" ELSE "manual"]
            /\ UNCHANGED importLease
    /\ UNCHANGED <<batches, timecue, overlay, draft, counters>>

Terminal(receipt) == receipt \in Final \cup {"manual"}

\* Without a Timecue client every open row becomes a manual step.
ManualOnly(c) ==
    /\ cm[c].pc = "manual"
    /\ cm' = [cm EXCEPT ![c].pc = "end", ![c].mem.status = "needs_reconciliation",
         ![c].mem.receipt = [k \in Key |-> IF Terminal(@[k]) THEN @[k] ELSE "manual"]]
    /\ UNCHANGED <<batches, timecue, importLease, overlay, draft, counters>>

-----------------------------------------------------------------------------
\* The row the committer is at, and its copy with the row's receipt and mapping.
CurrentRow(c) == Order[cm[c].row]
AtRow(c) == cm[c].pc = "row" /\ cm[c].row <= Len(Order)
ParentId(c) == cm[c].mem.map[Parent[CurrentRow(c)]]
Mapped(c) == cm[c].mem.map[CurrentRow(c)]

Receipt(c, status, id) ==
    cm' = [cm EXCEPT ![c].mem.receipt[CurrentRow(c)] = status, ![c].mem.map[CurrentRow(c)] = id,
                     ![c].pc = "save"]

Skip(c) ==
    /\ AtRow(c)
    /\ Terminal(cm[c].mem.receipt[CurrentRow(c)])
    /\ cm' = [cm EXCEPT ![c].row = @ + 1]
    /\ UNCHANGED <<batches, timecue, importLease, overlay, draft, counters>>

Open(c, entities) ==
    /\ AtRow(c)
    /\ Entity[CurrentRow(c)] \in entities
    /\ ~Terminal(cm[c].mem.receipt[CurrentRow(c)])

\* A blocked row is not saved until the next row is, or the batch ends.
Blocked(c) ==
    /\ Open(c, {"tasks", "assignments"})
    /\ ParentId(c) = 0
    /\ cm' = [cm EXCEPT ![c].mem.receipt[CurrentRow(c)] = "blocked", ![c].row = @ + 1]
    /\ UNCHANGED <<batches, timecue, importLease, overlay, draft, counters>>

CanSend(c) == Entity[CurrentRow(c)] = "projects" \/ ParentId(c) # 0

NewRecord(c) == [row |-> CurrentRow(c), staffed |-> FALSE,
                 parent |-> IF Entity[CurrentRow(c)] = "tasks" THEN ParentId(c) ELSE 0]

\* Mutation of UnreadReceipt: the answer of the POST is taken for the readback.
UnreadAsApplied == "applied"

\* The receipt of a row that Timecue accepted and the readback did not show.
UnreadReceipt == "needs_reconciliation"

\* A row without a mapping is created and read back; only then it is mapped.
Create(c) ==
    /\ Open(c, {"projects", "tasks"})
    /\ CanSend(c) /\ Mapped(c) = 0
    /\ Len(timecue) < MaxRecords
    /\ \/ /\ timecue' = Append(timecue, NewRecord(c))
          /\ Receipt(c, "applied", Len(timecue) + 1)
          /\ UNCHANGED counters
       \/ /\ timecue' = Append(timecue, NewRecord(c))
          /\ \E status \in {UnreadReceipt, "failed"} : Receipt(c, status, 0)
          /\ Fault
       \/ /\ Receipt(c, "failed", 0)
          /\ Fault
          /\ UNCHANGED timecue
    /\ UNCHANGED <<batches, importLease, overlay, draft>>

\* A mapped project is looked up; a mapped task is looked up in its project, and
\* its dates may be patched ("applied").
InProject(c) == Entity[CurrentRow(c)] = "projects" \/ timecue[Mapped(c)].parent = ParentId(c)

Verify(c) ==
    /\ Open(c, {"projects", "tasks"})
    /\ CanSend(c) /\ Mapped(c) # 0
    /\ \/ /\ InProject(c)
          /\ \E status \in {"verified"} \cup (IF Entity[CurrentRow(c)] = "tasks" THEN {"applied"} ELSE {}) :
               Receipt(c, status, Mapped(c))
          /\ UNCHANGED counters
       \/ /\ ~InProject(c)
          /\ Receipt(c, "needs_reconciliation", Mapped(c))
          /\ UNCHANGED counters
       \/ /\ Receipt(c, "needs_reconciliation", Mapped(c)) /\ Fault
       \/ /\ Entity[CurrentRow(c)] = "tasks" /\ Receipt(c, "failed", Mapped(c)) /\ Fault
    /\ UNCHANGED <<batches, timecue, importLease, overlay, draft>>

\* The lookup of a mapped project has no handler: the commit ends where it is.
LookupFails(c) ==
    /\ Open(c, {"projects"})
    /\ Mapped(c) # 0
    /\ Fault
    /\ cm' = [cm EXCEPT ![c] = Idle]
    /\ L!Release(c, "imports:commit")
    /\ UNCHANGED <<batches, timecue, overlay, draft>>

\* The worker matched a member that has no worker profile.
NoProfile(c) ==
    /\ Open(c, {"assignments"})
    /\ CanSend(c) /\ ~cm[c].mem.profiled
    /\ cm' = [cm EXCEPT ![c].mem.receipt[CurrentRow(c)] = "manual", ![c].row = @ + 1]
    /\ UNCHANGED <<batches, timecue, importLease, overlay, draft, counters>>

\* The assignment of a task: GET, PUT of the union, GET.  The code has one PUT for all the
\* assignments of a task and writes their receipts together; a task has one here.
Assign(c) ==
    /\ Open(c, {"assignments"})
    /\ CanSend(c) /\ cm[c].mem.profiled
    /\ \/ /\ timecue' = [timecue EXCEPT ![ParentId(c)].staffed = TRUE]
          /\ Receipt(c, "applied", 0)
          /\ UNCHANGED counters
       \/ /\ timecue' = [timecue EXCEPT ![ParentId(c)].staffed = TRUE]
          /\ \E status \in {UnreadReceipt, "failed"} : Receipt(c, status, 0)
          /\ Fault
       \/ /\ Receipt(c, "failed", 0) /\ Fault
          /\ UNCHANGED timecue
    /\ UNCHANGED <<batches, importLease, overlay, draft>>

\* _persist_progress: the whole record, its status as it was read.
Save(c) ==
    /\ cm[c].pc = "save"
    /\ batches' = [batches EXCEPT ![cm[c].batch] = cm[c].mem]
    /\ cm' = [cm EXCEPT ![c].pc = "row", ![c].row = @ + 1]
    /\ UNCHANGED <<timecue, importLease, overlay, draft, counters>>

-----------------------------------------------------------------------------
StatusOf(receipts) ==
    IF receipts \subseteq Final THEN "applied"
    ELSE IF receipts \cap Final # {} THEN "partially_applied" ELSE "needs_reconciliation"

\* Mutation of MergeReady: planning waits for projects and tasks only to be sent.
MergeReadyWhenSent(record) == \A k \in Key : record.receipt[k] \notin {"none", "blocked"}

MergeReady(record) == \A k \in Key : record.receipt[k] \in Final

\* The rows that need nothing from Timecue are verified here; a planning row is
\* one, so every batch has a verified receipt.
Finish(c) ==
    LET done == [cm[c].mem EXCEPT !.status =
                    StatusOf({cm[c].mem.receipt[k] : k \in Key} \cup {"verified"})]
    IN  /\ cm[c].pc = "row"
        /\ cm[c].row > Len(Order)
        /\ IF cm[c].confirm /\ done.planning = "proposed" /\ MergeReady(done)
           THEN cm' = [cm EXCEPT ![c].mem = done, ![c].pc = "merge"] /\ O!ReadPlan(c, TRUE)
           ELSE cm' = [cm EXCEPT ![c].mem = done, ![c].pc = "end"] /\ UNCHANGED <<overlay, draft>>
        /\ UNCHANGED <<batches, timecue, importLease, counters>>

\* merge_confirmed_planning adds the mapped ids to what it read.
MergedIds(record) == {record.map[k] : k \in {x \in Key : Entity[x] # "assignments"}}

Merge(c) ==
    /\ cm[c].pc = "merge"
    /\ \/ /\ O!CheckPlan(c, MergedIds(cm[c].mem))
          /\ cm' = [cm EXCEPT ![c].pc = "write"]
       \/ /\ O!ConflictPlan(c)
          /\ cm' = [cm EXCEPT ![c].pc = "end", ![c].mem.planning = "needs_reconciliation",
                              ![c].mem.status = "needs_reconciliation"]
    /\ UNCHANGED <<batches, timecue, importLease, counters>>

Confirm(c) ==
    /\ cm[c].pc = "write"
    /\ O!WritePlan(c)
    /\ cm' = [cm EXCEPT ![c].pc = "end", ![c].mem.planning = "confirmed"]
    /\ UNCHANGED <<batches, timecue, importLease, counters>>

End(c) ==
    /\ cm[c].pc = "end"
    /\ batches' = [batches EXCEPT ![cm[c].batch] = cm[c].mem]
    /\ L!Release(c, "imports:commit")
    /\ cm' = [cm EXCEPT ![c] = Idle]
    /\ UNCHANGED <<timecue, overlay, draft, counters>>

-----------------------------------------------------------------------------
CommitterDies(c) ==
    /\ cm[c].pc # "idle"
    /\ Fault
    /\ cm' = [cm EXCEPT ![c] = Idle]
    /\ L!Abandon(c) /\ O!DropPlan(c)
    /\ UNCHANGED <<batches, timecue>>

\* 180 seconds go by.
LeaseLapses ==
    /\ counters.faults < MaxFaults
    /\ counters' = [counters EXCEPT !.faults = @ + 1, !.lapsed = TRUE]
    /\ L!Lapse("imports:commit")
    /\ UNCHANGED <<batches, timecue, overlay, draft, cm>>

\* put_planning_inputs: a manager's form, with or without the version it read.
OpenForm(m, e, expects) ==
    /\ e \notin counters.edits
    /\ O!ReadPlan(m, expects)
    /\ counters' = [counters EXCEPT !.edits = @ \cup {e}]
    /\ UNCHANGED <<batches, timecue, importLease, cm>>

SubmitForm(m) ==
    /\ \/ \E e \in counters.edits : O!CheckPlan(m, {e})
       \/ O!ConflictPlan(m)
       \/ O!WritePlan(m)
    /\ UNCHANGED <<batches, timecue, importLease, cm, counters>>

CommitStep(c) ==
    \/ \E b \in Batch, live, resume, confirm \in BOOLEAN : Begin(c, b, live, resume, confirm)
    \/ Load(c) \/ ManualOnly(c) \/ Skip(c) \/ Blocked(c) \/ Create(c) \/ Verify(c)
    \/ LookupFails(c) \/ NoProfile(c) \/ Assign(c) \/ Save(c) \/ Finish(c) \/ Merge(c) \/ Confirm(c) \/ End(c)

\* What becomes of the batches that were previewed.
Proceed ==
    \/ \E c \in Committer : CommitStep(c) \/ CommitterDies(c)
    \/ LeaseLapses
    \/ \E m \in Manager : SubmitForm(m) \/ \E e \in Edit, expects \in BOOLEAN : OpenForm(m, e, expects)

ImportNext == (\E b \in Batch : Preview(b)) \/ Proceed

ImportSpec == ImportInit /\ [][ImportNext]_importVars

-----------------------------------------------------------------------------
\* A saved receipt that says applied or verified names a row of Timecue: a record
\* made for this key, under the record its parent row is mapped to, and a task
\* that has the worker.  It must hold though rows are saved from copies that two
\* committers may have read.
Names(r, k) ==
    CASE Entity[k] = "projects"    -> r.map[k] # 0 /\ timecue[r.map[k]].row = k
      [] Entity[k] = "tasks"       -> r.map[k] # 0 /\ timecue[r.map[k]].row = k
                                      /\ timecue[r.map[k]].parent = r.map[Parent[k]]
      [] Entity[k] = "assignments" -> r.map[Parent[k]] # 0 /\ timecue[r.map[Parent[k]]].staffed

ReceiptsAreTrue ==
    \A b \in Batch : batches[b] # NoBatch =>
      \A k \in Key : batches[b].receipt[k] \in Final => Names(batches[b], k)

\* A commit makes at most one Timecue record of a row.  As long as no lease ran out, a row
\* has at most one for each upload that was previewed without a mapping and one for each
\* fault: no record is made twice for free.  (One lapse may cost several: a committer that
\* lost its lease saves its whole copy, and so takes back mappings that others saved.)
Made(k) == {i \in DOMAIN timecue : timecue[i].row = k}
Fresh(k) == {b \in Batch : batches[b] # NoBatch /\ k \in batches[b].fresh}

RecordsAreAccounted ==
    \A k \in Key : /\ Cardinality(Made(k)) <= counters.commits
                   /\ counters.lapsed \/ Cardinality(Made(k)) <= Cardinality(Fresh(k)) + counters.faults

\* Both: what a commit says it did is there, and nothing was done twice for free.
CommitIsAccounted == ReceiptsAreTrue /\ RecordsAreAccounted

\* As long as no lease ran out, the overlay knows a Timecue id only if a saved record has
\* it with a final receipt.  (A commit that lost its lease saves its whole copy and may take
\* the receipt away again.)
ReadBack(r, id) == r # NoBatch /\ \E k \in Key : r.map[k] = id /\ r.receipt[k] \in Final

PlanningIsReadBack ==
    counters.lapsed \/ \A id \in overlay.facts \ Edit : \E b \in Batch : ReadBack(batches[b], id)

\* An edit of a manager or an imported fact disappears only through a form that names
\* no version or after two saves that overlapped (imports.py:757, store.py:440).
EditsSurvive == [][O!LossIsOverlap]_importVars

\* docs/implementation-plan-v4.md:667: "repeating it creates no duplicates".
NoDuplicates == \A i, j \in DOMAIN timecue : timecue[i].row = timecue[j].row => i = j
=============================================================================
