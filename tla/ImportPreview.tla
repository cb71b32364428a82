--------------------------- MODULE ImportPreview ---------------------------
(***************************************************************************)
(* The preview of an upload and the merge of its planning rows              *)
(* (services/imports.py): which rows get which errors, how rows are matched  *)
(* to Timecue, and what a confirmed import writes into the planning overlay. *)
(*                                                                         *)
(* A row has its number in its sheet, `line`, and cells.                     *)
(* A cell is a key, a set of keys, a number or a token that says what is     *)
(* wrong with it ("ordered", "reversed", "naive" for a pair of dates), or     *)
(* Nothing if empty.  Cells that nothing refers to (names, addresses,        *)
(* coordinates, weather rules), formulas, file types and the limits on rows  *)
(* and bytes, each an error of its own, are the token of the cell `text`.    *)
(***************************************************************************)
EXTENDS Integers, Sequences, FiniteSets, FiniteSetsExt, SequencesExt

CONSTANTS Nothing,
          Sheets,           \* the uploads: sequences of rows
          Members,          \* Timecue's members: [ids : a sequence of ids, profile]
          Snapshot,         \* the Timecue ids an explicit id is looked up in
          PreviousMappings,          \* [key of a mapping -> id], from earlier uploads
          KeyPart           \* [key -> what a row key has of it]

VARIABLES upload,   \* [at, sheet, ids, errors, plan]
          search    \* [roots, path, left, visited, marked], of the search for cycles

previewVars == <<upload, search>>

BlankRow == [entity |-> "planning", line |-> 1, key |-> Nothing, project |-> Nothing, task |-> Nothing,
             worker |-> Nothing, member |-> Nothing, upstream |-> Nothing, skills |-> {},
             needs |-> {}, transfer |-> FALSE, from |-> Nothing, to |-> Nothing,
             starts |-> Nothing, dates |-> "ordered", effort |-> <<>>, crew |-> <<>>, text |-> "ok"]

-----------------------------------------------------------------------------
\* _stable_row_key: the row's identity in receipts and mappings.  _key_part has "-" for
\* every run of characters but letters, digits, ".", "_" and "-", and at most 128 of
\* them, so that different keys can have one part.
PartOr(key, row) == IF key = Nothing THEN <<"row", row.line>> ELSE <<"key", KeyPart[key]>>

RowKey(row) ==
    CASE row.entity = "assignments"               -> <<row.entity, PartOr(row.task, row), PartOr(row.worker, row)>>
      [] row.entity = "planning" /\ row.transfer  ->
           <<row.entity, "transfer", PartOr(row.from, row), PartOr(row.to, row),
             PartOr(row.worker, row), PartOr(row.starts, row)>>
      [] row.entity = "planning" /\ ~row.transfer -> <<row.entity, "task", PartOr(row.task, row)>>
      [] OTHER                                    -> <<row.entity, PartOr(row.key, row)>>

Required(row) ==
    CASE row.entity = "tasks"       -> <<row.key, row.project>>
      [] row.entity = "workers"     -> <<row.key, row.member>>
      [] row.entity = "assignments" -> <<row.task, row.worker>>
      [] row.entity = "planning"    -> IF row.transfer THEN <<row.from, row.to, row.worker>>
                                       ELSE <<row.task>>
      [] OTHER                      -> <<row.key>>

Complete(row) == \A i \in DOMAIN Required(row) : Required(row)[i] # Nothing

DatesOk(row) ==
    (row.entity \in {"tasks", "planning"} /\ row.dates # Nothing) => row.dates = "ordered"

\* Sorted effort, all three of it or none of it compared; a minimum crew needs a
\* maximum that is as large, or none.
ValuesOk(row) ==
    row.entity = "planning" =>
      /\ \A i \in DOMAIN row.effort : row.effort[i] >= 0
      /\ Len(row.effort) = 3 => row.effort[1] <= row.effort[2] /\ row.effort[2] <= row.effort[3]
      /\ \A i \in DOMAIN row.crew : row.crew[i] >= 0
      /\ Len(row.crew) = 2 => row.crew[1] <= row.crew[2]

RowOk(row) == Complete(row) /\ DatesOk(row) /\ ValuesOk(row) /\ row.text = "ok"

-----------------------------------------------------------------------------
Rows(sheet, entity) == {i \in DOMAIN sheet : sheet[i].entity = entity}
Known(sheet, entity) == {sheet[i].key : i \in Rows(sheet, entity)} \ {Nothing}

Duplicate(sheet, i) ==
    /\ sheet[i].key # Nothing
    /\ \E j \in Rows(sheet, sheet[i].entity) \ {i} : sheet[j].key = sheet[i].key

\* What a row refers to: pairs of an entity and a key (_require_reference).
References(row) ==
    CASE row.entity = "tasks"       -> {<<"projects", row.project>>}
      [] row.entity = "workers"     -> {<<"skills", s>> : s \in row.skills}
      [] row.entity = "assignments" -> {<<"tasks", row.task>>, <<"workers", row.worker>>}
      [] row.entity = "planning"    ->
           (IF row.transfer
            THEN {<<"projects", row.from>>, <<"projects", row.to>>, <<"workers", row.worker>>}
            ELSE {<<"tasks", row.task>>})
             \cup {<<"tasks", n>> : n \in row.needs} \cup {<<"skills", s>> : s \in row.skills}
      [] OTHER                      -> {}

Resolves(sheet, row) ==
    \A ref \in References(row) : ref[2] # Nothing => ref[2] \in Known(sheet, ref[1])

\* _match_member indexes a member under each of its id columns: a member with the
\* same id in two columns is found twice.
Matches(row) == {x \in Members \X (1..5) : x[2] \in DOMAIN x[1].ids /\ x[1].ids[x[2]] = row.member}

Matched(row) == (row.entity = "workers" /\ row.member # Nothing) => Cardinality(Matches(row)) = 1

\* _validate_explicit_upstream_id.
ExplicitOk(row) ==
    (row.entity \in {"projects", "tasks", "skills"} /\ row.upstream # Nothing) => row.upstream \in Snapshot

-----------------------------------------------------------------------------
\* _mark_planning_cycles.  The graph has the last planning row of each task, a
\* transfer's too when it names one.
Planned(sheet) == {i \in Rows(sheet, "planning") : sheet[i].task # Nothing}

LastRow(sheet, t) == Max({i \in Planned(sheet) : sheet[i].task = t})
Graph(sheet) == [t \in {sheet[i].task : i \in Planned(sheet)} |-> sheet[LastRow(sheet, t)].needs]

\* The tasks of the graph that a task waits for.
Successors(g, t) == g[t] \cap DOMAIN g

SearchOf(sheet) ==
    LET g == Graph(sheet) IN
    [roots |-> DOMAIN g, path |-> <<>>, left |-> [t \in DOMAIN g |-> Successors(g, t)],
     visited |-> {}, marked |-> {}]

From(path, t) == {path[i] : i \in {j \in DOMAIN path : \E k \in 1..j : path[k] = t}}

\* Mutation of Enter: a task on the path is one that was visited.
EnterForgets(s, t) ==
    IF t \in ToSet(s.path) \cup s.visited THEN s ELSE [s EXCEPT !.path = Append(@, t)]

\* visit(t): a task on the path closes a cycle, one that was visited is not walked again.
Enter(s, t) ==
    IF t \in ToSet(s.path) THEN [s EXCEPT !.marked = @ \cup From(s.path, t)]
    ELSE IF t \in s.visited THEN s ELSE [s EXCEPT !.path = Append(@, t)]

Top == search.path[Len(search.path)]

VisitRoot ==
    /\ upload.at = "uploaded" /\ search.path = <<>>
    /\ \E t \in search.roots : search' = Enter([search EXCEPT !.roots = @ \ {t}], t)
    /\ UNCHANGED upload

VisitNext ==
    /\ upload.at = "uploaded" /\ search.path # <<>>
    /\ \E t \in search.left[Top] : search' = Enter([search EXCEPT !.left[Top] = @ \ {t}], t)
    /\ UNCHANGED upload

Leave ==
    /\ upload.at = "uploaded" /\ search.path # <<>> /\ search.left[Top] = {}
    /\ search' = [search EXCEPT !.visited = @ \cup {Top}, !.path = Front(@)]
    /\ UNCHANGED upload

OnCycle(sheet, marked, i) ==
    /\ i \in Planned(sheet)
    /\ i = LastRow(sheet, sheet[i].task)
    /\ sheet[i].task \in marked

-----------------------------------------------------------------------------
\* _validate_rows: the rows with an error.
Faulty(sheet, marked) ==
    {i \in DOMAIN sheet :
       \/ ~RowOk(sheet[i]) \/ Duplicate(sheet, i) \/ ~Resolves(sheet, sheet[i])
       \/ ~Matched(sheet[i]) \/ ~ExplicitOk(sheet[i]) \/ OnCycle(sheet, marked, i)}

\* What the row itself is mapped to: an explicit id that Timecue has, the profile of the
\* member it matches.
OwnMapping(row) ==
    IF row.entity = "workers"
    THEN IF Cardinality(Matches(row)) = 1 THEN (CHOOSE m \in Matches(row) : TRUE)[1].profile ELSE Nothing
    ELSE IF row.entity \in {"projects", "tasks", "skills"} /\ row.upstream \in Snapshot
         THEN row.upstream ELSE Nothing

\* It goes before what an earlier row with the row's key was mapped to (_previous_mappings).
MappingOf(row) ==
    IF OwnMapping(row) # Nothing THEN OwnMapping(row)
    ELSE IF RowKey(row) \in DOMAIN PreviousMappings THEN PreviousMappings[RowKey(row)] ELSE Nothing

PreviewInit ==
    \E sheet \in Sheets :
      /\ upload = [at |-> "uploaded", sheet |-> sheet, ids |-> [i \in {} |-> Nothing],
                   errors |-> {}, plan |-> Nothing]
      /\ search = SearchOf(sheet)

\* preview_import, when the search is over.
PreviewSheet ==
    /\ upload.at = "uploaded" /\ search.path = <<>> /\ search.roots = {}
    /\ LET errors == Faulty(upload.sheet, search.marked)
       IN  upload' = [upload EXCEPT !.errors = errors,
                        !.at = IF errors = {} THEN "ready" ELSE "needs_correction",
                        !.ids = [i \in DOMAIN upload.sheet |-> MappingOf(upload.sheet[i])]]
    /\ UNCHANGED search

\* The rows before with the row's key: their receipt is the row's.
Sharing(sheet, i) == {j \in DOMAIN sheet : j < i /\ RowKey(sheet[j]) = RowKey(sheet[i])}

IdIn(sheet, ids, entity, key) ==
    LET rows == {i \in Rows(sheet, entity) : sheet[i].key = key /\ ids[i] # Nothing}
    IN  IF rows = {} THEN Nothing ELSE ids[Max(rows)]

\* _commit_projects and _commit_tasks without a fault (ImportCommit has the faults), row by
\* row.  A row that shares a receipt which is final is left as it is; a task whose project
\* has no id is blocked, and so not final; of the others each that has no id gets one.
Created(row) == <<"new", RowKey(row)>>

ProjectsCommitted(sheet, ids) ==
    [i \in DOMAIN sheet |->
       IF sheet[i].entity = "projects" /\ ids[i] = Nothing /\ Sharing(sheet, i) = {}
       THEN Created(sheet[i]) ELSE ids[i]]

HasProject(sheet, ids, i) == IdIn(sheet, ids, "projects", sheet[i].project) # Nothing
TasksCommitted(sheet, ids) ==
    [i \in DOMAIN sheet |->
       IF sheet[i].entity = "tasks" /\ ids[i] = Nothing /\ HasProject(sheet, ids, i)
          /\ \A j \in Sharing(sheet, i) : ~HasProject(sheet, ids, j)
       THEN Created(sheet[i]) ELSE ids[i]]

Committed(sheet, ids) == TasksCommitted(sheet, ProjectsCommitted(sheet, ids))

TaskBlocked(sheet, ids, i) ==
    \A j \in DOMAIN sheet : RowKey(sheet[j]) = RowKey(sheet[i]) => ~HasProject(sheet, ids, j)

\* _commit_assignments, for the task of row i if it is the task's first: the receipts of its
\* rows are written together, unless all of them are final.
AssignTask(sheet, ids, receipts, i) ==
    LET task == sheet[i].task
        rows == {j \in Rows(sheet, "assignments") : sheet[j].task = task}
        manual == {j \in rows : IdIn(sheet, ids, "workers", sheet[j].worker) = Nothing}
        Written(some, status) == [k \in {RowKey(sheet[j]) : j \in some} |-> status]
        mapped == \E t \in Rows(sheet, "tasks") : /\ sheet[t].key = task /\ HasProject(sheet, ids, t)
                                                  /\ IdIn(sheet, ids, "tasks", task) # Nothing
    IN  IF i \notin rows \/ (\E j \in rows : j < i)
           \/ \A j \in rows : RowKey(sheet[j]) \in DOMAIN receipts /\ receipts[RowKey(sheet[j])] # "blocked"
        THEN receipts
        ELSE IF ~mapped THEN Written(rows, "blocked") @@ receipts
        ELSE Written(rows \ manual, "applied") @@ Written(manual, "manual") @@ receipts

Assigned(sheet, ids) ==
    LET step(receipts, i) == AssignTask(sheet, ids, receipts, i)
    IN  FoldLeftDomain(step, [k \in {} |-> "none"], sheet)

\* _planning_merge_ready: every receipt is applied or verified.
WhollyApplied(sheet, ids) ==
    /\ \A i \in Rows(sheet, "tasks") : ~TaskBlocked(sheet, ids, i)
    /\ \A k \in DOMAIN Assigned(sheet, ids) : Assigned(sheet, ids)[k] = "applied"

CommitSheet ==
    /\ upload.at = "ready"
    /\ LET ids == Committed(upload.sheet, upload.ids)
       IN  upload' = [upload EXCEPT !.ids = ids,
                        !.at = IF WhollyApplied(upload.sheet, ids) THEN "committed" ELSE "partial"]
    /\ UNCHANGED search

-----------------------------------------------------------------------------
\* merge_confirmed_planning on an empty overlay.
IdOf(entity, key) == IdIn(upload.sheet, upload.ids, entity, key)

ProjectRows == Rows(upload.sheet, "projects")
TaskRows == Rows(upload.sheet, "tasks")
Transfers == {i \in Rows(upload.sheet, "planning") : upload.sheet[i].transfer}

\* The last planning row of a task that is not a transfer.
Assumptions(t) ==
    LET rows == {i \in Rows(upload.sheet, "planning") \ Transfers : upload.sheet[i].task = t}
    IN  IF rows = {} THEN BlankRow ELSE upload.sheet[Max(rows)]

\* A planning cell goes before the task's own.
NeedsOf(i) == LET planned == Assumptions(upload.sheet[i].key).needs
              IN  IF planned # {} THEN planned ELSE upload.sheet[i].needs

MergedTask(i) == [id |-> IdOf("tasks", upload.sheet[i].key),
                  project |-> IdOf("projects", upload.sheet[i].project),
                  needs |-> {IdOf("tasks", n) : n \in NeedsOf(i)} \ {Nothing}]

MergedTransfer(i) == [from |-> IdOf("projects", upload.sheet[i].from),
                      to |-> IdOf("projects", upload.sheet[i].to),
                      worker |-> IdOf("workers", upload.sheet[i].worker)]

Unmapped ==
    \/ \E i \in ProjectRows : IdOf("projects", upload.sheet[i].key) = Nothing
    \/ \E i \in TaskRows : MergedTask(i).id = Nothing \/ MergedTask(i).project = Nothing
    \/ \E i \in Transfers : Nothing \in {MergedTransfer(i).from, MergedTransfer(i).to,
                                        MergedTransfer(i).worker}

\* _merge_overlay_items: of rows with one id the last one counts, but a task without
\* prerequisites keeps those of the rows before.  A transfer's id is its row key.
OverlayTask(id) ==
    LET rows == {i \in TaskRows : MergedTask(i).id = id}
        needing == {i \in rows : MergedTask(i).needs # {}}
    IN  [id |-> id, project |-> MergedTask(Max(rows)).project,
         needs |-> IF needing = {} THEN {} ELSE MergedTask(Max(needing)).needs]

LastTransfers == {i \in Transfers : \A j \in Transfers : i \notin Sharing(upload.sheet, j)}

MergeSheet ==
    /\ upload.at = "committed"
    /\ upload' = IF Unmapped THEN [upload EXCEPT !.at = "blocked"]
                 ELSE [upload EXCEPT !.at = "merged",
                         !.plan = [tasks |-> {OverlayTask(MergedTask(i).id) : i \in TaskRows},
                                   transfers |-> {MergedTransfer(i) : i \in LastTransfers}]]
    /\ UNCHANGED search

PreviewNext == VisitRoot \/ VisitNext \/ Leave \/ PreviewSheet \/ CommitSheet \/ MergeSheet

PreviewSpec == PreviewInit /\ [][PreviewNext]_previewVars

\* An upload is a list of rows, and an id that Timecue gives is one.
PreviewConstants ==
    \A sheet \in Sheets : /\ sheet = [i \in 1..Len(sheet) |-> sheet[i]] /\ Len(sheet) \in Nat
                          /\ \A i \in DOMAIN sheet : Created(sheet[i]) # Nothing

-----------------------------------------------------------------------------
\* Tasks that all wait for one of them.
HasCycle(g) == \E C \in SUBSET DOMAIN g : C # {} /\ \A t \in C : g[t] \cap C # {}

\* A task that all the tasks it waits for, and they wait for, come back to.
OnACycle(g, t) ==
    \A D \in SUBSET DOMAIN g :
        Successors(g, t) \subseteq D /\ (\A u \in D : Successors(g, u) \subseteq D) => t \in D

\* Some row is marked when prerequisites form a cycle, in whatever order the search
\* walks them, and only rows on a cycle are marked.
CyclesAreFound ==
    upload.at # "uploaded" =>
      LET g == Graph(upload.sheet)
          marked == {i \in DOMAIN upload.sheet : OnCycle(upload.sheet, search.marked, i)}
      IN  (HasCycle(g) => marked # {}) /\ \A i \in marked : OnACycle(g, upload.sheet[i].task)

\* A preview that was ready and wholly applied leaves a plan without a cycle of tasks and
\* with all that they need.  Two things block its merge: a transfer of a worker without a
\* profile, and a project or task row without an id since its key, which no other row
\* has, gives the row key of an earlier row.  Three holes of the search are named: a transfer
\* row that also names a task hides the task's row, prerequisites in the task sheet are not
\* searched at all, and two rows may have one id, both of them claiming it or by a row
\* key that they share.
WithoutId == {i \in ProjectRows \cup TaskRows : upload.ids[i] = Nothing}
SharesRowKey(i) ==
    \E j \in Sharing(upload.sheet, i) : upload.sheet[j].key # upload.sheet[i].key

Unsearched == \/ \E i \in Transfers : upload.sheet[i].task # Nothing
              \/ \E i \in TaskRows : upload.sheet[i].needs # {}
              \/ \E i, j \in TaskRows : i # j /\ upload.ids[i] = upload.ids[j]

PlanGraph == [id \in {t.id : t \in upload.plan.tasks} |->
                UNION {t.needs : t \in {x \in upload.plan.tasks : x.id = id}}]

ReadyPreviewsMerge ==
    /\ upload.at = "blocked" => \/ \E i \in Transfers : MergedTransfer(i).worker = Nothing
                                \/ \E i \in WithoutId : SharesRowKey(i)
    /\ upload.at = "merged" /\ ~Unsearched => ~HasCycle(PlanGraph)
    /\ upload.at = "merged" => \A t \in upload.plan.tasks : t.needs \subseteq {x.id : x \in upload.plan.tasks}

\* A cycle of planning rows is marked, and what a ready preview imports can be merged but
\* for what is named (_mark_planning_cycles, merge_confirmed_planning).
PreviewIsRight == CyclesAreFound /\ ReadyPreviewsMerge
=============================================================================
