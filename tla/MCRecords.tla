----------------------------- MODULE MCRecords -----------------------------
(***************************************************************************)
(* Instances of the modules about saved records, one part at a time: the     *)
(* lease, the commit of imports, planning edits beside a commit, the          *)
(* reading of files, the preview, the knowledge, the signals read by the     *)
(* route and by the job, the decisions and the calibration.                  *)
(***************************************************************************)
EXTENDS Records, ImportFile, ImportPreview, TLC

\* s: processes of the lease, managers, documents; a: imports, uploads;
\* c: committers, review requests.  Few names, for the symmetry has all their permutations.
CONSTANTS s1, s2, s3, a1, a2, c1, c2,
          Parts    \* the parts a run looks at

Perms == Permutations({s1, s2, s3}) \cup Permutations({a1, a2}) \cup Permutations({c1, c2})

\* A project, a task in it and an assignment of the task.
MCOrder == <<"p", "t", "a">>
MCEntity == "p" :> "projects" @@ "t" :> "tasks" @@ "a" :> "assignments"
MCParent == "p" :> "p" @@ "t" :> "p" @@ "a" :> "t"

-----------------------------------------------------------------------------
\* Previews: two projects, a skill, a worker, three tasks with their planning rows,
\* an assignment and a transfer.  The key 5 has the row key of 1, and 6 that of 2.
MCKeyPart == [k \in 1..4 |-> k] @@ 5 :> 1 @@ 6 :> 2
ARow(e, k) == [BlankRow EXCEPT !.entity = e, !.key = k]
ATask(t) == [ARow("tasks", t) EXCEPT !.project = 1]
AWorker(m) == [ARow("workers", 1) EXCEPT !.member = m, !.skills = {1}]
APlan(t, needs) == [BlankRow EXCEPT !.task = t, !.needs = needs]
ATransfer(t, needs) == [BlankRow EXCEPT !.task = t, !.needs = needs, !.transfer = TRUE,
                                      !.from = 1, !.to = 2, !.worker = 1]
AnAssignment == [BlankRow EXCEPT !.entity = "assignments", !.task = 1, !.worker = 1]

Directory == <<ARow("projects", 1), ARow("projects", 2), ARow("skills", 1), AWorker(1),
               ATask(1), ATask(2), ATask(3)>>
Graphs3 == {Directory \o <<APlan(1, f[1]), APlan(2, f[2]), APlan(3, f[3])>> :
              f \in [1..3 -> SUBSET (1..3)]}
Overridden == {Directory \o <<APlan(1, f[1]), APlan(2, f[2]),
                              IF transfer THEN ATransfer(1, f[3]) ELSE APlan(1, f[3])>> :
                 f \in [1..3 -> SUBSET (1..2)], transfer \in BOOLEAN}

Plain == Directory \o <<APlan(1, {2}), ATransfer(Nothing, {}), AnAssignment>>
Deviating ==
    {Plain,
     [Plain EXCEPT ![1].key = 2], [Plain EXCEPT ![5].project = 3], [Plain EXCEPT ![5].key = Nothing],
     [Plain EXCEPT ![4].skills = {2}], [Plain EXCEPT ![4].member = 2], [Plain EXCEPT ![4].member = 3],
     [Plain EXCEPT ![4].member = 4], [Plain EXCEPT ![8].needs = {4}], [Plain EXCEPT ![8].dates = "reversed"],
     [Plain EXCEPT ![8].effort = <<1, 3, 2>>], [Plain EXCEPT ![8].effort = <<3, 2>>],
     [Plain EXCEPT ![8].crew = <<2, 1>>], [Plain EXCEPT ![8].text = "formula"],
     [Plain EXCEPT ![9].to = 3], [Plain EXCEPT ![9].from = Nothing], [Plain EXCEPT ![10].task = 4],
     [Plain EXCEPT ![5].upstream = <<"old", 1>>, ![6].upstream = <<"old", 1>>],
     [Plain EXCEPT ![5].upstream = <<"old", 2>>], [Plain EXCEPT ![6].needs = {1}],
     [Plain EXCEPT ![8] = APlan(1, {}), ![5].needs = {2}, ![6].needs = {1}]}

\* Keys that share a row key: projects, projects with tasks, tasks of projects without
\* an id, tasks with an earlier mapping, assignments, transfers.
Another(t, w) == [AnAssignment EXCEPT !.task = t, !.worker = w]
Renamed(k) == [Plain EXCEPT ![2].key = k, ![9].to = k]
Sharing5 ==
    {Renamed(5), [Renamed(5) EXCEPT ![7].project = 5], [Renamed(5) EXCEPT ![5].project = 5, ![7].key = 5],
     SubSeq([Renamed(5) EXCEPT ![5].project = 5, ![7].key = 5], 1, 8),
     [Plain EXCEPT ![7].key = 5], [Plain EXCEPT ![7].key = 6], [Plain EXCEPT ![7].key = 6, ![8].needs = {6}],
     [Plain EXCEPT ![2].upstream = <<"old", 1>>] \o <<[ATransfer(Nothing, {}) EXCEPT !.from = 2, !.to = 1]>>,
     Plain \o <<ATransfer(Nothing, {})>>, Plain \o <<[ATransfer(Nothing, {}) EXCEPT !.line = 2]>>,
     Plain \o <<[ATransfer(Nothing, {}) EXCEPT !.starts = 1]>>}
     \cup {[Plain EXCEPT ![4].member = m, ![7].key = 5] \o <<Another(5, 1)>> : m \in {1, 2}}
     \cup {[Plain EXCEPT ![3] = [AWorker(2) EXCEPT !.key = w, !.skills = {}], ![4].skills = {},
                         ![4].member = m] \o <<Another(t, w)>> :
             w \in {2, 5}, m \in {1, 2}, t \in {1, 2}}

MCSheets == Graphs3 \cup Overridden \cup Deviating \cup Sharing5
MCMembers == {[ids |-> <<1>>, profile |-> <<"old", 7>>], [ids |-> <<2>>, profile |-> Nothing],
              [ids |-> <<3, 3>>, profile |-> <<"old", 8>>]}
MCSnapshot == {<<"old", 1>>}
MCEarlier == <<"tasks", <<"key", 2>>>> :> <<"old", 2>> @@ <<"workers", <<"key", 2>>>> :> <<"old", 9>>

-----------------------------------------------------------------------------
\* Files: CSV tables of up to four rows and workbooks of two sheets, a limit of three.
\* The text "vv" is beyond the limit of a cell, and so is the formula "  =", which has only
\* spaces before.
MCFirstChars == "vv" :> "v" @@ "  =" :> ""
ACell(kind, text) == [kind |-> kind, text |-> text]
AText(text) == ACell("text", text)
Cells == {<<AText("v")>>, <<AText("")>>, <<AText("v"), AText("=")>>, <<AText("v"), AText("w")>>,
          <<AText("vv")>>, <<AText("  =")>>}
Typed == {<<ACell("date", "w")>>, <<ACell("array", "=")>>, <<ACell("number", "1"), ACell("boolean", "w")>>,
          <<AText("v"), ACell("date", "w")>>, <<AText("v"), ACell("array", "w")>>}
ASheet(e, h, rows) == [entity |-> e, headers |-> h, rows |-> rows]
MCEntityName == {NoEntity, "tasks", "skills"}
Headers == {<<>>, <<"k">>, <<"k", "k">>, <<"k", "n">>, <<"k", "">>}
Values(n) == [1..n -> {<<AText("v")>>}]
Csv == {[type |-> "csv", sound |-> s, sheets |-> <<ASheet(e, h, <<c>> \o v)>>] :
          s \in BOOLEAN, e \in {NoEntity, "tasks"}, h \in Headers, c \in Cells,
          v \in UNION {Values(n) : n \in 0..3}}
Xlsx == {[type |-> "xlsx", sound |-> s,
          sheets |-> <<ASheet("tasks", <<"k", "n">>, v), ASheet(e, h, w \o <<c>>)>>] :
           s \in BOOLEAN, e \in {NoEntity, "skills"}, h \in Headers, c \in Cells \cup Typed,
           v \in UNION {Values(n) : n \in 0..3}, w \in UNION {Values(n) : n \in 0..2}}
MCUploads == {<<>>, <<[type |-> "other", sound |-> TRUE, sheets |-> <<>>]>>}
             \cup {<<f>> : f \in Csv \cup Xlsx} \cup {<<f, f>> : f \in Csv}

-----------------------------------------------------------------------------
VARIABLE part

allVars == <<part, vars, importVars, previewVars, reading, knowledgeVars, signalVars, decisionVars>>

\* Two imports and one fault; one import, committed three times with one fault or twice
\* with two; one committer beside managers who edit planning.
Bounded(records, faults, commits) ==
    Len(timecue) <= records /\ counters.faults <= faults /\ counters.commits <= commits
NoManager == \A m \in Manager : draft[m] = O!NoDraft
AllProfiled == \A b \in Batch : batches[b] # NoBatch => batches[b].profiled
OneBatch == batches[a2] = NoBatch
Within == CASE part = "import" -> Bounded(4, 1, 2) /\ NoManager /\ AllProfiled
            [] part = "commits" -> /\ Bounded(5, 2, 3) /\ NoManager /\ AllProfiled /\ OneBatch
                                   /\ counters.faults + counters.commits <= 4
            [] part = "planning" -> Bounded(3, 1, 2) /\ OneBatch /\ cm[c2] = Idle /\ draft[s3] = O!NoDraft

\* A worklog read by the route twice at a time, or by the job.
Reads(source) == \A x \in {rf[r].id : r \in Refresher} \cup {rv[v].id : v \in Reviewer} :
                   x # None => x[1] = source
Seen == /\ rv[c2] = NoRequest
        /\ CASE part = "signals" -> Reads("route")
             [] part = "notes" -> Reads("job") /\ rf[a2] = Ready /\ tally.crashes = 0

\* Two decision requests, an observation and a checkpoint; three observations of one decision.
Asked == CASE part = "decisions" -> Len(observations) <= 1 /\ \A r \in Caller : q[r].outcome = 0
           [] part = "calibration" -> revision = 1 /\ evaluations = {}

MCInit ==
    /\ Init /\ ImportInit /\ KnowledgeInit /\ SignalsInit /\ DecisionsInit
    /\ part \in Parts
    /\ IF part = "preview" THEN PreviewInit ELSE upload = [at |-> "uploaded"] /\ search = Nothing
    /\ IF part = "files" THEN ReadInit ELSE reading = [status |-> "none"]

Importing == /\ part \in {"import", "commits", "planning"}
             /\ (\E b \in Batch : (part = "import" \/ b = a1) /\ Preview(b)) \/ Proceed
             /\ Within'
Reading == part \in {"signals", "notes"} /\ SignalsNext /\ Seen'
Deciding == part \in {"decisions", "calibration"} /\ DecisionsNext /\ Asked'

MCNext ==
    /\ part' = part
    /\ \/ part = "lease" /\ Next
          /\ UNCHANGED <<importVars, previewVars, reading, knowledgeVars, signalVars, decisionVars>>
       \/ Importing /\ UNCHANGED <<vars, previewVars, reading, knowledgeVars, signalVars, decisionVars>>
       \/ part = "preview" /\ PreviewNext
          /\ UNCHANGED <<vars, importVars, reading, knowledgeVars, signalVars, decisionVars>>
       \/ part = "files" /\ ReadNext
          /\ UNCHANGED <<vars, importVars, previewVars, knowledgeVars, signalVars, decisionVars>>
       \/ part = "knowledge" /\ KnowledgeNext
          /\ UNCHANGED <<vars, importVars, previewVars, reading, signalVars, decisionVars>>
       \/ Reading /\ UNCHANGED <<vars, importVars, previewVars, reading, knowledgeVars, decisionVars>>
       \/ Deciding /\ UNCHANGED <<vars, importVars, previewVars, reading, knowledgeVars, signalVars>>

MCSpec == MCInit /\ [][MCNext]_allVars

\* What the proofs assume of the constants.
ASSUME RecordsConstants ==
    ImportConstants /\ KnowledgeConstants /\ SignalsConstants /\ DecisionsConstants /\ FileConstants
    /\ PreviewConstants
=============================================================================
