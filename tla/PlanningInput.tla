---------------------------- MODULE PlanningInput ----------------------------
(***************************************************************************)
(* What a simulation accepts (simulation/engine.py, _parse_input): projects, *)
(* tasks with their effective assignments, the predecessor graph checked by  *)
(* the depth-first _validate_task_graph, workers, reservations and transfer  *)
(* assumptions, one after the other; the first failure rejects the request.  *)
(*                                                                         *)
(* A request is a record [days, target, projects, tasks, rows, workers,      *)
(* reservations, assumptions, implemented] of sequences of records; an absent *)
(* field is None.  Instants are relative to asOf.                            *)
(***************************************************************************)
EXTENDS Integers, Sequences, FiniteSets, FiniteSetsExt, SequencesExt

CONSTANTS Requests,      \* bound: the requests checked
          MaxDays,       \* 365
          MaxCrew,       \* 100
          DayLength, Absent

VARIABLES request, stage,
          visiting, visited, stack,   \* _validate_task_graph; stack: [task, left]
          accepted                    \* _Input, or None

inputVars == <<request, stage, visiting, visited, stack, accepted>>

\* What the constants are; MCEngine shows the whole shape of a request.
InputConstants ==
    /\ MaxDays \in Nat /\ MaxCrew \in Nat /\ DayLength \in Nat /\ Absent \notin Int
    /\ \A r \in Requests :
          /\ r.tasks \in Seq(Range(r.tasks))
          /\ \A t \in Range(r.tasks) :
                /\ {"id", "project", "preds", "assigned", "effort"} \subseteq DOMAIN t
                /\ t.id \in Nat /\ t.preds \subseteq Nat
          /\ \A w \in Range(r.workers) : {"id", "zone", "permitted"} \subseteq DOMAIN w
          /\ \A a \in Range(r.implemented) :
                /\ {"kind", "worker", "from", "to", "ends", "out", "back", "setup"} \subseteq DOMAIN a
                /\ {a.starts, a.hours} \subseteq Int \cup {Absent}

-----------------------------------------------------------------------------
Ids(s) == {s[i].id : i \in DOMAIN s}
Distinct(s) == \A i, j \in DOMAIN s : s[i].id = s[j].id => i = j
All(s, Ok(_)) == \A i \in DOMAIN s : Ok(s[i])
KnownOrNone(x, known) == x \in known \cup {Absent}

\* _interval_from_object
IsInterval(x) == x.starts # Absent /\ x.ends # Absent /\ x.starts < x.ends

\* _assignment_map: the last row of a task counts, and only for a task that names
\* no workers itself.
RowsOf(t) == {i \in DOMAIN request.rows : request.rows[i].task = t.id}
Assigned(t) ==
    IF t.assigned # Absent THEN t.assigned
    ELSE IF RowsOf(t) = {} THEN {} ELSE request.rows[Max(RowsOf(t))].workers

\* _parse_effort
EffortOk(t) ==
    IF t.effort = Absent THEN t.status \in {"done", "canceled"}
    ELSE 0 <= t.effort[1] /\ t.effort[1] <= t.effort[2] /\ t.effort[2] <= t.effort[3]

\* _parse_task
TaskOk(t) ==
    /\ t.project \in Ids(request.projects)
    /\ EffortOk(t)
    /\ 1 <= t.minCrew /\ t.minCrew <= t.maxCrew /\ t.maxCrew <= MaxCrew
    /\ (t.planned = Absent) = (t.plannedEnd = Absent)
    /\ t.planned # Absent => t.planned < t.plannedEnd
    /\ t.priority >= 0

\* _parse_worker and _parse_overtime_slots
WorkerOk(w) ==
    /\ KnownOrNone(w.home, Ids(request.projects))
    /\ w.projects \subseteq Ids(request.projects)
    /\ w.weekdays \subseteq 0..6
    /\ w.from # w.to
    /\ \A i \in w.permitted : IsInterval(i)
    /\ w.maxOvertime # Absent => w.maxOvertime >= 0

\* _parse_reservation
ReservationOk(r) ==
    /\ \E x \in {r.worker, r.project, r.task} : x # Absent
    /\ KnownOrNone(r.worker, Ids(request.workers))
    /\ KnownOrNone(r.project, Ids(request.projects))
    /\ KnownOrNone(r.task, Ids(request.tasks))
    /\ IsInterval(r)

\* _parse_transfer_assumption; no worker means any worker.
AssumptionOk(a) ==
    /\ {a.from, a.to} \subseteq Ids(request.projects) /\ a.from # a.to
    /\ KnownOrNone(a.worker, Ids(request.workers))

LastInstant == request.days * DayLength

\* A zone a worker does not state is that of the home project, or of the first of
\* the worker's projects, or of all.
ZoneOf(w) ==
    LET theirs == IF w.projects = {} THEN Ids(request.projects) ELSE w.projects
        at == IF w.home # Absent THEN w.home ELSE Min(theirs) IN
    IF w.zone # Absent THEN w.zone
    ELSE LET named == {i \in DOMAIN request.projects : request.projects[i].id = at} IN
         request.projects[Max(named)].zone

\* _parse_action_*: what an action of each kind must say; "other" is any kind that
\* is not known.  References are looked up later, by Schedule's preparation.
TransferOk(a) == Absent \notin {a.worker, a.from, a.to, a.starts, a.ends}
OvertimeOk(a) ==
    /\ a.worker # Absent /\ a.starts # Absent
    /\ a.ends = Absent => a.hours # Absent /\ a.hours > 0
DateShiftOk(a) == a.task # Absent /\ IsInterval(a)
WeatherOk(a) ==
    /\ a.task # Absent \/ a.project # Absent
    /\ IsInterval(a)
    /\ a.capacity # Absent => 0 <= a.capacity /\ a.capacity <= 1

ActionOk(a) ==
    CASE a.kind = "transfer" -> TransferOk(a)
      [] a.kind = "overtime" -> OvertimeOk(a)
      [] a.kind = "priority" -> TRUE
      [] a.kind = "date_shift" -> DateShiftOk(a)
      [] a.kind = "material" -> a.task # Absent
      [] a.kind = "weather" -> WeatherOk(a)
      [] OTHER -> FALSE

\* _find_transfer_assumption: the first one between the projects for the worker.
AssumptionsFor(a) == {i \in DOMAIN request.assumptions :
    LET x == request.assumptions[i] IN
    x.from = a.from /\ x.to = a.to /\ x.worker \in {Absent, a.worker}}

\* _action_number_or_assumption: travel and setup an action leaves out.
Friction(a) ==
    LET found == AssumptionsFor(a)
        Or(x, f) == IF x # Absent THEN x
                    ELSE IF found = {} THEN Absent ELSE request.assumptions[Min(found)][f] IN
    [a EXCEPT !.out = Or(@, "out"), !.back = Or(@, "back"), !.setup = Or(@, "setup")]

\* _parse_action_objects, of actions that are ok.
ParsedAction(a) ==
    CASE a.kind = "transfer" -> Friction(a)
      [] a.kind = "overtime" -> [a EXCEPT !.ends = IF @ = Absent THEN a.starts + a.hours ELSE @]
      [] OTHER -> a

\* _Input
Parsed ==
    [tasks |-> [i \in DOMAIN request.tasks |->
                    [request.tasks[i] EXCEPT !.assigned = Assigned(request.tasks[i]),
                                             !.effort = IF @ = Absent THEN <<0, 0, 0>> ELSE @]],
     workers |-> [i \in DOMAIN request.workers |->
                    [request.workers[i] EXCEPT !.zone = ZoneOf(request.workers[i]),
                        !.permitted = {x \in @ : x.ends > 0 /\ x.starts < LastInstant}]],
     assumptions |-> [i \in DOMAIN request.assumptions |->
                    [request.assumptions[i] EXCEPT !.starts = IF @ = Absent THEN 0 ELSE @,
                                                   !.ends = IF @ = Absent THEN LastInstant ELSE @]],
     implemented |-> [i \in DOMAIN request.implemented |-> ParsedAction(request.implemented[i])]]

-----------------------------------------------------------------------------
InputInit ==
    /\ request \in Requests
    /\ stage = "projects"
    /\ visiting = {} /\ visited = {} /\ stack = << >> /\ accepted = Absent

Refuse == stage' = "rejected" /\ UNCHANGED <<request, visiting, visited, stack, accepted>>

Check(at, ok, next) ==
    /\ stage = at
    /\ \/ ok /\ stage' = next /\ UNCHANGED <<request, visiting, visited, stack, accepted>>
       \/ ~ok /\ Refuse

ParseProjects ==
    Check("projects",
          /\ 1 <= request.days /\ request.days <= MaxDays
          /\ request.projects # << >>
          /\ request.target \in Ids(request.projects)
          /\ All(request.projects, LAMBDA p : p.priority >= 0), "tasks")

ParseTasks == Check("tasks", All(request.tasks, TaskOk) /\ Distinct(request.tasks), "graph")

Preds(t) == UNION {request.tasks[i].preds : i \in {j \in DOMAIN request.tasks : request.tasks[j].id = t}}

\* Predecessors that exist and are another task.
CheckEdges ==
    Check("graph", All(request.tasks, LAMBDA t :
              t.preds \subseteq Ids(request.tasks) /\ t.id \notin t.preds), "visit")

\* visit(t) of the next root in order, or of the next predecessor of the task on
\* top of the stack.
Roots == Ids(request.tasks) \ visited
Top == stack[Len(stack)]

\* Mutation of Enter: a task seen before is not told from one being visited.
EnterOnce(t, below) ==
    IF t \in visited \cup visiting THEN stack' = below /\ UNCHANGED <<request, stage, visiting, visited, accepted>>
    ELSE /\ visiting' = visiting \cup {t}
         /\ stack' = Append(below, [task |-> t, left |-> Preds(t)])
         /\ UNCHANGED <<request, stage, visited, accepted>>

Enter(t, below) ==
    \/ t \in visiting /\ Refuse
    \/ /\ t \notin visiting /\ t \in visited
       /\ stack' = below /\ UNCHANGED <<request, stage, visiting, visited, accepted>>
    \/ /\ t \notin visiting /\ t \notin visited
       /\ visiting' = visiting \cup {t}
       /\ stack' = Append(below, [task |-> t, left |-> Preds(t)])
       /\ UNCHANGED <<request, stage, visited, accepted>>

VisitRoot == stage = "visit" /\ stack = << >> /\ Roots # {} /\ Enter(Min(Roots), << >>)

VisitPredecessor ==
    /\ stage = "visit" /\ stack # << >> /\ Top.left # {}
    /\ LET t == Min(Top.left) IN
       Enter(t, [stack EXCEPT ![Len(stack)].left = @ \ {t}])

Leave ==
    /\ stage = "visit" /\ stack # << >> /\ Top.left = {}
    /\ visiting' = visiting \ {Top.task}
    /\ visited' = visited \cup {Top.task}
    /\ stack' = Front(stack)
    /\ UNCHANGED <<request, stage, accepted>>

GraphDone ==
    /\ stage = "visit" /\ stack = << >> /\ Roots = {}
    /\ stage' = "workers"
    /\ UNCHANGED <<request, visiting, visited, stack, accepted>>

ParseWorkers ==
    Check("workers",
          /\ All(request.workers, WorkerOk) /\ Distinct(request.workers)
          /\ All(request.tasks, LAMBDA t : Assigned(t) \subseteq Ids(request.workers)), "reservations")

ParseReservations == Check("reservations", All(request.reservations, ReservationOk), "assumptions")

ParseAssumptions == Check("assumptions", All(request.assumptions, AssumptionOk), "implemented")

\* _parse_implemented_action: one wrong action rejects the request.
ParseImplemented ==
    /\ stage = "implemented"
    /\ \/ /\ All(request.implemented, ActionOk)
          /\ stage' = "accepted" /\ accepted' = Parsed
          /\ UNCHANGED <<request, visiting, visited, stack>>
       \/ ~All(request.implemented, ActionOk) /\ Refuse

InputNext ==
    \/ ParseProjects \/ ParseTasks \/ CheckEdges
    \/ VisitRoot \/ VisitPredecessor \/ Leave \/ GraphDone
    \/ ParseWorkers \/ ParseReservations \/ ParseAssumptions
    \/ ParseImplemented

InputSpec == InputInit /\ [][InputNext]_inputVars

-----------------------------------------------------------------------------
\* The tasks can be put into an order in which each comes after what it waits for.
Orderable ==
    \E rank \in [Ids(request.tasks) -> 1..Len(request.tasks)] :
        \A t \in Ids(request.tasks) : \A p \in Preds(t) \cap Ids(request.tasks) : rank[p] < rank[t]

\* What is accepted can be scheduled: the tasks can be put in an order, and every
\* task, worker and project an assignment, a reservation, a transfer or a
\* predecessor names is there.  What is rejected when its tasks were visited has no
\* such order: a task that two others wait for is no cycle.
DecisionIsRight ==
    /\ accepted # Absent =>
        /\ Orderable
        /\ \A i \in DOMAIN accepted.tasks : LET t == accepted.tasks[i] IN
              /\ t.preds \subseteq Ids(accepted.tasks)
              /\ t.assigned \subseteq Ids(accepted.workers)
              /\ t.project \in Ids(request.projects)
        /\ \A i \in DOMAIN accepted.workers : \A x \in accepted.workers[i].permitted :
              x.starts < x.ends /\ x.ends > 0 /\ x.starts < LastInstant
        /\ \A i \in DOMAIN accepted.implemented : LET a == accepted.implemented[i] IN
              /\ a.kind \in {"transfer", "overtime", "date_shift", "weather"} => a.ends # Absent
              /\ a.kind = "transfer" /\ a.out = Absent /\ AssumptionsFor(a) # {} =>
                    request.assumptions[Min(AssumptionsFor(a))].out = Absent
    /\ stage \in {"workers", "reservations", "assumptions", "implemented"} => Orderable
    /\ (stage = "rejected" /\ visiting # {}) => ~Orderable
    /\ visiting = {stack[i].task : i \in DOMAIN stack}
=============================================================================
