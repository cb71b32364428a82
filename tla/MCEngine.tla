------------------------------ MODULE MCEngine ------------------------------
(***************************************************************************)
(* The engine and the context it is given: two projects, three tasks, two    *)
(* workers; two days of three hours of two ticks, so that shifts start and   *)
(* end within an hour.                                                       *)
(***************************************************************************)
EXTENDS RecoveryCandidates, PlanningInput, ExternalContext, StrategyChoice

MCProject == 1..2
MCTask == 1..3
MCWorker == 1..2
Hours == 0..5

Clear == [s \in Hours |-> Full]
NoProfile == [s \in Hours |-> None]

ATask(p, n) ==
    [project |-> p, status |-> "active", preds |-> {}, skill |-> None, effort |-> n,
     minCrew |-> 1, maxCrew |-> 1, earliest |-> 0, planned |-> None, plannedEnd |-> None, material |-> None,
     assigned |-> {}, priority |-> 0, hasProfile |-> FALSE, indoor |-> TRUE,
     workability |-> NoProfile, completed |-> None]

AWorker(p) ==
    [skills |-> {}, home |-> p, projects |-> {}, weekdays |-> 0..6, from |-> 0, to |-> 4,
     offset |-> 0, canTransfer |-> TRUE, permitted |-> {}, maxOvertime |-> None, active |-> TRUE]

Untouched == [transfers |-> <<>>, overtime |-> {}, shifts |-> {}, materials |-> {}, weather |-> {},
            taskOrder |-> <<>>, projectOrder |-> <<>>,
            implemented |-> {}]

Base == [task |-> [t \in MCTask |-> ATask(IF t = 3 THEN 2 ELSE 1, IF t = 2 THEN 6 ELSE 20)],
         project |-> [p \in MCProject |-> [priority |-> 0, hasProfile |-> FALSE, workability |-> NoProfile]],
         worker |-> [w \in MCWorker |-> AWorker(w)],
         reservations |-> {}, assumptions |-> {}, action |-> Untouched]

Span(x, y) == [starts |-> x, ends |-> y]

\* A transfer of worker 1 to project 2, new or begun before asOf, beside overtime,
\* a reservation or a second transfer.
ATransfer(i, out, back, targets) ==
    [worker |-> 1, from |-> 1, to |-> 2, starts |-> i.starts, ends |-> i.ends,
     out |-> out, back |-> back, setup |-> 1, targets |-> targets]

TransferInputs ==
    {[Base EXCEPT !.action.transfers = <<ATransfer(i, o, b, ts)>>,
                  !.action.implemented = IF old THEN {ATransfer(i, o, b, ts)} ELSE {},
                  !.worker[1].to = to, !.task[3].maxCrew = 2,
                  !.reservations = IF r THEN {[worker |-> 1, project |-> 1, task |-> 1,
                                               starts |-> 6, ends |-> 7]} ELSE {}] :
        i \in {Span(0, 4), Span(1, 4), Span(-3, 4), Span(0, 11)}, o \in {0, 1}, b \in {0, 1},
        ts \in {{}, {3}}, old \in BOOLEAN, to \in {4, 5}, r \in BOOLEAN}

TwoTransferInputs ==
    {[Base EXCEPT !.action.transfers = <<ATransfer(Span(0, 3), 0, 0, {3}),
                                        [ATransfer(Span(x, y), 0, b, {}) EXCEPT !.from = p, !.to = 3 - p]>>,
                  !.worker[1].from = 5, !.worker[1].to = 4, !.worker[1].offset = 5,
                  !.worker[1].projects = {2}] :
        x \in {2, 3}, y \in {5, 6}, b \in {0, 1}, p \in MCProject}

\* Night shifts and time zones, working days, and two tasks that share workers.
CalendarInputs ==
    {[Base EXCEPT !.worker[1].from = f, !.worker[1].to = t, !.worker[1].offset = o,
                  !.worker[1].weekdays = d, !.worker[2].home = None,
                  !.task[1].maxCrew = 2, !.task[1].minCrew = m] :
        f \in {1, 3}, t \in {2, 4}, o \in {-2, 0, 1}, d \in {0..6, {0}, {6, 0}}, m \in {1, 2}}

\* Overtime in one or two items, an old one or new ones.
AnOvertime(i) == [worker |-> 1, starts |-> i.starts, ends |-> i.ends]
OvertimeInputs ==
    {[Base EXCEPT !.action.overtime = {AnOvertime(i), AnOvertime(j)},
                  !.action.implemented = IF old THEN {AnOvertime(i)} ELSE {},
                  !.worker[1].permitted = {Span(-2, 12)}, !.worker[1].maxOvertime = n,
                  !.worker[1].from = 1, !.worker[1].to = 3,
                  !.task[1].assigned = a] :
        i \in {Span(3, 5), Span(-2, 1), Span(10, 14)}, j \in {Span(4, 6), Span(6, 8)},
        old \in BOOLEAN, n \in {None, 3, 4}, a \in {{}, {1, 2}}}

\* Gates: predecessors, materials, dates, weather, orders and skills.
GateInputs ==
    {[Base EXCEPT !.task[2].preds = {1}, !.task[1].status = s, !.task[1].effort = e,
                  !.task[1].earliest = IF m THEN 0 ELSE 5,
                  !.task[2].earliest = 1, !.task[2].planned = 2,
                  !.task[3].skill = 7, !.worker[2].skills = k,
                  !.action.materials = IF m THEN {[task |-> 2, confirmed |-> TRUE, at |-> 3]} ELSE {},
                  !.action.shifts = IF h THEN {[task |-> 2, starts |-> 1, ends |-> 9]} ELSE {}] :
        s \in {"active", "canceled"}, e \in {0, 3, 6}, k \in {{}, {7}}, m \in BOOLEAN, h \in BOOLEAN}

WeatherInputs ==
    {[Base EXCEPT !.task[1].indoor = n, !.task[1].hasProfile = f,
                  !.task[1].workability = [Clear EXCEPT ![1] = v],
                  !.project[1].hasProfile = g,
                  !.project[1].workability = [NoProfile EXCEPT ![0] = 1],
                  !.action.weather = {[task |-> t, project |-> None, starts |-> 2, ends |-> 5,
                                       confirmed |-> TRUE, capacity |-> c]},
                  !.action.taskOrder = <<2>>] :
        n \in BOOLEAN, f \in BOOLEAN, g \in BOOLEAN, v \in {None, 1}, t \in {None, 1}, c \in {0, 1}}

\* What the generators work from: permitted overtime, transfer assumptions with
\* and without a window, dated tasks, a late delivery, a bad forecast, priorities,
\* and an overtime that is under way.
AnAssumption(w, i) == [worker |-> w, from |-> 1, to |-> 2, starts |-> i.starts, ends |-> i.ends,
                       out |-> 1, back |-> 0, setup |-> 0]
RecoveryInputs ==
    {[Base EXCEPT !.assumptions = a, !.worker[1].permitted = {Span(-1, 3), Span(4, 6)},
                  !.worker[1].maxOvertime = 2, !.worker[2].home = h,
                  !.project[2].priority = 1,
                  !.task[1].planned = d, !.task[1].plannedEnd = 6, !.task[1].material = m,
                  !.task[1].hasProfile = f, !.task[1].workability = [Clear EXCEPT ![0] = 0],
                  !.task[1].indoor = FALSE, !.task[1].effort = 6, !.task[3].effort = 8,
                  !.action.overtime = IF o THEN {AnOvertime(Span(-1, 1))} ELSE {},
                  !.action.implemented = IF o THEN {AnOvertime(Span(-1, 1))} ELSE {}] :
        a \in {{}, {AnAssumption(1, Span(0, 12))}, {AnAssumption(None, Span(-2, 4))}},
        h \in {None, 2}, d \in {-2, 0, 3}, m \in {None, 3}, f \in BOOLEAN, o \in BOOLEAN}

MCInputs == TransferInputs \cup TwoTransferInputs \cup CalendarInputs \cup OvertimeInputs
            \cup GateInputs \cup WeatherInputs \cup RecoveryInputs

-----------------------------------------------------------------------------
\* The search: up to two date shifts, a transfer and an overtime for each of two
\* projects; the overtime is the same action for both.
Part(k, i) == [kind |-> k, item |-> i]
Families(p) == {<<a, b, c>> :
    a \in {<<>>, <<Part("shift", p)>>, <<Part("shift", p), Part("shift", p + 2)>>},
    b \in {<<>>, <<Part("transfer", p)>>}, c \in {<<>>, <<Part("overtime", 1)>>}}
MCConflicts == {<<Part("transfer", 1), Part("overtime", 1)>>, <<Part("overtime", 1), Part("transfer", 1)>>}

AGiven(i, parts) == [id |-> i, parts |-> parts, bad |-> FALSE]
Proposals == {<<>>, <<AGiven(<<"known", 1>>, <<Part("shift", 1)>>)>>,
              <<AGiven(<<"known", 1>>, <<Part("priority", 1)>>), AGiven(<<"known", 2>>, <<>>)>>}
Singles == {<<Part("shift", 1)>>, <<Part("shift", 1), Part("transfer", 2), Part("overtime", 1)>>}

ACase(portfolio, order, families, explicit, proposals) ==
    [portfolio |-> portfolio, order |-> order, families |-> families, explicit |-> explicit,
     proposals |-> proposals]
NoCase == ACase(FALSE, <<1>>, [p \in {1} |-> <<<<>>, <<>>, <<>>>>], None, <<>>)
MCCases ==
    {ACase(TRUE, <<2, 1>>, [p \in 1..2 |-> IF p = 1 THEN f ELSE g], None, q) :
        f \in Families(1), g \in Families(2), q \in Proposals}
    \cup {ACase(FALSE, <<1>>, [p \in {1} |-> f], None, q) : f \in Families(1), q \in Proposals}
    \cup {ACase(FALSE, <<1>>, [p \in {1} |-> <<>>], <<AGiven("one", a), AGiven("one", b)>>, q) :
            a \in Singles, b \in Singles, q \in Proposals}

-----------------------------------------------------------------------------
\* The choice: two projects, two samples, finishes to day 4 and targets on days 2 and 5.
Mixed(A, B) == {f \in [MCProject -> A \cup B] : f[1] \in A /\ f[2] \in B}
MCFinishes == Mixed({<<2, 2>>, <<1, 3>>, <<3, None>>},
                    {<<1, 1>>, <<1, 3>>, <<1, None>>, <<None, None>>})
MCBaseFinishes == Mixed({<<3, 3>>, <<3, None>>}, {<<1, 3>>, <<1, None>>})
MCCosts == {[days |-> 0, overtime |-> 0, overhead |-> 1, donors |-> {2}, approach |-> "transfer"],
            [days |-> 0, overtime |-> 2, overhead |-> 0, donors |-> {}, approach |-> "overtime"]}
MCSettings ==
    {[scope |-> s, focus |-> 1, target |-> [p \in MCProject |-> IF p = 1 THEN 2 ELSE t],
      priority |-> [p \in MCProject |-> p], protected |-> q,
      maxOvertime |-> IF q = {} THEN 1 ELSE None, maxDonorDelay |-> IF q = {} THEN 0 ELSE None] :
        s \in {"project", "portfolio"}, t \in {2, 5}, q \in {{}, {2}}}

-----------------------------------------------------------------------------
\* The input: every graph of three tasks, unknown and own predecessors included,
\* and requests with one thing that is wrong.
AProject(p) == [id |-> p, priority |-> 0, zone |-> "z"]
RTask(t, preds) ==
    [id |-> t, project |-> 1, status |-> "planned", effort |-> <<1, 2, 3>>, minCrew |-> 1, maxCrew |-> 1,
     planned |-> None, plannedEnd |-> None, priority |-> 0, preds |-> preds, assigned |-> None]
RWorker(w) ==
    [id |-> w, home |-> 1, projects |-> {}, weekdays |-> 0..4, from |-> 1, to |-> 2, zone |-> None,
     permitted |-> {Span(-2, 0), Span(1, 2)}, maxOvertime |-> None]
AReservation == [worker |-> 1, project |-> None, task |-> 1, starts |-> 0, ends |-> 1]
ATravel == [worker |-> None, from |-> 1, to |-> 2, starts |-> None, ends |-> 3,
            out |-> 1, back |-> 1, setup |-> 0]
AnAction(k) == [kind |-> k, worker |-> 1, from |-> 1, to |-> 2, starts |-> 0, ends |-> 2, hours |-> 1,
                task |-> 1, project |-> None, capacity |-> None, out |-> None, back |-> 2, setup |-> None]
Actions == {AnAction(k) : k \in {"transfer", "overtime", "priority", "date_shift", "material", "weather", "other"}}
ARequest(f) ==
    [days |-> 1, target |-> 1, projects |-> <<AProject(1), AProject(2)>>,
     tasks |-> [t \in 1..3 |-> RTask(t, f[t])], rows |-> <<[task |-> 1, workers |-> {1}]>>,
     workers |-> <<RWorker(1), RWorker(2)>>, reservations |-> <<AReservation>>,
     assumptions |-> <<ATravel>>, implemented |-> <<>>]

Flat == ARequest([t \in 1..3 |-> {}])
MCRequests ==
    {ARequest(f) : f \in [1..3 -> SUBSET (1..4)]}
    \cup {[Flat EXCEPT !.implemented = <<a, AnAction("transfer")>>] :
            a \in UNION {{x, [x EXCEPT !.ends = None], [x EXCEPT !.worker = 2, !.task = None],
                          [x EXCEPT !.capacity = 2], [x EXCEPT !.ends = None, !.hours = 0]} : x \in Actions}}
    \cup {[Flat EXCEPT !.days = 0], [Flat EXCEPT !.target = 3], [Flat EXCEPT !.projects = <<>>],
          [Flat EXCEPT !.projects[1].id = 2], [Flat EXCEPT !.tasks[2].id = 1],
          [Flat EXCEPT !.tasks[2].effort = <<2, 1, 3>>], [Flat EXCEPT !.tasks[2].effort = None],
          [Flat EXCEPT !.tasks[2].effort = None, !.tasks[2].status = "done"],
          [Flat EXCEPT !.tasks[2].minCrew = 2], [Flat EXCEPT !.tasks[2].planned = 1],
          [Flat EXCEPT !.rows[1].workers = {3}], [Flat EXCEPT !.rows[1].workers = {3}, !.tasks[1].assigned = {2}],
          [Flat EXCEPT !.workers[2].id = 1], [Flat EXCEPT !.workers[2].home = 3],
          [Flat EXCEPT !.workers[2].home = None, !.workers[2].projects = {2}],
          [Flat EXCEPT !.workers[2].to = 1], [Flat EXCEPT !.workers[2].permitted = {Span(1, 1)}],
          [Flat EXCEPT !.reservations[1].worker = 3],
          [Flat EXCEPT !.reservations[1].worker = None, !.reservations[1].task = None],
          [Flat EXCEPT !.assumptions[1].out = None, !.implemented = <<AnAction("transfer")>>],
          [Flat EXCEPT !.assumptions[1].to = 1], [Flat EXCEPT !.assumptions[1].worker = 3]}

-----------------------------------------------------------------------------
\* The context: forecasts of two hours, rules that stop or halve the work, a transfer;
\* two API threads and a worker on one project, or one after the other on two.
Reading(wind, rain) == "wind" :> wind @@ "rain" :> rain
AForecast(hours, days) == [hours |-> hours, days |-> days, zone |-> TRUE]
Windy == AForecast(<<Reading(3, 1), Reading(1, 3)>>, 2)
Gaps == AForecast(<<Reading(1, 1), "wind" :> 1>>, 2)
Empty == AForecast(<<>>, 2)
ALimit(m, c) == [metric |-> m, below |-> FALSE, threshold |-> 2, capacity |-> c, stop |-> TRUE]
ARuling(c, stop) == [confirmed |-> TRUE, conditions |-> {c}, base |-> None, stopWork |-> stop]
WindRule == ARuling(ALimit("wind", None), FALSE)
AnOwn(k, n, slots) == [kind |-> k, number |-> n, slots |-> slots]
ARuledTask(p, rules, own) == [project |-> p, rules |-> rules, own |-> own]
AFrozen(located, configured, rules, own, moves) ==
    [located |-> located, configured |-> configured, transfers |-> moves,
     tasks |-> <<ARuledTask(1, rules, own),
                 ARuledTask(2, ARuling(ALimit("rain", 50), FALSE), AnOwn("number", 50, None))>>]
Sources == {"weather", "routing"}
MCMove == [confirmed |-> TRUE, from |-> 1, to |-> 2, out |-> None, back |-> 5]
MCNoOwn == AnOwn("none", None, None)
OneProject == {[AFrozen({1}, Sources, WindRule, MCNoOwn, <<>>) EXCEPT !.tasks = <<Head(@)>>]}
TwoProjects ==
    {AFrozen({1, 2}, Sources, r, AnOwn("mapping", None, <<50>>), <<MCMove>>) :
       r \in {WindRule, [WindRule EXCEPT !.confirmed = FALSE], ARuling(ALimit("snow", None), TRUE)}}
    \cup {AFrozen({1}, Sources, WindRule, MCNoOwn, <<MCMove>>),
          AFrozen({1, 2}, Sources, WindRule, MCNoOwn, <<MCMove, [MCMove EXCEPT !.to = 3]>>)}
    \cup {AFrozen({1, 2}, {c}, WindRule, MCNoOwn, <<MCMove>>) : c \in Sources}
Legs(out, back) == <<1, 2>> :> out @@ <<2, 1>> :> back
MCTtl == "weather" :> 1 @@ "routing" :> 2
MCHome == "a" :> "api" @@ "b" :> "api" @@ "w" :> "worker"
MCForecasts == {Windy, Gaps, Empty}
MCMatrices == {Legs(1, 2), Legs(1, None)}
MCPlans == OneProject \cup TwoProjects

-----------------------------------------------------------------------------
VARIABLE part

ASSUME EngineConstants ==
    /\ RecoveryConstants /\ SearchConstants /\ ChoiceConstants /\ InputConstants
    /\ ContextConstants

recoveryVars == <<plan, phase, slot, waiting, busy, remaining, finish, work>>

\* One part of the engine at a time; the others stay at the beginning.
Others(p) ==
    /\ p # "schedule" => /\ plan = Base /\ phase = "propose" /\ slot = 0 /\ waiting = {} /\ busy = {}
                         /\ remaining = [t \in MCTask |-> 0] /\ finish = [t \in MCTask |-> None]
                         /\ work = {}
    /\ p # "search" => /\ case = NoCase /\ searches = [q \in {1} |-> None] /\ queue = None
                       /\ evaluated = <<>>
    /\ p # "choice" => setting = None /\ base = None /\ runs = <<>> /\ chosen = None
    /\ p # "input" => /\ request = None /\ stage = "none" /\ visiting = {} /\ visited = {}
                      /\ stack = <<>> /\ accepted = None
    /\ p # "context" => /\ frozen = None /\ clock = 0 /\ cache = None /\ analysis = None
                        /\ run = [t \in Thread |-> Idle]

MCInit ==
    \/ part = "schedule" /\ ProposeInit /\ Others(part)
    \/ part = "search" /\ SearchInit /\ Others(part)
    \/ part = "choice" /\ ChoiceInit /\ Others(part)
    \/ part = "input" /\ InputInit /\ Others(part)
    \/ part = "context" /\ ContextInit /\ Others(part)

\* With two projects the worker does nothing, the threads of the API are enriched one by
\* one and what fails is not tried again.
OneByOne == frozen \in TwoProjects =>
    /\ run'["w"] = Idle /\ \E t \in {"a", "b"} : run'[t].at \in {"idle", "done"}
    /\ \A t \in Thread : run'[t].attempt < 2

MCNext ==
    /\ part' = part
    /\ \/ part = "schedule" /\ RecoveryNext /\ UNCHANGED <<searchVars, choiceVars, inputVars, contextVars>>
       \/ part = "search" /\ SearchNext /\ UNCHANGED <<recoveryVars, choiceVars, inputVars, contextVars>>
       \/ part = "choice" /\ ChoiceNext /\ UNCHANGED <<recoveryVars, searchVars, inputVars, contextVars>>
       \/ part = "input" /\ InputNext /\ UNCHANGED <<recoveryVars, searchVars, choiceVars, contextVars>>
       \/ /\ part = "context" /\ ContextNext /\ OneByOne
          /\ UNCHANGED <<recoveryVars, searchVars, choiceVars, inputVars>>

MCSpec == MCInit /\ [][MCNext]_<<part, recoveryVars, searchVars, choiceVars, inputVars, contextVars>>
=============================================================================
