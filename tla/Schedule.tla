------------------------------ MODULE Schedule ------------------------------
(***************************************************************************)
(* The scheduler of simulation/engine.py: one sample of one scenario.  An    *)
(* action (transfers, overtime, date shifts, materials, weather responses,   *)
(* a priority order) is checked against the planning data (_prepare_action); *)
(* then the hours from asOf to the horizon are gone through, and in each the *)
(* tasks that are ready get a crew in priority order (_run_sample).          *)
(*                                                                         *)
(* Instants are ticks from asOf, a slot is TicksPerSlot of them, effort is   *)
(* counted in ticks of full workability times Full.  Ids are numbers that    *)
(* sort as the ids do.  A time zone is a constant offset; effort is what was *)
(* drawn for the sample.  Diagnostics, which no step reads, are left out.    *)
(***************************************************************************)
EXTENDS Integers, Sequences, FiniteSets, FiniteSetsExt, Functions, Sums

CONSTANTS Project, Task, Worker,   \* ids: naturals
          TicksPerSlot, TicksPerDay,
          Horizon,                 \* horizon_end
          Full,                    \* workability 1.0
          None,                    \* a value that is not given
          Inputs                   \* bound: the plans to schedule; MCEngine shows their shape

Min2(x, y) == IF x < y THEN x ELSE y
Max2(x, y) == IF x > y THEN x ELSE y

Slots == 0..((Horizon \div TicksPerSlot) - 1)
Hour(s) == [starts |-> s * TicksPerSlot, ends |-> (s + 1) * TicksPerSlot]

VARIABLES plan,       \* planning data and the action; no step changes it
          phase,      \* of Phases
          slot, waiting,        \* the current slot and its ready tasks not yet placed
          busy,       \* workers assigned in the current slot
          remaining, finish,    \* per task
          work        \* history: who worked when, on what, how long

vars == <<plan, phase, slot, waiting, busy, remaining, finish, work>>

Of(t) == plan.task[t]
Cal(w) == plan.worker[w]
Act == plan.action

\* What a plan and an action are, with what scheduling reads of them: local times are
\* times of a day, zones are less than a day away, and a day has a profile or none.
Moment == Int \cup {None}
Move == [worker : Worker, from : Project, to : Project, starts : Int, ends : Int,
         out : Moment, back : Moment, setup : Moment, targets : SUBSET Task]
OvertimeItem == [worker : Worker, starts : Int, ends : Int]
Level == Nat \cup {None}

IsAction(a) ==
    /\ a.transfers \in Seq(Move)
    /\ a.overtime \subseteq OvertimeItem /\ IsFiniteSet(a.overtime)
    /\ \A x \in a.weather : x.capacity \in Level

IsTask(k) ==
    /\ k.status \in {"active", "done", "canceled"} /\ k.project \in Project
    /\ k.effort \in Nat
    /\ k.minCrew \in Nat /\ k.maxCrew \in Nat /\ k.minCrew <= k.maxCrew
    /\ k.preds \subseteq Task
    /\ \A s \in Slots : k.workability[s] \in Level

IsWorker(c) ==
    /\ c.from \in 0..(TicksPerDay - 1) /\ c.to \in 0..(TicksPerDay - 1)
    /\ c.offset \in -TicksPerDay..TicksPerDay
    /\ c.permitted \subseteq [starts : Int, ends : Int] /\ IsFiniteSet(c.permitted)
    /\ c.maxOvertime \in Level

IsPlan(p) ==
    /\ {"task", "project", "worker", "reservations", "action"} \subseteq DOMAIN p
    /\ \A t \in Task : IsTask(p.task[t])
    /\ \A q \in Project : \A s \in Slots : p.project[q].workability[s] \in Level
    /\ \A w \in Worker : IsWorker(p.worker[w])
    /\ IsAction(p.action)

\* What the constants are; MCEngine assumes it of its own.
ScheduleConstants ==
    /\ Project \subseteq Nat /\ Task \subseteq Nat /\ Worker \subseteq Nat
    /\ IsFiniteSet(Worker)
    /\ TicksPerSlot \in Nat \ {0} /\ TicksPerDay \in Nat \ {0}
    /\ TicksPerDay % TicksPerSlot = 0
    /\ Horizon \in Nat /\ Horizon % TicksPerDay = 0
    /\ Full \in Nat \ {0} /\ None \notin Int
    /\ \A p \in Inputs : IsPlan(p)

-----------------------------------------------------------------------------
\* Intervals are records with starts and ends.
Overlaps(i, j) == i.starts < j.ends /\ j.starts < i.ends
Overlap(i, j) == Max2(0, Min2(i.ends, j.ends) - Max2(i.starts, j.starts))
Within(i, js) == \E j \in js : j.starts <= i.starts /\ i.ends <= j.ends
Window(x) == [starts |-> x.starts, ends |-> x.ends]

\* A day's shift, which may end on the next day.
ShiftOf(w, day) ==
    LET from == day * TicksPerDay + Cal(w).from - Cal(w).offset
        to == day * TicksPerDay + Cal(w).to - Cal(w).offset IN
    [starts |-> from, ends |-> IF to <= from THEN to + TicksPerDay ELSE to]

ShiftDay(w, i) ==
    LET local == i.starts + Cal(w).offset IN
    IF Cal(w).from > Cal(w).to /\ local % TicksPerDay < Cal(w).to
    THEN (local \div TicksPerDay) - 1 ELSE local \div TicksPerDay

\* _normal_calendar_capacity of an interval of at most an hour.
Regular(w, i) ==
    IF ShiftDay(w, i) % 7 \in Cal(w).weekdays
    THEN Min2(TicksPerSlot, Overlap(i, ShiftOf(w, ShiftDay(w, i)))) ELSE 0

Overtime(w, i) ==
    Min2(TicksPerSlot,
         Max({0} \cup {Overlap(i, o) : o \in {x \in Act.overtime : x.worker = w}}))

\* The hours from the start of i on, the last of which may be shorter.
HoursOf(i) ==
    {[starts |-> c, ends |-> Min2(c + TicksPerSlot, i.ends)] :
        c \in {x \in i.starts..(i.ends - 1) : (x - i.starts) % TicksPerSlot = 0}}

CalendarCovers(w, i) ==
    /\ i.ends > i.starts
    /\ \A h \in HoursOf(i) : Max2(Regular(w, h), Overtime(w, h)) >= h.ends - h.starts

ReservedWorker(w, i) == \E r \in plan.reservations : r.worker = w /\ Overlaps(r, i)

ReservedTask(t, i) == \E r \in plan.reservations :
    Overlaps(r, i) /\ (r.task = t \/ (r.task = None /\ r.project = Of(t).project))

InProject(w, p) == \/ Cal(w).home = None /\ Cal(w).projects = {}
                   \/ p = Cal(w).home \/ p \in Cal(w).projects

-----------------------------------------------------------------------------
\* _prepare_action.  An item that was implemented before is clipped to what is
\* left of it; a new one must lie between asOf and the horizon.
Implemented(x) == x \in Act.implemented

Clipped(x) == IF Implemented(x)
              THEN [starts |-> Max2(x.starts, 0), ends |-> Min2(x.ends, Horizon)]
              ELSE Window(x)

InHorizon(x) == x.starts >= 0 /\ x.ends <= Horizon
Over(x) == Clipped(x).ends <= Clipped(x).starts

\* The part of a transfer the worker is at the target and ready to work.
Productive(t) ==
    LET i == [starts |-> t.starts + t.out + t.setup, ends |-> t.ends - t.back] IN
    IF Implemented(t) THEN [starts |-> Max2(i.starts, 0), ends |-> Min2(i.ends, Horizon)]
    ELSE i

FrictionKnown(t) == \A n \in {t.out, t.back, t.setup} : n # None /\ n >= 0
Useful(t) == ~Over(t) /\ FrictionKnown(t) /\ Productive(t).starts < Productive(t).ends

TransferAllowed(t) ==
    /\ Cal(t.worker).active /\ Cal(t.worker).canTransfer
    /\ t.from # t.to
    /\ InProject(t.worker, t.from)
    /\ t.ends > t.starts
    /\ ~Implemented(t) => InHorizon(t)
    /\ ~Over(t) => FrictionKnown(t)
    /\ ~Useful(t) => Implemented(t)
    /\ Useful(t) =>
          /\ CalendarCovers(t.worker, Clipped(t))
          /\ ~ReservedWorker(t.worker, Clipped(t))
          /\ \A k \in t.targets : Of(k).project = t.to

Transfers == {t \in Range(Act.transfers) : Useful(t)}

TransfersApart == \A s, t \in Transfers :
    s # t /\ s.worker = t.worker => ~Overlaps(Clipped(s), Clipped(t))

Length(i) == i.ends - i.starts
OvertimeOf(w) == {o \in Act.overtime : o.worker = w /\ ~Over(o)}

WithinLimit(w) ==
    Cal(w).maxOvertime # None =>
    Total([o \in OvertimeOf(w) |-> Length(Clipped(o))]) <= Cal(w).maxOvertime

OvertimeAllowed(o) ==
    /\ o.ends > o.starts
    /\ Over(o) => Implemented(o)
    /\ ~Over(o) =>
          /\ Within(Clipped(o), Cal(o.worker).permitted)
          /\ ~ReservedWorker(o.worker, Clipped(o))
          /\ \A t \in Transfers : t.worker = o.worker => ~Overlaps(Clipped(o), t)

ShiftsAllowed ==
    /\ \A s \in Act.shifts : /\ ~Implemented(s) => InHorizon(s)
                             /\ s.ends > s.starts
    /\ \A r, s \in Act.shifts : r.task = s.task => r = s

MaterialsAllowed ==
    /\ \A m \in Act.materials :
          ~Implemented(m) /\ m.at # None => m.at \in 0..Horizon
    /\ \A m, n \in Act.materials : m.task = n.task => m = n

WeatherAllowed ==
    /\ \A x \in Act.weather : /\ x.ends > x.starts
                              /\ ~Implemented(x) => InHorizon(x)
    /\ \A x, y \in Act.weather : x.task = y.task /\ x.project = y.project => x = y

Acceptable ==
    /\ \A t \in Range(Act.transfers) : TransferAllowed(t)
    /\ TransfersApart
    /\ \A o \in Act.overtime : OvertimeAllowed(o) /\ WithinLimit(o.worker)
    /\ ShiftsAllowed /\ MaterialsAllowed /\ WeatherAllowed

-----------------------------------------------------------------------------
\* What the action makes of a task's gates.
Earliest(t) ==
    LET shifts == {s \in Act.shifts : s.task = t} IN
    IF shifts # {} THEN Max2(Of(t).earliest, Max({s.starts : s \in shifts}))
    ELSE IF Of(t).planned # None THEN Max2(Of(t).earliest, Of(t).planned)
    ELSE Of(t).earliest

Material(t) ==
    LET given == {m \in Act.materials : m.task = t /\ m.confirmed /\ m.at # None} IN
    IF given # {} THEN (CHOOSE m \in given : TRUE).at ELSE Of(t).material

Live(t) == Of(t).status = "active"
Unfinished(t) == Live(t) /\ finish[t] = None /\ remaining[t] > 0

\* Mutation of Ready: a predecessor whose end is known counts as over.
ReadyOncePlanned(t, s) ==
    /\ Unfinished(t)
    /\ ~ReservedTask(t, Hour(s))
    /\ Hour(s).starts >= Earliest(t)
    /\ Material(t) # None => Hour(s).starts >= Material(t)
    /\ \A p \in Of(t).preds : Of(p).status # "canceled" /\ finish[p] # None

\* _task_readiness and the hard reservations, at the start of slot s.
Ready(t, s) ==
    LET now == Hour(s).starts IN
    /\ Unfinished(t)
    /\ ~ReservedTask(t, Hour(s))
    /\ now >= Earliest(t)
    /\ Material(t) # None => now >= Material(t)
    /\ \A p \in Of(t).preds : /\ Of(p).status # "canceled"
                              /\ finish[p] # None
                              /\ finish[p] <= now

\* _task_workability: the task's own profile, none indoors, or the project's.
At(profile, s) == IF s \in Slots THEN profile[s] ELSE None
Forecast(t, s) ==
    LET own == At(Of(t).workability, s)
        site == At(plan.project[Of(t).project].workability, s) IN
    CASE Of(t).hasProfile -> IF own # None THEN own
                             ELSE IF Of(t).indoor THEN Full ELSE 0
      [] ~Of(t).hasProfile /\ Of(t).indoor -> Full
      [] OTHER -> IF site # None THEN site
                  ELSE IF plan.project[Of(t).project].hasProfile THEN 0 ELSE Full

Workability(t, s) ==
    Min({Forecast(t, s)} \cup
        {x.capacity : x \in {y \in Act.weather :
            /\ y.confirmed /\ y.capacity # None
            /\ y.task \in {None, t} /\ y.project \in {None, Of(t).project}
            /\ Overlaps(Hour(s), y)}})

\* The first transfer in the action's list that touches the hour counts.
ActiveTransfers(w, s) == {i \in DOMAIN Act.transfers :
    LET t == Act.transfers[i] IN Useful(t) /\ t.worker = w /\ Overlaps(Hour(s), t)}
Away(w, s) == ActiveTransfers(w, s) # {}
Transfer(w, s) == Act.transfers[Min(ActiveTransfers(w, s))]

TargetOfTransfer(t, k) == Of(k).project = t.to /\ (t.targets = {} \/ k \in t.targets)

\* Mutation of AwayCapacity: the hours of travel and setup are worked.
AwayCapacityOnTheRoad(w, t, s) ==
    IF TargetOfTransfer(Transfer(w, s), t) THEN TicksPerSlot ELSE 0

AwayCapacity(w, t, s) ==
    IF TargetOfTransfer(Transfer(w, s), t)
    THEN Min2(TicksPerSlot, Overlap(Hour(s), Productive(Transfer(w, s)))) ELSE 0

\* _worker_slot_capacity: ticks, and whether they are overtime.
OnOvertime(w, s) == ~Away(w, s) /\ Overtime(w, Hour(s)) > Regular(w, Hour(s))

Capacity(w, t, s) ==
    IF ~Cal(w).active \/ ReservedWorker(w, Hour(s)) THEN 0
    ELSE IF Away(w, s) THEN AwayCapacity(w, t, s)
    ELSE Max2(Regular(w, Hour(s)), Overtime(w, Hour(s)))

CanDo(w, t, s) ==
    /\ Of(t).skill # None => Of(t).skill \in Cal(w).skills
    /\ IF Away(w, s) THEN TargetOfTransfer(Transfer(w, s), t)
       ELSE IF Of(t).assigned # {} THEN w \in Of(t).assigned
       ELSE InProject(w, Of(t).project)

Able(t, s) == {w \in Worker : Capacity(w, t, s) > 0 /\ CanDo(w, t, s)}

\* _task_sort_key: the action's orders, then priorities, then ids.
Position(x, order) == Min({i \in DOMAIN order : order[i] = x} \cup {Len(order) + 1})
Key(t) == << Position(t, Act.taskOrder), Position(Of(t).project, Act.projectOrder),
             -Of(t).priority, -plan.project[Of(t).project].priority, Of(t).project, t >>
Less(k, l) == \E i \in 1..6 : k[i] < l[i] /\ \A j \in 1..(i - 1) : k[j] = l[j]
First(t) == t \in waiting /\ \A u \in waiting \ {t} : Less(Key(t), Key(u))

\* The first n of a set of ids.
Lowest(ws, n) == {w \in ws : Cardinality({v \in ws : v < w}) < n}

-----------------------------------------------------------------------------
Phases == {"propose", "prepare", "run", "rejected", "done"}

Init ==
    /\ plan \in Inputs
    /\ phase = "prepare"
    /\ slot = 0 /\ waiting = {} /\ busy = {}
    /\ remaining = [t \in Task |-> 0]
    /\ finish = [t \in Task |-> None]
    /\ work = {}

Reject ==
    /\ phase = "prepare"
    /\ ~Acceptable
    /\ phase' = "rejected"
    /\ UNCHANGED <<plan, slot, waiting, busy, remaining, finish, work>>

\* A task without remaining effort is finished from its earliest start on.
StartFinish(t) ==
    CASE Of(t).status = "done" -> IF Of(t).completed = None THEN 0 ELSE Of(t).completed
      [] Of(t).status = "active" /\ Of(t).effort = 0 -> Max2(Earliest(t), 0)
      [] OTHER -> None

Start ==
    /\ phase = "prepare"
    /\ Acceptable
    /\ phase' = "run"
    /\ slot' = -1
    /\ remaining' = [t \in Task |-> IF Live(t) THEN Of(t).effort ELSE 0]
    /\ finish' = [t \in Task |-> StartFinish(t)]
    /\ UNCHANGED <<plan, waiting, busy, work>>

NextSlot ==
    /\ phase = "run" /\ waiting = {}
    /\ slot + 1 \in Slots /\ \E t \in Task : Unfinished(t)
    /\ slot' = slot + 1
    /\ waiting' = {t \in Task : Ready(t, slot + 1)}
    /\ busy' = {}
    /\ UNCHANGED <<plan, phase, remaining, finish, work>>

Entry(w, t) == [worker |-> w, task |-> t, slot |-> slot, ticks |-> Capacity(w, t, slot),
                overtime |-> OnOvertime(w, slot), away |-> Away(w, slot)]

\* Mutation of Free: a worker may be given to two tasks in one hour.
FreeAgain(t) == Able(t, slot)

Free(t) == Able(t, slot) \ busy

Crew(t) == Lowest(Free(t), Of(t).maxCrew)

Output(t) == Total([w \in Crew(t) |-> Capacity(w, t, slot)]) * Workability(t, slot)

\* The next task in order gets the first free workers that are able, or nothing.
Place(t) ==
    /\ phase = "run" /\ First(t)
    /\ waiting' = waiting \ {t}
    /\ IF Cardinality(Free(t)) < Of(t).minCrew \/ Output(t) = 0
       THEN UNCHANGED <<busy, remaining, finish, work>>
       ELSE /\ busy' = busy \cup Crew(t)
            /\ work' = work \cup {Entry(w, t) : w \in Crew(t)}
            /\ remaining' = [remaining EXCEPT ![t] = Max2(0, @ - Output(t))]
            /\ finish' = IF Output(t) >= remaining[t]
                         THEN [finish EXCEPT ![t] = Hour(slot).ends] ELSE finish
    /\ UNCHANGED <<plan, phase, slot>>

Stop ==
    /\ phase = "run" /\ waiting = {}
    /\ slot + 1 \notin Slots \/ \A t \in Task : ~Unfinished(t)
    /\ phase' = "done"
    /\ UNCHANGED <<plan, slot, waiting, busy, remaining, finish, work>>

Next == Reject \/ Start \/ NextSlot \/ (\E t \in Task : Place(t)) \/ Stop

Spec == Init /\ [][Next]_vars

\* _attach_capacity_context: the hours a project has in slot s, of everybody who
\* may do one of its tasks, at home or by a transfer.
BaselineCanDo(w, t) ==
    /\ Of(t).skill # None => Of(t).skill \in Cal(w).skills
    /\ IF Of(t).assigned # {} THEN w \in Of(t).assigned ELSE InProject(w, Of(t).project)

Eligible(w, p) == \E t \in Task :
    /\ Of(t).project = p /\ Live(t)
    /\ \/ BaselineCanDo(w, t)
       \/ /\ \E x \in Transfers : x.worker = w /\ TargetOfTransfer(x, t)
          /\ Of(t).skill # None => Of(t).skill \in Cal(w).skills

AvailableOf(w, p, s) ==
    IF ~Cal(w).active \/ ~Eligible(w, p) \/ ReservedWorker(w, Hour(s)) THEN 0
    ELSE IF Away(w, s) THEN IF Transfer(w, s).to = p
                            THEN Overlap(Hour(s), Productive(Transfer(w, s))) ELSE 0
    ELSE Max2(Regular(w, Hour(s)), Overtime(w, Hour(s)))
Available(p, s) == Total([w \in Worker |-> AvailableOf(w, p, s)])

ProjectFinish(p) ==
    LET live == {t \in Task : Of(t).project = p /\ Of(t).status # "canceled"} IN
    IF live = {} THEN 0
    ELSE IF \E t \in live : finish[t] = None THEN None
    ELSE Max({finish[t] : t \in live})

-----------------------------------------------------------------------------
TypeOK ==
    /\ \E p \in Inputs : plan = [p EXCEPT !.action = plan.action]
    /\ phase \in Phases
    /\ slot \in Slots \cup {-1, 0}
    /\ waiting \subseteq Task /\ busy \subseteq Worker
    /\ remaining \in [Task -> Nat]
    /\ DOMAIN finish = Task
    /\ \A e \in work : e.worker \in Worker /\ e.task \in Task /\ e.slot \in Slots

\* Nobody is in two crews in one hour, whatever transfers, overtime and orders
\* the action has.
OneCrewAtATime == \A e, f \in work : e.worker = f.worker /\ e.slot = f.slot => e = f

\* Nobody works outside their calendar: regular hours and hours at another site
\* lie in shifts, overtime in permitted overtime; the hours of a transfer are
\* only compared with the calendar when the action is checked.
OnShift(w) == {x \in 0..Horizon : \E day \in -2..(Horizon \div TicksPerDay + 2) :
                  /\ day % 7 \in Cal(w).weekdays
                  /\ x >= ShiftOf(w, day).starts /\ x < ShiftOf(w, day).ends}
Permitted(w) == {x \in 0..Horizon : \E o \in Cal(w).permitted : x >= o.starts /\ x < o.ends}
TicksIn(e) == Hour(e.slot).starts..(Hour(e.slot).ends - 1)
CalendarKept == \A e \in work :
    e.ticks <= Cardinality(TicksIn(e) \cap (IF e.overtime THEN Permitted(e.worker)
                                            ELSE OnShift(e.worker)))

\* Overtime worked never exceeds the worker's limit, however it is cut into
\* items, old and new; a worker with a new transfer is lost at home for all of it,
\* and at the target for the travel and the setup.  An hour that two transfers
\* touch is one of the first in the action's list, and the other gets nothing of it.
Ticks(es) == Total([e \in es |-> e.ticks])
OvertimeLimited == \A w \in Worker : Cal(w).maxOvertime # None =>
    Ticks({e \in work : e.worker = w /\ e.overtime}) <= Cal(w).maxOvertime
TransferCosts == \A t \in {x \in Transfers : ~Implemented(x)} :
    LET during == {e \in work : e.worker = t.worker /\ Overlaps(Hour(e.slot), t)}
        counted == {e \in during : Transfer(e.worker, e.slot) = t} IN
    /\ \A e \in during : e.away /\ Of(e.task).project = Transfer(e.worker, e.slot).to
    /\ Ticks(counted) <= (t.ends - t.starts) - (t.out + t.setup + t.back)
ActionPaid == OvertimeLimited /\ TransferCosts

\* A task is only worked on when the plan lets it: after its confirmed start and
\* materials, in an hour nothing is reserved for it or for the worker, by people
\* with the skill, a whole crew, and after everything it depends on has finished.
GatesKept == \A e \in work :
    LET t == e.task  now == Hour(e.slot).starts IN
    /\ now >= Earliest(t) /\ (Material(t) # None => now >= Material(t))
    /\ ~ReservedTask(t, Hour(e.slot)) /\ ~ReservedWorker(e.worker, Hour(e.slot))
    /\ \A p \in Of(t).preds : finish[p] # None /\ finish[p] <= now
    /\ Of(t).skill # None => Of(t).skill \in Cal(e.worker).skills
    /\ LET crew == {f \in work : f.task = t /\ f.slot = e.slot} IN
       Cardinality(crew) \in Of(t).minCrew..Of(t).maxCrew

\* The capacity table adds up: no project is shown more hours used than people
\* who may work there had.
UsedWithinAvailable == \A p \in Project : \A s \in Slots :
    Ticks({e \in work : e.slot = s /\ Of(e.task).project = p}) <= Available(p, s)

\* A task is finished exactly when the work done on it, weather included, has
\* reached its effort; nothing is lost or counted twice between hours.
Done(t) == Total([e \in {f \in work : f.task = t} |-> e.ticks * Workability(t, e.slot)])
EffortCounted == phase \in {"run", "done"} => \A t \in Task :
    Live(t) /\ Of(t).effort > 0 =>
        /\ remaining[t] = Max2(0, Of(t).effort - Done(t))
        /\ finish[t] # None <=> Done(t) >= Of(t).effort

\* Hours worked exist in a calendar or in an action that is paid, add up to the effort,
\* and are no more than were available (_worker_slot_capacity, _attach_capacity_context).
HoursAreReal == CalendarKept /\ ActionPaid /\ EffortCounted /\ UsedWithinAvailable
=============================================================================
