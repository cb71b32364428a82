------------------------------ MODULE Recovery ------------------------------
(***************************************************************************)
(* The recovery actions simulation/engine.py proposes and evaluates: for a   *)
(* target project the generators of the six families (_generate_*_           *)
(* candidates), the compatible bundles of up to MaxParts of them, and the    *)
(* overlay on what was already implemented (_compose_actions), after which   *)
(* Schedule checks and runs the result.  Which of the bundles fit into the   *)
(* limits of the search, and in what order, is in CandidateSearch.           *)
(*                                                                         *)
(* plan also has assumptions, a set of [worker, from, to, starts, ends, out, *)
(* back, setup], worker None for anybody.                                    *)
(***************************************************************************)
EXTENDS Schedule, SequencesExt

CONSTANTS MaxParts,      \* MAX_ACTIONS_PER_BUNDLE
          MaxWindows     \* MAX_TRANSFER_WINDOWS_PER_DONOR

\* What may be lent, of a plan; MCEngine assumes it of its own.
Lending == [worker : Worker \cup {None}, from : Project, to : Project, starts : Int, ends : Int,
            out : Moment, back : Moment, setup : Moment]
HasLending(p) == /\ "assumptions" \in DOMAIN p
                 /\ p.assumptions \subseteq Lending /\ IsFiniteSet(p.assumptions)
\* What _parse_task and _parse_transfer_assumption have looked at, of what is proposed from.
IsParsed(p) ==
    /\ \A t \in Task : LET k == p.task[t] IN
          /\ {k.planned, k.plannedEnd, k.material} \subseteq Moment
          /\ None \notin {k.planned, k.plannedEnd} => k.planned < k.plannedEnd
    /\ \A a \in p.assumptions : a.from # a.to
RecoveryConstants == ScheduleConstants /\ \A p \in Inputs : HasLending(p) /\ IsParsed(p)

NoAction == [transfers |-> {}, overtime |-> {}, shifts |-> {}, materials |-> {},
             weather |-> {}, projectOrder |-> <<>>, taskOrder |-> <<>>]

LiveIn(p) == {t \in Task : Live(t) /\ Of(t).project = p}
Dated(t) == Of(t).planned # None /\ Of(t).plannedEnd # None

\* _first_schedulable_start
Schedulable(t, s) ==
    /\ Forecast(t, s) > 0
    /\ ~ReservedTask(t, Hour(s))
    /\ \E w \in Worker : Cal(w).active /\ BaselineCanDo(w, t) /\ Regular(w, Hour(s)) > 0

FirstStart(t, x) ==
    LET open == {s \in Slots : Hour(s).starts >= x /\ Schedulable(t, s)} IN
    IF open = {} THEN None ELSE Hour(Min(open)).starts

\* The forecast at an instant; profiles cover the slots of the run.
ForecastAt(t, x) == Forecast(t, x \div TicksPerSlot)
HasProfile(t) == Of(t).hasProfile \/ plan.project[Of(t).project].hasProfile

-----------------------------------------------------------------------------
\* _generate_date_shift_candidates: to the first hour that can be worked, with
\* the planned length, where material or weather is in the way or the task
\* might start earlier.
ShiftTrigger(t) ==
    \/ Of(t).material # None /\ Of(t).material > Of(t).planned
    \/ HasProfile(t) /\ ForecastAt(t, Of(t).planned) < Full
    \/ Of(t).planned > 0

ShiftParts ==
    LET Moved(t) == FirstStart(t, IF Of(t).material = None THEN 0 ELSE Max2(0, Of(t).material))
        movable == {t \in Task :
            /\ Live(t) /\ Dated(t)
            /\ Of(t).plannedEnd > 0 /\ Of(t).planned < Horizon
            /\ ShiftTrigger(t)
            /\ Moved(t) # None /\ Moved(t) # Of(t).planned
            /\ Moved(t) + Of(t).plannedEnd - Of(t).planned <= Horizon
            /\ t \notin {s.task : s \in Act.shifts}} IN
    {[NoAction EXCEPT !.shifts = {[task |-> t, starts |-> Moved(t),
                                   ends |-> Moved(t) + Of(t).plannedEnd - Of(t).planned]}] :
        t \in movable}

\* _plausible_transfer_windows: the assumption's own window, or the first shifts.
Windows(w, a) ==
    IF a.starts < Horizon /\ a.ends > 0 /\ (a.starts # 0 \/ a.ends # Horizon)
    THEN {<<Max2(a.starts, 0), Min2(a.ends, Horizon)>>}
    ELSE LET first == Cal(w).offset \div TicksPerDay
             last == (Horizon + Cal(w).offset) \div TicksPerDay
             Part(d) == <<Max2(ShiftOf(w, d).starts, 0), Min2(ShiftOf(w, d).ends, Horizon)>>
             days == {d \in first..last : d % 7 \in Cal(w).weekdays /\ Part(d)[1] < Part(d)[2]} IN
         {Part(d) : d \in {e \in days : Cardinality({f \in days : f < e}) < MaxWindows}}

\* _generate_transfer_candidates: what an assumption lets be lent, in each window.
CanLend(w, a, p) ==
    /\ a.to = p /\ None \notin {a.out, a.back, a.setup}
    /\ Cal(w).active /\ Cal(w).canTransfer
    /\ a.worker \in {None, w} /\ InProject(w, a.from)

SkilledFor(w, p) == {t \in LiveIn(p) : Of(t).skill # None => Of(t).skill \in Cal(w).skills}

LentBy(w, a, p) ==
    {[NoAction EXCEPT !.transfers =
        {[worker |-> w, from |-> a.from, to |-> p, starts |-> i[1], ends |-> i[2],
          out |-> a.out, back |-> a.back, setup |-> a.setup, targets |-> SkilledFor(w, p)]}] :
      i \in IF SkilledFor(w, p) = {} THEN {} ELSE Windows(w, a)}

TransferParts(p) ==
    UNION {UNION {LentBy(w, a, p) : a \in {b \in plan.assumptions : CanLend(w, b, p)}} : w \in Worker}

OvertimeLength(w, o) ==
    IF Cal(w).maxOvertime = None THEN Min2(o.ends, Horizon) - Max2(o.starts, 0)
    ELSE Min2(Min2(o.ends, Horizon) - Max2(o.starts, 0), Cal(w).maxOvertime)

\* _generate_overtime_candidates
OvertimeParts(p) ==
    UNION {{[NoAction EXCEPT !.overtime =
                {[worker |-> w, starts |-> Max2(o.starts, 0),
                  ends |-> Max2(o.starts, 0) + OvertimeLength(w, o)]}] :
              o \in {q \in Cal(w).permitted : OvertimeLength(w, q) > 0}} :
        w \in {v \in Worker : Cal(v).active /\ \E t \in LiveIn(p) : BaselineCanDo(v, t)}}

\* _generate_priority_candidates.  Its second candidate, a task order of the
\* target's, compares two orders of tasks of one project that differ only by
\* that project's priority, and is never made.
Shared == \E w \in Worker : /\ Cal(w).active
    /\ \E t, u \in Task : /\ Live(t) /\ Live(u) /\ Of(t).project # Of(u).project
                          /\ BaselineCanDo(w, t) /\ BaselineCanDo(w, u)

ByPriority == SetToSortSeq(Project, LAMBDA p, q :
    LET m == plan.project[p].priority  n == plan.project[q].priority IN
    m > n \/ (m = n /\ p < q))

PriorityParts(p) ==
    LET order == <<p>> \o SelectSeq(ByPriority, LAMBDA q : q # p) IN
    IF Shared /\ order # ByPriority THEN {[NoAction EXCEPT !.projectOrder = order]} ELSE {}

\* _generate_material_candidates and _generate_weather_candidates: requests that
\* somebody has to confirm; until then they change nothing.
MaterialParts ==
    {[NoAction EXCEPT !.materials = {[task |-> t, at |-> None, confirmed |-> FALSE]}] :
        t \in {u \in Task : /\ Live(u) /\ u \notin {m.task : m \in Act.materials}
                            /\ Of(u).material # None /\ Of(u).material > 0}}

WeatherParts ==
    LET exposed == {t \in Task :
            /\ Live(t) /\ Dated(t) /\ HasProfile(t)
            /\ <<t, Of(t).project>> \notin {<<x.task, x.project>> : x \in Act.weather}
            /\ ForecastAt(t, Of(t).planned) < Full
            /\ FirstStart(t, 0) \notin {None, Of(t).planned}
            /\ FirstStart(t, 0) + Of(t).plannedEnd - Of(t).planned <= Horizon} IN
    {[NoAction EXCEPT !.weather =
        {[task |-> t, project |-> Of(t).project, starts |-> FirstStart(t, 0),
          ends |-> FirstStart(t, 0) + Of(t).plannedEnd - Of(t).planned,
          confirmed |-> FALSE, capacity |-> None]}] : t \in exposed}

Elementary(p) == ShiftParts \cup TransferParts(p) \cup OvertimeParts(p) \cup PriorityParts(p)
                 \cup MaterialParts \cup WeatherParts

-----------------------------------------------------------------------------
\* _compatible_action_parts, for parts with one item each.
Clash(x, y) == x.worker = y.worker /\ Overlaps(x, y)

Compatible(parts) == \A a, b \in parts : a # b =>
    /\ (a.projectOrder # <<>> /\ b.projectOrder # <<>>) => a.projectOrder = b.projectOrder
    /\ \A x \in a.transfers \cup a.overtime : \A y \in b.transfers \cup b.overtime : ~Clash(x, y)
    /\ \A x \in a.shifts : \A y \in b.shifts : x.task # y.task
    /\ \A x \in a.materials : \A y \in b.materials : x.task # y.task
    /\ \A x \in a.weather : \A y \in b.weather :
          <<x.task, x.project>> = <<y.task, y.project>> => ~Overlaps(x, y)

\* _bundle_actions
Bundle(parts) ==
    LET orders == {a.projectOrder : a \in parts} \ {<<>>} IN
    [transfers |-> UNION {a.transfers : a \in parts},
     overtime |-> UNION {a.overtime : a \in parts},
     shifts |-> UNION {a.shifts : a \in parts},
     materials |-> UNION {a.materials : a \in parts},
     weather |-> UNION {a.weather : a \in parts},
     projectOrder |-> IF orders = {} THEN <<>> ELSE CHOOSE o \in orders : TRUE,
     taskOrder |-> <<>>]

Bundles(p) == {Bundle(ps) : ps \in
    {qs \in UNION {kSubset(n, Elementary(p)) : n \in 1..MaxParts} : Compatible(qs)}}

Ordered(a) == a.projectOrder # <<>> \/ a.taskOrder # <<>>

\* The transfers of a bundle are in the order of the search.
InSearchOrder(x, y) == LET k == <<x.from, x.to, x.worker, x.starts>>
                           l == <<y.from, y.to, y.worker, y.starts>> IN
    \E i \in 1..4 : k[i] < l[i] /\ \A j \in 1..(i - 1) : k[j] = l[j]

InOrder(moves) == {q \in SetToSeqs(moves) :
    \A i, j \in DOMAIN q : i < j => ~InSearchOrder(q[j], q[i])}

\* _compose_actions: the implemented actions and, after them, the bundle.
Conflicting(a) == /\ Ordered(a) /\ Ordered(Act)
                  /\ a.projectOrder # Act.projectOrder \/ a.taskOrder # Act.taskOrder

Compose(a, moves) ==
    [transfers |-> Act.transfers \o moves,
     overtime |-> Act.overtime \cup a.overtime,
     shifts |-> Act.shifts \cup a.shifts,
     materials |-> Act.materials \cup a.materials,
     weather |-> Act.weather \cup a.weather,
     projectOrder |-> IF Ordered(a) THEN a.projectOrder ELSE Act.projectOrder,
     taskOrder |-> IF Ordered(a) THEN a.taskOrder ELSE Act.taskOrder,
     implemented |-> Act.implemented]

-----------------------------------------------------------------------------
\* The baseline, and an action a caller gives, go straight to Schedule; a bundle
\* is laid over the baseline first.
ProposeInit ==
    /\ plan \in Inputs
    /\ phase = "propose"
    /\ slot = 0 /\ waiting = {} /\ busy = {}
    /\ remaining = [t \in Task |-> 0]
    /\ finish = [t \in Task |-> None]
    /\ work = {}

AsGiven ==
    /\ phase = "propose"
    /\ phase' = "prepare"
    /\ UNCHANGED <<plan, slot, waiting, busy, remaining, finish, work>>

\* plan.action is the baseline: nothing but what was implemented.
IsBaseline == Range(Act.transfers) \cup Act.overtime \cup Act.shifts \cup Act.materials
              \cup Act.weather \subseteq Act.implemented

Propose(p) == \E a \in Bundles(p) : \E moves \in InOrder(a.transfers \ Range(Act.transfers)) :
    /\ phase = "propose" /\ IsBaseline
    /\ IF Conflicting(a) THEN phase' = "rejected" /\ UNCHANGED plan
       ELSE phase' = "prepare" /\ plan' = [plan EXCEPT !.action = Compose(a, moves)]
    /\ UNCHANGED <<slot, waiting, busy, remaining, finish, work>>

RecoveryNext == AsGiven \/ (\E p \in Project : Propose(p)) \/ Next

RecoverySpec == ProposeInit /\ [][RecoveryNext]_vars

-----------------------------------------------------------------------------
\* What the generators propose passes the checks it can be made to pass: the
\* actions lie between asOf and the horizon, move people who may be moved from a
\* project they belong to, and ask for overtime only where it is permitted and
\* never for more than the worker's limit.  (A transfer may still miss the
\* worker's calendar, and anything may meet a reservation or what is implemented.)
PartAllowed(a) ==
    /\ \A t \in a.transfers :
          /\ InHorizon(t) /\ t.from # t.to /\ InProject(t.worker, t.from)
          /\ Cal(t.worker).active /\ Cal(t.worker).canTransfer
          /\ \A k \in t.targets : Of(k).project = t.to
    /\ \A o \in a.overtime :
          /\ InHorizon(o) /\ o.starts < o.ends /\ Within(Window(o), Cal(o.worker).permitted)
          /\ Cal(o.worker).maxOvertime # None => Length(o) <= Cal(o.worker).maxOvertime
    /\ \A s \in a.shifts \cup a.weather : InHorizon(s) /\ s.starts < s.ends
    /\ \A s \in a.shifts : Of(s.task).material # None => s.starts >= Of(s.task).material

GeneratedIsAllowed ==
    phase = "propose" /\ IsBaseline => \A p \in Project : \A a \in Elementary(p) : PartAllowed(a)
=============================================================================
