--------------------------- MODULE ExternalContext ---------------------------
(***************************************************************************)
(* Weather and travel times for a frozen plan (integrations/context.py) and  *)
(* the comparison of both at approval (services/context_freshness.py).       *)
(*                                                                         *)
(* A thread enriches a plan: for each key, a project's forecast or the       *)
(* matrix of the projects of its transfers, it looks into the cache of its   *)
(* process, asks the provider, and stores what it gets.  Other threads do    *)
(* the same meanwhile.  The time is taken once, at the beginning.            *)
(*                                                                         *)
(* Providers are external: they answer anything or fail.  A hash stands for  *)
(* what it is computed from.  Capacities are percentages.                    *)
(***************************************************************************)
EXTENDS Integers, FiniteSets, FiniteSetsExt

CONSTANTS Thread, Process, Home,   \* Home[t]: the process of thread t
          Metrics,         \* the fields every hour should have
          Days,            \* of forecast asked for
          Ttl,             \* Ttl["weather"], Ttl["routing"]
          MaxAttempts,
          Nothing,         \* where the code has None
          Plans,           \* bound: [located, configured, tasks, transfers]
          Forecasts,       \* bound: answers [hours, days, zone]
          Matrices,        \* bound: answers, durations for some pairs of projects
          MaxTime          \* bound

VARIABLES frozen,       \* the planning payload before it is enriched
          clock,
          cache,      \* cache[p][k]: Nothing or [value, stored, expires, at]
          run,        \* a thread's enrichment
          analysis    \* Nothing or what is saved of the analysis

contextVars == <<frozen, clock, cache, run, analysis>>

Nowhere == [s \in {} |-> 0]

\* Percentages of the work that can be done.
Percent == 0..100
Rules(r) == /\ r.base \in Percent \cup {Nothing}
            /\ \A c \in r.conditions : c.capacity \in Percent \cup {Nothing}
OwnOk(own) == /\ DOMAIN own = {"kind", "number", "slots"}
              /\ own.kind = "number" => own.number \in Percent
              /\ own.kind = "mapping" /\ own.slots # Nothing =>
                    \A s \in DOMAIN own.slots : own.slots[s] \in Percent
              /\ own.kind \notin {"number", "mapping"} => own.slots = Nothing
PlanOk(q) ==
    /\ DOMAIN q = {"located", "configured", "tasks", "transfers"}
    /\ \A i \in DOMAIN q.tasks : LET task == q.tasks[i] IN
          /\ {"project", "rules", "own"} \subseteq DOMAIN task
          /\ task.rules # Nothing /\ task.rules.confirmed => Rules(task.rules) /\ OwnOk(task.own)
    /\ \A i \in DOMAIN q.transfers :
          {"from", "to", "confirmed", "out", "back"} \subseteq DOMAIN q.transfers[i]

\* Numbers are what their names say; no value is taken for none.
ContextConstants ==
    /\ Home \in [Thread -> Process]
    /\ Ttl \in [{"weather", "routing"} -> Nat \ {0}]
    /\ MaxAttempts \in Nat \ {0} /\ Days \in Nat /\ MaxTime \in Nat
    /\ Nothing \notin Nat \cup Plans \cup Forecasts \cup Matrices /\ Nothing # Nowhere
    /\ \A q \in Plans : PlanOk(q)
    /\ \A f \in Forecasts : \A D \in SUBSET DOMAIN f.hours : Nothing \notin [D -> Percent]

Least(x, y) == IF x < y THEN x ELSE y
\* A mapping with another value of a key.
With(f, key, value) == [x \in DOMAIN f \cup {key} |-> IF x = key THEN value ELSE f[x]]

-----------------------------------------------------------------------------
\* The rules of a task.  A condition on something that is not a metric is dropped.
Conditions(rules) == {c \in rules.conditions : c.metric \in Metrics}
BaseCapacity(rules) == IF Conditions(rules) = {} /\ rules.stopWork THEN 0 ELSE rules.base
Violated(hour, c) == IF c.below THEN hour[c.metric] < c.threshold ELSE hour[c.metric] > c.threshold
Effects(hour, rules) == {IF c.capacity # Nothing THEN c.capacity ELSE 0 :
                           c \in {d \in Conditions(rules) : Violated(hour, d)
                                                            /\ (d.capacity # Nothing \/ d.stop)}}

CanTell(hour, rules) == \A c \in Conditions(rules) : c.metric \in DOMAIN hour
CapacityIn(hour, rules) == Min({IF BaseCapacity(rules) = Nothing THEN 100 ELSE BaseCapacity(rules)}
                             \cup Effects(hour, rules))

\* The capacity per hour; nothing for the hours that have no forecast.
Profile(forecast, rules) ==
    IF forecast = Nothing \/ (Conditions(rules) = {} /\ BaseCapacity(rules) = Nothing) THEN Nowhere
    ELSE [s \in {s \in DOMAIN forecast.hours : CanTell(forecast.hours[s], rules)} |->
            CapacityIn(forecast.hours[s], rules)]

\* A task's own workability: none, a number, or a mapping that may have slots.
Merged(own, profile) ==
    [kind |-> "mapping", number |-> Nothing,
     slots |-> [s \in DOMAIN profile |->
        IF own.kind = "number" THEN (own.number * profile[s]) \div 100
        ELSE IF own.slots # Nothing /\ s \in DOMAIN own.slots THEN Least(profile[s], own.slots[s])
        ELSE profile[s]]]

-----------------------------------------------------------------------------
\* What is asked for.
IsRuled(task) == task.rules # Nothing /\ task.rules.confirmed
WeatherProjects(q) == {q.tasks[i].project : i \in {i \in DOMAIN q.tasks : IsRuled(q.tasks[i])}}
                      \cup q.located
Moves(q) == {i \in DOMAIN q.transfers : /\ q.transfers[i].confirmed
                                        /\ q.transfers[i].from # Nothing /\ q.transfers[i].to # Nothing}
RoutingProjects(q) == (UNION {{q.transfers[i].from, q.transfers[i].to} : i \in Moves(q)}) \cap q.located
RoutingKey(q) == <<"routing", RoutingProjects(q)>>
Keys(q) == {<<"weather", {p}>> : p \in q.located}
           \cup (IF Cardinality(RoutingProjects(q)) < 2 THEN {} ELSE {RoutingKey(q)})

\* A forecast or a matrix in use, if there is one.
Given(got, k) == IF k \in DOMAIN got THEN got[k].value ELSE Nothing
ForecastOf(got, p) == Given(got, <<"weather", {p}>>)
Leg(matrix, a, b) ==
    IF matrix # Nothing /\ <<a, b>> \in DOMAIN matrix /\ matrix[<<a, b>>] \in Nat
    THEN matrix[<<a, b>>] ELSE Nothing

WeatherComplete(f) == /\ f.days >= Days /\ f.zone
                      /\ \A s \in DOMAIN f.hours : DOMAIN f.hours[s] = Metrics
Pairs(q) == {ab \in RoutingProjects(q) \X RoutingProjects(q) : ab[1] # ab[2]}
RoutingComplete(q, m) == \A ab \in Pairs(q) : Leg(m, ab[1], ab[2]) # Nothing

\* The status of one answer: of a value, or of the failure to get one.
Condition(answer, complete) ==
    IF answer.value = Nothing THEN IF answer.error = "not_configured" THEN "not_configured" ELSE "error"
    ELSE IF answer.stale THEN "stale"
    ELSE IF complete THEN "available" ELSE "partial"

ProjectStatus(q, got, p) ==
    IF p \notin q.located THEN "unavailable"
    ELSE LET k == <<"weather", {p}>> IN
         Condition(got[k], got[k].value # Nothing /\ WeatherComplete(got[k].value))
RoutingStatus(q, got) ==
    IF Moves(q) = {} THEN "not_requested"
    ELSE IF RoutingKey(q) \notin DOMAIN got THEN "unavailable"
    ELSE Condition(got[RoutingKey(q)], RoutingComplete(q, got[RoutingKey(q)].value))

\* _aggregate_project_status
Aggregate(states) ==
    IF states = {} THEN "not_requested"
    ELSE IF states \in {{"available"}, {"not_configured"}, {"unavailable"}} THEN CHOOSE s \in states : TRUE
    ELSE IF "stale" \in states /\ states \subseteq {"stale", "available"} THEN "stale"
    ELSE "partial"
\* _overall_status
Overall(weather, routing) ==
    LET active == {weather, routing} \ {"not_requested"} IN
    IF active = {} THEN "not_requested"
    ELSE IF active \in {{"available"}, {"not_configured"}, {"unavailable"}} THEN CHOOSE s \in active : TRUE
    ELSE "partial"

-----------------------------------------------------------------------------
\* The enriched payload, the status of its sources and the revision of both, which
\* leaves out when and how often a provider was asked and whether a cache was.
EnrichedTasks(q, got) ==
    [i \in DOMAIN q.tasks |->
        IF ~IsRuled(q.tasks[i]) THEN q.tasks[i]
        ELSE [q.tasks[i] EXCEPT
                !.own = Merged(@, Profile(ForecastOf(got, q.tasks[i].project), q.tasks[i].rules))]]
TravelHours(own, leg) == IF leg = Nothing THEN own ELSE leg
EnrichedTransfers(q, got) ==
    LET matrix == Given(got, RoutingKey(q)) IN
    [i \in DOMAIN q.transfers |->
        IF i \notin Moves(q) THEN q.transfers[i]
        ELSE LET move == q.transfers[i]  located == {move.from, move.to} \subseteq q.located IN
             [move EXCEPT
                !.out = TravelHours(@, IF located THEN Leg(matrix, move.from, move.to) ELSE Nothing),
                !.back = TravelHours(@, IF located THEN Leg(matrix, move.to, move.from) ELSE Nothing)]]

Coverage(f) == <<f.days, f.zone, DOMAIN f.hours, {Metrics \ DOMAIN f.hours[s] : s \in DOMAIN f.hours}>>
Status(q, got) ==
    LET projects == [p \in WeatherProjects(q) |-> ProjectStatus(q, got, p)]
        weather == Aggregate({projects[p] : p \in WeatherProjects(q)})
        routing == RoutingStatus(q, got) IN
    [overall |-> Overall(weather, routing), weather |-> weather, routing |-> routing,
     projects |-> projects,
     coverage |-> [p \in {p \in q.located : ForecastOf(got, p) # Nothing} |-> Coverage(ForecastOf(got, p))],
     missing |-> {ab \in Pairs(q) : Leg(Given(got, RoutingKey(q)), ab[1], ab[2]) = Nothing}]

Enriched(q, got) ==
    LET status == Status(q, got) IN
    [tasks |-> EnrichedTasks(q, got), transfers |-> EnrichedTransfers(q, got), status |-> status,
     answers |-> [k \in {k \in DOMAIN got : got[k].value # Nothing} |-> got[k].value]]
Revision(e) == <<e.tasks, e.transfers, e.answers, e.status.weather, e.status.routing,
                 e.status.coverage, e.status.missing>>

\* _degraded_providers and _new_degradation
DegradedStates == {"partial", "stale", "error", "unavailable", "not_configured"}
IncompleteWeather(status) == \E p \in DOMAIN status.coverage :
    \/ status.coverage[p][1] < Days \/ ~status.coverage[p][2]
    \/ \E m \in status.coverage[p][4] : m # {}
DegradedProviders(status) ==
    [n \in {n \in {"overall", "weather", "routing"} :
              \/ status[n] \in DegradedStates
              \/ n = "weather" /\ (\/ IncompleteWeather(status)
                                   \/ \E p \in DOMAIN status.projects : status.projects[p] \in DegradedStates)
              \/ n = "routing" /\ status.routing # "not_requested" /\ status.missing # {}} |->
        <<status[n], IF n = "weather" THEN status.coverage ELSE <<>>,
          IF n = "routing" THEN status.missing ELSE {}>>]
NewDegradation(current, declared) ==
    {n \in DOMAIN current : n \in DOMAIN declared => current[n] # declared[n]}
        \ ({"overall"} \ DOMAIN declared)
IsFresh(e, saved) == /\ Revision(e) = saved.revision
                     /\ NewDegradation(DegradedProviders(e.status), DegradedProviders(saved.status)) = {}

-----------------------------------------------------------------------------
Idle == [at |-> "idle", kind |-> Nothing, since |-> 0, left |-> {}, key |-> Nothing, attempt |-> 0,
         got |-> [k \in {} |-> Nothing], input |-> Nothing, result |-> Nothing, fresh |-> FALSE]

ContextInit == /\ frozen \in Plans
        /\ clock = 0
        /\ cache = [p \in Process |-> [k \in {} |-> Nothing]]
        /\ run = [t \in Thread |-> Idle]
        /\ analysis = Nothing

\* enrich_context begins, for an analysis or for the approval of one.  An analysis of an
\* earlier version, saved without the payload before enrichment, is enriched again from
\* the one after.
Enrich(t, kind, input) ==
    /\ run[t].at = "idle"
    /\ run' = [run EXCEPT ![t] = [Idle EXCEPT !.at = "look", !.kind = kind, !.since = clock,
                                              !.left = Keys(input), !.input = input]]
    /\ UNCHANGED <<frozen, clock, cache, analysis>>
Analyse(t) == analysis = Nothing /\ Enrich(t, "analyse", frozen)
SavedPlanning(a) ==
    IF a.contextInput # Nothing THEN a.contextInput
    ELSE [frozen EXCEPT !.tasks = a.planning.tasks, !.transfers = a.planning.transfers]
Approve(t) == analysis # Nothing /\ Enrich(t, "approve", SavedPlanning(analysis))

MyCache(t) == cache[Home[t]]
Have(t, k, value, stale, error, at) ==
    run' = [run EXCEPT ![t].at = "look", ![t].left = @ \ {k}, ![t].key = Nothing, ![t].attempt = 0,
                       ![t].got = With(@, k, [value |-> value, stale |-> stale,
                                              error |-> error, at |-> at])]

\* ContextCache.get
Kept(t, k) == k \in DOMAIN MyCache(t)
\* Mutation of Expired: alive at the end of its time.
ExpiredLater(entry, time) == time > entry.expires
Expired(entry, time) == time >= entry.expires
Hit(t, k) == Kept(t, k) /\ ~Expired(MyCache(t)[k], run[t].since)

\* The last known value, marked as stale, or the error (ContextProviderError).
FallBack(t, k, error) ==
    IF Kept(t, k) THEN Have(t, k, MyCache(t)[k].value, TRUE, error, MyCache(t)[k].at)
    ELSE Have(t, k, Nothing, FALSE, error, 0)

\* The forecasts come first, project by project, and then the matrix.
LooksFor(t, k) == k \in run[t].left /\ (k[1] = "routing" => run[t].left = {k})
Look(t) ==
    /\ run[t].at = "look"
    /\ \E k \in run[t].left : LooksFor(t, k) /\
         \/ Hit(t, k) /\ Have(t, k, MyCache(t)[k].value, FALSE, Nothing, MyCache(t)[k].at)
         \/ /\ ~Hit(t, k) /\ k[1] \in frozen.configured
            /\ run' = [run EXCEPT ![t].at = "ask", ![t].key = k, ![t].attempt = 1]
         \/ ~Hit(t, k) /\ k[1] \notin frozen.configured /\ FallBack(t, k, "not_configured")
    /\ UNCHANGED <<frozen, clock, cache, analysis>>

\* A timeout, a network error or a passing status is tried again, any other is not.
Retry(t) == /\ run[t].at = "ask" /\ run[t].attempt < MaxAttempts
            /\ run' = [run EXCEPT ![t].attempt = @ + 1]
            /\ UNCHANGED <<frozen, clock, cache, analysis>>
Fail(t) == /\ run[t].at = "ask" /\ FallBack(t, run[t].key, "error")
           /\ UNCHANGED <<frozen, clock, cache, analysis>>

\* The entry is dated from the beginning of the enrichment.
CacheEntry(t, value) == [value |-> value, stored |-> run[t].since,
                         expires |-> run[t].since + Ttl[run[t].key[1]], at |-> clock]
Store(t, value) ==
    cache' = [cache EXCEPT ![Home[t]] = With(@, run[t].key, CacheEntry(t, value))]
Answer(t) ==
    /\ run[t].at = "ask"
    /\ LET k == run[t].key IN
       \E value \in IF k[1] = "weather" THEN Forecasts ELSE Matrices :
          IF k[1] = "weather" /\ DOMAIN value.hours = {}
          THEN FallBack(t, k, "error") /\ cache' = cache
          ELSE Have(t, k, value, FALSE, Nothing, clock) /\ Store(t, value)
    /\ UNCHANGED <<frozen, clock, analysis>>

\* The analysis is saved with its revision; an approval compares.
Finish(t) ==
    /\ run[t].at = "look" /\ run[t].left = {}
    /\ LET e == Enriched(run[t].input, run[t].got) IN
       /\ run' = [run EXCEPT ![t].at = "done", ![t].result = e,
                             ![t].fresh = run[t].kind = "approve" /\ IsFresh(e, analysis)]
       /\ IF run[t].kind = "analyse" /\ analysis = Nothing
          THEN \E old \in BOOLEAN :
               analysis' = [revision |-> Revision(e), status |-> e.status,
                            planning |-> [tasks |-> e.tasks, transfers |-> e.transfers],
                            contextInput |-> IF old THEN Nothing ELSE run[t].input]
          ELSE analysis' = analysis
    /\ UNCHANGED <<frozen, clock, cache>>

Tick == clock < MaxTime /\ clock' = clock + 1 /\ UNCHANGED <<frozen, cache, run, analysis>>

ContextNext == Tick \/ \E t \in Thread : Analyse(t) \/ Approve(t) \/ Look(t) \/ Retry(t) \/ Fail(t)
                                  \/ Answer(t) \/ Finish(t)
ContextSpec == ContextInit /\ [][ContextNext]_contextVars

-----------------------------------------------------------------------------
IsDone(t) == run[t].at = "done"

\* What is not marked as stale was true at the provider within the time to live before
\* the enrichment began, whichever thread asked (ContextCache, fetch_hourly).
RecentUnlessStale ==
    \A t \in Thread : \A k \in DOMAIN run[t].got :
        LET a == run[t].got[k] IN
        a.value # Nothing /\ ~a.stale => run[t].since < a.at + Ttl[k[1]]

\* A capacity is only there if the forecast has the hour with every field the rules need,
\* is never above the plan's own, and is none where work must stop; a travel time is the
\* plan's or the provider's (module docstring: no favorable value is synthesized).
SlotsAreSound(task, slots, forecast) ==
    \A s \in DOMAIN slots :
       /\ forecast # Nothing /\ s \in DOMAIN forecast.hours
       /\ task.own.kind = "number" => slots[s] <= task.own.number
       /\ task.own.kind = "mapping" /\ task.own.slots # Nothing /\ s \in DOMAIN task.own.slots =>
             slots[s] <= task.own.slots[s]
       /\ \A c \in Conditions(task.rules) :
             /\ c.metric \in DOMAIN forecast.hours[s]
             /\ c.stop /\ c.capacity = Nothing /\ Violated(forecast.hours[s], c) => slots[s] = 0
NothingFavourable ==
    \A t \in Thread : IsDone(t) =>
        LET q == run[t].input  e == run[t].result IN
        /\ \A i \in DOMAIN q.tasks : IsRuled(q.tasks[i]) =>
             SlotsAreSound(q.tasks[i], e.tasks[i].own.slots, ForecastOf(run[t].got, q.tasks[i].project))
        /\ \A i \in DOMAIN q.transfers :
             \/ e.transfers[i].out = q.transfers[i].out
             \/ e.transfers[i].out \in Nat /\ RoutingKey(q) \in DOMAIN e.answers

\* The overall status says available only of complete answers that are not stale, for
\* every project and every leg of a transfer between two places that are known
\* (_overall_status, _aggregate_project_status).
DegradedIsShown ==
    \A t \in Thread : IsDone(t) /\ run[t].result.status.overall = "available" =>
        LET q == run[t].input IN
        /\ \A p \in WeatherProjects(q) :
             p \in q.located /\ ~run[t].got[<<"weather", {p}>>].stale
                /\ WeatherComplete(ForecastOf(run[t].got, p))
        /\ \A i \in Moves(q) :
             LET from == q.transfers[i].from  to == q.transfers[i].to
                 leg(a, b) == Leg(Given(run[t].got, RoutingKey(q)), a, b) IN
             from # to /\ {from, to} \subseteq q.located =>
                 leg(from, to) # Nothing /\ leg(to, from) # Nothing /\ ~run[t].got[RoutingKey(q)].stale

\* An approval that finds the context fresh would simulate what the analysis simulated,
\* with the same state of each project unless their aggregate is partial or stale (then a
\* forecast that became stale goes unnoticed); and the payload from after enrichment leads
\* to the same verdict as the one from before (enrich_frozen_context_for_approval).
ApprovedIsSame ==
    \A t \in Thread : IsDone(t) /\ run[t].kind = "approve" =>
        /\ run[t].fresh => /\ run[t].result.tasks = analysis.planning.tasks
                           /\ run[t].result.transfers = analysis.planning.transfers
                           /\ \/ run[t].result.status.projects = analysis.status.projects
                              \/ run[t].result.status.weather \in {"partial", "stale"}
        /\ run[t].fresh = IsFresh(Enriched(frozen, run[t].got), analysis)

\* Weather and travel are recent or marked as stale, never better than what is known,
\* and an approval compares what matters of them (enrich_context, context_freshness.py).
ContextIsHonest == RecentUnlessStale /\ NothingFavourable /\ DegradedIsShown /\ ApprovedIsSame
=============================================================================
