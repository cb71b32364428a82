--------------------------- MODULE StrategyChoice ---------------------------
(***************************************************************************)
(* From simulated finishes to published strategies (simulation/engine.py):   *)
(* the baseline and then each candidate is run on every sample; outcomes per *)
(* project, with finishes beyond the horizon censored (_summarize_outcomes); *)
(* guardrails (_guardrail_rejections); material improvement over the         *)
(* baseline; the ranking and the choice (_select_strategies).                *)
(*                                                                         *)
(* Schedules are any finishes up to the horizon.  Instants are days; means   *)
(* and shares are kept as sums over the samples, which are equally many      *)
(* everywhere, so comparing sums compares the code's rounded quotients.      *)
(***************************************************************************)
EXTENDS Integers, Sequences, FiniteSets, FiniteSetsExt, Sums

CONSTANTS Projects, Samples,
          HorizonEnd, Nil,
          Candidates,     \* the number of candidates evaluated
          Settings,       \* bound: [scope, focus, target, priority, protected, maxOvertime,
                          \*         maxDonorDelay]
          BaseFinishes,   \* bound: the finishes the baseline may have
          Finishes,       \* bound: a candidate's, [Projects -> sequences of Samples]
          Costs           \* bound: a candidate's [days, overtime, overhead, donors, approach]

VARIABLES setting,    \* _Input: scope, targets and guardrails
          base,       \* the baseline's [finishes, outcomes], or Nil before it is run
          runs,       \* candidates evaluated so far: [finishes, outcomes, cost, feasible]
          chosen      \* published strategies: a sequence of [id, roles], or Nil

choiceVars == <<setting, base, runs, chosen>>

\* Instants are days, and a finish after the horizon is not known.  (A task without effort
\* finishes when it may start, were it after the horizon; such tasks are left out.)
IsFinishes(f) ==
    /\ f \in [Projects -> [1..Samples -> Int \cup {Nil}]]
    /\ \A p \in Projects, i \in 1..Samples : f[p][i] # Nil => f[p][i] <= HorizonEnd

\* See MCEngine.
ChoiceConstants ==
    /\ IsFiniteSet(Projects) /\ Nil \notin Int
    /\ Samples \in Nat \ {0} /\ Candidates \in Nat /\ HorizonEnd \in Nat
    /\ \A f \in BaseFinishes \cup Finishes : IsFinishes(f)
    /\ \A k \in Costs : {k.days, k.overtime, k.overhead} \subseteq Int /\ k.donors \subseteq Projects
    /\ \A s \in Settings : /\ s.focus \in Projects /\ s.protected \subseteq Projects
                           /\ s.target \in [Projects -> Int] /\ s.priority \in [Projects -> Int]

-----------------------------------------------------------------------------
Count(s, P(_)) == Cardinality({i \in DOMAIN s : P(s[i])})
Due(p) == setting.target[p]

\* _quantile_datetime of complete, sorted finishes, times ten.
Quantile(s, tenths) ==
    LET at == (Len(s) - 1) * tenths  low == s[at \div 10 + 1] IN
    IF at % 10 = 0 THEN 10 * low ELSE 10 * low + (at % 10) * (s[at \div 10 + 2] - low)

\* Beyond the horizon is late if the target was within it, and unknown if not.
Unknown(s, due) == IF HorizonEnd < due THEN Count(s, LAMBDA x : x = Nil) ELSE 0

Outcome(s, due) ==
    LET unfinished == Count(s, LAMBDA x : x = Nil)
        late == Count(s, LAMBDA x : x # Nil /\ x > due)
                + (IF HorizonEnd >= due THEN unfinished ELSE 0) IN
    [unfinished |-> unfinished, unknown |-> Unknown(s, due), late |-> late,
     risk |-> IF Unknown(s, due) > 0 THEN Nil ELSE late,
     delay |-> IF unfinished > 0 THEN Nil
               ELSE Total([i \in DOMAIN s |-> IF s[i] > due THEN s[i] - due ELSE 0]),
     p50 |-> IF unfinished > 0 THEN Nil ELSE Quantile(s, 5),
     p90 |-> IF unfinished > 0 THEN Nil ELSE Quantile(s, 9)]

Outcomes(finishes) == [p \in Projects |-> Outcome(finishes[p], Due(p))]
Before == base.outcomes
After(c) == runs[c].outcomes

-----------------------------------------------------------------------------
\* _guardrail_rejections; a delay that is not known rejects nothing.
DelayGrowth(b, a) == IF Nil \in {b.delay, a.delay} THEN 0 ELSE a.delay - b.delay

Guarded(after, cost) ==
    /\ setting.maxOvertime # Nil => cost.overtime <= setting.maxOvertime
    /\ setting.maxDonorDelay # Nil => \A p \in cost.donors :
          DelayGrowth(Before[p], after[p]) <= setting.maxDonorDelay * Samples
    /\ \A p \in setting.protected : DelayGrowth(Before[p], after[p]) <= 0

\* Mutation of Worse: unfinished samples are not compared.
WorseIfLater(b, a) ==
    Nil \notin {b.risk, a.risk} /\ a.risk > b.risk

\* _outcome_is_worse_under_censoring
Worse(b, a) ==
    \/ a.unknown > b.unknown
    \/ a.unfinished > b.unfinished
    \/ Nil \notin {b.risk, a.risk} /\ a.risk > b.risk
    \/ a.unknown = b.unknown /\ a.late > b.late

Lower(x, y) == Nil \notin {x, y} /\ x < y

\* _outcome_is_materially_better
Better(b, a) ==
    \/ a.unknown < b.unknown
    \/ a.unknown = b.unknown /\ a.late < b.late
    \/ Lower(a.delay, b.delay)
    \/ Lower(a.risk, b.risk)
    \/ Lower(a.p50, b.p50)

-----------------------------------------------------------------------------
\* Ranking.  Keys are sequences compared from the left; a metric is <<0, value>>,
\* or <<1, how many samples are unknown>>, which is after every value.
Metric(x, unknown) == IF x # Nil THEN <<0, x>> ELSE <<1, unknown>>

KeyLess(k, l) == \E i \in DOMAIN k : k[i] < l[i] /\ \A j \in 1..(i - 1) : k[j] = l[j]

\* _priority_weight
Weights == [p \in Projects |->
    IF \A q, r \in Projects : setting.priority[q] = setting.priority[r] THEN 1
    ELSE Max({1, Min({3, setting.priority[p]})})]

AtLeast1(n) == IF n = 0 THEN 1 ELSE n

\* _weighted_outcome_metric of a field, with the weights w.
Weighted(w, o, x) ==
    LET unknown == Total([p \in Projects |-> IF o[p][x] = Nil THEN AtLeast1(o[p].unknown) ELSE 0]) IN
    IF unknown > 0 THEN Metric(Nil, unknown)
    ELSE Metric(Total([p \in Projects |-> w[p] * o[p][x]]), 0)

\* _negative_buffer_exposure: how much later projects end that are known to end.
Exposure(b, o) ==
    LET open == Total([p \in Projects |->
            IF Nil \in {b[p].p50, o[p].p50} /\ b[p].unknown + o[p].unknown > 0
            THEN 1 ELSE 0]) IN
    IF open > 0 THEN Metric(Nil, open)
    ELSE Metric(Total([p \in Projects |->
            IF Nil \in {b[p].p50, o[p].p50} THEN 0
            ELSE Max({0, o[p].p50 - b[p].p50})]), 0)

\* _portfolio_outcome_key
PortfolioKey(w, o) ==
    << Total([p \in Projects |-> w[p] * o[p].unknown]),
       Total([p \in Projects |-> w[p] * o[p].unfinished]) >>
    \o Weighted(w, o, "risk") \o Weighted(w, o, "delay")

Disruption(c) == << runs[c].cost.days, runs[c].cost.overtime, runs[c].cost.overhead, c >>

FastKey(c) ==
    LET o == After(c)[setting.focus] IN
    Metric(o.risk, o.unknown) \o Metric(o.delay, o.unknown)
    \o Metric(IF o.p90 = Nil THEN Nil ELSE o.p90 - 10 * Due(setting.focus), o.unknown)
    \o Disruption(c)

BalancedKey(c) ==
    (IF setting.scope = "portfolio" THEN PortfolioKey(Weights, After(c)) ELSE << >>)
    \o Weighted(Weights, After(c), "risk") \o Weighted(Weights, After(c), "delay")
    \o Exposure(Before, After(c)) \o Disruption(c)

SafeKey(c) ==
    LET o == After(c)
        unknown == Total([p \in Projects |-> IF o[p].p90 = Nil THEN AtLeast1(o[p].unknown) ELSE 0])
        worst == IF unknown > 0 THEN Nil ELSE Max({o[p].risk : p \in Projects})
        tail == IF unknown > 0 THEN Nil ELSE Max({o[p].p90 - 10 * Due(p) : p \in Projects}) IN
    Metric(worst, unknown) \o Metric(tail, unknown) \o Exposure(Before, o) \o Disruption(c)

RankingKeys == [c \in DOMAIN runs |->
            [fast |-> FastKey(c), balanced |-> BalancedKey(c), safe |-> SafeKey(c)]]

Best(cs, keys, role) ==
    CHOOSE c \in cs : \A d \in cs \ {c} : KeyLess(keys[c][role], keys[d][role])

-----------------------------------------------------------------------------
\* _material_target_improvement and, for a portfolio, _material_portfolio_improvement.
Improves(c) ==
    IF setting.scope = "portfolio"
    THEN /\ \A p \in Projects : After(c)[p].unknown <= Before[p].unknown
         /\ \A p \in setting.protected : ~Worse(Before[p], After(c)[p])
         /\ KeyLess(PortfolioKey(Weights, After(c)), PortfolioKey(Weights, Before))
    ELSE /\ \A p \in Projects : ~Worse(Before[p], After(c)[p])
         /\ Better(Before[setting.focus], After(c)[setting.focus])

\* _candidate_outcome_signature
Signature(c) == [p \in Projects |->
    LET o == After(c)[p] IN <<o.p50, o.risk, o.delay, o.unfinished>>]

Beneficial == {c \in DOMAIN runs : runs[c].feasible /\ Improves(c)}

\* Of candidates with the same outcomes the first is kept.
Different == {c \in Beneficial : \A d \in Beneficial : d < c => Signature(d) # Signature(c)}

\* Fast, balanced and safe; one candidate may have several of the roles.
ByRole(cs, keys) ==
    LET best == [role \in {"fast", "balanced", "safe"} |-> Best(cs, keys, role)]
        ids == <<best.fast>>
               \o (IF best.balanced = best.fast THEN << >> ELSE <<best.balanced>>)
               \o (IF best.safe \in {best.fast, best.balanced} THEN << >> ELSE <<best.safe>>) IN
    [i \in DOMAIN ids |-> [id |-> ids[i], roles |-> {r \in DOMAIN best : best[r] = ids[i]}]]

\* The best candidate of each approach.
Leaders(cs, keys) == {c \in cs : \A d \in cs :
    runs[d].cost.approach = runs[c].cost.approach => ~KeyLess(keys[d].balanced, keys[c].balanced)}

Ahead(c, cs, keys) == {d \in cs : KeyLess(keys[d].balanced, keys[c].balanced)}

\* The candidate that has so many ahead of it.
Ranked(n, cs, keys) == CHOOSE c \in cs : Cardinality(Ahead(c, cs, keys)) = n

\* A portfolio's best candidates, one for each approach, at most four.
ByApproach(cs, keys) ==
    [i \in 1..Min({4, Cardinality(Leaders(cs, keys))}) |->
        [id |-> Ranked(i - 1, Leaders(cs, keys), keys),
         roles |-> IF i = 1 THEN {"recommended"} ELSE {"alternative"}]]

Published(cs, keys) ==
    IF cs = {} THEN << >>
    ELSE IF setting.scope = "portfolio" THEN ByApproach(cs, keys) ELSE ByRole(cs, keys)

-----------------------------------------------------------------------------
ChoiceInit ==
    /\ setting \in Settings
    /\ base = Nil /\ runs = << >> /\ chosen = Nil

RunBaseline ==
    /\ base = Nil
    /\ \E f \in BaseFinishes : base' = [finishes |-> f, outcomes |-> Outcomes(f)]
    /\ UNCHANGED <<setting, runs, chosen>>

\* _evaluate_candidate
Evaluate ==
    /\ base # Nil /\ Len(runs) < Candidates
    /\ \E f \in Finishes : \E k \in Costs :
          runs' = Append(runs, [finishes |-> f, outcomes |-> Outcomes(f), cost |-> k,
                                feasible |-> Guarded(Outcomes(f), k)])
    /\ UNCHANGED <<setting, base, chosen>>

\* What is published, by role and rank.  The page of the project scope lists the same
\* strategies in the order in which they were evaluated.
Select ==
    /\ base # Nil /\ Len(runs) = Candidates /\ chosen = Nil
    /\ \E cs \in {Different}, keys \in {RankingKeys} : chosen' = Published(cs, keys)
    /\ UNCHANGED <<setting, base, runs>>

ChoiceNext == RunBaseline \/ Evaluate \/ Select

ChoiceSpec == ChoiceInit /\ [][ChoiceNext]_choiceVars

-----------------------------------------------------------------------------
Chosen == IF chosen = Nil THEN {} ELSE {chosen[i].id : i \in DOMAIN chosen}
OnTime(f, p) == Count(f[p], LAMBDA x : x # Nil /\ x <= Due(p))
Finished(f, p) == \A i \in DOMAIN f[p] : f[p][i] # Nil

\* No published strategy takes a sample in which a project is known to be on time
\* away from it, censored finishes counted as not on time: no project at all in
\* the project scope, no protected one in a portfolio.
NobodyLosesTime == \A c \in Chosen :
    \A p \in (IF setting.scope = "project" THEN Projects ELSE setting.protected) :
        OnTime(runs[c].finishes, p) >= OnTime(base.finishes, p)

\* A protected project that finished in every sample still does, and not later
\* on average, whatever guardrail lets an unknown delay pass.
ProtectedKept == \A c \in Chosen : \A p \in setting.protected :
    Finished(base.finishes, p) =>
        /\ Finished(runs[c].finishes, p)
        /\ After(c)[p].delay <= Before[p].delay

\* The first strategy published is the best of all that help, not only of those
\* that are left when equal outcomes were dropped: in the project scope nothing
\* that helps has the target late less often, or as often and less late; in a
\* portfolio nothing has a better portfolio key.
HeadlineKey(c) == IF setting.scope = "portfolio" THEN PortfolioKey(Weights, After(c))
    ELSE LET o == After(c)[setting.focus] IN
         Metric(o.risk, o.unknown) \o Metric(o.delay, o.unknown)
BestIsFirst == \A c \in Chosen : c = chosen[1].id =>
    \A d \in Beneficial : ~KeyLess(HeadlineKey(d), HeadlineKey(c))

\* What is published takes no project's time or protection, and the first of each role is
\* the best, though samples may not finish (_select_strategies).
ChoiceIsSound == NobodyLosesTime /\ ProtectedKept /\ BestIsFirst
=============================================================================
