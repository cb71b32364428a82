--------------------------- MODULE CandidateSearch ---------------------------
(***************************************************************************)
(* Which recovery candidates simulation/engine.py evaluates, and in which    *)
(* order: for each project the families of generated actions are interleaved *)
(* and cut, the compatible bundles of them interleaved by size and cut; in   *)
(* a portfolio the searches of the projects are interleaved in turn and cut; *)
(* candidates a manager gave replace them, proposals go before them, equal   *)
(* ones are dropped, and what is left is cut again (_generate_candidates,    *)
(* _extract_explicit_candidates, _unique_evaluation_candidates).             *)
(*                                                                         *)
(* A part is [kind, item]: what an action says is in Recovery.               *)
(***************************************************************************)
EXTENDS Integers, Sequences, FiniteSets, FiniteSetsExt, SequencesExt

CONSTANTS Cases,          \* bound: [portfolio, order, families, explicit, proposals]
          Conflicts,      \* pairs of parts _compatible_action_parts refuses
          MaxElementary, MaxBundle, MaxCandidates, MaxProposals, Unset

VARIABLES case,        \* the input
          searches,    \* project -> its candidates, or Unset before it is searched
          queue,       \* the candidates to evaluate, or Unset
          evaluated    \* those evaluated so far: [id, parts, errors]

searchVars == <<case, searches, queue, evaluated>>

\* What the constants are: lists, and an order of all projects that are searched.
IsList(s) == s \in Seq(Range(s))
AreGiven(given) == IsList(given) /\ \A i \in DOMAIN given : IsList(given[i].parts)
SearchConstants ==
    /\ {MaxElementary, MaxBundle, MaxCandidates, MaxProposals} \subseteq Nat \ {0}
    /\ \A c \in Cases :
          /\ IsList(c.order) /\ Range(c.order) = DOMAIN c.families
          /\ \A p \in DOMAIN c.families :
                IsList(c.families[p]) /\ \A i \in DOMAIN c.families[p] : IsList(c.families[p][i])
          /\ AreGiven(c.proposals)
          /\ c.explicit = Unset \/ AreGiven(c.explicit)

-----------------------------------------------------------------------------
\* A finite set in an order: the n-th has n - 1 before it.
Listed(S, before) ==
    [n \in 1..Cardinality(S) |-> CHOOSE x \in S : Cardinality({y \in S : <<y, x>> \in before}) = n - 1]
Ascending(S) == Listed(S, {x \in S \X S : x[1] < x[2]})

\* The elements at some places of a sequence.
Only(s, S) == LET at == Ascending(S) IN [n \in DOMAIN at |-> s[at[n]]]
Take(s, n) == Only(s, {i \in DOMAIN s : i <= n})

\* Mutation of InTurn: one sequence after the other.
Concatenate(ss) == FlattenSeq(ss)

\* The first of every sequence, then the second of every one that has two ...
Turns(ss) == UNION {{<<n, i>> : n \in DOMAIN ss[i]} : i \in DOMAIN ss}
Earlier(x, y) == x[1] < y[1] \/ (x[1] = y[1] /\ x[2] < y[2])
InTurn(ss) ==
    LET at == Listed(Turns(ss), {x \in Turns(ss) \X Turns(ss) : Earlier(x[1], x[2])}) IN
    [k \in DOMAIN at |-> ss[at[k][2]][at[k][1]]]

\* The elements no earlier one has the signature of.
Firsts(sig) == {i \in DOMAIN sig : \A j \in DOMAIN sig : j < i => sig[j] # sig[i]}
Unique(s, sig) == Only(s, Firsts(sig))

\* _action_signature: parts are told apart by kind, in order within a kind.
PartsOf(parts, k) == {i \in DOMAIN parts : parts[i].kind = k}
ActionSignature(parts) == [k \in {parts[i].kind : i \in DOMAIN parts} |-> Only(parts, PartsOf(parts, k))]
Signatures(s) == [i \in DOMAIN s |-> ActionSignature(s[i])]

\* _compatible_action_parts
Fits(parts) == \A i, j \in DOMAIN parts : i < j => <<parts[i], parts[j]>> \notin Conflicts

-----------------------------------------------------------------------------
\* The bounded search of one project.
Bounded(p) ==
    LET all == InTurn(case.families[p]) IN Take(Unique(all, all), MaxElementary)

\* itertools.combinations in its order, those that fit.
Sooner(A, B) == \E i \in A \ B : \A j \in B \ A : i < j
Fitting(parts, size) == {A \in kSubset(size, DOMAIN parts) : Fits(Only(parts, A))}
Combinations(parts, size) ==
    LET sets == Fitting(parts, size)
        at == Listed(sets, {x \in sets \X sets : Sooner(x[1], x[2])}) IN
    [n \in DOMAIN at |-> Only(parts, at[n])]

\* The first uses of the signatures, as far as they are kept.
KeptOf(all) == Take(Unique(all, Signatures(all)), MaxCandidates)

BySize(p) == [n \in 1..MaxBundle |-> Combinations(Bounded(p), n)]
SearchOf(p) == KeptOf(InTurn(BySize(p)))

\* Ids: parts joined in a project's search, counted in a portfolio.
PortfolioIds(list) ==
    [i \in DOMAIN list |-> [id |-> <<"portfolio", i>>, parts |-> list[i], errors |-> FALSE]]

\* _generate_candidates; a project scope has one search.
Generated ==
    LET list == KeptOf(InTurn([i \in DOMAIN case.order |-> searches[case.order[i]]])) IN
    IF case.portfolio THEN PortfolioIds(list)
    ELSE [i \in DOMAIN list |-> [id |-> <<"bundle", list[i]>>, parts |-> list[i], errors |-> FALSE]]

\* _extract_explicit_candidates of [id, parts, bad]: uses of an id are numbered
\* (broken ones also marked), parts beyond the limit cut off and reported.  An id
\* that is given here is none of those that proposals have; in the code it may be.
Explicit(given) ==
    [i \in DOMAIN given |->
        [id |-> <<"given", given[i].id, Cardinality({j \in 1..(i - 1) : given[j].id = given[i].id})>>,
         parts |-> Take(given[i].parts, MaxBundle),
         errors |-> given[i].bad \/ Len(given[i].parts) > MaxBundle]]

\* _evaluation_signature
Effect(c) == <<ActionSignature(c.parts), c.errors>>
EffectsOf(s) == [i \in DOMAIN s |-> Effect(s[i])]

-----------------------------------------------------------------------------
SearchInit ==
    /\ case \in Cases
    /\ searches = [p \in DOMAIN case.families |-> Unset]
    /\ queue = Unset /\ evaluated = << >>

Generate ==
    /\ case.explicit = Unset /\ queue = Unset
    /\ \E p \in DOMAIN searches :
          /\ searches[p] = Unset
          /\ searches' = [searches EXCEPT ![p] = SearchOf(p)]
    /\ UNCHANGED <<case, queue, evaluated>>

\* The list evaluate_portfolio goes through.
Own == IF case.explicit = Unset THEN Generated ELSE Explicit(case.explicit)
Extra == Explicit(Take(case.proposals, MaxProposals))
ToEvaluate == Take(Unique(Extra \o Own, EffectsOf(Extra \o Own)), MaxCandidates)

Arrange ==
    /\ queue = Unset
    /\ case.explicit = Unset => \A p \in DOMAIN searches : searches[p] # Unset
    /\ queue' = ToEvaluate
    /\ UNCHANGED <<case, searches, evaluated>>

EvaluateNext ==
    /\ queue # Unset /\ Len(evaluated) < Len(queue)
    /\ evaluated' = Append(evaluated, queue[Len(evaluated) + 1])
    /\ UNCHANGED <<case, searches, queue>>

SearchNext == Generate \/ Arrange \/ EvaluateNext

SearchSpec == SearchInit /\ [][SearchNext]_searchVars

-----------------------------------------------------------------------------
\* The budget is shared (the comments in _generate_candidates): before anything
\* that comes n-th in every search that has it, each project's first n - 1
\* candidates are evaluated; and a search that can combine two actions, and may
\* keep more than one candidate, has a combined plan second.
Tried == {ActionSignature(evaluated[i].parts) : i \in DOMAIN evaluated}
Proposed == {ActionSignature(Extra[i].parts) : i \in DOMAIN Extra}
Round(x) == Min({n \in 1..MaxCandidates : \E p \in DOMAIN searches :
                    n \in DOMAIN searches[p] /\ ActionSignature(searches[p][n]) = x})
SharedOut == \A x \in Tried \ Proposed : \A p \in DOMAIN searches :
    \A n \in DOMAIN searches[p] : n < Round(x) => ActionSignature(searches[p][n]) \in Tried
CombinedSecond == \A p \in DOMAIN searches : searches[p] # Unset /\ MaxBundle > 1 /\ MaxCandidates > 1 =>
    LET parts == Bounded(p) IN
    (\E i, j \in DOMAIN parts : i < j /\ Fits(<<parts[i], parts[j]>>)) =>
        \E n \in DOMAIN searches[p] : n <= 2 /\ Len(searches[p][n]) = 2
SearchIsShared == case.explicit = Unset => SharedOut /\ CombinedSecond

\* An id names one of the candidates evaluated (selection and apply go by id), and
\* no two do the same work.
EvaluatedOnce ==
    \A i, j \in DOMAIN evaluated : i < j =>
        /\ Effect(evaluated[i]) # Effect(evaluated[j])
        /\ case.explicit = Unset => evaluated[i].id # evaluated[j].id
=============================================================================
