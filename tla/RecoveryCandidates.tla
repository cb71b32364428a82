------------------------- MODULE RecoveryCandidates -------------------------
(***************************************************************************)
(* The candidates of the engine: what the generators propose (Recovery) and  *)
(* which of it is searched and evaluated (CandidateSearch).                  *)
(***************************************************************************)
EXTENDS Recovery, CandidateSearch

\* Generated actions are acceptable to _prepare_action, projects share the candidates,
\* and nothing is evaluated twice (_generate_candidates, evaluate_portfolio).
CandidatesAreSound == GeneratedIsAllowed /\ SearchIsShared /\ EvaluatedOnce
=============================================================================
