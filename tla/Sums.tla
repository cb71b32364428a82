-------------------------------- MODULE Sums --------------------------------
(***************************************************************************)
(* Sums over finite sets, for the amounts of the engine (Schedule,           *)
(* StrategyChoice).                                                          *)
(***************************************************************************)
EXTENDS FiniteSetsExt

\* The sum of the numbers a function gives.
Total(f) == MapThenSumSet(LAMBDA x : f[x], DOMAIN f)
=============================================================================
