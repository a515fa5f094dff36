---- MODULE Sums ----
(***************************************************************************)
(* Sums over a finite set of rows: what a loop over a queryset or an       *)
(* aggregate of a column computes.  The summand is a function, so that     *)
(* SumLemmas can state facts about it.                                     *)
(***************************************************************************)
EXTENDS Integers, FiniteSetsExt

\* The sum of f[x] for the x of S.
SumOver(f, S) == MapThenSumSet(LAMBDA x : f[x], S)

====
