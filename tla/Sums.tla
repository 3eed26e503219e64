-------------------------------- MODULE Sums --------------------------------
(***************************************************************************)
(* The sum of a function's values: the one form in which the models add up  *)
(* the rows of a table, so that SumsProofs.tla can state once what happens   *)
(* to it when a row is written.                                             *)
(***************************************************************************)
EXTENDS Integers, FiniteSetsExt

SumOf(f, S) == MapThenSumSet(LAMBDA x : f[x], S)

=============================================================================
