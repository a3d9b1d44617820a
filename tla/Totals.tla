------------------------------- MODULE Totals -------------------------------
(***************************************************************************)
(* SUM(column) over a finite set of rows.  The sum of f over S is the      *)
(* number of the unit credits <<l, 1>>, ..., <<l, f[l]>> of the members l  *)
(* of S.  Defined so, a fact about sums is a fact about the cardinalities  *)
(* of finite sets and needs no induction over S (TotalsProofs).            *)
(***************************************************************************)
EXTENDS Integers, FiniteSets

Units(f, S) == UNION { {l} \X (1..f[l]) : l \in S }

Total(f, S) == Cardinality(Units(f, S))
=============================================================================
