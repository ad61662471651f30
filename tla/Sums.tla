-------------------------------- MODULE Sums --------------------------------
(* The sum of a function's values, as the number of the units it stands for. *)
EXTENDS Integers, FiniteSets

\* One element for each unit of f on S.
UnitsOf(f, S) == UNION {{p} \X (1..f[p]) : p \in S}

SumOf(f, S) == Cardinality(UnitsOf(f, S))
=============================================================================
