-------------------------------- MODULE Sums --------------------------------
(***************************************************************************)
(* The sum of the numbers a function gives the members of a finite set,     *)
(* counted rather than added up: every member contributes as many units as  *)
(* its number says, and the sum is the number of units.                     *)
(***************************************************************************)
EXTENDS Integers, FiniteSets

Units(f, S) == UNION {{x} \X (1 .. f[x]) : x \in S}

SumOf(f, S) == Cardinality(Units(f, S))
=============================================================================
