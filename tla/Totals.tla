-------------------------------- MODULE Totals --------------------------------
(***************************************************************************)
(* The sum of a function over a finite set, as the number of points below  *)
(* its graph: a definition without recursion, which can be reasoned about. *)
(***************************************************************************)
EXTENDS Naturals, FiniteSets

\* f[x] \in Nat for every x of S
Total(f, S) == Cardinality(UNION {{x} \X (1..f[x]) : x \in S})
=============================================================================
