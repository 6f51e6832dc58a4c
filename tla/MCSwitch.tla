------------------------------- MODULE MCSwitch -------------------------------
(***************************************************************************)
(* Switch for TLC: the sizes and the valid entries of the tables.          *)
(***************************************************************************)
EXTENDS Switch, TLC

CONSTANTS k1, k2, a

\* The data plane threads are interchangeable, and no run of this module
\* checks liveness.
ThreadSymmetry == Permutations(Threads)

E(k, x) == [key |-> k, action |-> x]

OneKey   == [t \in 1 .. NTables |-> 1]
DefaultA == [t \in 1 .. NTables |-> a]
Constant == [t \in 1 .. NTables |-> {}]

OneChain == [t \in 1 .. NTables |-> [k \in Key |-> 0]]

\* A table that is built anew, and one updated in place that refuses the
\* second key.
WildExact == << {E(k1, a)}, {E(k1, a), E(k2, a)} >>
=============================================================================
