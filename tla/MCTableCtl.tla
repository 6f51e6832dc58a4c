------------------------------ MODULE MCTableCtl ------------------------------
(***************************************************************************)
(* TableCtl for TLC: the sizes and the valid entries of the tables, tables *)
(* that have been in use, and a bound on the number of commits.            *)
(***************************************************************************)
EXTENDS TableCtl, TLC

CONSTANTS
    x1, x2, x3, x4, x5, y1, y2, y3, a, b,
    MaxCommits  \* bound: commits

VARIABLE commits

E(k, x) == [key |-> k, action |-> x]

DefaultA == [t \in 1 .. NTables |-> a]

\* The default action of the first table can be changed; or of none.
FirstToB == [t \in 1 .. NTables |-> IF t = 1 THEN {b} ELSE {}]
Constant == [t \in 1 .. NTables |-> {}]

\* The hash values: y1, y2 and y3 have another than the other keys.
TwoChains == [t \in 1 .. NTables |-> [k \in Key |-> IF k \in {y1, y2, y3} THEN 1 ELSE 0]]

\* Room for one key in every table; for five in the first and two in the others.
OneKey  == [t \in 1 .. NTables |-> 1]
FiveTwo == [t \in 1 .. NTables |-> IF t = 1 THEN 5 ELSE 2]

\* What the commands can add.
ExactWild  == << {E(x1, a), E(x2, a)}, {E(x1, a)} >>
UsedExact  == << {E(y3, a)}, {E(y3, a)} >>
UsedWild   == << {E(y3, a)}, {E(x1, a)} >>

----------------------------------------------------------------------------
(* With two keys per bucket, a table of five keys has two buckets and two  *)
(* extensions.  A table that got x1 to x5, lost x1, x2 and x4 and got y1   *)
(* and y2 has both extensions in use, with one key each.                   *)

List(keys) == [i \in DOMAIN keys |-> E(keys[i], a)]

After(adds, deletes, last) ==
    LET p0 == [k \in Key |-> NoPlace]
        p1 == PlacedAll(1, p0, List(adds))[Len(adds)]
        p2 == ReleasedAll(1, p1, List(deletes))[Len(deletes)]
        p3 == PlacedAll(1, p2, List(last))[Len(last)]
    IN  [map |-> [k \in Key |-> IF p3[k] = NoPlace THEN None ELSE a],
         place |-> p3, add |-> Len(last)]

UsedTable == After(<<x1, x2, x3, x4, x5>>, <<x1, x2, x4>>, <<y1, y2>>)
FullTable == After(<<>>, <<>>, <<x3, x5>>)
NewTable  == After(<<>>, <<>>, <<>>)

\* The state after the commits that made the tables what they are.
StartWith(tables) ==
    /\ entries = [t \in Table |-> tables[t].map]
    /\ pending_add = [t \in Table |-> <<>>]
    /\ pending_modify0 = [t \in Table |-> <<>>]
    /\ pending_modify1 = [t \in Table |-> <<>>]
    /\ pending_delete = [t \in Table |-> <<>>]
    /\ pending_default = [t \in Table |-> None]
    /\ n_add = [t \in Table |-> tables[t].add] /\ n_modify = [t \in Table |-> 0]
    /\ n_delete = [t \in Table |-> 0]
    /\ obj = [c \in 0 .. 1 |-> [t \in Table |-> tables[t].map]]
    /\ dflt = [c \in 0 .. 1 |-> Initial]
    /\ place = [c \in 0 .. 1 |-> [t \in Table |-> tables[t].place]]
    /\ shared = [t \in Table |-> t \notin InPlace]
    /\ ts = 0 /\ pc = "idle" /\ tid = 1
    /\ held = [w \in Thread |-> None]
    /\ differ = [t \in Table |-> FALSE] /\ refused = FALSE

BoundedNext ==
    /\ Next
    /\ commits' = IF pc = "idle" /\ pc' = "fwd" THEN commits + 1 ELSE commits
    /\ commits' <= MaxCommits

Bounded == commits = 0 /\ [][BoundedNext]_<<vars, commits>>

NewSpec       == StartWith(<<NewTable, NewTable>>) /\ Bounded
UsedExactSpec == StartWith(<<UsedTable, FullTable>>) /\ Bounded
UsedWildSpec  == StartWith(<<UsedTable, NewTable>>) /\ Bounded

\* y1 and y2 can be interchanged in every start, and no run checks liveness.
KeySymmetry == Permutations({y1, y2})
=============================================================================
