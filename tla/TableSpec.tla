------------------------------ MODULE TableSpec ------------------------------
(***************************************************************************)
(* What the table commands of a pipeline promise, without saying how.      *)
(*                                                                         *)
(* The operator edits a wished-for state of all the tables.  A commit      *)
(* makes the whole wish the state of the tables in one step; a failed      *)
(* commit and an abort drop the wish.  A packet is processed, from its     *)
(* reception to its end, on the state of the tables at its reception.      *)
(***************************************************************************)
CONSTANTS
    Table,      \* the match-action tables of the pipeline
    Key,        \* match keys
    Action,     \* actions (with their data) an entry or a default can name
    Thread,     \* packets in flight: the hardware threads of the pipeline
    None        \* no entry; no packet

VARIABLES
    committed,  \* the state of the tables new packets see
    wish,       \* the state of the tables after a successful commit
    pkt         \* what the packet in flight sees, None when there is none

vars == <<committed, wish, pkt>>

TableState == [map : [Key -> Action \cup {None}], default : Action]

\* The tables are empty and their default actions those of the program.
Init ==
    /\ committed \in [Table -> {s \in TableState : \A k \in Key : s.map[k] = None}]
    /\ wish = committed
    /\ pkt = [w \in Thread |-> None]

\* An entry is added, replaced (a # None) or deleted (a = None).
Entry(t, k, a) ==
    /\ UNCHANGED <<committed, pkt>>
    /\ wish' = [wish EXCEPT ![t].map[k] = a]

Default(t, a) ==
    /\ UNCHANGED <<committed, pkt>>
    /\ wish' = [wish EXCEPT ![t].default = a]

Commit ==
    /\ committed' = wish
    /\ UNCHANGED <<wish, pkt>>

\* A failed commit, or an abort.
Discard ==
    /\ wish' = committed
    /\ UNCHANGED <<committed, pkt>>

\* A packet is received: it sees the committed tables.
Receive(w) ==
    /\ pkt[w] = None
    /\ pkt' = [pkt EXCEPT ![w] = committed]
    /\ UNCHANGED <<committed, wish>>

Finish(w) ==
    /\ pkt' = [pkt EXCEPT ![w] = None]
    /\ UNCHANGED <<committed, wish>>

Next ==
    \/ \E w \in Thread : Receive(w) \/ Finish(w)
    \/ Commit
    \/ Discard
    \/ \E t \in Table, a \in Action : Default(t, a)
    \/ \E t \in Table, k \in Key, a \in Action \cup {None} : Entry(t, k, a)

Spec == Init /\ [][Next]_vars
=============================================================================
