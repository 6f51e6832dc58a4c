------------------------------- MODULE TableCtl -------------------------------
(***************************************************************************)
(* Table updates of a running pipeline: the CLI's table commands (cli.c)   *)
(* and the transactions of the control library they call (rte_swx_ctl.c).  *)
(*                                                                         *)
(* The control thread keeps, for every table, the list of its entries and  *)
(* five lists of pending work, and two copies of the state of all tables:  *)
(* ts, which the data plane uses, and ts_next.  A commit works on ts_next  *)
(* table by table; when one table refuses, all are rolled back and the     *)
(* pending work is dropped (the CLI asks for that); otherwise the copies   *)
(* are swapped and, 100 microseconds later, the same work is done again on *)
(* the copy that was swapped out.  The data plane runs meanwhile: every    *)
(* hardware thread of the pipeline keeps, for as long as it processes a    *)
(* packet, the copy that was current when it received the packet.          *)
(*                                                                         *)
(* A table with an add operation (exact match) is updated in place, one    *)
(* entry at a time.  It refuses a new key when it has n_keys_max keys, and *)
(* when the buckets of the key's hash value are full and all the bucket    *)
(* extensions of the table are in use.  A table without one (wildcard      *)
(* match) is built anew and shares its object between the copies at rest.  *)
(* Selector and learner tables, and commands refused for lack of memory,   *)
(* are left out.                                                           *)
(***************************************************************************)
EXTENDS Integers, Sequences, FiniteSets

CONSTANTS
    NTables,    \* ctl->info.n_tables; a commit handles table 1 first
    InPlace,    \* the tables whose type has an add operation
    Size,       \* Size[t]: n_keys_max of a table of InPlace
    KEYS_PER_BUCKET,
    Hash,       \* Hash[t][k]: the bucket of a key
    MayRunOut,  \* there may be no memory for the list of entries of a new object
    Key, Action,
    Valid,      \* Valid[t]: the entries that pass table_entry_check
    Initial,    \* Initial[t]: the default action of the program
    ValidDefault,\* ValidDefault[t]: the actions it can be changed to
    Thread,     \* hardware threads of the pipeline
    None,       \* no entry, no packet, NULL
    Freed       \* an object that was given back to the allocator

ASSUME TablesAssumption == NTables \in Nat \ {0} /\ InPlace \subseteq 1 .. NTables
ASSUME SizeAssumption   == Size \in [1 .. NTables -> Nat]
ASSUME BucketAssumption ==
    /\ KEYS_PER_BUCKET \in Nat \ {0}
    /\ Hash \in [1 .. NTables -> [Key -> Nat]] /\ MayRunOut \in BOOLEAN
ASSUME KeyAssumption    == IsFiniteSet(Key)
ASSUME ValidAssumption  == Valid \in [1 .. NTables -> SUBSET [key : Key, action : Action]]
ASSUME DefaultAssumption ==
    Initial \in [1 .. NTables -> Action] /\ ValidDefault \in [1 .. NTables -> SUBSET Action]
ASSUME NoneAssumption   ==
    /\ None \notin Action
    /\ None \notin [Key -> Action \cup {None}] /\ Freed \notin [Key -> Action \cup {None}]
    /\ None # Freed /\ None \notin 0 .. 1

Table == 1 .. NTables

VARIABLES
    entries,                            \* struct table: what is in the table
    pending_add, pending_modify0,       \* struct table: the pending work
    pending_modify1, pending_delete,
    pending_default,
    n_add, n_modify, n_delete,          \* struct table: done by rollfwd0
    obj, dflt,                          \* the two copies: object and default
    place,                              \* the buckets of the keys of an object
    shared,                             \* both copies point to one object
    ts,                                 \* the copy the data plane uses
    pc, tid,                            \* progress of the commit
    held,                               \* the copy a packet in flight uses
    differ,                             \* history: tables a rollback left unequal
    refused                             \* history: the second pass met a full table

lists    == <<entries, pending_add, pending_modify0, pending_modify1, pending_delete>>
counters == <<n_add, n_modify, n_delete>>
copies   == <<obj, place, dflt, shared, ts>>
history  == <<differ, refused>>
vars     == <<lists, pending_default, counters, copies, pc, tid, held, history>>

Maps    == [Key -> Action \cup {None}]
Entries == [key : Key, action : Action]
ts_next == 1 - ts

----------------------------------------------------------------------------
(* Lists of entries; a key is at most once in a list.                      *)

In(list, k)    == \E i \in DOMAIN list : list[i].key = k
Pos(list, k)   == CHOOSE i \in DOMAIN list : list[i].key = k
Find(list, k)  == list[Pos(list, k)].action
Remove(list, k) ==
    SubSeq(list, 1, Pos(list, k) - 1) \o SubSeq(list, Pos(list, k) + 1, Len(list))

table_is_update_pending(t) ==
    pending_add[t] # <<>> \/ pending_modify1[t] # <<>> \/ pending_delete[t] # <<>>

\* The entries of a table with its pending work done, as rollfwd0 lists them
\* for a new object.
Updated(t) ==
    [k \in Key |-> IF In(pending_add[t], k) THEN Find(pending_add[t], k)
                   ELSE IF In(pending_modify1[t], k) THEN Find(pending_modify1[t], k)
                   ELSE entries[t][k]]

\* The entries of a table with its pending work dropped.
Kept(t) ==
    [k \in Key |-> IF In(pending_modify0[t], k) THEN Find(pending_modify0[t], k)
                   ELSE IF In(pending_delete[t], k) THEN Find(pending_delete[t], k)
                   ELSE entries[t][k]]

----------------------------------------------------------------------------
(* ops.add and ops.del of an exact match table.  The keys of a hash value  *)
(* are in a chain of buckets: the bucket of the table, which is place 0,   *)
(* and its extensions, numbered along the chain.                           *)

NoPlace == -1

n_buckets_ext(t) == Size[t] \div KEYS_PER_BUCKET

Chain(t, k)     == {x \in Key : Hash[t][x] = Hash[t][k]}
Bucket(t, p, k, q) == {x \in Chain(t, k) : p[x] = q}

\* The extensions of the chain of k, and of the table.  None is empty.
Extended(t, p, k) == Cardinality({p[x] : x \in Chain(t, k)} \ {NoPlace, 0})
Extensions(t, p)  == Cardinality({<<Hash[t][x], p[x]>> : x \in {y \in Key : p[y] > 0}})

\* A bucket of the chain has a hole.
Hole(t, p, k, q) == Cardinality(Bucket(t, p, k, q)) < KEYS_PER_BUCKET

\* There is a free key for k, and a hole in its chain or a free extension.
Room(t, p, k) ==
    /\ Cardinality({x \in Key : p[x] # NoPlace}) < Size[t]
    /\ \/ \E q \in 0 .. Extended(t, p, k) : Hole(t, p, k, q)
       \/ Extensions(t, p) < n_buckets_ext(t)

\* The first bucket of the chain with a hole, if need be a new one at its end.
FirstHole(t, p, k) ==
    CHOOSE q \in 0 .. Extended(t, p, k) + 1 :
        Hole(t, p, k, q) /\ \A r \in 0 .. q - 1 : ~Hole(t, p, k, r)

\* A new key is put there if there is room.
Placed(t, p, k) ==
    IF p[k] = NoPlace /\ Room(t, p, k) THEN [p EXCEPT ![k] = FirstHole(t, p, k)] ELSE p

\* Mutant: an empty extension stays in its chain.
MutReleased(t, p, k) == [p EXCEPT ![k] = NoPlace]

\* An extension that a deletion leaves empty is taken out of its chain.
Released(t, p, k) ==
    LET out == p[k] > 0 /\ Bucket(t, p, k, p[k]) = {k}
    IN  [x \in Key |-> IF x = k THEN NoPlace
                       ELSE IF out /\ x \in Chain(t, k) /\ p[x] > p[k] THEN p[x] - 1
                       ELSE p[x]]

\* The places after the first i entries of a list were added, or deleted.
PlacedAll(t, p, list) ==
    LET f[i \in 0 .. Len(list)] == IF i = 0 THEN p ELSE Placed(t, f[i - 1], list[i].key)
    IN  f

ReleasedAll(t, p, list) ==
    LET f[i \in 0 .. Len(list)] == IF i = 0 THEN p ELSE Released(t, f[i - 1], list[i].key)
    IN  f

\* Entry i of the list finds its key, or room for it after the entries before it.
Fits(t, m, p, list, i) ==
    m[list[i].key] # None \/ Room(t, PlacedAll(t, p, list)[i - 1], list[i].key)

\* The number of entries added before the first that does not fit.
Admitted(t, m, p, list) ==
    IF \A i \in DOMAIN list : Fits(t, m, p, list, i)
    THEN Len(list)
    ELSE (CHOOSE i \in DOMAIN list : /\ ~Fits(t, m, p, list, i)
                                     /\ \A j \in 1 .. i - 1 : Fits(t, m, p, list, j)) - 1

\* Of the first n entries, the ones that do not fit are not added.
AddAll(t, m, p, list, n) ==
    [k \in Key |-> IF \E i \in 1 .. n : list[i].key = k /\ Fits(t, m, p, list, i)
                   THEN Find(list, k) ELSE m[k]]

DelAll(m, list, n) ==
    [k \in Key |-> IF \E i \in 1 .. n : list[i].key = k THEN None ELSE m[k]]

----------------------------------------------------------------------------
(* The commands that collect pending work.  The lines of a file given to   *)
(* the add and delete commands are handled one by one, up to the first bad *)
(* one, and nothing of it is undone: a line is a step of its own here.     *)

Init ==
    /\ entries = [t \in Table |-> [k \in Key |-> None]]
    /\ pending_add = [t \in Table |-> <<>>]
    /\ pending_modify0 = [t \in Table |-> <<>>]
    /\ pending_modify1 = [t \in Table |-> <<>>]
    /\ pending_delete = [t \in Table |-> <<>>]
    /\ pending_default = [t \in Table |-> None]
    /\ n_add = [t \in Table |-> 0] /\ n_modify = [t \in Table |-> 0]
    /\ n_delete = [t \in Table |-> 0]
    /\ obj = [c \in 0 .. 1 |-> [t \in Table |-> [k \in Key |-> None]]]
    /\ dflt = [c \in 0 .. 1 |-> Initial]
    /\ place = [c \in 0 .. 1 |-> [t \in Table |-> [k \in Key |-> NoPlace]]]
    /\ shared = [t \in Table |-> t \notin InPlace]
    /\ ts = 0 /\ pc = "idle" /\ tid = 1
    /\ held = [w \in Thread |-> None]
    /\ differ = [t \in Table |-> FALSE] /\ refused = FALSE

Modify(t, e, old) ==
    /\ pending_modify1' = [pending_modify1 EXCEPT ![t] = Append(@, e)]
    /\ pending_modify0' = [pending_modify0 EXCEPT ![t] =
                              Append(@, [key |-> e.key, action |-> old])]

Replace(list, e) == [list EXCEPT ![Pos(list, e.key)] = e]

table_entry_add(t, e) ==
    \/ /\ entries[t][e.key] # None
       /\ Modify(t, e, entries[t][e.key])
       /\ entries' = [entries EXCEPT ![t][e.key] = None]
       /\ UNCHANGED <<pending_add, pending_delete>>
    \/ /\ entries[t][e.key] = None
       /\ In(pending_add[t], e.key)
       /\ pending_add' = [pending_add EXCEPT ![t] = Replace(@, e)]
       /\ UNCHANGED <<entries, pending_modify0, pending_modify1, pending_delete>>
    \/ /\ entries[t][e.key] = None
       /\ ~In(pending_add[t], e.key)
       /\ In(pending_modify1[t], e.key)
       /\ pending_modify1' = [pending_modify1 EXCEPT ![t] = Replace(@, e)]
       /\ UNCHANGED <<entries, pending_add, pending_modify0, pending_delete>>
    \/ /\ entries[t][e.key] = None
       /\ ~In(pending_add[t], e.key) /\ ~In(pending_modify1[t], e.key)
       /\ In(pending_delete[t], e.key)
       /\ Modify(t, e, Find(pending_delete[t], e.key))
       /\ pending_delete' = [pending_delete EXCEPT ![t] = Remove(@, e.key)]
       /\ UNCHANGED <<entries, pending_add>>
    \/ /\ entries[t][e.key] = None
       /\ ~In(pending_add[t], e.key) /\ ~In(pending_modify1[t], e.key)
       /\ ~In(pending_delete[t], e.key)
       /\ pending_add' = [pending_add EXCEPT ![t] = Append(@, e)]
       /\ UNCHANGED <<entries, pending_modify0, pending_modify1, pending_delete>>

TableAdd(t, e) ==
    /\ pc = "idle"
    /\ e \in Valid[t]
    /\ table_entry_add(t, e)
    /\ UNCHANGED <<pending_default, counters, copies, pc, tid, held, history>>

\* Deleting a key that is not in the table, or is pending delete, does nothing.
table_entry_delete(t, k) ==
    \/ /\ entries[t][k] # None
       /\ pending_delete' = [pending_delete EXCEPT ![t] =
                                Append(@, [key |-> k, action |-> entries[t][k]])]
       /\ entries' = [entries EXCEPT ![t][k] = None]
       /\ UNCHANGED <<pending_add, pending_modify0, pending_modify1>>
    \/ /\ entries[t][k] = None
       /\ In(pending_add[t], k)
       /\ pending_add' = [pending_add EXCEPT ![t] = Remove(@, k)]
       /\ UNCHANGED <<entries, pending_modify0, pending_modify1, pending_delete>>
    \/ /\ entries[t][k] = None
       /\ In(pending_modify1[t], k)
       /\ pending_modify1' = [pending_modify1 EXCEPT ![t] = Remove(@, k)]
       /\ pending_modify0' = [pending_modify0 EXCEPT ![t] = Remove(@, k)]
       /\ pending_delete' = [pending_delete EXCEPT ![t] =
                                Append(@, [key |-> k, action |-> Find(pending_modify0[t], k)])]
       /\ UNCHANGED <<entries, pending_add>>

TableDelete(t, k) ==
    /\ pc = "idle"
    /\ table_entry_delete(t, k)
    /\ UNCHANGED <<pending_default, counters, copies, pc, tid, held, history>>

TableDefault(t, a) ==
    /\ pc = "idle"
    /\ a \in ValidDefault[t]
    /\ pending_default' = [pending_default EXCEPT ![t] = a]
    /\ UNCHANGED <<lists, counters, copies, pc, tid, held, history>>

----------------------------------------------------------------------------
(* A commit: first everything that can fail, on ts_next.                   *)

Commit ==
    /\ pc = "idle"
    /\ pc' = "fwd" /\ tid' = 1
    /\ UNCHANGED <<lists, pending_default, counters, copies, held, history>>

\* Mutant: the deletions come first.
MutUpdateInPlace(t, m0, p0) ==
    LET d  == pending_delete[t]
        md == DelAll(m0, d, Len(d))
        pd == ReleasedAll(t, p0, d)[Len(d)]
        na == Admitted(t, md, pd, pending_add[t])
        m1 == AddAll(t, md, pd, pending_add[t], na)
        p1 == PlacedAll(t, pd, pending_add[t])[na]
        nm == IF na < Len(pending_add[t]) THEN 0 ELSE Admitted(t, m1, p1, pending_modify1[t])
    IN  [ok |-> na = Len(pending_add[t]) /\ nm = Len(pending_modify1[t]),
         add |-> na, modify |-> nm, delete |-> Len(d),
         map |-> AddAll(t, m1, p1, pending_modify1[t], nm),
         place |-> PlacedAll(t, p1, pending_modify1[t])[nm]]

\* table_rollfwd0 of a table that is updated in place: adds, modifications,
\* deletions, and the end of the work at the first failure.
UpdateInPlace(t, m0, p0) ==
    LET na == Admitted(t, m0, p0, pending_add[t])
        m1 == AddAll(t, m0, p0, pending_add[t], na)
        p1 == PlacedAll(t, p0, pending_add[t])[na]
        nm == IF na < Len(pending_add[t]) THEN 0 ELSE Admitted(t, m1, p1, pending_modify1[t])
        m2 == AddAll(t, m1, p1, pending_modify1[t], nm)
        p2 == PlacedAll(t, p1, pending_modify1[t])[nm]
        ok == na = Len(pending_add[t]) /\ nm = Len(pending_modify1[t])
        nd == IF ok THEN Len(pending_delete[t]) ELSE 0
    IN  [ok |-> ok, add |-> na, modify |-> nm, delete |-> nd,
         map |-> DelAll(m2, pending_delete[t], nd),
         place |-> ReleasedAll(t, p2, pending_delete[t])[nd]]

\* What rollfwd0 makes of copy c of the table.
Update(t, c) == UpdateInPlace(t, obj[c][t], place[c][t])

SetNext(t, o)   == obj' = [obj EXCEPT ![ts_next][t] = o]
SetPlace(t, p)  == place' = [place EXCEPT ![ts_next][t] = p]

Count(t, u) ==
    /\ n_add' = [n_add EXCEPT ![t] = u.add]
    /\ n_modify' = [n_modify EXCEPT ![t] = u.modify]
    /\ n_delete' = [n_delete EXCEPT ![t] = u.delete]

Continue  == tid' = tid + 1 /\ pc' = pc
GoBack    == tid' = 1 /\ pc' = "back"

RollFwdSkip ==
    /\ pc = "fwd" /\ tid \in Table /\ ~table_is_update_pending(tid)
    /\ Continue
    /\ UNCHANGED <<lists, pending_default, counters, copies, held, history>>

\* Mutant: the status of an exact match table is not checked in the first pass
\* either.
MutRollFwdInPlace ==
    /\ pc = "fwd" /\ tid \in InPlace /\ table_is_update_pending(tid)
    /\ SetNext(tid, Update(tid, ts_next).map) /\ SetPlace(tid, Update(tid, ts_next).place)
    /\ Count(tid, Update(tid, ts_next))
    /\ Continue
    /\ UNCHANGED <<lists, pending_default, dflt, shared, ts, held, history>>

RollFwdInPlace ==
    /\ pc = "fwd" /\ tid \in InPlace /\ table_is_update_pending(tid)
    /\ LET u == Update(tid, ts_next)
       IN  /\ SetNext(tid, u.map) /\ SetPlace(tid, u.place)
           /\ Count(tid, u)
           /\ IF u.ok THEN Continue ELSE GoBack
    /\ UNCHANGED <<lists, pending_default, dflt, shared, ts, held, history>>

RollFwdRebuild ==
    /\ pc = "fwd" /\ tid \in Table \ InPlace /\ table_is_update_pending(tid)
    /\ SetNext(tid, Updated(tid))
    /\ shared' = [shared EXCEPT ![tid] = FALSE]
    /\ Continue
    /\ UNCHANGED <<lists, pending_default, counters, place, dflt, ts, held, history>>

\* ops.create returns NULL; or there is no memory for the list of the entries
\* of the new object, and ts_next keeps the one it has.
RollFwdCreateFails ==
    /\ pc = "fwd" /\ tid \in Table \ InPlace /\ table_is_update_pending(tid)
    /\ \E none \in {FALSE} \cup {MayRunOut} :
          /\ SetNext(tid, IF none THEN obj[ts_next][tid] ELSE None)
          /\ shared' = [shared EXCEPT ![tid] = none /\ @]
    /\ GoBack
    /\ UNCHANGED <<lists, pending_default, counters, place, dflt, ts, held, history>>

\* table_rollfwd1 for one table.
Default(t, c) == IF pending_default[t] = None THEN dflt[c][t] ELSE pending_default[t]

\* table_rollfwd1 for all tables, then table_state_set.
Swap ==
    /\ pc = "fwd" /\ tid = NTables + 1
    /\ dflt' = [dflt EXCEPT ![ts_next] = [t \in Table |-> Default(t, ts_next)]]
    /\ ts' = ts_next
    /\ pc' = "grace"
    /\ UNCHANGED <<lists, pending_default, counters, obj, place, shared, tid, held, history>>

\* usleep(100) returns.
Slept ==
    /\ pc = "grace"
    /\ pc' = "sync" /\ tid' = 1
    /\ UNCHANGED <<lists, pending_default, counters, copies, held, history>>

\* No packet that was received before the swap is in flight.
Drained == \A w \in Thread : held[w] # ts_next

\* While the data plane runs, 100 microseconds are enough for its packets: what
\* the code relies on and does not check.
Usleep == Drained /\ Slept

Clear(t) ==
    /\ pending_add' = [pending_add EXCEPT ![t] = <<>>]
    /\ pending_modify0' = [pending_modify0 EXCEPT ![t] = <<>>]
    /\ pending_modify1' = [pending_modify1 EXCEPT ![t] = <<>>]
    /\ pending_delete' = [pending_delete EXCEPT ![t] = <<>>]
    /\ pending_default' = [pending_default EXCEPT ![t] = None]

NextTable == IF tid = NTables THEN tid' = 1 /\ pc' = "idle" ELSE Continue

\* ops.free of the object of ts_next, which is then the object of ts.
FreeNext(t) ==
    LET old == IF obj[ts_next][t] # None /\ shared[t] THEN Freed ELSE obj[ts][t]
    IN  /\ obj' = [c \in 0 .. 1 |-> [obj[c] EXCEPT ![t] = old]]
        /\ shared' = [shared EXCEPT ![t] = TRUE]

\* The second pass for one table: rollfwd0 (its status is ignored), rollfwd1
\* and rollfwd2, which makes the pending work part of the table.
Sync ==
    /\ pc = "sync"
    /\ \/ /\ ~table_is_update_pending(tid)
          /\ UNCHANGED <<obj, place, shared, counters, refused>>
       \/ /\ table_is_update_pending(tid) /\ tid \in InPlace
          /\ LET u == Update(tid, ts_next)
             IN  /\ SetNext(tid, u.map) /\ SetPlace(tid, u.place) /\ Count(tid, u)
                 /\ refused' = (refused \/ ~u.ok)
          /\ UNCHANGED shared
       \/ /\ table_is_update_pending(tid) /\ tid \notin InPlace
          /\ FreeNext(tid)
          /\ UNCHANGED <<place, counters, refused>>
    /\ dflt' = [dflt EXCEPT ![ts_next][tid] = Default(tid, ts_next)]
    /\ entries' = [entries EXCEPT ![tid] = Updated(tid)]
    /\ Clear(tid)
    /\ NextTable
    /\ UNCHANGED <<ts, held, differ>>

----------------------------------------------------------------------------
(* The end of a failed commit, table by table: rollback, then abort.       *)

Min(a, b) == IF a < b THEN a ELSE b

\* Mutants: the added entries are not deleted; the whole lists are undone, also
\* what rollfwd0 did not reach.
MutUndoneAdd(t) ==
    LET nd == Min(n_delete[t], Len(pending_delete[t]))
        nm == Min(n_modify[t], Len(pending_modify0[t]))
        m1 == AddAll(t, obj[ts_next][t], place[ts_next][t], pending_delete[t], nd)
        p1 == PlacedAll(t, place[ts_next][t], pending_delete[t])[nd]
    IN  [map |-> AddAll(t, m1, p1, pending_modify0[t], nm),
         place |-> PlacedAll(t, p1, pending_modify0[t])[nm],
         add |-> n_add[t], modify |-> n_modify[t] - nm, delete |-> n_delete[t] - nd]

MutUndoneAll(t) ==
    [map |-> Kept(t), place |-> place[ts][t],
     add |-> n_add[t] - Len(pending_add[t]),
     modify |-> n_modify[t] - Len(pending_modify0[t]),
     delete |-> n_delete[t] - Len(pending_delete[t])]

\* The entries that rollfwd0 deleted and modified are put back, then the ones
\* it added are deleted; a loop ends with its counter or with its list.
Undone(t) ==
    LET nd == Min(n_delete[t], Len(pending_delete[t]))
        nm == Min(n_modify[t], Len(pending_modify0[t]))
        na == Min(n_add[t], Len(pending_add[t]))
        m0 == obj[ts_next][t]
        p0 == place[ts_next][t]
        m1 == AddAll(t, m0, p0, pending_delete[t], nd)
        p1 == PlacedAll(t, p0, pending_delete[t])[nd]
        m2 == AddAll(t, m1, p1, pending_modify0[t], nm)
        p2 == PlacedAll(t, p1, pending_modify0[t])[nm]
    IN  [map |-> DelAll(m2, pending_add[t], na),
         place |-> ReleasedAll(t, p2, pending_add[t])[na],
         add |-> n_add[t] - na, modify |-> n_modify[t] - nm, delete |-> n_delete[t] - nd]

RollBack ==
    /\ pc = "back"
    /\ \/ /\ ~table_is_update_pending(tid)
          /\ UNCHANGED <<obj, place, shared, counters, differ>>
       \/ /\ table_is_update_pending(tid) /\ tid \in InPlace
          /\ SetNext(tid, Undone(tid).map) /\ SetPlace(tid, Undone(tid).place)
          /\ Count(tid, Undone(tid))
          /\ differ' = [differ EXCEPT ![tid] =
                          @ \/ <<Undone(tid).map, Undone(tid).place>> # <<obj[ts][tid], place[ts][tid]>>]
          /\ UNCHANGED shared
       \/ /\ table_is_update_pending(tid) /\ tid \notin InPlace
          /\ FreeNext(tid)
          /\ UNCHANGED <<place, counters, differ>>
    /\ entries' = [entries EXCEPT ![tid] = Kept(tid)]
    /\ Clear(tid)
    /\ NextTable
    /\ UNCHANGED <<dflt, ts, held, refused>>

\* The abort command: table_abort for all tables.
Abort ==
    /\ pc = "idle"
    /\ entries' = [t \in Table |-> Kept(t)]
    /\ pending_add' = [t \in Table |-> <<>>]
    /\ pending_modify0' = [t \in Table |-> <<>>]
    /\ pending_modify1' = [t \in Table |-> <<>>]
    /\ pending_delete' = [t \in Table |-> <<>>]
    /\ pending_default' = [t \in Table |-> None]
    /\ UNCHANGED <<counters, copies, pc, tid, held, history>>

----------------------------------------------------------------------------
(* The data plane.  A lookup (instr_table_exec) reads the copy held.  A     *)
(* packet that is recirculated is transmitted and received again.          *)

Rx(w) ==
    /\ held[w] = None
    /\ held' = [held EXCEPT ![w] = ts]
    /\ UNCHANGED <<lists, pending_default, counters, copies, pc, tid, history>>

Tx(w) ==
    /\ held[w] # None
    /\ held' = [held EXCEPT ![w] = None]
    /\ UNCHANGED <<lists, pending_default, counters, copies, pc, tid, history>>

Command ==
    \/ \E t \in Table, e \in Entries : TableAdd(t, e)
    \/ \E t \in Table, k \in Key : TableDelete(t, k)
    \/ \E t \in Table, a \in Action : TableDefault(t, a)
    \/ Abort

CommitStep ==
    \/ RollFwdSkip \/ RollFwdInPlace \/ RollFwdRebuild \/ RollFwdCreateFails
    \/ Swap \/ Sync \/ RollBack

Next == Command \/ Commit \/ CommitStep \/ Usleep \/ \E w \in Thread : Rx(w) \/ Tx(w)

Spec == Init /\ [][Next]_vars

----------------------------------------------------------------------------
(* Properties.                                                             *)

TypeOK ==
    /\ entries \in [Table -> Maps]
    /\ pending_add \in [Table -> Seq(Entries)]
    /\ pending_modify0 \in [Table -> Seq(Entries)]
    /\ pending_modify1 \in [Table -> Seq(Entries)]
    /\ pending_delete \in [Table -> Seq(Entries)]
    /\ pending_default \in [Table -> Action \cup {None}]
    /\ n_add \in [Table -> Nat] /\ n_modify \in [Table -> Nat] /\ n_delete \in [Table -> Nat]
    /\ obj \in [0 .. 1 -> [Table -> Maps \cup {None, Freed}]]
    /\ dflt \in [0 .. 1 -> [Table -> Action]]
    /\ shared \in [Table -> BOOLEAN]
    /\ ts \in 0 .. 1
    /\ pc \in {"idle", "fwd", "grace", "sync", "back"}
    /\ tid \in 1 .. NTables + 1
    /\ held \in [Thread -> (0 .. 1) \cup {None}]
    /\ differ \in [Table -> BOOLEAN] /\ refused \in BOOLEAN

\* Refinement mapping: a copy as the state of all tables.  Once the commit has
\* failed, the pending work is lost, also where the lists still have it.
Copy(c) == [t \in Table |-> [map |-> obj[c][t], default |-> dflt[c][t]]]

Pending ==
    IF pc = "back" THEN Copy(ts)
    ELSE [t \in Table |-> [map |-> Updated(t), default |-> Default(t, ts)]]

Abstract == INSTANCE TableSpec WITH
    committed <- Copy(ts),
    wish      <- Pending,
    pkt       <- [w \in Thread |-> IF held[w] = None THEN None ELSE Copy(held[w])]

\* Commits are atomic over all tables and all packets, whatever fails: the
\* table commands implement TableSpec.  A packet is never processed with part
\* of a transaction, with an object being updated or with a freed one.
Implements == Abstract!Spec

\* Between two commands both copies hold what the lists of the control thread
\* say is in the tables: entries, plus the old values of what is pending; also
\* after failed commits, as long as no second pass was refused.
CopiesAgree ==
    pc = "idle" /\ ~refused => \A t \in Table : /\ obj[0][t] = Kept(t) /\ obj[1][t] = Kept(t)
                                    /\ dflt[0][t] = dflt[1][t]

\* The buckets of an exact match table are in order at every moment of a commit
\* and of a rollback: every key of the table is in a chain, no bucket has too
\* many, no extension is empty, is missing in its chain or was not there to take.
BucketsExact ==
    \A c \in 0 .. 1, t \in InPlace :
        LET p == place[c][t]
        IN  /\ Extensions(t, p) <= n_buckets_ext(t)
            /\ \A k \in Key :
                  /\ p[k] = NoPlace <=> obj[c][t][k] = None
                  /\ p[k] # NoPlace => Cardinality(Bucket(t, p, k, p[k])) <= KEYS_PER_BUCKET
                  /\ \A q \in 1 .. p[k] : Bucket(t, p, k, q) # {}

\* The rollback puts the entries that rollfwd0 deleted back before it deletes
\* those it added and does not look at the status: there is always room, as long
\* as the copies have the same keys.
PutBackFits ==
    pc = "back" /\ ~refused /\ tid \in InPlace /\ table_is_update_pending(tid) =>
        \A i \in 1 .. Min(n_delete[tid], Len(pending_delete[tid])) :
            Fits(tid, obj[ts_next][tid], place[ts_next][tid], pending_delete[tid], i)

\* "Since the changes that can fail did not fail on the previous ts_next, it
\* is guaranteed that they will not fail on the current ts_next" (rte_swx_ctl.c,
\* rte_swx_ctl_pipeline_commit), where the status is not checked.
SecondPassGuaranteed ==
    pc = "sync" /\ tid \in InPlace => Update(tid, ts_next).ok

\* The same for a table of which no rollback left the copies unequal: nothing
\* else, in any sequence of commits, makes one accept what the other refuses.
SecondPassFits ==
    pc = "sync" /\ tid \in InPlace /\ ~differ[tid] => Update(tid, ts_next).ok
=============================================================================
