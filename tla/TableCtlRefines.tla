--------------------------- MODULE TableCtlRefines ---------------------------
(***************************************************************************)
(* TableCtl implements TableSpec: a commit takes effect in all tables and  *)
(* for all packets at once, or not at all.                                 *)
(*                                                                         *)
(* Every step is mapped to a step of TableSpec.  The table commands edit   *)
(* the wish, the swap of the copies is the commit, the first refusal of a  *)
(* table drops the wish; the rest of a commit, and all of a rollback, is   *)
(* invisible.  The steps of the data plane are its own.  The argument uses *)
(* IndInv for all tables, hence RollBackSafe, PutBackFits and that no      *)
(* second pass is refused (SecondPassGuaranteed); and Cleared: at the end  *)
(* of a rollback no table has pending work, so the wish is what is         *)
(* committed.                                                              *)
(***************************************************************************)
EXTENDS TableCtlProofs

----------------------------------------------------------------------------
(* The abstract variables.                                                 *)

\* What the packets in flight see.
Packets == [w \in Thread |-> IF held[w] = None THEN None ELSE Copy(held[w])]

\* A step that leaves the three abstract variables alone.
LEMMA AbstractStutter ==
    ASSUME Copy(ts)' = Copy(ts), Pending' = Pending, Packets' = Packets
    PROVE  UNCHANGED Abstract!vars
BY DEF Abstract!vars, Packets

\* An edit of one field of one table, in the wish.
LEMMA EditMap ==
    ASSUME NEW S, NEW U, NEW D, NEW t \in S, NEW k, NEW a
    PROVE  [[u \in S |-> [map |-> U[u], default |-> D[u]]] EXCEPT ![t].map[k] = a]
         = [u \in S |-> [map |-> IF u = t THEN [U[t] EXCEPT ![k] = a] ELSE U[u],
                         default |-> D[u]]]
<1> DEFINE F == [u \in S |-> [map |-> U[u], default |-> D[u]]]
           r == [map |-> [U[t] EXCEPT ![k] = a], default |-> D[t]]
<1>1. F[t] = [map |-> U[t], default |-> D[t]]
  OBVIOUS
<1>2. [F[t] EXCEPT !.map[k] = a] = r
  <2> HIDE DEF F
  <2> QED BY <1>1
<1>3. [F EXCEPT ![t].map[k] = a] = [F EXCEPT ![t] = r]
  <2> HIDE DEF F, r
  <2> QED BY <1>2
<1>4. [F EXCEPT ![t] = r] = [u \in S |-> IF u = t THEN r ELSE [map |-> U[u], default |-> D[u]]]
  <2> HIDE DEF r
  <2> QED OBVIOUS
<1>5. \A u : (IF u = t THEN r ELSE [map |-> U[u], default |-> D[u]])
            = [map |-> IF u = t THEN [U[t] EXCEPT ![k] = a] ELSE U[u], default |-> D[u]]
  OBVIOUS
<1> HIDE DEF r
<1>6. [u \in S |-> IF u = t THEN r ELSE [map |-> U[u], default |-> D[u]]]
    = [u \in S |-> [map |-> IF u = t THEN [U[t] EXCEPT ![k] = a] ELSE U[u], default |-> D[u]]]
  BY <1>5
<1> QED BY <1>3, <1>4, <1>6

\* The same for the default action.
LEMMA EditDefault ==
    ASSUME NEW S, NEW U, NEW D, NEW t \in S, NEW a
    PROVE  [[u \in S |-> [map |-> U[u], default |-> D[u]]] EXCEPT ![t].default = a]
         = [u \in S |-> [map |-> U[u], default |-> IF u = t THEN a ELSE D[u]]]
<1> DEFINE F == [u \in S |-> [map |-> U[u], default |-> D[u]]]
           r == [map |-> U[t], default |-> a]
<1>1. F[t] = [map |-> U[t], default |-> D[t]]
  OBVIOUS
<1>2. [F[t] EXCEPT !.default = a] = r
  <2> HIDE DEF F
  <2> QED BY <1>1
<1>3. [F EXCEPT ![t].default = a] = [F EXCEPT ![t] = r]
  <2> HIDE DEF F, r
  <2> QED BY <1>2
<1>4. [F EXCEPT ![t] = r] = [u \in S |-> IF u = t THEN r ELSE [map |-> U[u], default |-> D[u]]]
  <2> HIDE DEF r
  <2> QED OBVIOUS
<1>5. \A u : (IF u = t THEN r ELSE [map |-> U[u], default |-> D[u]])
            = [map |-> U[u], default |-> IF u = t THEN a ELSE D[u]]
  OBVIOUS
<1> HIDE DEF r
<1>6. [u \in S |-> IF u = t THEN r ELSE [map |-> U[u], default |-> D[u]]]
    = [u \in S |-> [map |-> U[u], default |-> IF u = t THEN a ELSE D[u]]]
  BY <1>5
<1> QED BY <1>3, <1>4, <1>6

\* Outside the grace period a packet uses the copy in use: a step that leaves
\* it alone is not seen by new packets nor by those in flight.
LEMMA Stable ==
    ASSUME TypeOK, InFlight, pc # "grace", ts' = ts, held' = held,
           \A t \in Table : obj'[ts][t] = obj[ts][t] /\ dflt'[ts][t] = dflt[ts][t]
    PROVE  Copy(ts)' = Copy(ts) /\ Packets' = Packets
<1>1. Copy(ts)' = Copy(ts)
  BY DEF Copy
<1>2. ASSUME NEW w \in Thread
      PROVE  (IF held[w] = None THEN None ELSE Copy(held[w]))'
           = IF held[w] = None THEN None ELSE Copy(held[w])
  <2>1. CASE held[w] = None
    BY <2>1
  <2>2. CASE held[w] = ts /\ held[w] # None
    <3>1. Copy(held[w])' = Copy(held[w])
      BY <2>2 DEF Copy
    <3> QED BY <2>2, <3>1
  <2> QED BY <2>1, <2>2 DEF InFlight
<1>3. Packets' = Packets
  BY <1>2 DEF Packets
<1> QED BY <1>1, <1>3

\* Nor is a step that changes neither the copies nor what the packets hold.
LEMMA Frozen ==
    ASSUME UNCHANGED <<obj, dflt, ts, held>>
    PROVE  Copy(ts)' = Copy(ts) /\ Packets' = Packets
BY DEF Copy, Packets

\* The wish depends on what will be in the tables and on their defaults.
LEMMA SameWish ==
    ASSUME pc # "back", pc' # "back",
           \A t \in Table : Updated(t)' = Updated(t) /\ Default(t, ts)' = Default(t, ts)
    PROVE  Pending' = Pending
BY DEF Pending

----------------------------------------------------------------------------
(* The commands.                                                           *)

\* An edit of the lists of table t that will set key k to a.
LEMMA EntryStep ==
    ASSUME TypeOK, NEW t \in Table, NEW k \in Key, NEW a \in Action \cup {None},
           pc = "idle", UNCHANGED <<pending_default, copies, pc, held>>,
           Changed(t, [Updated(t) EXCEPT ![k] = a], Kept(t))
    PROVE  Abstract!Next
<1>1. Copy(ts)' = Copy(ts) /\ Packets' = Packets
  BY Frozen DEF copies
<1> DEFINE U == [u \in Table |-> Updated(u)]
           D == [u \in Table |-> Default(u, ts)]
<1>2. Pending = [u \in Table |-> [map |-> U[u], default |-> D[u]]]
  BY DEF Pending
<1>3. \A u \in Table : Default(u, ts)' = Default(u, ts)
  BY DEF Default, copies
<1>4. \A u \in Table : Updated(u)' = IF u = t THEN [U[t] EXCEPT ![k] = a] ELSE U[u]
  BY DEF Changed
<1>5. Pending' = [u \in Table |-> [map |-> Updated(u)', default |-> Default(u, ts)']]
  BY DEF Pending
<1>6. Pending' = [u \in Table |-> [map |-> IF u = t THEN [U[t] EXCEPT ![k] = a] ELSE U[u],
                                   default |-> D[u]]]
  BY <1>3, <1>4, <1>5
<1> HIDE DEF U, D
<1>7. Pending' = [Pending EXCEPT ![t].map[k] = a]
  BY <1>2, <1>6, EditMap
<1>8. Abstract!Entry(t, k, a)
  BY <1>1, <1>7 DEF Abstract!Entry, Packets
<1> QED BY <1>8 DEF Abstract!Next

\* The default command.
LEMMA DefaultStep ==
    ASSUME TypeOK, NEW t \in Table, NEW a \in Action, TableDefault(t, a)
    PROVE  Abstract!Next
<1>0. /\ pc = "idle" /\ pc' = "idle" /\ UNCHANGED lists /\ UNCHANGED <<obj, dflt, ts, held>>
      /\ pending_default' = [pending_default EXCEPT ![t] = a]
  BY DEF TableDefault, copies
<1>1. Copy(ts)' = Copy(ts) /\ Packets' = Packets
  BY <1>0, Frozen
<1> DEFINE U == [u \in Table |-> Updated(u)]
           D == [u \in Table |-> Default(u, ts)]
<1>2. Pending = [u \in Table |-> [map |-> U[u], default |-> D[u]]]
  BY <1>0 DEF Pending
<1>3. \A u \in Table : Updated(u)' = Updated(u)
  BY <1>0, SameAll
<1>4. \A u \in Table : Default(u, ts)' = IF u = t THEN a ELSE D[u]
  BY <1>0, NoneAssumption DEF Default, TypeOK
<1>5. Pending' = [u \in Table |-> [map |-> Updated(u)', default |-> Default(u, ts)']]
  BY <1>0 DEF Pending
<1>6. Pending' = [u \in Table |-> [map |-> U[u], default |-> IF u = t THEN a ELSE D[u]]]
  BY <1>3, <1>4, <1>5
<1> HIDE DEF U, D
<1>7. Pending' = [Pending EXCEPT ![t].default = a]
  BY <1>2, <1>6, EditDefault
<1>8. Abstract!Default(t, a)
  BY <1>1, <1>7 DEF Abstract!Default, Packets
<1> QED BY <1>8 DEF Abstract!Next

\* The abort command drops the wish.
LEMMA AbortRefines ==
    ASSUME IndInv(Table), Abort
    PROVE  Abstract!Next
<1>0. /\ TypeOK /\ Lists /\ pc = "idle" /\ pc' = "idle" /\ UNCHANGED <<obj, dflt, ts, held>>
      /\ pending_default' = [t \in Table |-> None] /\ ts \in 0 .. 1
  BY DEF IndInv, TypeOK, Abort, copies
<1>1. Copy(ts)' = Copy(ts) /\ Packets' = Packets
  BY <1>0, Frozen
<1>2. \A t \in Table : Updated(t)' = obj[ts][t]
  BY <1>0, AbortStep DEF IndInv, Phase, Rest
<1>3. \A t \in Table : Default(t, ts)' = dflt[ts][t]
  BY <1>0 DEF Default
<1>4. Pending' = [t \in Table |-> [map |-> Updated(t)', default |-> Default(t, ts)']]
  BY <1>0 DEF Pending
<1>5. Pending' = Copy(ts)
  BY <1>2, <1>3, <1>4 DEF Copy
<1>6. Abstract!Discard
  BY <1>1, <1>5 DEF Abstract!Discard, Packets
<1> QED BY <1>6 DEF Abstract!Next

----------------------------------------------------------------------------
(* The commit.                                                             *)

\* A step that changes no list and no copy, and does not fail.
LEMMA NothingSeen ==
    ASSUME UNCHANGED lists, UNCHANGED <<pending_default, obj, dflt, ts, held>>,
           pc # "back", pc' # "back"
    PROVE  UNCHANGED Abstract!vars
<1>1. Copy(ts)' = Copy(ts) /\ Packets' = Packets
  BY Frozen
<1>2. \A t \in Table : Updated(t)' = Updated(t) /\ Default(t, ts)' = Default(t, ts)
  BY SameAll DEF Default
<1> QED BY <1>1, <1>2, SameWish, AbstractStutter

\* The first pass works on the copy that nobody uses; where it fails, the wish
\* is dropped.
LEMMA FirstPass ==
    ASSUME IndInv(Table), RollFwdInPlace \/ RollFwdRebuild \/ RollFwdCreateFails
    PROVE  [Abstract!Next]_Abstract!vars
<1>0. /\ TypeOK /\ InFlight /\ pc = "fwd" /\ ts \in 0 .. 1 /\ ts_next \in 0 .. 1 /\ ts # ts_next
      /\ UNCHANGED lists /\ UNCHANGED <<pending_default, dflt, ts, held>>
      /\ pc' = "fwd" \/ pc' = "back"
  BY DEF IndInv, TypeOK, ts_next, RollFwdInPlace, RollFwdRebuild, RollFwdCreateFails,
         Continue, GoBack
<1>1. \E o : obj' = [obj EXCEPT ![ts_next][tid] = o]
  BY DEF RollFwdInPlace, RollFwdRebuild, RollFwdCreateFails, SetNext
<1>2. \A t \in Table : obj'[ts][t] = obj[ts][t] /\ dflt'[ts][t] = dflt[ts][t]
  BY <1>0, <1>1 DEF TypeOK
<1>3. Copy(ts)' = Copy(ts) /\ Packets' = Packets
  BY <1>0, <1>2, Stable
<1>4. CASE pc' = "fwd"
  <2>1. \A t \in Table : Updated(t)' = Updated(t) /\ Default(t, ts)' = Default(t, ts)
    BY <1>0, SameAll DEF Default
  <2>2. Pending' = Pending
    BY <1>0, <1>4, <2>1, SameWish
  <2> QED BY <1>3, <2>2, AbstractStutter
<1>5. CASE pc' = "back"
  <2>1. Pending' = Copy(ts)
    BY <1>3, <1>5 DEF Pending
  <2>2. Abstract!Discard
    BY <1>3, <2>1 DEF Abstract!Discard, Packets
  <2> QED BY <2>2 DEF Abstract!Next
<1> QED BY <1>0, <1>4, <1>5

\* The swap commits the wish in all tables at once; packets in flight keep the
\* copy they have.
LEMMA SwapRefines ==
    ASSUME IndInv(Table), Swap
    PROVE  Abstract!Next
<1>0. /\ TypeOK /\ InFlight /\ pc = "fwd" /\ pc' = "grace" /\ tid = NTables + 1
      /\ ts \in 0 .. 1 /\ ts_next \in 0 .. 1 /\ ts # ts_next /\ ts' = ts_next
      /\ UNCHANGED lists /\ UNCHANGED <<pending_default, obj, held>>
      /\ dflt' = [dflt EXCEPT ![ts_next] = [t \in Table |-> Default(t, ts_next)]]
  BY DEF IndInv, TypeOK, ts_next, Swap
<1>1. \A t \in Table : obj[ts_next][t] = Updated(t)
  <2>1. \A t \in Table : t < tid
    BY <1>0, TablesAssumption DEF Table
  <2> QED BY <1>0, <2>1 DEF IndInv, Phase, Split
<1>2. \A t \in Table : Default(t, ts_next) = Default(t, ts)
  <2>1. \A t \in Table : dflt[0][t] = dflt[1][t]
    BY <1>0 DEF IndInv, Defaults
  <2>2. \A t \in Table : dflt[ts_next][t] = dflt[ts][t]
    BY <1>0, <2>1
  <2> QED BY <2>2 DEF Default
<1>3. dflt'[ts_next] = [t \in Table |-> Default(t, ts_next)] /\ dflt'[ts] = dflt[ts]
  BY <1>0 DEF TypeOK
<1>4. Copy(ts)' = [t \in Table |-> [map |-> obj[ts_next][t], default |-> dflt'[ts_next][t]]]
  BY <1>0 DEF Copy
<1>5. Copy(ts)' = [t \in Table |-> [map |-> Updated(t), default |-> Default(t, ts)]]
  BY <1>1, <1>2, <1>3, <1>4
<1>6. Copy(ts)' = Pending
  BY <1>0, <1>5 DEF Pending
<1>7. \A t \in Table : Updated(t)' = Updated(t)
  BY <1>0, SameAll
<1>8. \A t \in Table : Default(t, ts)' = Default(t, ts)
  <2>1. \A t \in Table : Default(t, ts)' = IF pending_default[t] = None
                                           THEN dflt'[ts_next][t] ELSE pending_default[t]
    BY <1>0 DEF Default
  <2> QED BY <1>2, <1>3, <2>1 DEF Default
<1>9. Pending' = Pending
  BY <1>0, <1>7, <1>8, SameWish
<1>10. Packets' = Packets
  <2>1. ASSUME NEW w \in Thread
        PROVE  (IF held[w] = None THEN None ELSE Copy(held[w]))'
             = IF held[w] = None THEN None ELSE Copy(held[w])
    <3>1. CASE held[w] = None
      BY <1>0, <3>1
    <3>2. CASE held[w] = ts /\ held[w] # None
      <4>1. Copy(held[w])' = [t \in Table |-> [map |-> obj[ts][t], default |-> dflt'[ts][t]]]
        BY <1>0, <3>2 DEF Copy
      <4>2. Copy(held[w])' = Copy(held[w])
        BY <1>3, <3>2, <4>1 DEF Copy
      <4> QED BY <1>0, <3>2, <4>2
    <3> QED BY <1>0, <3>1, <3>2 DEF InFlight
  <2> QED BY <2>1 DEF Packets
<1>11. Abstract!Commit
  BY <1>6, <1>9, <1>10 DEF Abstract!Commit, Packets
<1> QED BY <1>11 DEF Abstract!Next

\* What ops.free leaves in the copy in use: the object is another one.
LEMMA FreeKeeps ==
    ASSUME TypeOK, tid \in Table, FreeNext(tid), ~shared[tid]
    PROVE  \A t \in Table : obj'[ts][t] = obj[ts][t]
<1>1. obj' = [c \in 0 .. 1 |-> [obj[c] EXCEPT ![tid] = obj[ts][tid]]]
  BY DEF FreeNext
<1>2. ts \in 0 .. 1
  BY DEF TypeOK
<1> QED BY <1>1, <1>2 DEF TypeOK

\* Work on the other copy leaves the copy in use alone.
LEMMA NextKeeps ==
    ASSUME TypeOK, tid \in Table, NEW o, SetNext(tid, o)
    PROVE  \A t \in Table : obj'[ts][t] = obj[ts][t]
<1>1. ts \in 0 .. 1 /\ ts_next \in 0 .. 1 /\ ts # ts_next
  BY DEF TypeOK, ts_next
<1> QED BY <1>1 DEF TypeOK, SetNext

\* The second pass changes neither what packets see nor the wish.
LEMMA SyncRefines ==
    ASSUME IndInv(Table), Sync
    PROVE  UNCHANGED Abstract!vars
<1>0. /\ TypeOK /\ Lists /\ InFlight /\ pc = "sync" /\ pc' \in {"sync", "idle"} /\ tid \in Table
      /\ ts \in 0 .. 1 /\ ts_next \in 0 .. 1 /\ ts # ts_next /\ UNCHANGED <<ts, held>>
      /\ entries' = [entries EXCEPT ![tid] = Updated(tid)] /\ Clear(tid)
      /\ dflt' = [dflt EXCEPT ![ts_next][tid] = Default(tid, ts_next)]
  BY DEF IndInv, Phase, TypeOK, ts_next, Sync, NextTable, Continue
<1>1. Split(tid, ts, ts_next)
  <2>1. ~(tid < tid)
    BY <1>0 DEF Table
  <2> QED BY <1>0, <2>1 DEF IndInv, Phase
<1>2. \A t \in Table : obj'[ts][t] = obj[ts][t]
  <2>1. CASE UNCHANGED obj
    BY <2>1
  <2>2. CASE \E o : SetNext(tid, o)
    BY <1>0, <2>2, NextKeeps
  <2>3. CASE table_is_update_pending(tid) /\ tid \notin InPlace /\ FreeNext(tid)
    <3>1. ~shared[tid]
      BY <1>1, <2>3 DEF Split
    <3> QED BY <1>0, <2>3, <3>1, FreeKeeps
  <2> QED BY <2>1, <2>2, <2>3 DEF Sync
<1>3. \A t \in Table : dflt'[ts][t] = dflt[ts][t]
  BY <1>0 DEF TypeOK
<1>4. Copy(ts)' = Copy(ts) /\ Packets' = Packets
  BY <1>0, <1>2, <1>3, Stable
<1>x. PICK x \in Table : x = tid
  BY <1>0
<1>5. \A t \in Table : Updated(t)' = Updated(t)
  <2> DEFINE M == Updated(x)
  <2>1. M \in Maps
    BY <1>0, Contents
  <2>2. entries' = [entries EXCEPT ![x] = M] /\ Clear(x)
    BY <1>0, <1>x
  <2> HIDE DEF M
  <2>3. Changed(x, M, M)
    BY <1>0, <1>x, <2>1, <2>2, Emptied
  <2> QED BY <2>3 DEF Changed, M
<1>6. ASSUME NEW t \in Table PROVE Default(t, ts)' = Default(t, ts)
  <2>1. CASE t # tid
    <3>1. pending_default'[t] = pending_default[t]
      BY <1>0, <2>1 DEF Clear, TypeOK
    <3> QED BY <1>0, <1>3, <3>1 DEF Default
  <2>2. CASE t = tid
    <3>1. pending_default'[t] = None
      BY <1>0, <2>2 DEF Clear, TypeOK
    <3>2. t >= tid
      BY <1>0, <2>2 DEF Table
    <3>3. dflt[ts][t] = Default(t, ts_next)
      BY <1>0, <3>2 DEF IndInv, Defaults
    <3>4. Default(t, ts)' = dflt[ts][t]
      BY <1>0, <1>3, <3>1 DEF Default
    <3> QED BY <3>3, <3>4 DEF Default
  <2> QED BY <2>1, <2>2
<1>7. Pending' = Pending
  BY <1>0, <1>5, <1>6, SameWish
<1> QED BY <1>4, <1>7, AbstractStutter

\* The tables that are rolled back have no pending work.
Cleared ==
    pc = "back" => \A t \in Table : t < tid => /\ ~table_is_update_pending(t)
                                               /\ pending_default[t] = None

\* A step of the rollback, on the table it rolls back and on those before.
LEMMA RollBackClears ==
    ASSUME IndInv(Table), Cleared, RollBack, NEW t \in Table, t <= tid
    PROVE  ~table_is_update_pending(t)' /\ pending_default'[t] = None
<1>0. TypeOK /\ pc = "back" /\ tid \in Table /\ Clear(tid)
  BY DEF IndInv, Phase, RollBack
<1>1. CASE t = tid
  BY <1>0, <1>1 DEF Clear, TypeOK, table_is_update_pending
<1>2. CASE t # tid
  <2>1. t < tid
    BY <1>0, <1>2 DEF Table
  <2>2. ~table_is_update_pending(t) /\ pending_default[t] = None
    BY <1>0, <2>1 DEF Cleared
  <2> QED BY <1>0, <1>2, <2>2 DEF Clear, TypeOK, table_is_update_pending
<1> QED BY <1>1, <1>2

\* Every step keeps Cleared.
LEMMA ClearedNext ==
    ASSUME IndInv(Table), Cleared, [Next]_vars
    PROVE  Cleared'
<1> SUFFICES ASSUME pc' = "back", NEW t \in Table, t < tid'
             PROVE  ~table_is_update_pending(t)' /\ pending_default'[t] = None
  BY DEF Cleared
<1>1. CASE pc # "back"
  <2>1. tid' = 1
    BY <1>1 DEF Next, Command, TableAdd, TableDelete, TableDefault, Abort, Commit, CommitStep,
                RollFwdSkip, RollFwdInPlace, RollFwdRebuild, RollFwdCreateFails, Continue,
                GoBack, Swap, Sync, RollBack, NextTable, Usleep, Slept, Rx, Tx, vars
  <2> QED BY <2>1 DEF Table
<1>2. CASE pc = "back" /\ RollBack
  <2>1. tid \in Table /\ tid' = tid + 1
    BY <1>2 DEF IndInv, Phase, RollBack, NextTable, Continue
  <2>2. t <= tid
    BY <2>1 DEF Table
  <2> QED BY <1>2, <2>2, RollBackClears
<1>3. CASE pc = "back" /\ ~RollBack
  <2>1. UNCHANGED <<lists, pending_default, tid>>
    BY <1>3 DEF Next, Command, TableAdd, TableDelete, TableDefault, Abort, Commit, CommitStep,
                RollFwdSkip, RollFwdInPlace, RollFwdRebuild, RollFwdCreateFails,
                Swap, Sync, Usleep, Slept, Rx, Tx, vars
  <2> QED BY <1>3, <2>1, SameAll DEF Cleared
<1> QED BY <1>1, <1>2, <1>3

\* A table without pending work is going to be what it is.
LEMMA NothingPending ==
    Lists => \A t \in Table : ~table_is_update_pending(t) => Updated(t) = Kept(t)
BY Contents

\* The rollback changes nothing that is seen, and leaves nothing to wish for.
LEMMA RollBackRefines ==
    ASSUME IndInv(Table), IndInv(Table)', Cleared, RollBackSafe, RollBack
    PROVE  UNCHANGED Abstract!vars
<1>0. /\ TypeOK /\ Lists /\ InFlight /\ pc = "back" /\ tid \in Table
      /\ ts \in 0 .. 1 /\ ts' \in 0 .. 1 /\ UNCHANGED <<dflt, ts, held>> /\ Clear(tid)
  BY DEF IndInv, Phase, TypeOK, RollBack
<1>1. \A t \in Table : obj'[ts][t] = obj[ts][t]
  <2>1. CASE UNCHANGED obj
    BY <2>1
  <2>2. CASE \E o : SetNext(tid, o)
    BY <1>0, <2>2, NextKeeps
  <2>3. CASE table_is_update_pending(tid) /\ tid \notin InPlace /\ FreeNext(tid)
    <3>1. ~shared[tid]
      BY <1>0, <2>3 DEF RollBackSafe
    <3> QED BY <1>0, <2>3, <3>1, FreeKeeps
  <2> QED BY <2>1, <2>2, <2>3 DEF RollBack
<1>2. Copy(ts)' = Copy(ts) /\ Packets' = Packets
  BY <1>0, <1>1, Stable
<1>3. Pending = Copy(ts)
  BY <1>0 DEF Pending
<1>4. Pending' = Copy(ts)'
  <2>1. CASE pc' = "back"
    BY <2>1 DEF Pending
  <2>2. CASE tid = NTables /\ pc' = "idle"
    <3>1. \A t \in Table : t <= tid
      BY <2>2 DEF Table
    <3>2. \A t \in Table : ~table_is_update_pending(t)' /\ pending_default'[t] = None
      BY <3>1, RollBackClears
    <3>3. \A t \in Table : Updated(t)' = Kept(t)'
      <4>1. Lists'
        BY DEF IndInv
      <4>2. (\A t \in Table : ~table_is_update_pending(t) => Updated(t) = Kept(t))'
        BY <4>1, NothingPending, PTL
      <4> QED BY <3>2, <4>2
    <3>4. \A t \in Table : obj'[ts'][t] = Kept(t)'
      BY <1>0, <2>2 DEF IndInv, Phase, Rest
    <3>5. \A t \in Table : Default(t, ts)' = dflt'[ts'][t]
      BY <3>2 DEF Default
    <3>6. Pending' = [t \in Table |-> [map |-> Updated(t)', default |-> Default(t, ts)']]
      BY <2>2 DEF Pending
    <3> QED BY <3>3, <3>4, <3>5, <3>6 DEF Copy
  <2> QED BY <1>0, <2>1, <2>2, NextTableLemma DEF RollBack
<1> QED BY <1>2, <1>3, <1>4, AbstractStutter

----------------------------------------------------------------------------
(* The data plane, and the theorems.                                       *)

\* A packet sees the copy in use from its reception on.
LEMMA RxRefines ==
    ASSUME TypeOK, NEW w \in Thread, Rx(w)
    PROVE  Abstract!Next
<1>0. /\ UNCHANGED lists /\ UNCHANGED <<pending_default, obj, dflt, ts, pc>>
      /\ held[w] = None /\ held' = [held EXCEPT ![w] = ts] /\ ts # None
  BY NoneAssumption DEF Rx, copies, TypeOK
<1>1. Copy(ts)' = Copy(ts)
  BY <1>0 DEF Copy
<1>2. \A t \in Table : Updated(t)' = Updated(t) /\ Default(t, ts)' = Default(t, ts)
  BY <1>0, SameAll DEF Default
<1>3. Pending' = Pending
  BY <1>0, <1>1, <1>2 DEF Pending
<1>4. Packets' = [Packets EXCEPT ![w] = Copy(ts)]
  <2>1. \A v \in Thread : (IF held[v] = None THEN None ELSE Copy(held[v]))'
                        = IF v = w THEN Copy(ts) ELSE Packets[v]
    BY <1>0 DEF Copy, TypeOK, Packets
  <2> QED BY <2>1 DEF Packets
<1>5. Abstract!Receive(w)
  BY <1>0, <1>1, <1>3, <1>4 DEF Abstract!Receive, Packets
<1> QED BY <1>5 DEF Abstract!Next

\* The end of a packet.
LEMMA TxRefines ==
    ASSUME TypeOK, NEW w \in Thread, Tx(w)
    PROVE  Abstract!Next
<1>0. /\ UNCHANGED lists /\ UNCHANGED <<pending_default, obj, dflt, ts, pc>>
      /\ held' = [held EXCEPT ![w] = None]
  BY DEF Tx, copies
<1>1. Copy(ts)' = Copy(ts)
  BY <1>0 DEF Copy
<1>2. \A t \in Table : Updated(t)' = Updated(t) /\ Default(t, ts)' = Default(t, ts)
  BY <1>0, SameAll DEF Default
<1>3. Pending' = Pending
  BY <1>0, <1>1, <1>2 DEF Pending
<1>4. Packets' = [Packets EXCEPT ![w] = None]
  <2>1. \A v \in Thread : (IF held[v] = None THEN None ELSE Copy(held[v]))'
                        = IF v = w THEN None ELSE Packets[v]
    BY <1>0 DEF Copy, TypeOK, Packets
  <2> QED BY <2>1 DEF Packets
<1>5. Abstract!Finish(w)
  BY <1>1, <1>3, <1>4 DEF Abstract!Finish, Packets
<1> QED BY <1>5 DEF Abstract!Next

\* Empty tables with the defaults of the program, and nothing pending.
LEMMA InitRefines == Init => Abstract!Init
<1> SUFFICES ASSUME Init PROVE Abstract!Init
  OBVIOUS
<1> DEFINE none == [k \in Key |-> None]
<1>0. /\ ts = 0 /\ pc = "idle"
      /\ \A t \in Table : obj[ts][t] = none /\ dflt[ts][t] = Initial[t] /\ Initial[t] \in Action
  BY DefaultAssumption DEF Init, Table
<1>1. Copy(ts) = [t \in Table |-> [map |-> none, default |-> Initial[t]]]
  BY <1>0 DEF Copy
<1>2. \A t \in Table : Updated(t) = none /\ Default(t, ts) = Initial[t]
  <2>1. \A t \in Table : /\ entries[t] = none /\ pending_add[t] = <<>>
                         /\ pending_modify1[t] = <<>> /\ pending_default[t] = None
    BY DEF Init
  <2> QED BY <1>0, <2>1, NoneIn DEF Updated, Default
<1>3. Pending = Copy(ts)
  BY <1>0, <1>1, <1>2 DEF Pending
<1>4. \A t \in Table : /\ [map |-> none, default |-> Initial[t]] \in Abstract!TableState
                       /\ \A k \in Key : [map |-> none, default |-> Initial[t]].map[k] = None
  BY <1>0 DEF Abstract!TableState
<1> HIDE DEF none
<1>5. Copy(ts) \in [Table -> {s \in Abstract!TableState : \A k \in Key : s.map[k] = None}]
  BY <1>1, <1>4
<1>6. [w \in Thread |-> IF held[w] = None THEN None ELSE Copy(held[w])] = [w \in Thread |-> None]
  BY DEF Init
<1> QED BY <1>3, <1>5, <1>6 DEF Abstract!Init

\* Every step is a step of TableSpec or leaves its variables alone.
LEMMA NextRefines ==
    ASSUME IndInv(Table), IndInv(Table)', Cleared, RollBackSafe, [Next]_vars
    PROVE  [Abstract!Next]_Abstract!vars
<1>0. TypeOK /\ Lists
  BY DEF IndInv
<1>1. ASSUME NEW t \in Table, NEW e \in Entries, TableAdd(t, e) PROVE Abstract!Next
  <2>1. Changed(t, [Updated(t) EXCEPT ![e.key] = e.action], Kept(t))
    BY <1>0, <1>1, AddStep DEF TableAdd
  <2>2. e.key \in Key /\ e.action \in Action \cup {None}
    BY DEF Entries
  <2> QED BY <1>0, <1>1, <2>1, <2>2, EntryStep DEF TableAdd
<1>2. ASSUME NEW t \in Table, NEW k \in Key, TableDelete(t, k) PROVE Abstract!Next
  <2>1. Changed(t, [Updated(t) EXCEPT ![k] = None], Kept(t))
    BY <1>0, <1>2, DeleteStep DEF TableDelete
  <2> QED BY <1>0, <1>2, <2>1, EntryStep DEF TableDelete
<1>3. ASSUME NEW t \in Table, NEW a \in Action, TableDefault(t, a) PROVE Abstract!Next
  BY <1>0, <1>3, DefaultStep
<1>4. CASE Abort
  BY <1>4, AbortRefines
<1>5. CASE Commit \/ RollFwdSkip \/ Usleep
  BY <1>5, NothingSeen DEF Commit, RollFwdSkip, Continue, Usleep, Slept, copies
<1>6. CASE RollFwdInPlace \/ RollFwdRebuild \/ RollFwdCreateFails
  BY <1>6, FirstPass
<1>7. CASE Swap
  BY <1>7, SwapRefines
<1>8. CASE Sync
  BY <1>8, SyncRefines
<1>9. CASE RollBack
  BY <1>9, RollBackRefines
<1>10. ASSUME NEW w \in Thread, Rx(w) \/ Tx(w) PROVE Abstract!Next
  BY <1>0, <1>10, RxRefines, TxRefines
<1>11. CASE UNCHANGED vars
  <2>1. Copy(ts)' = Copy(ts) /\ Packets' = Packets
    BY <1>11, Frozen DEF vars, copies
  <2>2. Pending' = Pending
    BY <1>11, <2>1, SameAll DEF Pending, Default, vars, copies
  <2> QED BY <2>1, <2>2, AbstractStutter
<1> QED BY <1>1, <1>2, <1>3, <1>4, <1>5, <1>6, <1>7, <1>8, <1>9, <1>10, <1>11
        DEF Next, Command, CommitStep

\* A second pass that is not refused is not noted.
LEMMA NotRefused == Spec /\ []SecondPassGuaranteed => []~refused
<1>1. Init => ~refused
  BY DEF Init
<1>2. ASSUME ~refused, SecondPassGuaranteed, [Next]_vars PROVE ~refused'
  <2>1. CASE Sync
    BY <1>2, <2>1 DEF Sync, SecondPassGuaranteed
  <2>2. CASE UNCHANGED refused
    BY <1>2, <2>2
  <2>3. CASE Command
    <3>1. UNCHANGED refused
      BY <2>3 DEF Command, TableAdd, TableDelete, TableDefault, Abort, history
    <3> QED BY <2>2, <3>1
  <2>4. CASE Commit \/ RollFwdSkip \/ RollFwdInPlace \/ RollFwdRebuild \/ RollFwdCreateFails
    <3>1. UNCHANGED refused
      BY <2>4 DEF Commit, RollFwdSkip, RollFwdInPlace, RollFwdRebuild, RollFwdCreateFails, history
    <3> QED BY <2>2, <3>1
  <2>5. CASE Swap \/ Usleep \/ RollBack
    <3>1. UNCHANGED refused
      BY <2>5 DEF Swap, Usleep, Slept, RollBack, history
    <3> QED BY <2>2, <3>1
  <2>6. ASSUME NEW w \in Thread, Rx(w) \/ Tx(w) PROVE UNCHANGED refused
    BY <2>6 DEF Rx, Tx, history
  <2>7. CASE UNCHANGED vars
    <3>1. UNCHANGED refused
      BY <2>7 DEF vars, history
    <3> QED BY <2>2, <3>1
  <2> QED BY <1>2, <2>1, <2>2, <2>3, <2>4, <2>5, <2>6, <2>7 DEF Next, CommitStep
<1> QED BY <1>1, <1>2, PTL DEF Spec

\* A commit takes effect in all tables and for all packets at once, whatever
\* fails, unless a rollback frees an object in use, a rollback has no room for
\* what it puts back, or a second pass is refused.
THEOREM ImplementsIfSafe ==
    Spec /\ []RollBackSafe /\ []PutBackFits /\ []SecondPassGuaranteed => Implements
<1>1. Init => Cleared
  BY DEF Init, Cleared
<1>2. IndInv(Table) /\ Cleared /\ [Next]_vars => Cleared'
  BY ClearedNext
<1>3. IndInv(Table) /\ IndInv(Table)' /\ Cleared /\ RollBackSafe /\ [Next]_vars
         => [Abstract!Next]_Abstract!vars
  BY NextRefines
<1>4. Spec /\ []RollBackSafe /\ []PutBackFits /\ []SecondPassGuaranteed => []IndInv(Table)
  BY NotRefused, AllInductive, PTL
<1> QED BY <1>1, <1>2, <1>3, <1>4, InitRefines, PTL DEF Spec, Implements, Abstract!Spec

\* The same of a pipeline in which no table that is built anew comes after
\* another table, as long as there is memory for its list of entries.
THEOREM TablesImplement ==
    ASSUME RebuiltFirst, ~MayRunOut
    PROVE  Spec /\ []PutBackFits /\ []SecondPassGuaranteed => Implements
BY SafeIfRebuiltFirst, ImplementsIfSafe, PTL
=============================================================================
