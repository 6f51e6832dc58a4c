--------------------------- MODULE TableCtlProofs ---------------------------
(***************************************************************************)
(* Theorems about TableCtl, for any number of tables of both kinds, any    *)
(* sizes, keys, actions and threads.                                       *)
(*                                                                         *)
(* CopiesAgree speaks of the moments between two commands only.  IndInv    *)
(* says what the copies of a table contain at every moment of a commit, in *)
(* terms of what the lists say is in the table (Kept) and will be in it    *)
(* (Updated): both copies have the old entries (Rest), one has the new     *)
(* ones (Split), or one has a part of them that the rollback will undo     *)
(* (Undoable).  That the lists are well formed and that no packet in       *)
(* flight uses the copy being updated are the other parts.                 *)
(*                                                                         *)
(* The part on the contents of the copies is stated for a set S of tables. *)
(* For all tables it needs that no second pass was refused, and of the     *)
(* rollback RollBackSafe and PutBackFits: it frees the object of a table   *)
(* that is built anew, which is the object in use when the failed commit   *)
(* had not come to the table; and it does not look whether there is room   *)
(* for the entries it puts back.  RollBackSafe is proved for pipelines in  *)
(* which at most the first table is built anew.                            *)
(*                                                                         *)
(* That the second pass is not refused is proved for the tables of which   *)
(* no rollback left the copies unequal, with an invariant of its own:      *)
(* Twins says that their copies are the same, buckets included, or one is  *)
(* the other with the pending work done.                                   *)
(***************************************************************************)
EXTENDS TableCtl, FiniteSetTheorems, SequenceTheorems, TLAPS

----------------------------------------------------------------------------
(* Lists of entries.                                                       *)

\* A key is at most once in the list.
Once(list) ==
    \A i, j \in DOMAIN list : list[i].key = list[j].key => i = j

\* Two lists name the same keys in the same order.
SameKeys(l0, l1) ==
    Len(l0) = Len(l1) /\ \A i \in DOMAIN l1 : l0[i].key = l1[i].key

\* A non-empty set of numbers has a least one.
LEMMA Least ==
    ASSUME NEW T \in SUBSET Nat, T # {}
    PROVE  \E x \in T : \A y \in T : x <= y
<1> DEFINE R == OpToRel(<, Nat)
<1>1. IsWellFoundedOn(R, Nat)
  BY NatLessThanWellFounded
<1>2. PICK x \in T : \A y \in T : ~(<<y, x>> \in R)
  <2> HIDE DEF R
  <2> QED BY <1>1, WFMin
<1>3. \A y \in T : ~(y < x)
  BY <1>2 DEF OpToRel
<1> QED BY <1>3

\* What Pos and Find return.
LEMMA PosFind ==
    ASSUME NEW list \in Seq(Entries), NEW k, In(list, k)
    PROVE  /\ Pos(list, k) \in DOMAIN list
           /\ list[Pos(list, k)].key = k
           /\ Find(list, k) \in Action
           /\ k \in Key
<1>1. Pos(list, k) \in DOMAIN list /\ list[Pos(list, k)].key = k
  BY DEF In, Pos
<1>2. list[Pos(list, k)] \in Entries
  BY <1>1
<1> QED BY <1>1, <1>2 DEF Find, Entries

\* The place of a key is the only one.
LEMMA PosUnique ==
    ASSUME NEW list \in Seq(Entries), Once(list), NEW i \in DOMAIN list
    PROVE  /\ In(list, list[i].key)
           /\ Pos(list, list[i].key) = i
           /\ Find(list, list[i].key) = list[i].action
<1>1. In(list, list[i].key)
  BY DEF In
<1>2. Pos(list, list[i].key) = i
  BY <1>1, PosFind DEF Once
<1> QED BY <1>1, <1>2 DEF Find

\* The empty list.
LEMMA NoneIn ==
    /\ <<>> \in Seq(Entries) /\ Once(<<>>) /\ SameKeys(<<>>, <<>>)
    /\ \A k : ~In(<<>>, k)
BY DEF Once, SameKeys, In

\* A new key is appended.
LEMMA AppendLemma ==
    ASSUME NEW list \in Seq(Entries), Once(list), NEW x \in Entries, ~In(list, x.key)
    PROVE  /\ Append(list, x) \in Seq(Entries)
           /\ Once(Append(list, x))
           /\ \A k : In(Append(list, x), k) <=> In(list, k) \/ k = x.key
           /\ Find(Append(list, x), x.key) = x.action
           /\ \A k : In(list, k) => Find(Append(list, x), k) = Find(list, k)
<1> DEFINE new == Append(list, x)
<1>1. /\ new \in Seq(Entries) /\ Len(new) = Len(list) + 1
      /\ \A i \in 1 .. Len(list) : new[i] = list[i]
      /\ new[Len(list) + 1] = x
      /\ DOMAIN new = 1 .. Len(list) + 1 /\ DOMAIN list = 1 .. Len(list)
      /\ Len(list) \in Nat
  BY AppendProperties, LenProperties
<1> HIDE DEF new
<1>2. Once(new)
  BY <1>1 DEF Once, In
<1>3. \A k : In(new, k) <=> In(list, k) \/ k = x.key
  <2> TAKE k
  <2>1. ASSUME In(new, k), k # x.key PROVE In(list, k)
    <3> PICK i \in DOMAIN new : new[i].key = k
      BY <2>1 DEF In
    <3> QED BY <1>1, <2>1 DEF In
  <2>2. ASSUME In(list, k) PROVE In(new, k)
    <3> PICK i \in DOMAIN list : list[i].key = k
      BY <2>2 DEF In
    <3> QED BY <1>1 DEF In
  <2>3. In(new, x.key)
    BY <1>1 DEF In
  <2> QED BY <2>1, <2>2, <2>3
<1>4. Find(new, x.key) = x.action
  BY <1>1, <1>2, PosUnique
<1>5. ASSUME NEW k, In(list, k) PROVE Find(new, k) = Find(list, k)
  <2>1. Pos(list, k) \in 1 .. Len(list) /\ list[Pos(list, k)].key = k
    BY <1>1, <1>5, PosFind
  <2>2. new[Pos(list, k)] = list[Pos(list, k)] /\ Pos(list, k) \in DOMAIN new
    BY <1>1, <2>1
  <2> QED BY <1>1, <1>2, <2>1, <2>2, PosUnique DEF Find
<1> QED BY <1>1, <1>2, <1>3, <1>4, <1>5 DEF new

\* The entry of a key is replaced.
LEMMA ReplaceLemma ==
    ASSUME NEW list \in Seq(Entries), Once(list), NEW x \in Entries, In(list, x.key)
    PROVE  /\ Replace(list, x) \in Seq(Entries)
           /\ Len(Replace(list, x)) = Len(list)
           /\ \A i \in DOMAIN list : Replace(list, x)[i].key = list[i].key
           /\ Once(Replace(list, x))
           /\ \A k : In(Replace(list, x), k) <=> In(list, k)
           /\ Find(Replace(list, x), x.key) = x.action
           /\ \A k : In(list, k) /\ k # x.key => Find(Replace(list, x), k) = Find(list, k)
<1> DEFINE new == Replace(list, x)
           p == Pos(list, x.key)
<1>1. p \in DOMAIN list /\ list[p].key = x.key
  BY PosFind
<1>2. /\ new \in Seq(Entries) /\ Len(new) = Len(list)
      /\ DOMAIN new = DOMAIN list
      /\ \A i \in DOMAIN list : new[i] = IF i = p THEN x ELSE list[i]
  BY <1>1, ExceptSeq, LenProperties DEF Replace
<1>3. \A i \in DOMAIN list : new[i].key = list[i].key
  BY <1>1, <1>2
<1> HIDE DEF new, p
<1>4. Once(new)
  BY <1>2, <1>3 DEF Once
<1>5. \A k : In(new, k) <=> In(list, k)
  BY <1>2, <1>3 DEF In
<1>6. Find(new, x.key) = x.action
  BY <1>1, <1>2, <1>4, PosUnique
<1>7. ASSUME NEW k, In(list, k), k # x.key PROVE Find(new, k) = Find(list, k)
  <2>1. Pos(list, k) \in DOMAIN list /\ list[Pos(list, k)].key = k
    BY <1>7, PosFind
  <2>2. new[Pos(list, k)] = list[Pos(list, k)] /\ Pos(list, k) \in DOMAIN new
    BY <1>1, <1>2, <1>7, <2>1
  <2> QED BY <1>2, <1>4, <2>1, <2>2, PosUnique DEF Find
<1> QED BY <1>2, <1>3, <1>4, <1>5, <1>6, <1>7 DEF new

\* The entry of a key is removed: where the others are then.
LEMMA RemoveAt ==
    ASSUME NEW list \in Seq(Entries), NEW k, In(list, k)
    PROVE  /\ Remove(list, k) \in Seq(Entries)
           /\ Len(Remove(list, k)) = Len(list) - 1
           /\ DOMAIN Remove(list, k) = 1 .. Len(list) - 1
           /\ \A i \in 1 .. Len(list) - 1 :
                 Remove(list, k)[i] = IF i < Pos(list, k) THEN list[i] ELSE list[i + 1]
<1> DEFINE n   == Len(list)
           p   == Pos(list, k)
           s1  == SubSeq(list, 1, p - 1)
           s2  == SubSeq(list, p + 1, n)
           new == s1 \o s2
<1>n. n \in Nat /\ DOMAIN list = 1 .. n
  BY LenProperties
<1>p. p \in 1 .. n
  BY <1>n, PosFind
<1>e. \A i \in 1 .. n : list[i] \in Entries
  BY ElementOfSeq
<1>r. Remove(list, k) = new
  BY DEF Remove
<1> HIDE DEF n, p
<1>0. n \in Nat /\ p \in Nat /\ 1 <= p /\ p <= n /\ \A i \in 1 .. n : list[i] \in Entries
  BY <1>n, <1>p, <1>e
<1>1. s1 \in Seq(Entries) /\ Len(s1) = p - 1 /\ \A i \in 1 .. p - 1 : s1[i] = list[i]
  <2>1. \A i \in 1 .. p - 1 : list[i] \in Entries
    BY <1>0
  <2>2. 1 \in Int /\ p - 1 \in Int
    BY <1>0
  <2>3. /\ s1 \in Seq(Entries)
        /\ Len(s1) = IF 1 <= p - 1 THEN (p - 1) - 1 + 1 ELSE 0
        /\ \A i \in 1 .. (p - 1) - 1 + 1 : s1[i] = list[1 + i - 1]
    BY <2>1, <2>2, SubSeqProperties
  <2> HIDE DEF s1
  <2> QED BY <1>0, <2>3
<1>2. /\ s2 \in Seq(Entries) /\ Len(s2) = n - p
      /\ \A i \in 1 .. n - p : s2[i] = list[p + i]
  <2>1. \A i \in p + 1 .. n : list[i] \in Entries
    BY <1>0
  <2>2. p + 1 \in Int /\ n \in Int
    BY <1>0
  <2>3. /\ s2 \in Seq(Entries)
        /\ Len(s2) = IF p + 1 <= n THEN n - (p + 1) + 1 ELSE 0
        /\ \A i \in 1 .. n - (p + 1) + 1 : s2[i] = list[(p + 1) + i - 1]
    BY <2>1, <2>2, SubSeqProperties
  <2> HIDE DEF s2
  <2> QED BY <1>0, <2>3
<1> HIDE DEF s1, s2
<1>3. /\ new \in Seq(Entries)
      /\ Len(new) = Len(s1) + Len(s2)
      /\ \A i \in 1 .. Len(s1) + Len(s2) : new[i] =
              IF i <= Len(s1) THEN s1[i] ELSE s2[i - Len(s1)]
  BY <1>1, <1>2, ConcatProperties
<1>4. DOMAIN new = 1 .. Len(new)
  BY <1>3, LenProperties
<1> HIDE DEF new
<1>5. Len(new) = n - 1
  BY <1>0, <1>1, <1>2, <1>3
<1>6. ASSUME NEW i \in 1 .. n - 1
      PROVE new[i] = IF i < p THEN list[i] ELSE list[i + 1]
  <2>1. new[i] = IF i <= p - 1 THEN s1[i] ELSE s2[i - (p - 1)]
    BY <1>0, <1>1, <1>2, <1>3
  <2>2. CASE i < p
    BY <1>0, <1>1, <2>1, <2>2
  <2>3. CASE ~(i < p)
    <3>1. i - (p - 1) \in 1 .. n - p /\ p + (i - (p - 1)) = i + 1 /\ ~(i <= p - 1)
      BY <1>0, <2>3
    <3> QED BY <1>2, <2>1, <2>3, <3>1
  <2> QED BY <2>2, <2>3
<1>7. DOMAIN new = 1 .. n - 1
  BY <1>4, <1>5
<1> QED BY <1>3, <1>5, <1>6, <1>7, <1>r DEF n, p

\* Remove takes one key out of a list and keeps the others.
LEMMA RemoveLemma ==
    ASSUME NEW list \in Seq(Entries), Once(list), NEW k, In(list, k)
    PROVE  /\ Remove(list, k) \in Seq(Entries)
           /\ Once(Remove(list, k))
           /\ \A x : In(Remove(list, k), x) <=> In(list, x) /\ x # k
           /\ \A x : In(list, x) /\ x # k => Find(Remove(list, k), x) = Find(list, x)
<1> DEFINE new == Remove(list, k)
           p == Pos(list, k)
           n == Len(list)
<1>0. n \in Nat /\ DOMAIN list = 1 .. n
  BY LenProperties
<1>1. p \in 1 .. n /\ list[p].key = k
  BY <1>0, PosFind
<1>2. /\ new \in Seq(Entries) /\ DOMAIN new = 1 .. n - 1
      /\ \A i \in 1 .. n - 1 : new[i] = IF i < p THEN list[i] ELSE list[i + 1]
  BY <1>0, <1>1, RemoveAt
<1> HIDE DEF new, p, n
<1>3. ASSUME NEW i \in DOMAIN new
      PROVE  \E j \in DOMAIN list : /\ new[i] = list[j] /\ j # p
                                     /\ i = IF j < p THEN j ELSE j - 1
  <2>1. CASE i < p
    <3>1. i \in DOMAIN list /\ i # p /\ new[i] = list[i]
      BY <1>0, <1>1, <1>2, <2>1
    <3> QED BY <2>1, <3>1
  <2>2. CASE ~(i < p)
    <3>1. i \in 1 .. n - 1 /\ new[i] = list[i + 1]
      BY <1>2, <2>2
    <3>2. i + 1 \in 1 .. n /\ i + 1 # p /\ ~(i + 1 < p) /\ i = (i + 1) - 1
      BY <1>0, <1>1, <2>2, <3>1
    <3> QED BY <1>0, <3>1, <3>2
  <2> QED BY <2>1, <2>2
<1>4. ASSUME NEW j \in DOMAIN list, j # p
      PROVE  \E i \in DOMAIN new : new[i] = list[j]
  <2>1. CASE j < p
    <3>1. j \in 1 .. n - 1
      BY <1>0, <1>1, <2>1
    <3> QED BY <1>2, <2>1, <3>1
  <2>2. CASE ~(j < p)
    <3>1. j - 1 \in 1 .. n - 1 /\ ~(j - 1 < p) /\ (j - 1) + 1 = j
      BY <1>0, <1>1, <1>4, <2>2
    <3> QED BY <1>2, <3>1
  <2> QED BY <2>1, <2>2
<1>5. Once(new)
  <2> SUFFICES ASSUME NEW i1 \in DOMAIN new, NEW i2 \in DOMAIN new, new[i1].key = new[i2].key
               PROVE  i1 = i2
    BY DEF Once
  <2>1. PICK j1 \in DOMAIN list : new[i1] = list[j1] /\ i1 = IF j1 < p THEN j1 ELSE j1 - 1
    BY <1>3
  <2>2. PICK j2 \in DOMAIN list : new[i2] = list[j2] /\ i2 = IF j2 < p THEN j2 ELSE j2 - 1
    BY <1>3
  <2>3. j1 = j2
    BY <2>1, <2>2 DEF Once
  <2> QED BY <2>1, <2>2, <2>3
<1>6. ASSUME NEW x, In(list, x), x # k
      PROVE  In(new, x) /\ Find(new, x) = Find(list, x)
  <2> DEFINE q == Pos(list, x)
  <2>1. q \in DOMAIN list /\ list[q].key = x /\ q # p
    BY <1>0, <1>1, <1>6, PosFind
  <2> HIDE DEF q
  <2>2. PICK i \in DOMAIN new : new[i] = list[q]
    BY <1>4, <2>1
  <2>3. Find(new, x) = list[q].action /\ In(new, x)
    BY <1>2, <1>5, <2>1, <2>2, PosUnique
  <2> QED BY <2>3 DEF Find, q
<1>7. ASSUME NEW x, In(new, x) PROVE In(list, x) /\ x # k
  <2> PICK i \in DOMAIN new : new[i].key = x
    BY <1>7 DEF In
  <2>1. PICK j \in DOMAIN list : new[i] = list[j] /\ j # p
    BY <1>3
  <2> QED BY <1>0, <1>1, <2>1 DEF In, Once
<1> QED BY <1>2, <1>5, <1>6, <1>7 DEF new

\* Lists with the same keys have them at the same places.
LEMMA SameKeysLemma ==
    ASSUME NEW l0 \in Seq(Entries), NEW l1 \in Seq(Entries), SameKeys(l0, l1), Once(l1)
    PROVE  /\ Once(l0)
           /\ \A k : In(l0, k) <=> In(l1, k)
           /\ \A k : In(l1, k) => Pos(l0, k) = Pos(l1, k)
<1>1. DOMAIN l0 = DOMAIN l1
  BY LenProperties DEF SameKeys
<1>2. Once(l0)
  BY <1>1 DEF SameKeys, Once
<1>3. \A k : In(l0, k) <=> In(l1, k)
  BY <1>1 DEF SameKeys, In
<1>4. ASSUME NEW k, In(l1, k) PROVE Pos(l0, k) = Pos(l1, k)
  <2>1. Pos(l1, k) \in DOMAIN l1 /\ l1[Pos(l1, k)].key = k
    BY <1>4, PosFind
  <2> QED BY <1>1, <1>2, <2>1, PosUnique DEF SameKeys
<1> QED BY <1>2, <1>3, <1>4

\* Two lists stay alike when an entry of the same key is added to both.
LEMMA SameKeysAppend ==
    ASSUME NEW l0 \in Seq(Entries), NEW l1 \in Seq(Entries), SameKeys(l0, l1),
           NEW x0 \in Entries, NEW x1 \in Entries, x0.key = x1.key
    PROVE  SameKeys(Append(l0, x0), Append(l1, x1))
<1> DEFINE n0 == Append(l0, x0)
           n1 == Append(l1, x1)
           n  == Len(l1)
<1>1. /\ Len(n0) = Len(l0) + 1
      /\ \A i \in 1 .. Len(l0) : n0[i] = l0[i]
      /\ n0[Len(l0) + 1] = x0
  BY AppendProperties
<1>2. /\ n1 \in Seq(Entries) /\ Len(n1) = n + 1
      /\ \A i \in 1 .. n : n1[i] = l1[i]
      /\ n1[n + 1] = x1
  BY AppendProperties
<1>3. DOMAIN n1 = 1 .. n + 1 /\ DOMAIN l1 = 1 .. n /\ n \in Nat
  BY <1>2, LenProperties
<1>4. Len(l0) = n /\ \A i \in 1 .. n : l0[i].key = l1[i].key
  BY <1>3 DEF SameKeys
<1> HIDE DEF n0, n1, n
<1>5. ASSUME NEW i \in 1 .. n + 1 PROVE n0[i].key = n1[i].key
  <2>1. CASE i \in 1 .. n
    BY <1>1, <1>2, <1>4, <2>1
  <2>2. CASE i = n + 1
    BY <1>1, <1>2, <1>4, <2>2
  <2> QED BY <1>3, <2>1, <2>2
<1>6. SameKeys(n0, n1)
  BY <1>1, <1>2, <1>3, <1>4, <1>5 DEF SameKeys
<1> QED BY <1>6 DEF n0, n1

\* They stay alike when an entry is replaced.
LEMMA SameKeysReplace ==
    ASSUME NEW l0 \in Seq(Entries), NEW l1 \in Seq(Entries), SameKeys(l0, l1), Once(l1),
           NEW x \in Entries, In(l1, x.key)
    PROVE  SameKeys(l0, Replace(l1, x))
<1>1. DOMAIN Replace(l1, x) = DOMAIN l1
  BY ReplaceLemma, LenProperties
<1> QED BY <1>1, ReplaceLemma DEF SameKeys

\* They stay alike when the same key is removed from both.
LEMMA SameKeysRemove ==
    ASSUME NEW l0 \in Seq(Entries), NEW l1 \in Seq(Entries), SameKeys(l0, l1), Once(l1),
           NEW k, In(l1, k)
    PROVE  SameKeys(Remove(l0, k), Remove(l1, k))
<1> DEFINE n == Len(l1)
           p == Pos(l1, k)
<1>1. n \in Nat /\ Len(l0) = n /\ DOMAIN l1 = 1 .. n /\ DOMAIN l0 = 1 .. n
  BY LenProperties DEF SameKeys
<1>2. p \in 1 .. n /\ p = Pos(l0, k)
  BY <1>1, PosFind, SameKeysLemma
<1>3. /\ Len(Remove(l0, k)) = n - 1
      /\ \A i \in 1 .. n - 1 : Remove(l0, k)[i] = IF i < p THEN l0[i] ELSE l0[i + 1]
  <2>1. In(l0, k)
    BY SameKeysLemma
  <2> QED BY <1>1, <1>2, <2>1, RemoveAt
<1>4. /\ Len(Remove(l1, k)) = n - 1 /\ DOMAIN Remove(l1, k) = 1 .. n - 1
      /\ \A i \in 1 .. n - 1 : Remove(l1, k)[i] = IF i < p THEN l1[i] ELSE l1[i + 1]
  BY <1>1, <1>2, RemoveAt
<1> HIDE DEF n, p
<1>5. ASSUME NEW i \in 1 .. n - 1
      PROVE  Remove(l0, k)[i].key = Remove(l1, k)[i].key
  <2>1. i \in DOMAIN l1 /\ i + 1 \in DOMAIN l1
    BY <1>1
  <2> QED BY <1>3, <1>4, <2>1 DEF SameKeys
<1> QED BY <1>3, <1>4, <1>5 DEF SameKeys

----------------------------------------------------------------------------
(* The lists of one table together.                                        *)

UpdatedMap(e, a, m1) ==
    [k \in Key |-> IF In(a, k) THEN Find(a, k) ELSE IF In(m1, k) THEN Find(m1, k) ELSE e[k]]

KeptMap(e, m0, d) ==
    [k \in Key |-> IF In(m0, k) THEN Find(m0, k) ELSE IF In(d, k) THEN Find(d, k) ELSE e[k]]

\* A key is once in a list, and in one of the lists only; a key being modified
\* has its old and its new value at the same place.
WellFormed(e, a, m0, m1, d) ==
    /\ e \in Maps
    /\ a \in Seq(Entries) /\ m0 \in Seq(Entries)
    /\ m1 \in Seq(Entries) /\ d \in Seq(Entries)
    /\ Once(a) /\ Once(m1) /\ Once(d) /\ SameKeys(m0, m1)
    /\ \A k \in Key : /\ In(a, k) => e[k] = None /\ ~In(m1, k) /\ ~In(d, k)
                      /\ In(m1, k) => e[k] = None /\ ~In(d, k)
                      /\ In(d, k) => e[k] = None

\* What the lists of a table say is in the table and what will be are maps; a
\* key to be added is not in the table, a key to be modified or deleted is.
LEMMA MapsLemma ==
    ASSUME NEW e, NEW a, NEW m0, NEW m1, NEW d, WellFormed(e, a, m0, m1, d)
    PROVE  /\ UpdatedMap(e, a, m1) \in Maps /\ KeptMap(e, m0, d) \in Maps
           /\ Once(m0) /\ \A k : In(m0, k) <=> In(m1, k)
           /\ \A k : In(a, k) => k \in Key /\ KeptMap(e, m0, d)[k] = None
           /\ \A k : In(m0, k) => k \in Key /\ KeptMap(e, m0, d)[k] = Find(m0, k)
                                           /\ KeptMap(e, m0, d)[k] # None
           /\ \A k : In(d, k) => k \in Key /\ KeptMap(e, m0, d)[k] = Find(d, k)
                                          /\ KeptMap(e, m0, d)[k] # None
           /\ \A k \in Key : ~In(m0, k) /\ ~In(d, k) => KeptMap(e, m0, d)[k] = e[k]
<1>1. Once(m0) /\ \A k : In(m0, k) <=> In(m1, k)
  BY SameKeysLemma DEF WellFormed
<1>2. \A k : In(a, k) => k \in Key /\ Find(a, k) \in Action
  BY PosFind DEF WellFormed
<1>3. \A k : In(m0, k) => k \in Key /\ Find(m0, k) \in Action
  BY PosFind DEF WellFormed
<1>4. \A k : In(m1, k) => k \in Key /\ Find(m1, k) \in Action
  BY PosFind DEF WellFormed
<1>5. \A k : In(d, k) => k \in Key /\ Find(d, k) \in Action
  BY PosFind DEF WellFormed
<1>6. UpdatedMap(e, a, m1) \in Maps
  BY <1>2, <1>4 DEF UpdatedMap, Maps, WellFormed
<1>7. KeptMap(e, m0, d) \in Maps
  BY <1>3, <1>5 DEF KeptMap, Maps, WellFormed
<1>8. \A k : In(a, k) => k \in Key /\ KeptMap(e, m0, d)[k] = None
  BY <1>1, <1>2 DEF KeptMap, WellFormed
<1>9. \A k : In(m0, k) => k \in Key /\ KeptMap(e, m0, d)[k] = Find(m0, k)
                                   /\ KeptMap(e, m0, d)[k] # None
  BY <1>3, NoneAssumption DEF KeptMap
<1>10. \A k : In(d, k) => k \in Key /\ KeptMap(e, m0, d)[k] = Find(d, k)
                                   /\ KeptMap(e, m0, d)[k] # None
  BY <1>1, <1>5, NoneAssumption DEF KeptMap, WellFormed
<1>11. \A k \in Key : ~In(m0, k) /\ ~In(d, k) => KeptMap(e, m0, d)[k] = e[k]
  BY DEF KeptMap
<1> QED BY <1>1, <1>6, <1>7, <1>8, <1>9, <1>10, <1>11

\* An entry that is in the table is modified.
LEMMA ModifyKeeps ==
    ASSUME NEW e, NEW a, NEW m0, NEW m1, NEW d, WellFormed(e, a, m0, m1, d),
           NEW x \in Entries, e[x.key] # None
    PROVE  LET en  == [e EXCEPT ![x.key] = None]
               m0n == Append(m0, [key |-> x.key, action |-> e[x.key]])
               m1n == Append(m1, x)
           IN  /\ WellFormed(en, a, m0n, m1n, d)
               /\ UpdatedMap(en, a, m1n) = [UpdatedMap(e, a, m1) EXCEPT ![x.key] = x.action]
               /\ KeptMap(en, m0n, d) = KeptMap(e, m0, d)
<1> DEFINE en  == [e EXCEPT ![x.key] = None]
           old == [key |-> x.key, action |-> e[x.key]]
           m0n == Append(m0, old)
           m1n == Append(m1, x)
<1>m. Once(m0) /\ \A j : In(m0, j) <=> In(m1, j)
  BY MapsLemma
<1>1. x.key \in Key /\ x.action \in Action /\ e \in [Key -> Action \cup {None}]
  BY DEF WellFormed, Maps, Entries
<1>2. old \in Entries /\ old.key = x.key /\ old.action = e[x.key]
  BY <1>1 DEF Entries
<1>3. ~In(a, x.key) /\ ~In(m0, x.key) /\ ~In(m1, x.key) /\ ~In(d, x.key)
  BY <1>1, <1>m DEF WellFormed
<1>4. /\ en \in Maps /\ en[x.key] = None /\ \A k \in Key : k # x.key => en[k] = e[k]
  BY <1>1 DEF Maps
<1> HIDE DEF old
<1>5. /\ m0n \in Seq(Entries) /\ Once(m0n)
      /\ \A k : In(m0n, k) <=> In(m0, k) \/ k = x.key
      /\ Find(m0n, x.key) = e[x.key]
      /\ \A k : In(m0, k) => Find(m0n, k) = Find(m0, k)
  BY <1>2, <1>3, <1>m, AppendLemma DEF WellFormed
<1>6. /\ m1n \in Seq(Entries) /\ Once(m1n)
      /\ \A k : In(m1n, k) <=> In(m1, k) \/ k = x.key
      /\ Find(m1n, x.key) = x.action
      /\ \A k : In(m1, k) => Find(m1n, k) = Find(m1, k)
  BY <1>3, AppendLemma DEF WellFormed
<1>7. SameKeys(m0n, m1n)
  BY <1>2, SameKeysAppend DEF WellFormed
<1> HIDE DEF en, m0n, m1n
<1>8. WellFormed(en, a, m0n, m1n, d)
  BY <1>3, <1>4, <1>5, <1>6, <1>7 DEF WellFormed
<1>9. UpdatedMap(en, a, m1n) = [UpdatedMap(e, a, m1) EXCEPT ![x.key] = x.action]
  BY <1>1, <1>3, <1>4, <1>6 DEF UpdatedMap
<1>10. KeptMap(en, m0n, d) = KeptMap(e, m0, d)
  BY <1>1, <1>3, <1>4, <1>5 DEF KeptMap
<1> QED BY <1>8, <1>9, <1>10 DEF en, m0n, m1n, old

\* An entry that is pending add is replaced.
LEMMA ReplaceAddKeeps ==
    ASSUME NEW e, NEW a, NEW m0, NEW m1, NEW d, WellFormed(e, a, m0, m1, d),
           NEW x \in Entries, In(a, x.key)
    PROVE  /\ WellFormed(e, Replace(a, x), m0, m1, d)
           /\ UpdatedMap(e, Replace(a, x), m1) =
                 [UpdatedMap(e, a, m1) EXCEPT ![x.key] = x.action]
<1> DEFINE n == Replace(a, x)
<1>1. x.key \in Key
  BY DEF Entries
<1>2. /\ n \in Seq(Entries) /\ Once(n) /\ \A k : In(n, k) <=> In(a, k)
      /\ Find(n, x.key) = x.action
      /\ \A k : In(a, k) /\ k # x.key => Find(n, k) = Find(a, k)
  BY ReplaceLemma DEF WellFormed
<1> HIDE DEF n
<1>3. WellFormed(e, n, m0, m1, d)
  BY <1>2 DEF WellFormed
<1>4. UpdatedMap(e, n, m1) = [UpdatedMap(e, a, m1) EXCEPT ![x.key] = x.action]
  BY <1>1, <1>2 DEF UpdatedMap
<1> QED BY <1>3, <1>4 DEF n

\* An entry that is pending modification is modified again.
LEMMA ReplaceModifyKeeps ==
    ASSUME NEW e, NEW a, NEW m0, NEW m1, NEW d, WellFormed(e, a, m0, m1, d),
           NEW x \in Entries, In(m1, x.key)
    PROVE  /\ WellFormed(e, a, m0, Replace(m1, x), d)
           /\ UpdatedMap(e, a, Replace(m1, x)) =
                 [UpdatedMap(e, a, m1) EXCEPT ![x.key] = x.action]
<1> DEFINE n == Replace(m1, x)
<1>1. x.key \in Key /\ ~In(a, x.key)
  BY DEF Entries, WellFormed
<1>2. /\ n \in Seq(Entries) /\ Once(n) /\ \A k : In(n, k) <=> In(m1, k)
      /\ Find(n, x.key) = x.action
      /\ \A k : In(m1, k) /\ k # x.key => Find(n, k) = Find(m1, k)
  BY ReplaceLemma DEF WellFormed
<1>3. SameKeys(m0, n)
  BY SameKeysReplace DEF WellFormed
<1> HIDE DEF n
<1>4. WellFormed(e, a, m0, n, d)
  BY <1>2, <1>3 DEF WellFormed
<1>5. UpdatedMap(e, a, n) = [UpdatedMap(e, a, m1) EXCEPT ![x.key] = x.action]
  BY <1>1, <1>2 DEF UpdatedMap
<1> QED BY <1>4, <1>5 DEF n

\* An entry that is pending delete is modified instead.
LEMMA UndeleteKeeps ==
    ASSUME NEW e, NEW a, NEW m0, NEW m1, NEW d, WellFormed(e, a, m0, m1, d),
           NEW x \in Entries, In(d, x.key)
    PROVE  LET m0n == Append(m0, [key |-> x.key, action |-> Find(d, x.key)])
               m1n == Append(m1, x)
               dn  == Remove(d, x.key)
           IN  /\ WellFormed(e, a, m0n, m1n, dn)
               /\ UpdatedMap(e, a, m1n) = [UpdatedMap(e, a, m1) EXCEPT ![x.key] = x.action]
               /\ KeptMap(e, m0n, dn) = KeptMap(e, m0, d)
<1> DEFINE old == [key |-> x.key, action |-> Find(d, x.key)]
           m0n == Append(m0, old)
           m1n == Append(m1, x)
           dn  == Remove(d, x.key)
<1>m. Once(m0) /\ \A j : In(m0, j) <=> In(m1, j)
  BY MapsLemma
<1>1. x.key \in Key /\ x.action \in Action /\ e[x.key] = None
  BY DEF WellFormed, Entries
<1>2. old \in Entries /\ old.key = x.key /\ old.action = Find(d, x.key)
  BY <1>1, PosFind DEF Entries, WellFormed
<1>3. ~In(a, x.key) /\ ~In(m0, x.key) /\ ~In(m1, x.key)
  BY <1>1, <1>m DEF WellFormed
<1> HIDE DEF old
<1>4. /\ m0n \in Seq(Entries) /\ Once(m0n)
      /\ \A k : In(m0n, k) <=> In(m0, k) \/ k = x.key
      /\ Find(m0n, x.key) = Find(d, x.key)
      /\ \A k : In(m0, k) => Find(m0n, k) = Find(m0, k)
  BY <1>2, <1>3, <1>m, AppendLemma DEF WellFormed
<1>5. /\ m1n \in Seq(Entries) /\ Once(m1n)
      /\ \A k : In(m1n, k) <=> In(m1, k) \/ k = x.key
      /\ Find(m1n, x.key) = x.action
      /\ \A k : In(m1, k) => Find(m1n, k) = Find(m1, k)
  BY <1>3, AppendLemma DEF WellFormed
<1>6. SameKeys(m0n, m1n)
  BY <1>2, SameKeysAppend DEF WellFormed
<1>7. /\ dn \in Seq(Entries) /\ Once(dn)
      /\ \A k : In(dn, k) <=> In(d, k) /\ k # x.key
      /\ \A k : In(d, k) /\ k # x.key => Find(dn, k) = Find(d, k)
  BY RemoveLemma DEF WellFormed
<1> HIDE DEF m0n, m1n, dn
<1>8. WellFormed(e, a, m0n, m1n, dn)
  BY <1>1, <1>3, <1>4, <1>5, <1>6, <1>7 DEF WellFormed
<1>9. UpdatedMap(e, a, m1n) = [UpdatedMap(e, a, m1) EXCEPT ![x.key] = x.action]
  BY <1>1, <1>3, <1>5 DEF UpdatedMap
<1>10. KeptMap(e, m0n, dn) = KeptMap(e, m0, d)
  BY <1>1, <1>3, <1>4, <1>7 DEF KeptMap
<1> QED BY <1>8, <1>9, <1>10 DEF m0n, m1n, dn, old

\* A new entry.
LEMMA AddKeeps ==
    ASSUME NEW e, NEW a, NEW m0, NEW m1, NEW d, WellFormed(e, a, m0, m1, d),
           NEW x \in Entries, e[x.key] = None,
           ~In(a, x.key), ~In(m1, x.key), ~In(d, x.key)
    PROVE  /\ WellFormed(e, Append(a, x), m0, m1, d)
           /\ UpdatedMap(e, Append(a, x), m1) =
                 [UpdatedMap(e, a, m1) EXCEPT ![x.key] = x.action]
<1> DEFINE n == Append(a, x)
<1>1. x.key \in Key
  BY DEF Entries
<1>2. /\ n \in Seq(Entries) /\ Once(n)
      /\ \A k : In(n, k) <=> In(a, k) \/ k = x.key
      /\ Find(n, x.key) = x.action
      /\ \A k : In(a, k) => Find(n, k) = Find(a, k)
  BY AppendLemma DEF WellFormed
<1> HIDE DEF n
<1>3. WellFormed(e, n, m0, m1, d)
  BY <1>2 DEF WellFormed
<1>4. UpdatedMap(e, n, m1) = [UpdatedMap(e, a, m1) EXCEPT ![x.key] = x.action]
  BY <1>1, <1>2 DEF UpdatedMap
<1> QED BY <1>3, <1>4 DEF n

\* An entry that is in the table is deleted.
LEMMA DeleteKeeps ==
    ASSUME NEW e, NEW a, NEW m0, NEW m1, NEW d, WellFormed(e, a, m0, m1, d),
           NEW k \in Key, e[k] # None
    PROVE  LET en == [e EXCEPT ![k] = None]
               dn == Append(d, [key |-> k, action |-> e[k]])
           IN  /\ WellFormed(en, a, m0, m1, dn)
               /\ UpdatedMap(en, a, m1) = [UpdatedMap(e, a, m1) EXCEPT ![k] = None]
               /\ KeptMap(en, m0, dn) = KeptMap(e, m0, d)
<1> DEFINE en  == [e EXCEPT ![k] = None]
           old == [key |-> k, action |-> e[k]]
           dn  == Append(d, old)
<1>m. Once(m0) /\ \A j : In(m0, j) <=> In(m1, j)
  BY MapsLemma
<1>1. e \in [Key -> Action \cup {None}]
  BY DEF WellFormed, Maps
<1>2. old \in Entries /\ old.key = k /\ old.action = e[k]
  BY <1>1 DEF Entries
<1>3. ~In(a, k) /\ ~In(m0, k) /\ ~In(m1, k) /\ ~In(d, k)
  BY <1>m DEF WellFormed
<1>4. /\ en \in Maps /\ en[k] = None /\ \A j \in Key : j # k => en[j] = e[j]
  BY <1>1 DEF Maps
<1> HIDE DEF old
<1>5. /\ dn \in Seq(Entries) /\ Once(dn)
      /\ \A j : In(dn, j) <=> In(d, j) \/ j = k
      /\ Find(dn, k) = e[k]
      /\ \A j : In(d, j) => Find(dn, j) = Find(d, j)
  BY <1>2, <1>3, AppendLemma DEF WellFormed
<1> HIDE DEF en, dn
<1>6. WellFormed(en, a, m0, m1, dn)
  BY <1>3, <1>4, <1>5 DEF WellFormed
<1>7. UpdatedMap(en, a, m1) = [UpdatedMap(e, a, m1) EXCEPT ![k] = None]
  BY <1>3, <1>4 DEF UpdatedMap
<1>8. KeptMap(en, m0, dn) = KeptMap(e, m0, d)
  BY <1>3, <1>4, <1>5 DEF KeptMap
<1> QED BY <1>6, <1>7, <1>8 DEF en, dn, old

\* An entry that is pending add is deleted.
LEMMA DeleteAddKeeps ==
    ASSUME NEW e, NEW a, NEW m0, NEW m1, NEW d, WellFormed(e, a, m0, m1, d),
           NEW k \in Key, In(a, k)
    PROVE  /\ WellFormed(e, Remove(a, k), m0, m1, d)
           /\ UpdatedMap(e, Remove(a, k), m1) = [UpdatedMap(e, a, m1) EXCEPT ![k] = None]
<1> DEFINE n == Remove(a, k)
<1>1. ~In(m1, k) /\ e[k] = None
  BY DEF WellFormed
<1>2. /\ n \in Seq(Entries) /\ Once(n)
      /\ \A j : In(n, j) <=> In(a, j) /\ j # k
      /\ \A j : In(a, j) /\ j # k => Find(n, j) = Find(a, j)
  BY RemoveLemma DEF WellFormed
<1> HIDE DEF n
<1>3. WellFormed(e, n, m0, m1, d)
  BY <1>2 DEF WellFormed
<1>4. UpdatedMap(e, n, m1) = [UpdatedMap(e, a, m1) EXCEPT ![k] = None]
  BY <1>1, <1>2 DEF UpdatedMap
<1> QED BY <1>3, <1>4 DEF n

\* An entry that is pending modification is deleted.
LEMMA DeleteModifyKeeps ==
    ASSUME NEW e, NEW a, NEW m0, NEW m1, NEW d, WellFormed(e, a, m0, m1, d),
           NEW k \in Key, In(m1, k)
    PROVE  LET m0n == Remove(m0, k)
               m1n == Remove(m1, k)
               dn  == Append(d, [key |-> k, action |-> Find(m0, k)])
           IN  /\ WellFormed(e, a, m0n, m1n, dn)
               /\ UpdatedMap(e, a, m1n) = [UpdatedMap(e, a, m1) EXCEPT ![k] = None]
               /\ KeptMap(e, m0n, dn) = KeptMap(e, m0, d)
<1> DEFINE m0n == Remove(m0, k)
           m1n == Remove(m1, k)
           old == [key |-> k, action |-> Find(m0, k)]
           dn  == Append(d, old)
<1>m. Once(m0) /\ \A j : In(m0, j) <=> In(m1, j)
  BY MapsLemma
<1>1. ~In(a, k) /\ e[k] = None /\ In(m0, k) /\ ~In(d, k)
  BY <1>m DEF WellFormed
<1>2. old \in Entries /\ old.key = k /\ old.action = Find(m0, k)
  BY <1>1, PosFind DEF Entries, WellFormed
<1> HIDE DEF old
<1>3. /\ m0n \in Seq(Entries) /\ Once(m0n)
      /\ \A j : In(m0n, j) <=> In(m0, j) /\ j # k
      /\ \A j : In(m0, j) /\ j # k => Find(m0n, j) = Find(m0, j)
  BY <1>1, <1>m, RemoveLemma DEF WellFormed
<1>4. /\ m1n \in Seq(Entries) /\ Once(m1n)
      /\ \A j : In(m1n, j) <=> In(m1, j) /\ j # k
      /\ \A j : In(m1, j) /\ j # k => Find(m1n, j) = Find(m1, j)
  BY <1>1, RemoveLemma DEF WellFormed
<1>5. SameKeys(m0n, m1n)
  BY SameKeysRemove DEF WellFormed
<1>6. /\ dn \in Seq(Entries) /\ Once(dn)
      /\ \A j : In(dn, j) <=> In(d, j) \/ j = k
      /\ Find(dn, k) = Find(m0, k)
      /\ \A j : In(d, j) => Find(dn, j) = Find(d, j)
  BY <1>1, <1>2, AppendLemma DEF WellFormed
<1> HIDE DEF m0n, m1n, dn
<1>7. WellFormed(e, a, m0n, m1n, dn)
  BY <1>1, <1>3, <1>4, <1>5, <1>6 DEF WellFormed
<1>8. UpdatedMap(e, a, m1n) = [UpdatedMap(e, a, m1) EXCEPT ![k] = None]
  BY <1>1, <1>4 DEF UpdatedMap
<1>9. KeptMap(e, m0n, dn) = KeptMap(e, m0, d)
  <2>1. \A j \in Key : In(m0, j) => ~In(d, j)
    BY <1>m DEF WellFormed
  <2> QED BY <1>1, <1>3, <1>6, <2>1 DEF KeptMap
<1> QED BY <1>7, <1>8, <1>9 DEF m0n, m1n, dn, old

\* The lists are emptied.
LEMMA ClearKeeps ==
    ASSUME NEW m \in Maps
    PROVE  /\ WellFormed(m, <<>>, <<>>, <<>>, <<>>)
           /\ UpdatedMap(m, <<>>, <<>>) = m /\ KeptMap(m, <<>>, <<>>) = m
BY NoneIn DEF WellFormed, UpdatedMap, KeptMap, Maps

----------------------------------------------------------------------------
(* What a table that is updated in place makes of its lists.               *)

\* The first n entries of the list are put into the map.
Put(m, list, n) ==
    [k \in Key |-> IF \E i \in 1 .. n : list[i].key = k THEN Find(list, k) ELSE m[k]]

\* The keys of a prefix of a list are in the list.
LEMMA FirstN ==
    ASSUME NEW list \in Seq(Entries)
    PROVE  /\ Len(list) \in Nat /\ DOMAIN list = 1 .. Len(list)
           /\ \A k : (\E i \in 1 .. Len(list) : list[i].key = k) <=> In(list, k)
           /\ \A n \in 0 .. Len(list) : \A k : (\E i \in 1 .. n : list[i].key = k) => In(list, k)
<1>1. Len(list) \in Nat /\ DOMAIN list = 1 .. Len(list)
  BY LenProperties
<1>2. \A n \in 0 .. Len(list) : 1 .. n \subseteq DOMAIN list
  BY <1>1
<1> QED BY <1>1, <1>2 DEF In

\* Admitted counts entries that fit; it counts all of them iff all fit.
LEMMA AdmittedLemma ==
    ASSUME NEW t, NEW m, NEW p, NEW list \in Seq(Entries)
    PROVE  /\ Admitted(t, m, p, list) \in 0 .. Len(list)
           /\ \A i \in 1 .. Admitted(t, m, p, list) : Fits(t, m, p, list, i)
           /\ Admitted(t, m, p, list) = Len(list) <=>
                 \A i \in DOMAIN list : Fits(t, m, p, list, i)
<1>1. Len(list) \in Nat /\ DOMAIN list = 1 .. Len(list)
  BY LenProperties
<1>2. CASE \A i \in DOMAIN list : Fits(t, m, p, list, i)
  BY <1>1, <1>2 DEF Admitted
<1>3. CASE \E i \in DOMAIN list : ~Fits(t, m, p, list, i)
  <2> DEFINE T == {i \in 1 .. Len(list) : ~Fits(t, m, p, list, i)}
             P(i) == ~Fits(t, m, p, list, i) /\ \A j \in 1 .. i - 1 : Fits(t, m, p, list, j)
  <2>1. T \in SUBSET Nat /\ T # {}
    BY <1>1, <1>3
  <2>2. PICK x \in T : \A y \in T : x <= y
    <3> HIDE DEF T
    <3> QED BY <2>1, Least
  <2>3. x \in 1 .. Len(list) /\ P(x)
    <3>1. x \in 1 .. Len(list) /\ ~Fits(t, m, p, list, x)
      BY <2>2
    <3>2. ASSUME NEW j \in 1 .. x - 1, ~Fits(t, m, p, list, j) PROVE FALSE
      <4>1. j \in 1 .. Len(list) /\ ~(x <= j)
        BY <1>1, <3>1
      <4> QED BY <2>2, <3>2, <4>1
    <3> QED BY <3>1, <3>2
  <2>4. PICK c \in DOMAIN list : c = (CHOOSE i \in DOMAIN list : P(i)) /\ P(c)
    <3> HIDE DEF P
    <3> QED BY <1>1, <2>3
  <2>5. Admitted(t, m, p, list) = c - 1
    BY <1>3, <2>4 DEF Admitted
  <2> QED BY <1>1, <1>3, <2>4, <2>5
<1> QED BY <1>2, <1>3

\* Additions and deletions make a map of a map.
LEMMA MapsStay ==
    ASSUME NEW t, NEW m \in Maps, NEW p, NEW list \in Seq(Entries), NEW n \in 0 .. Len(list)
    PROVE  AddAll(t, m, p, list, n) \in Maps /\ DelAll(m, list, n) \in Maps
<1>1. \A k \in Key : (\E i \in 1 .. n : list[i].key = k) => Find(list, k) \in Action
  <2>1. \A k : In(list, k) => Find(list, k) \in Action
    BY PosFind
  <2> QED BY <2>1, FirstN
<1>2. AddAll(t, m, p, list, n) \in Maps
  BY <1>1 DEF AddAll, Maps
<1>3. DelAll(m, list, n) \in Maps
  BY DEF DelAll, Maps
<1> QED BY <1>2, <1>3

\* Entries that all fit are all put into the map.
LEMMA AddAllPut ==
    ASSUME NEW t, NEW m, NEW p, NEW list, NEW n, \A i \in 1 .. n : Fits(t, m, p, list, i)
    PROVE  AddAll(t, m, p, list, n) = Put(m, list, n)
BY DEF AddAll, Put

\* Entries whose keys are in the map fit.
LEMMA AddAllPresent ==
    ASSUME NEW t, NEW m, NEW p, NEW list \in Seq(Entries), NEW n \in 0 .. Len(list),
           \A k : In(list, k) => m[k] # None
    PROVE  /\ \A i \in DOMAIN list : Fits(t, m, p, list, i)
           /\ AddAll(t, m, p, list, n) = Put(m, list, n)
<1>1. \A i \in DOMAIN list : Fits(t, m, p, list, i)
  BY DEF Fits, In
<1>2. \A i \in 1 .. n : Fits(t, m, p, list, i)
  BY <1>1, FirstN
<1> QED BY <1>1, <1>2, AddAllPut

\* The whole update: modifications never fail, and it is done completely or
\* stops after some of the additions.
LEMMA UpdateMaps ==
    ASSUME NEW t, NEW e, NEW a, NEW m0, NEW m1, NEW d, NEW p, WellFormed(e, a, m0, m1, d)
    PROVE  LET K == KeptMap(e, m0, d)
               P == Put(K, a, Len(a))
           IN  /\ \A i \in DOMAIN m1 : Fits(t, P, p, m1, i)
               /\ DelAll(AddAll(t, P, p, m1, Len(m1)), d, Len(d)) = UpdatedMap(e, a, m1)
<1> DEFINE K == KeptMap(e, m0, d)
           P == Put(K, a, Len(a))
           Q == Put(P, m1, Len(m1))
<1>0. /\ e \in Maps /\ a \in Seq(Entries) /\ m1 \in Seq(Entries) /\ d \in Seq(Entries)
      /\ \A k \in Key : /\ In(a, k) => e[k] = None /\ ~In(m1, k) /\ ~In(d, k)
                        /\ In(m1, k) => e[k] = None /\ ~In(d, k)
                        /\ In(d, k) => e[k] = None
  BY DEF WellFormed
<1>1. /\ \A k : In(m1, k) => k \in Key /\ K[k] # None
      /\ \A k \in Key : ~In(m1, k) /\ ~In(d, k) => K[k] = e[k]
  BY MapsLemma
<1>2. \A k \in Key : P[k] = IF In(a, k) THEN Find(a, k) ELSE K[k]
  BY <1>0, FirstN DEF Put
<1> HIDE DEF P, K
<1>3. \A k : In(m1, k) => P[k] # None
  BY <1>0, <1>1, <1>2
<1>4. /\ \A i \in DOMAIN m1 : Fits(t, P, p, m1, i)
      /\ AddAll(t, P, p, m1, Len(m1)) = Q
  <2>1. Len(m1) \in 0 .. Len(m1)
    BY <1>0, FirstN
  <2> QED BY <1>0, <1>3, <2>1, AddAllPresent
<1>5. \A k \in Key : Q[k] = IF In(m1, k) THEN Find(m1, k) ELSE P[k]
  BY <1>0, FirstN DEF Put
<1> HIDE DEF Q
<1>6. DelAll(Q, d, Len(d)) = [k \in Key |-> IF In(d, k) THEN None ELSE Q[k]]
  BY <1>0, FirstN DEF DelAll
<1>7. DelAll(Q, d, Len(d)) = UpdatedMap(e, a, m1)
  BY <1>0, <1>1, <1>2, <1>5, <1>6 DEF UpdatedMap
<1> QED BY <1>4, <1>7 DEF P, K

----------------------------------------------------------------------------
(* What the rollback makes of it: whatever rollfwd0 did, the old entries.  *)

UndoneMap(t, m, p, a, m0, d, na, nm, nd) ==
    DelAll(AddAll(t, AddAll(t, m, p, d, nd), PlacedAll(t, p, d)[nd], m0, nm), a, na)

\* After a complete update, if there is room for the entries that are put back.
LEMMA UndoComplete ==
    ASSUME NEW t \in Table, NEW e, NEW a, NEW m0, NEW m1, NEW d,
           WellFormed(e, a, m0, m1, d), NEW p,
           \A i \in 1 .. Len(d) : Fits(t, UpdatedMap(e, a, m1), p, d, i)
    PROVE  UndoneMap(t, UpdatedMap(e, a, m1), p, a, m0, d, Len(a), Len(m0), Len(d))
             = KeptMap(e, m0, d)
<1> DEFINE K == KeptMap(e, m0, d)
           U == UpdatedMap(e, a, m1)
           X == Put(U, d, Len(d))
           q == PlacedAll(t, p, d)[Len(d)]
           Y == Put(X, m0, Len(m0))
<1>0. /\ e \in Maps /\ a \in Seq(Entries) /\ m1 \in Seq(Entries) /\ d \in Seq(Entries)
      /\ m0 \in Seq(Entries) /\ Once(d)
      /\ \A k \in Key : /\ In(a, k) => e[k] = None /\ ~In(m1, k) /\ ~In(d, k)
                        /\ In(m1, k) => e[k] = None /\ ~In(d, k)
                        /\ In(d, k) => e[k] = None
  BY DEF WellFormed
<1>1. /\ K \in Maps /\ U \in Maps
      /\ \A k : In(m0, k) <=> In(m1, k)
      /\ \A k : In(a, k) => k \in Key /\ K[k] = None
      /\ \A k : In(m0, k) => k \in Key /\ K[k] = Find(m0, k) /\ K[k] # None
      /\ \A k : In(d, k) => k \in Key /\ K[k] = Find(d, k) /\ K[k] # None
      /\ \A k \in Key : ~In(m0, k) /\ ~In(d, k) => K[k] = e[k]
  BY MapsLemma
<1>2. \A k \in Key : U[k] = IF In(a, k) THEN Find(a, k)
                           ELSE IF In(m1, k) THEN Find(m1, k) ELSE e[k]
  BY DEF UpdatedMap
<1>5. AddAll(t, U, p, d, Len(d)) = X
  BY AddAllPut
<1> HIDE DEF K, U
<1>6. \A k \in Key : X[k] = IF In(d, k) THEN Find(d, k) ELSE U[k]
  BY <1>0, FirstN DEF Put
<1> HIDE DEF X
<1>7. \A k : In(m0, k) => X[k] # None
  <2>1. \A k : In(m1, k) => k \in Key /\ Find(m1, k) \in Action
    BY <1>0, PosFind
  <2> QED BY <1>0, <1>1, <1>2, <1>6, <2>1, NoneAssumption
<1> HIDE DEF q
<1>8. AddAll(t, X, q, m0, Len(m0)) = Y
  <2>1. \A i \in 1 .. Len(m0) : In(m0, m0[i].key)
    BY <1>0, FirstN DEF In
  <2>2. \A i \in 1 .. Len(m0) : Fits(t, X, q, m0, i)
    BY <1>7, <2>1 DEF Fits
  <2> QED BY <2>2, AddAllPut
<1>9. \A k \in Key : Y[k] = IF In(m0, k) THEN Find(m0, k) ELSE X[k]
  BY <1>0, FirstN DEF Put
<1> HIDE DEF Y
<1>10. DelAll(Y, a, Len(a)) = [k \in Key |-> IF In(a, k) THEN None ELSE Y[k]]
  BY <1>0, FirstN DEF DelAll
<1>11. DelAll(Y, a, Len(a)) = K
  <2>1. \A k \in Key : (IF In(a, k) THEN None ELSE Y[k]) = K[k]
    BY <1>0, <1>1, <1>2, <1>6, <1>9
  <2>2. K = [k \in Key |-> K[k]]
    BY <1>1 DEF Maps
  <2> QED BY <1>10, <2>1, <2>2
<1>12. UndoneMap(t, U, p, a, m0, d, Len(a), Len(m0), Len(d)) = K
  BY <1>5, <1>8, <1>11 DEF UndoneMap, q
<1> QED BY <1>12 DEF K, U

\* After an update that stopped in the additions.
LEMMA UndoPartial ==
    ASSUME NEW t, NEW e, NEW a, NEW m0, NEW m1, NEW d,
           WellFormed(e, a, m0, m1, d), NEW na \in 0 .. Len(a), NEW p
    PROVE  UndoneMap(t, Put(KeptMap(e, m0, d), a, na), p, a, m0, d, na, 0, 0)
             = KeptMap(e, m0, d)
<1> DEFINE K == KeptMap(e, m0, d)
           P == Put(K, a, na)
           q == PlacedAll(t, p, d)[0]
<1>0. a \in Seq(Entries)
  BY DEF WellFormed
<1>1. K \in Maps /\ \A k : In(a, k) => k \in Key /\ K[k] = None
  BY MapsLemma
<1> HIDE DEF K
<1>2. \A i \in 1 .. 0 : FALSE
  OBVIOUS
<1>3. P = [k \in Key |-> P[k]]
  BY DEF Put
<1>4. AddAll(t, P, p, d, 0) = P
  <2> HIDE DEF P
  <2> QED BY <1>2, <1>3 DEF AddAll
<1>5. AddAll(t, P, q, m0, 0) = P
  <2> HIDE DEF P
  <2> QED BY <1>2, <1>3 DEF AddAll
<1>6. DelAll(P, a, na) = K
  <2>1. \A k \in Key : (\E i \in 1 .. na : a[i].key = k) => K[k] = None
    BY <1>0, <1>1, FirstN
  <2>2. K = [k \in Key |-> K[k]]
    BY <1>1 DEF Maps
  <2> QED BY <2>1, <2>2 DEF DelAll, Put
<1>7. UndoneMap(t, P, p, a, m0, d, na, 0, 0) = K
  <2> HIDE DEF P
  <2> QED BY <1>4, <1>5, <1>6 DEF UndoneMap
<1> QED BY <1>7 DEF K

\* Putting back values that are there already changes nothing.
LEMMA PutSame ==
    ASSUME NEW t, NEW m \in Maps, NEW p, NEW list \in Seq(Entries), NEW n \in 0 .. Len(list),
           \A k : In(list, k) => m[k] = Find(list, k) /\ m[k] # None
    PROVE  AddAll(t, m, p, list, n) = m
<1>1. AddAll(t, m, p, list, n) = Put(m, list, n)
  BY AddAllPresent
<1>2. \A k \in Key : (\E i \in 1 .. n : list[i].key = k) => m[k] = Find(list, k)
  BY FirstN
<1>3. m = [k \in Key |-> m[k]]
  BY DEF Maps
<1> QED BY <1>1, <1>2, <1>3 DEF Put

\* On a table that rollfwd0 did not reach, whatever its counters say.
LEMMA UndoNothing ==
    ASSUME NEW t, NEW e, NEW a, NEW m0, NEW m1, NEW d,
           WellFormed(e, a, m0, m1, d), NEW na \in 0 .. Len(a),
           NEW nm \in 0 .. Len(m0), NEW nd \in 0 .. Len(d), NEW p
    PROVE  UndoneMap(t, KeptMap(e, m0, d), p, a, m0, d, na, nm, nd) = KeptMap(e, m0, d)
<1> DEFINE K == KeptMap(e, m0, d)
           q == PlacedAll(t, p, d)[nd]
<1>0. a \in Seq(Entries) /\ m0 \in Seq(Entries) /\ d \in Seq(Entries)
  BY DEF WellFormed
<1>1. /\ K \in Maps
      /\ \A k : In(a, k) => k \in Key /\ K[k] = None
      /\ \A k : In(m0, k) => K[k] = Find(m0, k) /\ K[k] # None
      /\ \A k : In(d, k) => K[k] = Find(d, k) /\ K[k] # None
  BY MapsLemma
<1> HIDE DEF K
<1>2. AddAll(t, K, p, d, nd) = K
  BY <1>0, <1>1, PutSame
<1>3. AddAll(t, K, q, m0, nm) = K
  BY <1>0, <1>1, PutSame
<1>4. DelAll(K, a, na) = K
  <2>1. \A k \in Key : (\E i \in 1 .. na : a[i].key = k) => K[k] = None
    BY <1>0, <1>1, FirstN
  <2>2. K = [k \in Key |-> K[k]]
    BY <1>1 DEF Maps
  <2> QED BY <2>1, <2>2 DEF DelAll
<1>5. UndoneMap(t, K, p, a, m0, d, na, nm, nd) = K
  BY <1>2, <1>3, <1>4 DEF UndoneMap
<1> QED BY <1>5 DEF K

----------------------------------------------------------------------------
(* The inductive invariant.                                                *)

\* The lists of a table are well formed.
ListsOf(t) ==
    WellFormed(entries[t], pending_add[t], pending_modify0[t], pending_modify1[t],
               pending_delete[t])

\* Both copies of a table are what the lists say is in it.
Rest(t) == obj[0][t] = Kept(t) /\ obj[1][t] = Kept(t)

\* The pending work of a table is done in copy new and not in copy old.
Split(t, new, old) ==
    /\ obj[new][t] = Updated(t) /\ obj[old][t] = Kept(t)
    /\ t \notin InPlace /\ table_is_update_pending(t) => ~shared[t]

\* The counters of rollfwd0 after a complete update.
Counted(t) ==
    t \in InPlace /\ table_is_update_pending(t) =>
        /\ n_add[t] = Len(pending_add[t])
        /\ n_modify[t] = Len(pending_modify0[t])
        /\ n_delete[t] = Len(pending_delete[t])

\* There is room for the entries that the rollback of a table puts back.
PutBack(t) ==
    \A i \in 1 .. Min(n_delete[t], Len(pending_delete[t])) :
        Fits(t, obj[ts_next][t], place[ts_next][t], pending_delete[t], i)

\* The copy in use has the old entries, and the rollback brings them back to
\* the other one if there is room.
Undoable(t) ==
    /\ obj[ts][t] = Kept(t)
    /\ ~table_is_update_pending(t) => obj[ts_next][t] = Kept(t)
    /\ t \in InPlace /\ table_is_update_pending(t) => (PutBack(t) => Undone(t).map = Kept(t))

Lists == \A t \in Table : ListsOf(t)

\* The places of all tables in two copies.
Shape(f) == f = [c \in 0 .. 1 |-> [t \in Table |-> f[c][t]]]

\* An object that is updated in place always exists.
Objects ==
    /\ \A c \in 0 .. 1 : \A t \in InPlace : obj[c][t] \in Maps
    /\ Shape(place)

\* Packets in flight use the copy in use; in the grace period both.
InFlight == \A w \in Thread : pc # "grace" => held[w] \in {None, ts}

\* Where the commit is, and what the copies of the tables of S contain then.
Phase(S) ==
    /\ pc \in {"sync", "back"} => tid \in Table
    /\ pc = "idle" => \A t \in S : Rest(t)
    /\ pc = "fwd" => \A t \in S : IF t < tid THEN Split(t, ts_next, ts) /\ Counted(t) ELSE Rest(t)
    /\ pc = "grace" => \A t \in S : Split(t, ts, ts_next)
    /\ pc = "sync" => \A t \in S : IF t < tid THEN Rest(t) ELSE Split(t, ts, ts_next)
    /\ pc = "back" => \A t \in S : IF t < tid THEN Rest(t) ELSE Undoable(t)

\* The default actions of the two copies.
Defaults ==
    \A t \in Table :
        IF pc = "grace" \/ (pc = "sync" /\ t >= tid)
        THEN dflt[ts][t] = Default(t, ts_next)
        ELSE dflt[0][t] = dflt[1][t]

IndInv(S) == TypeOK /\ Lists /\ Objects /\ InFlight /\ Phase(S) /\ Defaults

----------------------------------------------------------------------------
(* Frames.                                                                 *)

\* What depends on the lists of one table only.
LEMMA SameLists ==
    ASSUME NEW t, entries'[t] = entries[t], pending_add'[t] = pending_add[t],
           pending_modify0'[t] = pending_modify0[t],
           pending_modify1'[t] = pending_modify1[t], pending_delete'[t] = pending_delete[t]
    PROVE  /\ Updated(t)' = Updated(t) /\ Kept(t)' = Kept(t)
           /\ ListsOf(t)' <=> ListsOf(t)
           /\ table_is_update_pending(t)' <=> table_is_update_pending(t)
<1>1. Updated(t)' = Updated(t) /\ Kept(t)' = Kept(t)
  BY DEF Updated, Kept
<1>2. ListsOf(t)' <=> ListsOf(t)
  BY DEF ListsOf
<1>3. table_is_update_pending(t)' <=> table_is_update_pending(t)
  BY DEF table_is_update_pending
<1> QED BY <1>1, <1>2, <1>3

\* The lists of table t become these.
ListsBecome(t, e, a, m0, m1, d) ==
    /\ WellFormed(e, a, m0, m1, d)
    /\ entries' = [entries EXCEPT ![t] = e]
    /\ pending_add' = [pending_add EXCEPT ![t] = a]
    /\ pending_modify0' = [pending_modify0 EXCEPT ![t] = m0]
    /\ pending_modify1' = [pending_modify1 EXCEPT ![t] = m1]
    /\ pending_delete' = [pending_delete EXCEPT ![t] = d]

\* After the step table t is going to be U and is K; the others are as before.
Changed(t, U, K) ==
    /\ entries' \in [Table -> Maps] /\ pending_add' \in [Table -> Seq(Entries)]
    /\ pending_modify0' \in [Table -> Seq(Entries)]
    /\ pending_modify1' \in [Table -> Seq(Entries)]
    /\ pending_delete' \in [Table -> Seq(Entries)]
    /\ Lists'
    /\ Updated(t)' = U /\ Kept(t)' = K
    /\ \A u \in Table \ {t} :
          /\ Updated(u)' = Updated(u) /\ Kept(u)' = Kept(u)
          /\ table_is_update_pending(u)' <=> table_is_update_pending(u)

\* The lists of one table change.
LEMMA OneTable ==
    ASSUME TypeOK, Lists, NEW t \in Table, NEW e, NEW a, NEW m0, NEW m1, NEW d,
           ListsBecome(t, e, a, m0, m1, d)
    PROVE  Changed(t, UpdatedMap(e, a, m1), KeptMap(e, m0, d))
<1> USE DEF ListsBecome
<1>1. /\ entries' \in [Table -> Maps] /\ pending_add' \in [Table -> Seq(Entries)]
      /\ pending_modify0' \in [Table -> Seq(Entries)]
      /\ pending_modify1' \in [Table -> Seq(Entries)]
      /\ pending_delete' \in [Table -> Seq(Entries)]
  BY DEF TypeOK, WellFormed
<1>2. /\ entries'[t] = e /\ pending_add'[t] = a /\ pending_modify0'[t] = m0
      /\ pending_modify1'[t] = m1 /\ pending_delete'[t] = d
  BY DEF TypeOK
<1>3. ListsOf(t)'
  BY <1>2 DEF ListsOf
<1>4. Updated(t)' = UpdatedMap(e, a, m1) /\ Kept(t)' = KeptMap(e, m0, d)
  BY <1>2 DEF Updated, Kept, UpdatedMap, KeptMap
<1>5. ASSUME NEW u \in Table \ {t}
      PROVE  /\ Updated(u)' = Updated(u) /\ Kept(u)' = Kept(u)
             /\ ListsOf(u)' <=> ListsOf(u)
             /\ table_is_update_pending(u)' <=> table_is_update_pending(u)
  <2>1. /\ entries'[u] = entries[u] /\ pending_add'[u] = pending_add[u]
        /\ pending_modify0'[u] = pending_modify0[u]
        /\ pending_modify1'[u] = pending_modify1[u]
        /\ pending_delete'[u] = pending_delete[u]
    BY DEF TypeOK
  <2> QED BY <2>1, SameLists
<1>6. Lists'
  BY <1>3, <1>5 DEF Lists
<1> QED BY <1>1, <1>4, <1>5, <1>6 DEF Changed

\* What the lists of a table say, in the terms of the lemmas above.
LEMMA Contents ==
    ASSUME Lists, NEW t \in Table
    PROVE  /\ WellFormed(entries[t], pending_add[t], pending_modify0[t],
                         pending_modify1[t], pending_delete[t])
           /\ Updated(t) = UpdatedMap(entries[t], pending_add[t], pending_modify1[t])
           /\ Kept(t) = KeptMap(entries[t], pending_modify0[t], pending_delete[t])
           /\ Updated(t) \in Maps /\ Kept(t) \in Maps
           /\ ~table_is_update_pending(t) => Updated(t) = Kept(t) /\ entries[t] = Kept(t)
<1>1. WellFormed(entries[t], pending_add[t], pending_modify0[t],
                 pending_modify1[t], pending_delete[t])
  BY DEF Lists, ListsOf
<1>2. /\ Updated(t) = UpdatedMap(entries[t], pending_add[t], pending_modify1[t])
      /\ Kept(t) = KeptMap(entries[t], pending_modify0[t], pending_delete[t])
  BY DEF Updated, Kept, UpdatedMap, KeptMap
<1>3. Updated(t) \in Maps /\ Kept(t) \in Maps
  BY <1>1, <1>2, MapsLemma
<1>4. ASSUME ~table_is_update_pending(t)
      PROVE  Updated(t) = Kept(t) /\ entries[t] = Kept(t)
  <2>1. pending_add[t] = <<>> /\ pending_modify1[t] = <<>> /\ pending_delete[t] = <<>>
    BY <1>4 DEF table_is_update_pending
  <2>2. \A k : ~In(pending_modify0[t], k)
    BY <1>1, <2>1, MapsLemma, NoneIn
  <2>3. entries[t] = [k \in Key |-> entries[t][k]]
    BY <1>1 DEF WellFormed, Maps
  <2> QED BY <2>1, <2>2, <2>3, NoneIn DEF Updated, Kept
<1> QED BY <1>1, <1>2, <1>3, <1>4

\* table_entry_add changes what will be in the table, not what is.
LEMMA AddStep ==
    ASSUME TypeOK, Lists, NEW t \in Table, NEW x \in Entries, table_entry_add(t, x)
    PROVE  Changed(t, [Updated(t) EXCEPT ![x.key] = x.action], Kept(t))
<1> DEFINE e  == entries[t]
           a  == pending_add[t]
           m0 == pending_modify0[t]
           m1 == pending_modify1[t]
           d  == pending_delete[t]
<1>0. /\ WellFormed(e, a, m0, m1, d)
      /\ Updated(t) = UpdatedMap(e, a, m1) /\ Kept(t) = KeptMap(e, m0, d)
  BY Contents
<1>s. /\ entries = [entries EXCEPT ![t] = e]
      /\ pending_add = [pending_add EXCEPT ![t] = a]
      /\ pending_modify0 = [pending_modify0 EXCEPT ![t] = m0]
      /\ pending_modify1 = [pending_modify1 EXCEPT ![t] = m1]
      /\ pending_delete = [pending_delete EXCEPT ![t] = d]
  BY DEF TypeOK
<1>k. x.key \in Key
  BY DEF Entries
<1>1. CASE /\ entries[t][x.key] # None
           /\ Modify(t, x, entries[t][x.key])
           /\ entries' = [entries EXCEPT ![t][x.key] = None]
           /\ UNCHANGED <<pending_add, pending_delete>>
  <2> DEFINE en  == [e EXCEPT ![x.key] = None]
             m0n == Append(m0, [key |-> x.key, action |-> e[x.key]])
             m1n == Append(m1, x)
  <2>1. /\ WellFormed(en, a, m0n, m1n, d)
        /\ UpdatedMap(en, a, m1n) = [UpdatedMap(e, a, m1) EXCEPT ![x.key] = x.action]
        /\ KeptMap(en, m0n, d) = KeptMap(e, m0, d)
    BY <1>0, <1>1, ModifyKeeps
  <2>2. /\ entries' = [entries EXCEPT ![t] = en]
        /\ pending_modify0' = [pending_modify0 EXCEPT ![t] = m0n]
        /\ pending_modify1' = [pending_modify1 EXCEPT ![t] = m1n]
        /\ pending_add' = [pending_add EXCEPT ![t] = a]
        /\ pending_delete' = [pending_delete EXCEPT ![t] = d]
    BY <1>1, <1>s DEF Modify, TypeOK
  <2> HIDE DEF en, m0n, m1n, e, a, m0, m1, d
  <2>3. ListsBecome(t, en, a, m0n, m1n, d)
    BY <2>1, <2>2 DEF ListsBecome
  <2>4. Changed(t, UpdatedMap(en, a, m1n), KeptMap(en, m0n, d))
    BY <2>3, OneTable
  <2> QED BY <1>0, <2>1, <2>4
<1>2. CASE /\ In(pending_add[t], x.key)
           /\ pending_add' = [pending_add EXCEPT ![t] = Replace(@, x)]
           /\ UNCHANGED <<entries, pending_modify0, pending_modify1, pending_delete>>
  <2> DEFINE an == Replace(a, x)
  <2>1. /\ WellFormed(e, an, m0, m1, d)
        /\ UpdatedMap(e, an, m1) = [UpdatedMap(e, a, m1) EXCEPT ![x.key] = x.action]
    BY <1>0, <1>2, ReplaceAddKeeps
  <2>2. /\ pending_add' = [pending_add EXCEPT ![t] = an]
        /\ entries' = [entries EXCEPT ![t] = e]
        /\ pending_modify0' = [pending_modify0 EXCEPT ![t] = m0]
        /\ pending_modify1' = [pending_modify1 EXCEPT ![t] = m1]
        /\ pending_delete' = [pending_delete EXCEPT ![t] = d]
    BY <1>2, <1>s
  <2> HIDE DEF an, e, a, m0, m1, d
  <2>3. ListsBecome(t, e, an, m0, m1, d)
    BY <2>1, <2>2 DEF ListsBecome
  <2>4. Changed(t, UpdatedMap(e, an, m1), KeptMap(e, m0, d))
    BY <2>3, OneTable
  <2> QED BY <1>0, <2>1, <2>4
<1>3. CASE /\ In(pending_modify1[t], x.key)
           /\ pending_modify1' = [pending_modify1 EXCEPT ![t] = Replace(@, x)]
           /\ UNCHANGED <<entries, pending_add, pending_modify0, pending_delete>>
  <2> DEFINE m1n == Replace(m1, x)
  <2>1. /\ WellFormed(e, a, m0, m1n, d)
        /\ UpdatedMap(e, a, m1n) = [UpdatedMap(e, a, m1) EXCEPT ![x.key] = x.action]
    BY <1>0, <1>3, ReplaceModifyKeeps
  <2>2. /\ pending_modify1' = [pending_modify1 EXCEPT ![t] = m1n]
        /\ entries' = [entries EXCEPT ![t] = e]
        /\ pending_add' = [pending_add EXCEPT ![t] = a]
        /\ pending_modify0' = [pending_modify0 EXCEPT ![t] = m0]
        /\ pending_delete' = [pending_delete EXCEPT ![t] = d]
    BY <1>3, <1>s
  <2> HIDE DEF m1n, e, a, m0, m1, d
  <2>3. ListsBecome(t, e, a, m0, m1n, d)
    BY <2>1, <2>2 DEF ListsBecome
  <2>4. Changed(t, UpdatedMap(e, a, m1n), KeptMap(e, m0, d))
    BY <2>3, OneTable
  <2> QED BY <1>0, <2>1, <2>4
<1>4. CASE /\ In(pending_delete[t], x.key)
           /\ Modify(t, x, Find(pending_delete[t], x.key))
           /\ pending_delete' = [pending_delete EXCEPT ![t] = Remove(@, x.key)]
           /\ UNCHANGED <<entries, pending_add>>
  <2> DEFINE m0n == Append(m0, [key |-> x.key, action |-> Find(d, x.key)])
             m1n == Append(m1, x)
             dn  == Remove(d, x.key)
  <2>1. /\ WellFormed(e, a, m0n, m1n, dn)
        /\ UpdatedMap(e, a, m1n) = [UpdatedMap(e, a, m1) EXCEPT ![x.key] = x.action]
        /\ KeptMap(e, m0n, dn) = KeptMap(e, m0, d)
    BY <1>0, <1>4, UndeleteKeeps
  <2>2. /\ pending_modify0' = [pending_modify0 EXCEPT ![t] = m0n]
        /\ pending_modify1' = [pending_modify1 EXCEPT ![t] = m1n]
        /\ pending_delete' = [pending_delete EXCEPT ![t] = dn]
        /\ entries' = [entries EXCEPT ![t] = e]
        /\ pending_add' = [pending_add EXCEPT ![t] = a]
    BY <1>4, <1>s DEF Modify
  <2> HIDE DEF m0n, m1n, dn, e, a, m0, m1, d
  <2>3. ListsBecome(t, e, a, m0n, m1n, dn)
    BY <2>1, <2>2 DEF ListsBecome
  <2>4. Changed(t, UpdatedMap(e, a, m1n), KeptMap(e, m0n, dn))
    BY <2>3, OneTable
  <2> QED BY <1>0, <2>1, <2>4
<1>5. CASE /\ entries[t][x.key] = None
           /\ ~In(pending_add[t], x.key) /\ ~In(pending_modify1[t], x.key)
           /\ ~In(pending_delete[t], x.key)
           /\ pending_add' = [pending_add EXCEPT ![t] = Append(@, x)]
           /\ UNCHANGED <<entries, pending_modify0, pending_modify1, pending_delete>>
  <2> DEFINE an == Append(a, x)
  <2>1. /\ WellFormed(e, an, m0, m1, d)
        /\ UpdatedMap(e, an, m1) = [UpdatedMap(e, a, m1) EXCEPT ![x.key] = x.action]
    BY <1>0, <1>5, AddKeeps
  <2>2. /\ pending_add' = [pending_add EXCEPT ![t] = an]
        /\ entries' = [entries EXCEPT ![t] = e]
        /\ pending_modify0' = [pending_modify0 EXCEPT ![t] = m0]
        /\ pending_modify1' = [pending_modify1 EXCEPT ![t] = m1]
        /\ pending_delete' = [pending_delete EXCEPT ![t] = d]
    BY <1>5, <1>s
  <2> HIDE DEF an, e, a, m0, m1, d
  <2>3. ListsBecome(t, e, an, m0, m1, d)
    BY <2>1, <2>2 DEF ListsBecome
  <2>4. Changed(t, UpdatedMap(e, an, m1), KeptMap(e, m0, d))
    BY <2>3, OneTable
  <2> QED BY <1>0, <2>1, <2>4
<1> QED BY <1>1, <1>2, <1>3, <1>4, <1>5 DEF table_entry_add

\* table_entry_delete likewise.
LEMMA DeleteStep ==
    ASSUME TypeOK, Lists, NEW t \in Table, NEW k \in Key, table_entry_delete(t, k)
    PROVE  Changed(t, [Updated(t) EXCEPT ![k] = None], Kept(t))
<1> DEFINE e  == entries[t]
           a  == pending_add[t]
           m0 == pending_modify0[t]
           m1 == pending_modify1[t]
           d  == pending_delete[t]
<1>0. /\ WellFormed(e, a, m0, m1, d)
      /\ Updated(t) = UpdatedMap(e, a, m1) /\ Kept(t) = KeptMap(e, m0, d)
  BY Contents
<1>s. /\ entries = [entries EXCEPT ![t] = e]
      /\ pending_add = [pending_add EXCEPT ![t] = a]
      /\ pending_modify0 = [pending_modify0 EXCEPT ![t] = m0]
      /\ pending_modify1 = [pending_modify1 EXCEPT ![t] = m1]
      /\ pending_delete = [pending_delete EXCEPT ![t] = d]
  BY DEF TypeOK
<1>1. CASE /\ entries[t][k] # None
           /\ pending_delete' = [pending_delete EXCEPT ![t] =
                                    Append(@, [key |-> k, action |-> entries[t][k]])]
           /\ entries' = [entries EXCEPT ![t][k] = None]
           /\ UNCHANGED <<pending_add, pending_modify0, pending_modify1>>
  <2> DEFINE en == [e EXCEPT ![k] = None]
             dn == Append(d, [key |-> k, action |-> e[k]])
  <2>1. /\ WellFormed(en, a, m0, m1, dn)
        /\ UpdatedMap(en, a, m1) = [UpdatedMap(e, a, m1) EXCEPT ![k] = None]
        /\ KeptMap(en, m0, dn) = KeptMap(e, m0, d)
    BY <1>0, <1>1, DeleteKeeps
  <2>2. /\ entries' = [entries EXCEPT ![t] = en]
        /\ pending_delete' = [pending_delete EXCEPT ![t] = dn]
        /\ pending_add' = [pending_add EXCEPT ![t] = a]
        /\ pending_modify0' = [pending_modify0 EXCEPT ![t] = m0]
        /\ pending_modify1' = [pending_modify1 EXCEPT ![t] = m1]
    BY <1>1, <1>s DEF TypeOK
  <2> HIDE DEF en, dn, e, a, m0, m1, d
  <2>3. ListsBecome(t, en, a, m0, m1, dn)
    BY <2>1, <2>2 DEF ListsBecome
  <2>4. Changed(t, UpdatedMap(en, a, m1), KeptMap(en, m0, dn))
    BY <2>3, OneTable
  <2> QED BY <1>0, <2>1, <2>4
<1>2. CASE /\ In(pending_add[t], k)
           /\ pending_add' = [pending_add EXCEPT ![t] = Remove(@, k)]
           /\ UNCHANGED <<entries, pending_modify0, pending_modify1, pending_delete>>
  <2> DEFINE an == Remove(a, k)
  <2>1. /\ WellFormed(e, an, m0, m1, d)
        /\ UpdatedMap(e, an, m1) = [UpdatedMap(e, a, m1) EXCEPT ![k] = None]
    BY <1>0, <1>2, DeleteAddKeeps
  <2>2. /\ pending_add' = [pending_add EXCEPT ![t] = an]
        /\ entries' = [entries EXCEPT ![t] = e]
        /\ pending_modify0' = [pending_modify0 EXCEPT ![t] = m0]
        /\ pending_modify1' = [pending_modify1 EXCEPT ![t] = m1]
        /\ pending_delete' = [pending_delete EXCEPT ![t] = d]
    BY <1>2, <1>s
  <2> HIDE DEF an, e, a, m0, m1, d
  <2>3. ListsBecome(t, e, an, m0, m1, d)
    BY <2>1, <2>2 DEF ListsBecome
  <2>4. Changed(t, UpdatedMap(e, an, m1), KeptMap(e, m0, d))
    BY <2>3, OneTable
  <2> QED BY <1>0, <2>1, <2>4
<1>3. CASE /\ In(pending_modify1[t], k)
           /\ pending_modify1' = [pending_modify1 EXCEPT ![t] = Remove(@, k)]
           /\ pending_modify0' = [pending_modify0 EXCEPT ![t] = Remove(@, k)]
           /\ pending_delete' = [pending_delete EXCEPT ![t] =
                    Append(@, [key |-> k, action |-> Find(pending_modify0[t], k)])]
           /\ UNCHANGED <<entries, pending_add>>
  <2> DEFINE m0n == Remove(m0, k)
             m1n == Remove(m1, k)
             dn  == Append(d, [key |-> k, action |-> Find(m0, k)])
  <2>1. /\ WellFormed(e, a, m0n, m1n, dn)
        /\ UpdatedMap(e, a, m1n) = [UpdatedMap(e, a, m1) EXCEPT ![k] = None]
        /\ KeptMap(e, m0n, dn) = KeptMap(e, m0, d)
    BY <1>0, <1>3, DeleteModifyKeeps
  <2>2. /\ pending_modify0' = [pending_modify0 EXCEPT ![t] = m0n]
        /\ pending_modify1' = [pending_modify1 EXCEPT ![t] = m1n]
        /\ pending_delete' = [pending_delete EXCEPT ![t] = dn]
        /\ entries' = [entries EXCEPT ![t] = e]
        /\ pending_add' = [pending_add EXCEPT ![t] = a]
    BY <1>3, <1>s
  <2> HIDE DEF m0n, m1n, dn, e, a, m0, m1, d
  <2>3. ListsBecome(t, e, a, m0n, m1n, dn)
    BY <2>1, <2>2 DEF ListsBecome
  <2>4. Changed(t, UpdatedMap(e, a, m1n), KeptMap(e, m0n, dn))
    BY <2>3, OneTable
  <2> QED BY <1>0, <2>1, <2>4
<1> QED BY <1>1, <1>2, <1>3 DEF table_entry_delete

----------------------------------------------------------------------------
(* rollfwd0 and rollback of a table that is updated in place, in a state   *)
(* whose lists are well formed.                                            *)

\* What rollfwd0 does to a table updated in place that has its old entries: all
\* of the pending work, or the first entries to add and nothing else.
LEMMA UpdateLemma ==
    ASSUME Lists, NEW t \in Table, NEW m \in Maps, NEW p, NEW u, u = UpdateInPlace(t, m, p)
    PROVE  /\ u.add \in 0 .. Len(pending_add[t]) /\ u.add \in Nat
           /\ u.modify \in Nat /\ u.delete \in Nat /\ u.map \in Maps
           /\ m = Kept(t) /\ u.ok =>
                 /\ u.map = Updated(t) /\ u.add = Len(pending_add[t])
                 /\ u.modify = Len(pending_modify0[t])
                 /\ u.delete = Len(pending_delete[t])
           /\ m = Kept(t) /\ ~u.ok => /\ u.map = Put(Kept(t), pending_add[t], u.add)
                                      /\ u.modify = 0 /\ u.delete = 0
<1> DEFINE e  == entries[t]
           a  == pending_add[t]
           m0 == pending_modify0[t]
           m1 == pending_modify1[t]
           d  == pending_delete[t]
           K  == Kept(t)
           na == Admitted(t, m, p, a)
           o1 == AddAll(t, m, p, a, na)
           p1 == PlacedAll(t, p, a)[na]
           nm == IF na < Len(a) THEN 0 ELSE Admitted(t, o1, p1, m1)
           o2 == AddAll(t, o1, p1, m1, nm)
           ok == na = Len(a) /\ nm = Len(m1)
           nd == IF ok THEN Len(d) ELSE 0
<1>1. /\ WellFormed(e, a, m0, m1, d) /\ K = KeptMap(e, m0, d)
      /\ Updated(t) = UpdatedMap(e, a, m1)
  BY Contents
<1>2. /\ u.ok = ok /\ u.add = na /\ u.modify = nm /\ u.delete = nd
      /\ u.map = DelAll(o2, d, nd)
  BY DEF UpdateInPlace
<1> HIDE DEF e, a, m0, m1, d, K, p1
<1>3. /\ a \in Seq(Entries) /\ m1 \in Seq(Entries) /\ d \in Seq(Entries)
      /\ Len(m0) = Len(m1)
  BY <1>1 DEF WellFormed, SameKeys
<1>4. /\ Len(a) \in Nat /\ Len(m1) \in Nat /\ Len(d) \in Nat
  BY <1>3, LenProperties
<1>5. /\ na \in 0 .. Len(a)
      /\ \A i \in 1 .. na : Fits(t, m, p, a, i)
  BY <1>3, AdmittedLemma
<1>6. o1 = Put(m, a, na) /\ o1 \in Maps
  BY <1>3, <1>5, AddAllPut, MapsStay
<1> HIDE DEF na, o1
<1>7. nm \in 0 .. Len(m1) /\ na \in Nat /\ nm \in Nat
  <2>1. Admitted(t, o1, p1, m1) \in 0 .. Len(m1)
    BY <1>3, AdmittedLemma
  <2> QED BY <1>4, <1>5, <2>1
<1>8. o2 \in Maps
  BY <1>3, <1>6, <1>7, MapsStay
<1>9. nd \in 0 .. Len(d) /\ nd \in Nat
  BY <1>4
<1>10. u.map \in Maps
  <2> HIDE DEF o2, nd
  <2> QED BY <1>2, <1>3, <1>8, <1>9, MapsStay
<1>11. ASSUME m = K, na = Len(a)
       PROVE  u.ok /\ nm = Len(m1) /\ nd = Len(d) /\ u.map = Updated(t)
  <2>1. /\ \A i \in DOMAIN m1 : Fits(t, o1, p1, m1, i)
        /\ DelAll(AddAll(t, o1, p1, m1, Len(m1)), d, Len(d)) = Updated(t)
    BY <1>1, <1>6, <1>11, UpdateMaps
  <2>2. nm = Len(m1)
    <3>1. Admitted(t, o1, p1, m1) = Len(m1)
      BY <1>3, <2>1, AdmittedLemma
    <3> QED BY <1>4, <1>11, <3>1
  <2>3. nd = Len(d) /\ ok
    BY <1>11, <2>2
  <2> QED BY <1>2, <2>1, <2>2, <2>3
<1>12. ASSUME na # Len(a)
       PROVE  ~u.ok /\ nm = 0 /\ nd = 0 /\ u.map = Put(m, a, na)
  <2>1. na < Len(a)
    BY <1>4, <1>5, <1>12
  <2>2. nm = 0 /\ ~ok
    BY <1>12, <2>1
  <2>3. nd = 0
    BY <2>2
  <2>4. \A i \in 1 .. 0 : FALSE
    OBVIOUS
  <2>5. o1 = [k \in Key |-> o1[k]]
    BY <1>6 DEF Put
  <2>6. o2 = o1
    BY <2>2, <2>4, <2>5 DEF AddAll
  <2>7. DelAll(o1, d, 0) = o1
    BY <2>4, <2>5 DEF DelAll
  <2> QED BY <1>2, <1>6, <2>2, <2>3, <2>6, <2>7
<1> HIDE DEF nm, nd, ok, o2
<1>13. ASSUME m = Kept(t), u.ok
       PROVE  /\ u.map = Updated(t) /\ u.add = Len(a) /\ u.modify = Len(m0)
              /\ u.delete = Len(d)
  <2>1. na = Len(a)
    BY <1>12, <1>13
  <2> QED BY <1>2, <1>3, <1>11, <1>13, <2>1 DEF K
<1>14. ASSUME m = Kept(t), ~u.ok
       PROVE  u.map = Put(Kept(t), a, u.add) /\ u.modify = 0 /\ u.delete = 0
  <2>1. na # Len(a)
    BY <1>11, <1>14 DEF K
  <2> QED BY <1>2, <1>12, <1>14, <2>1
<1> QED BY <1>2, <1>5, <1>7, <1>9, <1>10, <1>13, <1>14 DEF a, m0, d

\* An undone update is a map again.
LEMMA UndoneMaps ==
    ASSUME TypeOK, NEW t \in Table, obj[ts_next][t] \in Maps
    PROVE  Undone(t).map \in Maps
<1> DEFINE a  == pending_add[t]
           m0 == pending_modify0[t]
           d  == pending_delete[t]
           na == Min(n_add[t], Len(a))
           nm == Min(n_modify[t], Len(m0))
           nd == Min(n_delete[t], Len(d))
           p0 == place[ts_next][t]
           p1 == PlacedAll(t, p0, d)[nd]
           o0 == obj[ts_next][t]
           o1 == AddAll(t, o0, p0, d, nd)
           o2 == AddAll(t, o1, p1, m0, nm)
<1>1. Undone(t).map = DelAll(o2, a, na)
  BY DEF Undone
<1>2. /\ a \in Seq(Entries) /\ m0 \in Seq(Entries) /\ d \in Seq(Entries) /\ o0 \in Maps
      /\ n_add[t] \in Nat /\ n_modify[t] \in Nat /\ n_delete[t] \in Nat
  BY DEF TypeOK
<1> HIDE DEF a, m0, d, p0, p1, o0
<1>3. Len(a) \in Nat /\ Len(m0) \in Nat /\ Len(d) \in Nat
  BY <1>2, LenProperties
<1>4. na \in 0 .. Len(a) /\ nm \in 0 .. Len(m0) /\ nd \in 0 .. Len(d)
  BY <1>2, <1>3 DEF Min
<1> HIDE DEF na, nm, nd
<1>5. o1 \in Maps
  BY <1>2, <1>4, MapsStay
<1> HIDE DEF o1
<1>6. o2 \in Maps
  BY <1>2, <1>4, <1>5, MapsStay
<1> HIDE DEF o2
<1> QED BY <1>1, <1>2, <1>4, <1>6, MapsStay

\* The counters after a rollback are numbers again.
LEMMA UndoneCounts ==
    ASSUME TypeOK, NEW t \in Table
    PROVE  Undone(t).add \in Nat /\ Undone(t).modify \in Nat /\ Undone(t).delete \in Nat
<1>1. /\ n_add[t] \in Nat /\ n_modify[t] \in Nat /\ n_delete[t] \in Nat
      /\ Len(pending_add[t]) \in Nat /\ Len(pending_modify0[t]) \in Nat
      /\ Len(pending_delete[t]) \in Nat
  BY LenProperties DEF TypeOK
<1>2. \A x, y \in Nat : x - Min(x, y) \in Nat
  BY DEF Min
<1>3. /\ Undone(t).add = n_add[t] - Min(n_add[t], Len(pending_add[t]))
      /\ Undone(t).modify = n_modify[t] - Min(n_modify[t], Len(pending_modify0[t]))
      /\ Undone(t).delete = n_delete[t] - Min(n_delete[t], Len(pending_delete[t]))
  BY DEF Undone
<1> QED BY <1>1, <1>2, <1>3

\* A table that was updated completely can be rolled back.
LEMMA SplitUndoable ==
    ASSUME TypeOK, Lists, NEW t \in Table, Split(t, ts_next, ts), Counted(t)
    PROVE  Undoable(t)
<1>1. obj[ts][t] = Kept(t) /\ obj[ts_next][t] = Updated(t)
  BY DEF Split
<1>2. ~table_is_update_pending(t) => obj[ts_next][t] = Kept(t)
  BY <1>1, Contents
<1>3. ASSUME t \in InPlace, table_is_update_pending(t), PutBack(t)
      PROVE  Undone(t).map = Kept(t)
  <2> DEFINE a  == pending_add[t]
             m0 == pending_modify0[t]
             d  == pending_delete[t]
             p  == place[ts_next][t]
  <2>3. n_add[t] = Len(a) /\ n_modify[t] = Len(m0) /\ n_delete[t] = Len(d)
    BY <1>3 DEF Counted
  <2>4. /\ Min(n_add[t], Len(a)) = Len(a) /\ Min(n_modify[t], Len(m0)) = Len(m0)
        /\ Min(n_delete[t], Len(d)) = Len(d)
    BY <2>3 DEF Min
  <2>1. \A i \in 1 .. Len(d) : Fits(t, Updated(t), p, d, i)
    BY <1>1, <1>3, <2>4 DEF PutBack
  <2> HIDE DEF p
  <2>2. UndoneMap(t, Updated(t), p, a, m0, d, Len(a), Len(m0), Len(d)) = Kept(t)
    BY <2>1, Contents, UndoComplete
  <2> QED BY <1>1, <2>2, <2>4 DEF Undone, UndoneMap, p
<1> QED BY <1>1, <1>2, <1>3 DEF Undoable

\* A table that was not reached can be rolled back.
LEMMA RestUndoable ==
    ASSUME TypeOK, Lists, NEW t \in Table, Rest(t)
    PROVE  Undoable(t)
<1>1. obj[ts][t] = Kept(t) /\ obj[ts_next][t] = Kept(t)
  BY DEF Rest, TypeOK, ts_next
<1>2. Undone(t).map = Kept(t)
  <2> DEFINE a  == pending_add[t]
             m0 == pending_modify0[t]
             d  == pending_delete[t]
             p  == place[ts_next][t]
  <2>1. /\ n_add[t] \in Nat /\ n_modify[t] \in Nat /\ n_delete[t] \in Nat
        /\ Len(a) \in Nat /\ Len(m0) \in Nat /\ Len(d) \in Nat
    BY LenProperties DEF TypeOK
  <2>2. /\ Min(n_add[t], Len(a)) \in 0 .. Len(a)
        /\ Min(n_modify[t], Len(m0)) \in 0 .. Len(m0)
        /\ Min(n_delete[t], Len(d)) \in 0 .. Len(d)
    BY <2>1 DEF Min
  <2> HIDE DEF p
  <2>3. UndoneMap(t, Kept(t), p, a, m0, d, Min(n_add[t], Len(a)), Min(n_modify[t], Len(m0)),
                  Min(n_delete[t], Len(d))) = Kept(t)
    BY <2>2, Contents, UndoNothing
  <2> QED BY <1>1, <2>3 DEF Undone, UndoneMap, p
<1> QED BY <1>1, <1>2 DEF Undoable

----------------------------------------------------------------------------
(* The invariant holds initially and is preserved by every action.         *)

\* The tables a proof is about.
Scope(S) == S \subseteq Table

\* The program starts with empty tables and nothing pending.
LEMMA IndInit ==
    ASSUME NEW S, Scope(S), Init
    PROVE  IndInv(S)
<1> DEFINE none == [k \in Key |-> None]
<1>1. none \in Maps
  BY DEF Maps
<1>2. ASSUME NEW t \in Table
      PROVE  ListsOf(t) /\ Kept(t) = none /\ Updated(t) = none
  <2>1. /\ entries[t] = none /\ pending_add[t] = <<>> /\ pending_modify0[t] = <<>>
        /\ pending_modify1[t] = <<>> /\ pending_delete[t] = <<>>
    BY DEF Init
  <2>2. ListsOf(t)
    BY <1>1, <2>1, ClearKeeps DEF ListsOf
  <2> QED BY <2>1, <2>2, NoneIn DEF Kept, Updated
<1>3. TypeOK
  <2>1. /\ entries \in [Table -> Maps] /\ obj \in [0 .. 1 -> [Table -> Maps \cup {None, Freed}]]
    BY <1>1 DEF Init
  <2>2. /\ pending_add \in [Table -> Seq(Entries)] /\ pending_modify0 \in [Table -> Seq(Entries)]
        /\ pending_modify1 \in [Table -> Seq(Entries)]
        /\ pending_delete \in [Table -> Seq(Entries)]
    BY NoneIn DEF Init
  <2>3. dflt \in [0 .. 1 -> [Table -> Action]]
    BY DefaultAssumption DEF Init, Table
  <2>4. tid \in 1 .. NTables + 1
    BY TablesAssumption DEF Init
  <2>5. shared \in [Table -> BOOLEAN]
    BY DEF Init
  <2>6. /\ n_add \in [Table -> Nat] /\ n_modify \in [Table -> Nat] /\ n_delete \in [Table -> Nat]
        /\ pending_default \in [Table -> Action \cup {None}]
        /\ ts \in 0 .. 1 /\ pc \in {"idle", "fwd", "grace", "sync", "back"}
        /\ held \in [Thread -> (0 .. 1) \cup {None}]
    BY DEF Init
  <2>7. differ \in [Table -> BOOLEAN] /\ refused \in BOOLEAN
    BY DEF Init
  <2> QED BY <2>1, <2>2, <2>3, <2>4, <2>5, <2>6, <2>7 DEF TypeOK
<1>4. Lists
  BY <1>2 DEF Lists
<1>5. Objects
  <2>1. InPlace \subseteq Table
    BY TablesAssumption DEF Table
  <2> QED BY <1>1, <2>1 DEF Init, Objects, Shape
<1>6. InFlight
  BY DEF InFlight, Init
<1>7. Phase(S)
  <2>1. \A t \in S : Rest(t)
    <3> SUFFICES ASSUME NEW t \in S PROVE Rest(t)
      OBVIOUS
    <3>1. t \in Table
      BY DEF Scope
    <3> QED BY <1>2, <3>1 DEF Rest, Init
  <2> QED BY <2>1 DEF Phase, Init
<1>8. Defaults
  BY DEF Defaults, Init
<1> QED BY <1>3, <1>4, <1>5, <1>6, <1>7, <1>8 DEF IndInv

\* Between commits: what is in the tables does not change.
LEMMA IdleStep ==
    ASSUME NEW S, Scope(S), IndInv(S), pc = "idle",
           UNCHANGED <<counters, copies, pc, tid, held, history>>,
           entries' \in [Table -> Maps], pending_add' \in [Table -> Seq(Entries)],
           pending_modify0' \in [Table -> Seq(Entries)],
           pending_modify1' \in [Table -> Seq(Entries)],
           pending_delete' \in [Table -> Seq(Entries)],
           pending_default' \in [Table -> Action \cup {None}],
           Lists', \A t \in Table : Kept(t)' = Kept(t)
    PROVE  IndInv(S)'
<1>1. TypeOK'
  BY DEF IndInv, TypeOK, counters, copies, history
<1>2. Objects'
  BY DEF IndInv, Objects, copies
<1>3. InFlight'
  BY DEF IndInv, InFlight, copies
<1>4. Phase(S)'
  BY DEF IndInv, Phase, Rest, Scope, copies
<1>5. Defaults'
  BY DEF IndInv, Defaults, copies
<1> QED BY <1>1, <1>2, <1>3, <1>4, <1>5 DEF IndInv

\* An add command.
LEMMA IndAdd ==
    ASSUME NEW S, Scope(S), IndInv(S), NEW t \in Table, NEW x \in Entries, TableAdd(t, x)
    PROVE  IndInv(S)'
<1>1. TypeOK /\ Lists /\ table_entry_add(t, x)
  BY DEF IndInv, TableAdd
<1>2. Changed(t, [Updated(t) EXCEPT ![x.key] = x.action], Kept(t))
  BY <1>1, AddStep
<1>3. \A u \in Table : Kept(u)' = Kept(u)
  BY <1>2 DEF Changed
<1> QED BY <1>1, <1>2, <1>3, IdleStep DEF TableAdd, Changed, TypeOK

\* A delete command.
LEMMA IndDelete ==
    ASSUME NEW S, Scope(S), IndInv(S), NEW t \in Table, NEW k \in Key, TableDelete(t, k)
    PROVE  IndInv(S)'
<1>1. TypeOK /\ Lists /\ table_entry_delete(t, k)
  BY DEF IndInv, TableDelete
<1>2. Changed(t, [Updated(t) EXCEPT ![k] = None], Kept(t))
  BY <1>1, DeleteStep
<1>3. \A u \in Table : Kept(u)' = Kept(u)
  BY <1>2 DEF Changed
<1> QED BY <1>1, <1>2, <1>3, IdleStep DEF TableDelete, Changed, TypeOK

\* The lists do not change.
LEMMA SameAll ==
    ASSUME UNCHANGED lists
    PROVE  /\ Lists' <=> Lists
           /\ \A t : /\ Updated(t)' = Updated(t) /\ Kept(t)' = Kept(t)
                     /\ table_is_update_pending(t)' <=> table_is_update_pending(t)
<1>1. ASSUME NEW t
      PROVE  /\ Updated(t)' = Updated(t) /\ Kept(t)' = Kept(t)
             /\ ListsOf(t)' <=> ListsOf(t)
             /\ table_is_update_pending(t)' <=> table_is_update_pending(t)
  BY SameLists DEF lists
<1> QED BY <1>1 DEF Lists

\* A default action command.
LEMMA IndDefault ==
    ASSUME NEW S, Scope(S), IndInv(S), NEW t \in Table, NEW x \in Action, TableDefault(t, x)
    PROVE  IndInv(S)'
<1>1. UNCHANGED lists /\ pc = "idle" /\ UNCHANGED <<counters, copies, pc, tid, held, history>>
  BY DEF TableDefault
<1>2. Lists' /\ \A u \in Table : Kept(u)' = Kept(u)
  BY <1>1, SameAll DEF IndInv
<1>3. pending_default' \in [Table -> Action \cup {None}]
  BY DEF TableDefault, IndInv, TypeOK
<1>4. /\ entries' \in [Table -> Maps] /\ pending_add' \in [Table -> Seq(Entries)]
      /\ pending_modify0' \in [Table -> Seq(Entries)]
      /\ pending_modify1' \in [Table -> Seq(Entries)]
      /\ pending_delete' \in [Table -> Seq(Entries)]
  BY <1>1 DEF lists, IndInv, TypeOK
<1> QED BY <1>1, <1>2, <1>3, <1>4, IdleStep

\* The abort command empties all lists and keeps what is in the tables.
LEMMA AbortStep ==
    ASSUME TypeOK, Lists, Abort
    PROVE  /\ entries' \in [Table -> Maps] /\ pending_add' \in [Table -> Seq(Entries)]
           /\ pending_modify0' \in [Table -> Seq(Entries)]
           /\ pending_modify1' \in [Table -> Seq(Entries)]
           /\ pending_delete' \in [Table -> Seq(Entries)]
           /\ Lists'
           /\ \A t \in Table : Kept(t)' = Kept(t) /\ Updated(t)' = Kept(t)
<1>1. ASSUME NEW t \in Table
      PROVE  /\ entries'[t] = Kept(t) /\ pending_add'[t] = <<>>
             /\ pending_modify0'[t] = <<>> /\ pending_modify1'[t] = <<>>
             /\ pending_delete'[t] = <<>> /\ Kept(t) \in Maps
  BY Contents DEF Abort
<1>2. ASSUME NEW t \in Table
      PROVE  ListsOf(t)' /\ Kept(t)' = Kept(t) /\ Updated(t)' = Kept(t)
  <2> DEFINE K == Kept(t)
  <2>1. /\ WellFormed(K, <<>>, <<>>, <<>>, <<>>)
        /\ UpdatedMap(K, <<>>, <<>>) = K /\ KeptMap(K, <<>>, <<>>) = K
    BY <1>1, ClearKeeps
  <2>2. ListsOf(t)'
    BY <1>1, <2>1 DEF ListsOf
  <2>3. Kept(t)' = KeptMap(K, <<>>, <<>>) /\ Updated(t)' = UpdatedMap(K, <<>>, <<>>)
    <3> HIDE DEF K
    <3>1. /\ entries'[t] = K /\ pending_add'[t] = <<>>
          /\ pending_modify0'[t] = <<>> /\ pending_modify1'[t] = <<>>
          /\ pending_delete'[t] = <<>>
      BY <1>1 DEF K
    <3> QED BY <3>1 DEF Kept, Updated, KeptMap, UpdatedMap
  <2> QED BY <2>1, <2>2, <2>3
<1>3. /\ entries' \in [Table -> Maps] /\ pending_add' \in [Table -> Seq(Entries)]
      /\ pending_modify0' \in [Table -> Seq(Entries)]
      /\ pending_modify1' \in [Table -> Seq(Entries)]
      /\ pending_delete' \in [Table -> Seq(Entries)]
  <2>1. <<>> \in Seq(Entries)
    BY NoneIn
  <2> QED BY <1>1, <2>1 DEF Abort
<1> QED BY <1>2, <1>3 DEF Lists

\* The abort command.
LEMMA IndAbort ==
    ASSUME NEW S, Scope(S), IndInv(S), Abort
    PROVE  IndInv(S)'
<1>1. TypeOK /\ Lists
  BY DEF IndInv
<1>2. pending_default' \in [Table -> Action \cup {None}]
  BY DEF Abort
<1> QED BY <1>1, <1>2, AbortStep, IdleStep DEF Abort

\* The start of a commit.
LEMMA IndCommit ==
    ASSUME NEW S, Scope(S), IndInv(S), Commit
    PROVE  IndInv(S)'
<1>0. UNCHANGED lists /\ UNCHANGED copies /\ pc = "idle" /\ pc' = "fwd" /\ tid' = 1
  BY DEF Commit
<1>s. /\ Lists' <=> Lists
      /\ \A t : Updated(t)' = Updated(t) /\ Kept(t)' = Kept(t)
  BY <1>0, SameAll
<1>1. TypeOK'
  BY TablesAssumption DEF Commit, IndInv, TypeOK, lists, counters, copies, history
<1>2. Lists' /\ Objects'
  BY <1>0, <1>s DEF IndInv, Objects, copies
<1>3. InFlight'
  BY <1>0 DEF Commit, IndInv, InFlight, copies
<1>4. Phase(S)'
  <2>1. \A t \in S : Rest(t)' /\ ~(t < 1)
    BY <1>0, <1>s DEF IndInv, Phase, Rest, Scope, copies, Table
  <2> QED BY <1>0, <2>1 DEF Phase
<1>5. Defaults'
  BY <1>0 DEF IndInv, Defaults, copies
<1> QED BY <1>1, <1>2, <1>3, <1>4, <1>5 DEF IndInv

\* A table without pending work is ready for the swap as it is.
LEMMA IndSkip ==
    ASSUME NEW S, Scope(S), IndInv(S), RollFwdSkip
    PROVE  IndInv(S)'
<1>0. /\ UNCHANGED lists /\ UNCHANGED copies /\ UNCHANGED counters
      /\ pc = "fwd" /\ pc' = "fwd" /\ tid' = tid + 1
      /\ tid \in Table /\ ~table_is_update_pending(tid) /\ TypeOK /\ Lists
  BY DEF RollFwdSkip, Continue, IndInv
<1>s. /\ Lists' <=> Lists
      /\ \A t : /\ Updated(t)' = Updated(t) /\ Kept(t)' = Kept(t)
                /\ table_is_update_pending(t)' <=> table_is_update_pending(t)
  BY <1>0, SameAll
<1>1. TypeOK'
  <2>1. tid' \in 1 .. NTables + 1
    BY <1>0, TablesAssumption DEF Table
  <2> QED BY <1>0, <2>1 DEF RollFwdSkip, TypeOK, lists, counters, copies, history
<1>2. Lists' /\ Objects'
  BY <1>0, <1>s DEF IndInv, Objects, copies
<1>3. InFlight'
  BY <1>0 DEF RollFwdSkip, IndInv, InFlight, copies
<1>4. Phase(S)'
  <2> SUFFICES ASSUME NEW t \in S
               PROVE  (IF t < tid THEN Split(t, ts_next, ts) /\ Counted(t) ELSE Rest(t))'
    BY <1>0 DEF Phase
  <2>0. t \in Int /\ tid \in Int /\ t \in Table
    BY <1>0 DEF Scope, Table
  <2>1. CASE t < tid
    <3>1. t < tid + 1 /\ Split(t, ts_next, ts) /\ Counted(t)
      BY <1>0, <2>0, <2>1 DEF IndInv, Phase
    <3> QED BY <1>0, <1>s, <3>1 DEF Split, Counted, ts_next, copies, counters, lists
  <2>2. CASE t = tid
    <3>1. t < tid + 1 /\ Rest(t)
      BY <1>0, <2>0, <2>2 DEF IndInv, Phase
    <3>2. Updated(t) = Kept(t)
      BY <1>0, <2>2, Contents
    <3>4. (Split(t, ts_next, ts) /\ Counted(t))'
      BY <1>0, <1>s, <2>2, <3>1, <3>2 DEF Split, Counted, Rest, ts_next, copies, TypeOK
    <3> QED BY <1>0, <3>1, <3>4
  <2>3. CASE t > tid
    <3>1. ~(t < tid + 1) /\ Rest(t)
      BY <1>0, <2>0, <2>3 DEF IndInv, Phase
    <3> QED BY <1>0, <1>s, <3>1 DEF Rest, copies
  <2> QED BY <2>0, <2>1, <2>2, <2>3
<1>5. Defaults'
  BY <1>0 DEF IndInv, Defaults, copies
<1> QED BY <1>1, <1>2, <1>3, <1>4, <1>5 DEF IndInv

\* The copies are swapped: what was done ahead is now in use.
LEMMA IndSwap ==
    ASSUME NEW S, Scope(S), IndInv(S), Swap
    PROVE  IndInv(S)'
<1>0. /\ UNCHANGED lists /\ UNCHANGED <<pending_default, counters, obj, place, shared, tid, held, history>>
      /\ pc = "fwd" /\ pc' = "grace" /\ tid = NTables + 1 /\ ts' = ts_next
      /\ TypeOK /\ Lists
      /\ dflt' = [dflt EXCEPT ![ts_next] = [t \in Table |-> Default(t, ts_next)]]
  BY DEF Swap, IndInv
<1>s. /\ Lists' <=> Lists
      /\ \A t : /\ Updated(t)' = Updated(t) /\ Kept(t)' = Kept(t)
                /\ table_is_update_pending(t)' <=> table_is_update_pending(t)
  BY <1>0, SameAll
<1>t. ts \in 0 .. 1 /\ ts_next \in 0 .. 1 /\ ts' = ts_next /\ ts_next' = ts /\ ts # ts_next
  BY <1>0 DEF TypeOK, ts_next
<1>d. \A t \in Table : Default(t, ts_next) \in Action
  BY <1>0, <1>t DEF TypeOK, Default
<1>1. TypeOK'
  <2>1. dflt' \in [0 .. 1 -> [Table -> Action]]
    BY <1>0, <1>t, <1>d DEF TypeOK
  <2> QED BY <1>0, <1>t, <2>1 DEF TypeOK, lists, counters, history
<1>2. Lists' /\ Objects'
  BY <1>0, <1>s DEF IndInv, Objects
<1>3. InFlight'
  BY <1>0 DEF InFlight
<1>4. Phase(S)'
  <2> SUFFICES ASSUME NEW t \in S
               PROVE  Split(t, ts, ts_next)'
    BY <1>0 DEF Phase
  <2>1. t < tid
    BY <1>0, TablesAssumption DEF Scope, Table
  <2>2. Split(t, ts_next, ts)
    BY <1>0, <2>1 DEF IndInv, Phase
  <2> QED BY <1>0, <1>s, <1>t, <2>2 DEF Split
<1>5. Defaults'
  <2> SUFFICES ASSUME NEW t \in Table
               PROVE  (dflt[ts][t] = Default(t, ts_next))'
    BY <1>0 DEF Defaults
  <2>1. dflt[0][t] = dflt[1][t]
    BY <1>0 DEF IndInv, Defaults
  <2>2. dflt'[ts_next][t] = Default(t, ts_next) /\ dflt'[ts] = dflt[ts]
    BY <1>0, <1>t DEF TypeOK
  <2>3. dflt[ts_next][t] = dflt[ts][t]
    BY <1>t, <2>1
  <2> QED BY <1>0, <1>t, <2>2, <2>3 DEF Default
<1> QED BY <1>1, <1>2, <1>3, <1>4, <1>5 DEF IndInv

\* The end of the grace period: no packet uses the old copy any more.
LEMMA IndUsleep ==
    ASSUME NEW S, Scope(S), IndInv(S), Usleep
    PROVE  IndInv(S)'
<1>0. /\ UNCHANGED lists /\ UNCHANGED <<pending_default, counters, copies, held, history>>
      /\ pc = "grace" /\ pc' = "sync" /\ tid' = 1 /\ TypeOK /\ Lists /\ Drained
  BY DEF Usleep, Slept, IndInv
<1>s. /\ Lists' <=> Lists
      /\ \A t : /\ Updated(t)' = Updated(t) /\ Kept(t)' = Kept(t)
                /\ table_is_update_pending(t)' <=> table_is_update_pending(t)
  BY <1>0, SameAll
<1>1. TypeOK'
  BY <1>0, TablesAssumption DEF TypeOK, lists, counters, copies, history
<1>2. Lists' /\ Objects'
  BY <1>0, <1>s DEF IndInv, Objects, copies
<1>3. InFlight'
  <2> SUFFICES ASSUME NEW w \in Thread PROVE held'[w] \in {None, ts'}
    BY DEF InFlight
  <2>1. held[w] \in (0 .. 1) \cup {None} /\ held[w] # ts_next /\ ts \in 0 .. 1
    BY <1>0 DEF TypeOK, Drained
  <2> QED BY <1>0, <2>1 DEF ts_next, copies
<1>4. Phase(S)'
  <2>1. 1 \in Table
    BY TablesAssumption DEF Table
  <2> SUFFICES ASSUME NEW t \in S
               PROVE  (IF t < tid THEN Rest(t) ELSE Split(t, ts, ts_next))'
    BY <1>0, <2>1 DEF Phase
  <2>2. ~(t < tid') /\ Split(t, ts, ts_next)
    BY <1>0 DEF IndInv, Phase, Scope, Table
  <2> QED BY <1>0, <1>s, <2>2 DEF Split, copies, ts_next
<1>5. Defaults'
  <2>1. \A t \in Table : t >= 1
    BY DEF Table
  <2> QED BY <1>0, <2>1 DEF IndInv, Defaults, copies, ts_next, Default
<1> QED BY <1>1, <1>2, <1>3, <1>4, <1>5 DEF IndInv

\* The data plane changes nothing but held; so do steps that change nothing.
LEMMA IndHeld ==
    ASSUME NEW S, Scope(S), IndInv(S),
           UNCHANGED <<lists, pending_default, counters, copies, pc, tid, history>>,
           held' \in [Thread -> (0 .. 1) \cup {None}], InFlight'
    PROVE  IndInv(S)'
<1>0. UNCHANGED lists /\ UNCHANGED <<pending_default, counters, copies, pc, tid, history>>
  OBVIOUS
<1>s. /\ Lists' <=> Lists
      /\ \A t : /\ Updated(t)' = Updated(t) /\ Kept(t)' = Kept(t)
                /\ table_is_update_pending(t)' <=> table_is_update_pending(t)
  BY <1>0, SameAll
<1>1. TypeOK'
  BY <1>0 DEF IndInv, TypeOK, lists, counters, copies, history
<1>2. Lists' /\ Objects'
  BY <1>0, <1>s DEF IndInv, Objects, copies
<1>4. Phase(S)'
  <2>1. /\ obj' = obj /\ place' = place /\ shared' = shared /\ ts' = ts /\ ts_next' = ts_next /\ pc' = pc /\ tid' = tid
        /\ n_add' = n_add /\ n_modify' = n_modify /\ n_delete' = n_delete
        /\ pending_add' = pending_add /\ pending_modify0' = pending_modify0
        /\ pending_delete' = pending_delete
    BY <1>0 DEF copies, counters, ts_next, lists
  <2>2. \A t : Rest(t)' <=> Rest(t)
    BY <1>s, <2>1 DEF Rest
  <2>3. \A t : Split(t, ts, ts_next)' <=> Split(t, ts, ts_next)
    BY <1>s, <2>1 DEF Split
  <2>4. \A t : Split(t, ts_next, ts)' <=> Split(t, ts_next, ts)
    BY <1>s, <2>1 DEF Split
  <2>5. \A t : Counted(t)' <=> Counted(t)
    BY <1>s, <2>1 DEF Counted
  <2>6. \A t : Undone(t)' = Undone(t) /\ (PutBack(t)' <=> PutBack(t))
    BY <2>1 DEF Undone, PutBack
  <2>7. \A t : Undoable(t)' <=> Undoable(t)
    BY <1>s, <2>1, <2>6 DEF Undoable
  <2> QED BY <2>1, <2>2, <2>3, <2>4, <2>5, <2>7 DEF IndInv, Phase
<1>5. Defaults'
  BY <1>0 DEF IndInv, Defaults, copies, ts_next, Default
<1> QED BY <1>1, <1>2, <1>4, <1>5 DEF IndInv

\* A packet comes or goes.
LEMMA IndPacket ==
    ASSUME NEW S, Scope(S), IndInv(S), NEW w \in Thread, Rx(w) \/ Tx(w)
    PROVE  IndInv(S)'
<1>1. UNCHANGED <<lists, pending_default, counters, copies, pc, tid, history>>
  BY DEF Rx, Tx
<1>2. held' \in [Thread -> (0 .. 1) \cup {None}]
  BY DEF Rx, Tx, IndInv, TypeOK
<1>3. InFlight'
  BY <1>1 DEF Rx, Tx, IndInv, InFlight, TypeOK, copies
<1> QED BY <1>1, <1>2, <1>3, IndHeld

\* A step that changes nothing.
LEMMA IndStutter ==
    ASSUME NEW S, Scope(S), IndInv(S), UNCHANGED vars
    PROVE  IndInv(S)'
<1>1. UNCHANGED <<lists, pending_default, counters, copies, pc, tid, history>> /\ UNCHANGED held
  BY DEF vars
<1>2. held' \in [Thread -> (0 .. 1) \cup {None}] /\ InFlight'
  BY <1>1 DEF IndInv, InFlight, TypeOK, copies
<1> QED BY <1>1, <1>2, IndHeld

----------------------------------------------------------------------------
(* The first pass on one table.                                            *)

\* Only table tid of the copy ts_next changes, and its counters.
OnlyNext(o) ==
    /\ UNCHANGED lists /\ UNCHANGED <<pending_default, dflt, ts, held, history>>
    /\ obj' = [obj EXCEPT ![ts_next][tid] = o] /\ (tid \in InPlace => o \in Maps)
    /\ Shape(place')
    /\ \A t \in Table \ {tid} : /\ \A c \in 0 .. 1 : place'[c][t] = place[c][t]
                               /\ shared'[t] = shared[t] /\ n_add'[t] = n_add[t]
                               /\ n_modify'[t] = n_modify[t] /\ n_delete'[t] = n_delete[t]

\* The places of one table of one copy change.
With(f, c, t, p) == [f EXCEPT ![c][t] = p]

LEMMA ShapeSet ==
    ASSUME NEW f, Shape(f), NEW c \in 0 .. 1, NEW t \in Table, NEW p
    PROVE  /\ Shape(With(f, c, t, p)) /\ With(f, c, t, p)[c][t] = p
           /\ \A b \in 0 .. 1, x \in Table : b # c \/ x # t => With(f, c, t, p)[b][x] = f[b][x]
<1> DEFINE g == With(f, c, t, p)
<1>1. /\ DOMAIN f = 0 .. 1
      /\ \A b \in 0 .. 1 : f[b] = [x \in Table |-> f[b][x]] /\ DOMAIN f[b] = Table
  BY DEF Shape
<1>2. g = [b \in 0 .. 1 |-> IF b = c THEN [f[c] EXCEPT ![t] = p] ELSE f[b]]
  BY <1>1 DEF With
<1> HIDE DEF g
<1>3. \A b \in 0 .. 1 : g[b] = [x \in Table |-> IF b = c /\ x = t THEN p ELSE f[b][x]]
  BY <1>1, <1>2
<1>4. \A b \in 0 .. 1, x \in Table : g[b][x] = IF b = c /\ x = t THEN p ELSE f[b][x]
  BY <1>3
<1>5. g = [b \in 0 .. 1 |-> [x \in Table |-> g[b][x]]]
  BY <1>2, <1>3, <1>4
<1>6. Shape(g)
  BY <1>5 DEF Shape
<1> QED BY <1>4, <1>6 DEF g

\* What such a step says of the other tables.
LEMMA OnlyNextFrame ==
    ASSUME TypeOK, tid \in Table, NEW o, OnlyNext(o), NEW t \in Table, t # tid
    PROVE  /\ Rest(t)' <=> Rest(t)
           /\ Split(t, ts_next, ts)' <=> Split(t, ts_next, ts)
           /\ Counted(t)' <=> Counted(t)
           /\ Undoable(t)' <=> Undoable(t)
<1>1. /\ Updated(t)' = Updated(t) /\ Kept(t)' = Kept(t)
      /\ table_is_update_pending(t)' <=> table_is_update_pending(t)
  BY SameAll DEF OnlyNext
<1>2. /\ ts' = ts /\ ts_next' = ts_next /\ ts \in 0 .. 1 /\ ts_next \in 0 .. 1
  BY DEF OnlyNext, ts_next, TypeOK
<1>3. \A c \in 0 .. 1 : obj'[c][t] = obj[c][t] /\ place'[c][t] = place[c][t]
  BY <1>2 DEF OnlyNext, TypeOK
<1>4. /\ shared'[t] = shared[t] /\ n_add'[t] = n_add[t]
      /\ n_modify'[t] = n_modify[t] /\ n_delete'[t] = n_delete[t]
      /\ pending_add' = pending_add /\ pending_modify0' = pending_modify0
      /\ pending_delete' = pending_delete
  BY DEF OnlyNext, lists
<1>5. Undone(t)' = Undone(t) /\ (PutBack(t)' <=> PutBack(t))
  BY <1>2, <1>3, <1>4 DEF Undone, PutBack
<1>6. Rest(t)' <=> Rest(t)
  BY <1>1, <1>3 DEF Rest
<1>7. Split(t, ts_next, ts)' <=> Split(t, ts_next, ts)
  BY <1>1, <1>2, <1>3, <1>4 DEF Split
<1>8. Counted(t)' <=> Counted(t)
  BY <1>1, <1>4 DEF Counted
<1>9. Undoable(t)' <=> Undoable(t)
  BY <1>1, <1>2, <1>3, <1>5 DEF Undoable
<1> QED BY <1>6, <1>7, <1>8, <1>9

\* The objects stay objects.
LEMMA OnlyNextObjects ==
    ASSUME TypeOK, Objects, tid \in Table, NEW o, OnlyNext(o)
    PROVE  Objects'
<1>1. ts_next \in 0 .. 1 /\ InPlace \subseteq Table
  BY TablesAssumption DEF TypeOK, ts_next, Table
<1>2. \A c \in 0 .. 1 : \A t \in InPlace : obj'[c][t] \in Maps
  BY <1>1 DEF Objects, OnlyNext, TypeOK
<1> QED BY <1>2 DEF Objects, OnlyNext

\* The table accepts the work and the commit goes on.
LEMMA FwdContinues ==
    ASSUME NEW S, Scope(S), IndInv(S), pc = "fwd", tid \in Table, NEW o, OnlyNext(o),
           Continue, TypeOK',
           ASSUME tid \in S, NEW x, x = tid PROVE (Split(x, ts_next, ts) /\ Counted(x))'
    PROVE  IndInv(S)'
<1>0. /\ UNCHANGED lists /\ UNCHANGED <<pending_default, dflt, ts, held, history>>
      /\ TypeOK /\ Lists /\ tid' = tid + 1 /\ pc' = "fwd"
  BY DEF OnlyNext, IndInv, Continue
<1>s. /\ Lists' <=> Lists
      /\ \A t : Kept(t)' = Kept(t)
  BY <1>0, SameAll
<1>1. Lists' /\ Objects'
  BY <1>0, <1>s, OnlyNextObjects DEF IndInv
<1>2. InFlight'
  BY <1>0 DEF IndInv, InFlight
<1>3. Phase(S)'
  <2> SUFFICES ASSUME NEW t \in S
               PROVE  (IF t < tid THEN Split(t, ts_next, ts) /\ Counted(t) ELSE Rest(t))'
    BY <1>0 DEF Phase
  <2>0. t \in Int /\ tid \in Int /\ t \in Table
    BY DEF Scope, Table
  <2>1. CASE t < tid
    <3>1. t < tid' /\ Split(t, ts_next, ts) /\ Counted(t)
      BY <1>0, <2>0, <2>1 DEF IndInv, Phase
    <3>2. (Split(t, ts_next, ts) /\ Counted(t))'
      BY <1>0, <2>0, <2>1, <3>1, OnlyNextFrame
    <3> QED BY <3>1, <3>2
  <2>2. CASE t = tid
    <3>1. t < tid'
      BY <1>0, <2>0, <2>2
    <3>2. (Split(t, ts_next, ts) /\ Counted(t))'
      BY <2>2
    <3> QED BY <3>1, <3>2
  <2>3. CASE t > tid
    <3>1. ~(t < tid') /\ Rest(t)
      BY <1>0, <2>0, <2>3 DEF IndInv, Phase
    <3>2. Rest(t)'
      BY <1>0, <2>0, <2>3, <3>1, OnlyNextFrame
    <3> QED BY <3>1, <3>2
  <2> QED BY <2>0, <2>1, <2>2, <2>3
<1>4. Defaults'
  BY <1>0 DEF IndInv, Defaults
<1> QED BY <1>1, <1>2, <1>3, <1>4 DEF IndInv

\* The table refuses: every table can be rolled back.
LEMMA FwdFails ==
    ASSUME NEW S, Scope(S), IndInv(S), pc = "fwd", tid \in Table, NEW o, OnlyNext(o),
           GoBack, TypeOK', ASSUME tid \in S, NEW x, x = tid PROVE Undoable(x)'
    PROVE  IndInv(S)'
<1>0. /\ UNCHANGED lists /\ UNCHANGED <<pending_default, dflt, ts, held, history>>
      /\ TypeOK /\ Lists /\ tid' = 1 /\ pc' = "back"
  BY DEF OnlyNext, IndInv, GoBack
<1>s. /\ Lists' <=> Lists
      /\ \A t : Kept(t)' = Kept(t)
  BY <1>0, SameAll
<1>1. Lists' /\ Objects'
  BY <1>0, <1>s, OnlyNextObjects DEF IndInv
<1>2. InFlight'
  BY <1>0 DEF IndInv, InFlight
<1>3. Phase(S)'
  <2>1. 1 \in Table
    BY TablesAssumption DEF Table
  <2> SUFFICES ASSUME NEW t \in S
               PROVE  (IF t < tid THEN Rest(t) ELSE Undoable(t))'
    BY <1>0, <2>1 DEF Phase
  <2>2. t \in Int /\ tid \in Int /\ t \in Table /\ ~(t < tid')
    BY <1>0 DEF Scope, Table
  <2>3. CASE t # tid
    <3>1. Undoable(t)
      <4>1. CASE t < tid
        <5>1. Split(t, ts_next, ts) /\ Counted(t)
          BY <4>1 DEF IndInv, Phase
        <5> QED BY <1>0, <2>2, <5>1, SplitUndoable
      <4>2. CASE ~(t < tid)
        <5>1. Rest(t)
          BY <4>2 DEF IndInv, Phase
        <5> QED BY <1>0, <2>2, <5>1, RestUndoable
      <4> QED BY <4>1, <4>2
    <3> QED BY <1>0, <2>2, <2>3, <3>1, OnlyNextFrame
  <2>4. CASE t = tid
    BY <2>2, <2>4
  <2> QED BY <2>3, <2>4
<1>4. Defaults'
  BY <1>0 DEF IndInv, Defaults
<1> QED BY <1>1, <1>2, <1>3, <1>4 DEF IndInv

\* The first pass on a table updated in place, accepted or refused.
LEMMA IndInPlace ==
    ASSUME NEW S, Scope(S), IndInv(S), RollFwdInPlace
    PROVE  IndInv(S)'
<1> DEFINE m == obj[ts_next][tid]
           p == place[ts_next][tid]
           u == UpdateInPlace(tid, m, p)
<1>0. /\ TypeOK /\ Lists /\ Objects /\ pc = "fwd" /\ tid \in Table /\ tid \in InPlace
      /\ table_is_update_pending(tid)
      /\ UNCHANGED lists /\ UNCHANGED <<pending_default, dflt, shared, ts, held, history>>
      /\ obj' = [obj EXCEPT ![ts_next][tid] = u.map]
      /\ place' = [place EXCEPT ![ts_next][tid] = u.place]
      /\ n_add' = [n_add EXCEPT ![tid] = u.add]
      /\ n_modify' = [n_modify EXCEPT ![tid] = u.modify]
      /\ n_delete' = [n_delete EXCEPT ![tid] = u.delete]
      /\ IF u.ok THEN Continue ELSE GoBack
  BY TablesAssumption DEF RollFwdInPlace, SetNext, SetPlace, Count, Update, IndInv, Table
<1>t. ts \in 0 .. 1 /\ ts_next \in 0 .. 1 /\ ts # ts_next /\ ts_next' = ts_next /\ ts' = ts
  BY <1>0 DEF TypeOK, ts_next
<1>1. tid \in S => Rest(tid)
  <2>1. ~(tid < tid)
    BY <1>0 DEF Table
  <2> QED BY <1>0, <2>1 DEF IndInv, Phase
<1>2. m \in Maps /\ (tid \in S => obj[ts][tid] = Kept(tid) /\ m = Kept(tid))
  BY <1>0, <1>1, <1>t DEF Rest, Objects
<1> HIDE DEF u, m, p
<1>3. /\ u.add \in 0 .. Len(pending_add[tid]) /\ u.add \in Nat
      /\ u.modify \in Nat /\ u.delete \in Nat /\ u.map \in Maps
      /\ tid \in S /\ u.ok => /\ u.map = Updated(tid) /\ u.add = Len(pending_add[tid])
                             /\ u.modify = Len(pending_modify0[tid])
                             /\ u.delete = Len(pending_delete[tid])
      /\ tid \in S /\ ~u.ok => /\ u.map = Put(Kept(tid), pending_add[tid], u.add)
                              /\ u.modify = 0 /\ u.delete = 0
  BY <1>0, <1>2, UpdateLemma DEF u
<1>4. OnlyNext(u.map)
  <2>1. /\ Shape(place')
        /\ \A c \in 0 .. 1, t \in Table : c # ts_next \/ t # tid => place'[c][t] = place[c][t]
    <3>1. Shape(place) /\ place' = With(place, ts_next, tid, u.place)
      BY <1>0 DEF Objects, With
    <3>2. tid \in Table
      BY <1>0
    <3> QED BY <1>t, <3>1, <3>2, ShapeSet
  <2>2. \A t \in Table \ {tid} : /\ shared'[t] = shared[t] /\ n_add'[t] = n_add[t]
                                 /\ n_modify'[t] = n_modify[t] /\ n_delete'[t] = n_delete[t]
    BY <1>0 DEF TypeOK
  <2> QED BY <1>0, <1>3, <2>1, <2>2 DEF OnlyNext
<1>5. TypeOK'
  <2>1. tid' \in 1 .. NTables + 1
    BY <1>0, TablesAssumption DEF Continue, GoBack, Table
  <2>2. pc' \in {"idle", "fwd", "grace", "sync", "back"}
    BY <1>0 DEF Continue, GoBack
  <2>3. obj' \in [0 .. 1 -> [Table -> Maps \cup {None, Freed}]]
    BY <1>0, <1>3, <1>t DEF TypeOK
  <2>4. n_add' \in [Table -> Nat] /\ n_modify' \in [Table -> Nat] /\ n_delete' \in [Table -> Nat]
    BY <1>0, <1>3 DEF TypeOK
  <2> QED BY <1>0, <2>1, <2>2, <2>3, <2>4 DEF TypeOK, lists, history
<1>6. /\ obj'[ts_next][tid] = u.map /\ obj'[ts][tid] = obj[ts][tid]
      /\ n_add'[tid] = u.add /\ n_modify'[tid] = u.modify /\ n_delete'[tid] = u.delete
  BY <1>0, <1>t DEF TypeOK
<1>7. CASE u.ok
  <2>1. ASSUME tid \in S, NEW x, x = tid PROVE (Split(x, ts_next, ts) /\ Counted(x))'
    <3>1. /\ Updated(x)' = Updated(x) /\ Kept(x)' = Kept(x)
          /\ pending_add' = pending_add /\ pending_modify0' = pending_modify0
          /\ pending_delete' = pending_delete
      BY <1>0, SameAll DEF lists
    <3>2. Split(x, ts_next, ts)'
      BY <1>0, <1>2, <1>3, <1>6, <1>7, <1>t, <2>1, <3>1 DEF Split
    <3>3. Counted(x)'
      BY <1>0, <1>3, <1>6, <1>7, <2>1, <3>1 DEF Counted
    <3> QED BY <3>2, <3>3
  <2> QED BY <1>0, <1>4, <1>5, <1>7, <2>1, FwdContinues
<1>8. CASE ~u.ok
  <2>1. ASSUME tid \in S, NEW x, x = tid PROVE Undoable(x)'
    <3> DEFINE a  == pending_add[x]
               m0 == pending_modify0[x]
               d  == pending_delete[x]
               q  == place'[ts_next][x]
    <3>1. /\ Kept(x)' = Kept(x) /\ table_is_update_pending(x)'
          /\ pending_add' = pending_add /\ pending_modify0' = pending_modify0
          /\ pending_delete' = pending_delete
      BY <1>0, <2>1, SameAll DEF lists
    <3>6. Undone(x)'.map =
            UndoneMap(x, obj'[ts_next][x], q, a, m0, d, Min(n_add'[x], Len(a)),
                      Min(n_modify'[x], Len(m0)), Min(n_delete'[x], Len(d)))
      BY <1>t, <3>1 DEF Undone, UndoneMap
    <3> HIDE DEF q
    <3>2. UndoneMap(x, Put(Kept(x), a, u.add), q, a, m0, d, u.add, 0, 0) = Kept(x)
      BY <1>0, <1>3, <2>1, Contents, UndoPartial
    <3>3. a \in Seq(Entries) /\ m0 \in Seq(Entries) /\ d \in Seq(Entries)
      BY <1>0, <2>1 DEF TypeOK
    <3>4. Len(a) \in Nat /\ Len(m0) \in Nat /\ Len(d) \in Nat
      BY <3>3, LenProperties
    <3>5. Min(u.add, Len(a)) = u.add /\ Min(0, Len(m0)) = 0 /\ Min(0, Len(d)) = 0
      <4>1. \A y \in Nat : Min(0, y) = 0 /\ \A z \in 0 .. y : Min(z, y) = z
        BY DEF Min
      <4> QED BY <1>3, <2>1, <3>4, <4>1
    <3>7. Undone(x)'.map = Kept(x)
      BY <1>3, <1>6, <1>8, <2>1, <3>2, <3>5, <3>6
    <3> QED BY <1>2, <1>6, <1>t, <2>1, <3>1, <3>7 DEF Undoable
  <2> QED BY <1>0, <1>4, <1>5, <1>8, <2>1, FwdFails
<1> QED BY <1>7, <1>8

\* The first pass on a table that is built anew.
LEMMA IndRebuild ==
    ASSUME NEW S, Scope(S), IndInv(S), RollFwdRebuild
    PROVE  IndInv(S)'
<1>0. /\ TypeOK /\ Lists /\ pc = "fwd" /\ tid \in Table /\ tid \notin InPlace
      /\ table_is_update_pending(tid)
      /\ UNCHANGED lists
      /\ UNCHANGED <<pending_default, n_add, n_modify, n_delete, place, dflt, ts, held, history>>
      /\ obj' = [obj EXCEPT ![ts_next][tid] = Updated(tid)] /\ Objects
      /\ shared' = [shared EXCEPT ![tid] = FALSE]
      /\ Continue
  BY DEF RollFwdRebuild, SetNext, IndInv, counters
<1>t. ts \in 0 .. 1 /\ ts_next \in 0 .. 1 /\ ts # ts_next /\ ts_next' = ts_next /\ ts' = ts
  BY <1>0 DEF TypeOK, ts_next
<1>1. OnlyNext(Updated(tid))
  BY <1>0 DEF OnlyNext, TypeOK, Objects
<1>2. Updated(tid) \in Maps
  BY <1>0, Contents
<1>3. TypeOK'
  <2>1. tid' \in 1 .. NTables + 1 /\ pc' = "fwd"
    BY <1>0, TablesAssumption DEF Continue, Table
  <2>2. obj' \in [0 .. 1 -> [Table -> Maps \cup {None, Freed}]]
    BY <1>0, <1>2, <1>t DEF TypeOK
  <2>3. shared' \in [Table -> BOOLEAN]
    BY <1>0 DEF TypeOK
  <2> QED BY <1>0, <2>1, <2>2, <2>3 DEF TypeOK, lists, history
<1>4. ASSUME tid \in S, NEW x, x = tid PROVE (Split(x, ts_next, ts) /\ Counted(x))'
  <2>1. obj[ts][x] = Kept(x)
    <3>1. ~(tid < tid)
      BY <1>0 DEF Table
    <3>2. Rest(x)
      BY <1>0, <1>4, <3>1 DEF IndInv, Phase
    <3> QED BY <1>t, <3>2 DEF Rest
  <2>2. /\ obj'[ts_next][x] = Updated(x) /\ obj'[ts][x] = Kept(x) /\ ~shared'[x]
    BY <1>0, <1>4, <1>t, <2>1 DEF TypeOK
  <2>3. Updated(x)' = Updated(x) /\ Kept(x)' = Kept(x)
    BY <1>0, SameAll
  <2> QED BY <1>0, <1>4, <1>t, <2>2, <2>3 DEF Split, Counted
<1> QED BY <1>0, <1>1, <1>3, <1>4, FwdContinues

\* The same when the new object cannot be created.
LEMMA IndCreateFails ==
    ASSUME NEW S, Scope(S), IndInv(S), RollFwdCreateFails
    PROVE  IndInv(S)'
<1>0. /\ TypeOK /\ Lists /\ pc = "fwd" /\ tid \in Table /\ tid \notin InPlace
      /\ table_is_update_pending(tid)
      /\ UNCHANGED lists /\ Objects
      /\ UNCHANGED <<pending_default, n_add, n_modify, n_delete, place, dflt, ts, held, history>>
      /\ GoBack
  BY DEF RollFwdCreateFails, IndInv, counters
<1>p. PICK none \in {FALSE} \cup {MayRunOut} :
        /\ obj' = [obj EXCEPT ![ts_next][tid] = IF none THEN obj[ts_next][tid] ELSE None]
        /\ shared' = [shared EXCEPT ![tid] = none /\ @]
  BY DEF RollFwdCreateFails, SetNext
<1>o. PICK o : o = IF none THEN obj[ts_next][tid] ELSE None
  OBVIOUS
<1>t. ts \in 0 .. 1 /\ ts_next \in 0 .. 1 /\ ts # ts_next /\ ts_next' = ts_next /\ ts' = ts
  BY <1>0 DEF TypeOK, ts_next
<1>1. OnlyNext(o)
  BY <1>0, <1>o, <1>p DEF OnlyNext, TypeOK, Objects
<1>3. TypeOK'
  <2>1. tid' \in 1 .. NTables + 1 /\ pc' = "back"
    BY <1>0, TablesAssumption DEF GoBack, Table
  <2>2. obj' \in [0 .. 1 -> [Table -> Maps \cup {None, Freed}]]
    BY <1>0, <1>p, <1>t DEF TypeOK
  <2>3. shared' \in [Table -> BOOLEAN]
    <3>1. none \in BOOLEAN
      BY BucketAssumption
    <3> QED BY <1>0, <1>p, <3>1 DEF TypeOK
  <2> QED BY <1>0, <2>1, <2>2, <2>3 DEF TypeOK, lists, history
<1>4. ASSUME tid \in S, NEW x, x = tid PROVE Undoable(x)'
  <2>1. obj[ts][x] = Kept(x)
    <3>1. ~(tid < tid)
      BY <1>0 DEF Table
    <3>2. Rest(x)
      BY <1>0, <1>4, <3>1 DEF IndInv, Phase
    <3> QED BY <1>t, <3>2 DEF Rest
  <2>2. obj'[ts][x] = Kept(x)
    BY <1>0, <1>4, <1>p, <1>t, <2>1 DEF TypeOK
  <2>3. Kept(x)' = Kept(x) /\ table_is_update_pending(x)'
    BY <1>0, <1>4, SameAll
  <2> QED BY <1>0, <1>4, <1>t, <2>2, <2>3 DEF Undoable
<1> QED BY <1>0, <1>1, <1>3, <1>4, FwdFails

----------------------------------------------------------------------------
(* The end of a commit on one table: its lists are emptied, it is M.       *)

Ends(M) ==
    /\ M \in Maps
    /\ entries' = [entries EXCEPT ![tid] = M]
    /\ Clear(tid) /\ NextTable
    /\ UNCHANGED <<ts, held>>
    /\ \A t \in Table \ {tid} :
          /\ \A c \in 0 .. 1 : obj'[c][t] = obj[c][t] /\ place'[c][t] = place[c][t]
          /\ shared'[t] = shared[t] /\ n_add'[t] = n_add[t]
          /\ n_modify'[t] = n_modify[t] /\ n_delete'[t] = n_delete[t]

\* The lists of the table of this step are emptied; it is going to be what it is.
LEMMA Emptied ==
    ASSUME TypeOK, Lists, NEW x \in Table, x = tid, NEW M \in Maps,
           entries' = [entries EXCEPT ![x] = M], Clear(x)
    PROVE  Changed(x, M, M)
<1>1. /\ WellFormed(M, <<>>, <<>>, <<>>, <<>>)
      /\ UpdatedMap(M, <<>>, <<>>) = M /\ KeptMap(M, <<>>, <<>>) = M
  BY ClearKeeps
<1>2. ListsBecome(x, M, <<>>, <<>>, <<>>, <<>>)
  BY <1>1 DEF ListsBecome, Clear
<1>3. Changed(x, UpdatedMap(M, <<>>, <<>>), KeptMap(M, <<>>, <<>>))
  BY <1>2, OneTable
<1> QED BY <1>1, <1>3

\* The lists of a table whose commit ends.
LEMMA EndsChanged ==
    ASSUME TypeOK, Lists, NEW x \in Table, x = tid, NEW M, Ends(M)
    PROVE  Changed(x, M, M)
BY Emptied DEF Ends

\* What the end of a commit on one table says of the others.
LEMMA EndsFrame ==
    ASSUME TypeOK, Lists, tid \in Table, NEW M, Ends(M), NEW t \in Table, t # tid
    PROVE  /\ Rest(t)' <=> Rest(t)
           /\ Split(t, ts, ts_next)' <=> Split(t, ts, ts_next)
           /\ Undoable(t)' <=> Undoable(t)
<1>1. /\ Updated(t)' = Updated(t) /\ Kept(t)' = Kept(t)
      /\ table_is_update_pending(t)' <=> table_is_update_pending(t)
  <2>1. PICK x \in Table : x = tid
    OBVIOUS
  <2>2. Changed(x, M, M)
    BY <2>1, EndsChanged
  <2> QED BY <2>1, <2>2 DEF Changed
<1>2. /\ ts' = ts /\ ts_next' = ts_next /\ ts \in 0 .. 1 /\ ts_next \in 0 .. 1
  BY DEF Ends, ts_next, TypeOK
<1>3. /\ \A c \in 0 .. 1 : obj'[c][t] = obj[c][t] /\ place'[c][t] = place[c][t]
      /\ shared'[t] = shared[t] /\ n_add'[t] = n_add[t]
      /\ n_modify'[t] = n_modify[t] /\ n_delete'[t] = n_delete[t]
      /\ pending_add'[t] = pending_add[t] /\ pending_modify0'[t] = pending_modify0[t]
      /\ pending_delete'[t] = pending_delete[t]
  BY DEF Ends, Clear, TypeOK
<1>4. Undone(t)' = Undone(t) /\ (PutBack(t)' <=> PutBack(t))
  BY <1>2, <1>3 DEF Undone, PutBack
<1>5. Rest(t)' <=> Rest(t)
  BY <1>1, <1>3 DEF Rest
<1>6. Split(t, ts, ts_next)' <=> Split(t, ts, ts_next)
  BY <1>1, <1>2, <1>3 DEF Split
<1>7. Undoable(t)' <=> Undoable(t)
  BY <1>1, <1>2, <1>3, <1>4 DEF Undoable
<1> QED BY <1>5, <1>6, <1>7

\* The last table ends the commit; the others lead to the next table.
LEMMA NextTableLemma ==
    ASSUME tid \in Table, NextTable
    PROVE  \/ tid = NTables /\ pc' = "idle" /\ tid' = 1
           \/ tid # NTables /\ pc' = pc /\ tid' = tid + 1 /\ tid' \in Table
BY TablesAssumption DEF NextTable, Continue, Table

\* The end of a commit on one table, for the second pass and for the rollback.
LEMMA IndEnds ==
    ASSUME NEW S, Scope(S), IndInv(S), pc \in {"sync", "back"}, NEW M, Ends(M),
           TypeOK', Objects', Defaults',
           tid \in S => obj'[0][tid] = M /\ obj'[1][tid] = M
    PROVE  IndInv(S)'
<1>0. TypeOK /\ Lists /\ tid \in Table
  BY DEF IndInv, Phase
<1>x. PICK y \in Table : y = tid
  BY <1>0
<1>1. Changed(y, M, M)
  BY <1>0, <1>x, EndsChanged
<1>2. Lists'
  BY <1>1 DEF Changed
<1>4. InFlight'
  BY <1>0, NextTableLemma DEF IndInv, InFlight, Ends
<1>5. ASSUME NEW x \in S, x = tid PROVE Rest(x)'
  <2>1. Kept(x)' = M
    BY <1>1, <1>5, <1>x DEF Changed
  <2> QED BY <1>5, <2>1 DEF Rest
<1>6. ASSUME NEW t \in S
      PROVE  /\ t <= tid => Rest(t)'
             /\ t > tid /\ pc = "sync" => Split(t, ts, ts_next)'
             /\ t > tid /\ pc = "back" => Undoable(t)'
  <2>t. t \in Table
    BY DEF Scope
  <2>i. \A z \in Table : z \in Int
    BY DEF Table
  <2>0. t \in Int /\ tid \in Int /\ t \in Table
    BY <1>0, <2>t, <2>i
  <2>1. CASE t < tid
    <3>1. Rest(t)
      BY <2>1 DEF IndInv, Phase
    <3> QED BY <1>0, <2>0, <2>1, <3>1, EndsFrame
  <2>2. CASE t = tid
    BY <1>5, <2>0, <2>2
  <2>3. CASE t > tid
    <3>1. ~(t < tid) /\ t # tid /\ ~(t <= tid)
      BY <2>0, <2>3
    <3>2. pc = "sync" => Split(t, ts, ts_next)
      BY <3>1 DEF IndInv, Phase
    <3>3. pc = "back" => Undoable(t)
      BY <3>1 DEF IndInv, Phase
    <3> QED BY <1>0, <2>0, <3>1, <3>2, <3>3, EndsFrame
  <2> QED BY <2>0, <2>1, <2>2, <2>3
<1>7. Phase(S)'
  <2>0. tid \in Int /\ \A t \in S : t \in Int /\ t <= NTables
    BY <1>0 DEF Scope, Table
  <2>1. CASE tid = NTables /\ pc' = "idle" /\ tid' = 1
    <3>1. \A t \in S : Rest(t)'
      BY <1>6, <2>0, <2>1
    <3> QED BY <2>1, <3>1 DEF Phase
  <2>2. CASE tid # NTables /\ pc' = pc /\ tid' = tid + 1 /\ tid' \in Table
    <3>1. \A t \in S : (t < tid' <=> t <= tid) /\ (~(t < tid') <=> t > tid)
      BY <2>0, <2>2
    <3>2. CASE pc = "sync"
      <4>1. \A t \in S : IF t < tid' THEN Rest(t)' ELSE Split(t, ts, ts_next)'
        BY <1>6, <3>1, <3>2
      <4> QED BY <2>2, <3>2, <4>1 DEF Phase
    <3>3. CASE pc = "back"
      <4>1. \A t \in S : IF t < tid' THEN Rest(t)' ELSE Undoable(t)'
        BY <1>6, <3>1, <3>3
      <4> QED BY <2>2, <3>3, <4>1 DEF Phase
    <3> QED BY <3>2, <3>3
  <2> QED BY <1>0, <2>1, <2>2, NextTableLemma DEF Ends
<1> QED BY <1>2, <1>4, <1>7 DEF IndInv

\* What the second pass and the rollback do to the copies of table tid: nothing
\* if nothing is pending; if it is updated in place, ts_next becomes w; else the
\* object of ts_next is freed.
CopyStep(w) ==
    \/ ~table_is_update_pending(tid) /\ UNCHANGED <<obj, place, shared, counters>>
    \/ /\ table_is_update_pending(tid) /\ tid \in InPlace
       /\ SetNext(tid, w.map) /\ SetPlace(tid, w.place) /\ Count(tid, w) /\ UNCHANGED shared
    \/ /\ table_is_update_pending(tid) /\ tid \notin InPlace
       /\ FreeNext(tid) /\ UNCHANGED <<place, counters>>

\* What the copies are after such a step.
LEMMA CopyStepLemma ==
    ASSUME TypeOK, Objects, tid \in Table, NEW w, CopyStep(w),
           tid \in InPlace /\ table_is_update_pending(tid) =>
              w.map \in Maps /\ w.add \in Nat /\ w.modify \in Nat /\ w.delete \in Nat
    PROVE  /\ \A t \in Table \ {tid} :
                 /\ \A c \in 0 .. 1 : obj'[c][t] = obj[c][t] /\ place'[c][t] = place[c][t]
                 /\ shared'[t] = shared[t] /\ n_add'[t] = n_add[t]
                 /\ n_modify'[t] = n_modify[t] /\ n_delete'[t] = n_delete[t]
           /\ obj' \in [0 .. 1 -> [Table -> Maps \cup {None, Freed}]]
           /\ shared' \in [Table -> BOOLEAN]
           /\ n_add' \in [Table -> Nat] /\ n_modify' \in [Table -> Nat]
           /\ n_delete' \in [Table -> Nat] /\ Objects'
           /\ ~table_is_update_pending(tid) => obj' = obj /\ place' = place
           /\ table_is_update_pending(tid) /\ tid \in InPlace =>
                 /\ obj'[ts_next][tid] = w.map /\ obj'[ts][tid] = obj[ts][tid]
                 /\ place'[ts_next][tid] = w.place /\ place'[ts][tid] = place[ts][tid]
           /\ table_is_update_pending(tid) /\ tid \notin InPlace /\ ~shared[tid] =>
                 obj'[ts_next][tid] = obj[ts][tid] /\ obj'[ts][tid] = obj[ts][tid]
<1>0. /\ ts \in 0 .. 1 /\ ts_next \in 0 .. 1 /\ ts # ts_next /\ InPlace \subseteq Table
  BY TablesAssumption DEF TypeOK, ts_next, Table
<1>1. CASE ~table_is_update_pending(tid) /\ UNCHANGED <<obj, place, shared, counters>>
  <2>1. obj' = obj /\ place' = place /\ shared' = shared
    BY <1>1
  <2>2. n_add' = n_add /\ n_modify' = n_modify /\ n_delete' = n_delete
    BY <1>1 DEF counters
  <2>3. Objects'
    BY <2>1 DEF Objects
  <2> QED BY <1>1, <2>1, <2>2, <2>3 DEF TypeOK
<1>2. CASE /\ table_is_update_pending(tid) /\ tid \in InPlace
           /\ SetNext(tid, w.map) /\ SetPlace(tid, w.place) /\ Count(tid, w) /\ UNCHANGED shared
  <2>1. /\ obj' = [obj EXCEPT ![ts_next][tid] = w.map]
        /\ place' = [place EXCEPT ![ts_next][tid] = w.place]
        /\ n_add' = [n_add EXCEPT ![tid] = w.add]
        /\ n_modify' = [n_modify EXCEPT ![tid] = w.modify]
        /\ n_delete' = [n_delete EXCEPT ![tid] = w.delete]
        /\ w.map \in Maps /\ w.add \in Nat /\ w.modify \in Nat /\ w.delete \in Nat
    BY <1>2 DEF SetNext, SetPlace, Count
  <2>2. /\ obj' \in [0 .. 1 -> [Table -> Maps \cup {None, Freed}]]
        /\ \A t \in Table \ {tid} : \A c \in 0 .. 1 : obj'[c][t] = obj[c][t]
        /\ obj'[ts_next][tid] = w.map /\ obj'[ts][tid] = obj[ts][tid]
    BY <1>0, <2>1 DEF TypeOK
  <2>3. /\ Shape(place')
        /\ place'[ts_next][tid] = w.place
        /\ \A c \in 0 .. 1, t \in Table : c # ts_next \/ t # tid => place'[c][t] = place[c][t]
    <3>1. Shape(place) /\ place' = With(place, ts_next, tid, w.place)
      BY <2>1 DEF Objects, With
    <3> QED BY <1>0, <3>1, ShapeSet
  <2>4. /\ n_add' \in [Table -> Nat] /\ n_modify' \in [Table -> Nat] /\ n_delete' \in [Table -> Nat]
        /\ \A t \in Table \ {tid} : /\ n_add'[t] = n_add[t] /\ n_modify'[t] = n_modify[t]
                                   /\ n_delete'[t] = n_delete[t]
    BY <2>1 DEF TypeOK
  <2>5. \A c \in 0 .. 1 : \A t \in InPlace : obj'[c][t] \in Maps
    <3> SUFFICES ASSUME NEW c \in 0 .. 1, NEW t \in InPlace PROVE obj'[c][t] \in Maps
      OBVIOUS
    <3>1. CASE t = tid
      <4>1. c = ts \/ c = ts_next
        BY <1>0 DEF ts_next
      <4> QED BY <1>0, <2>1, <2>2, <3>1, <4>1 DEF Objects
    <3>2. CASE t # tid
      BY <1>0, <2>2, <3>2 DEF Objects
    <3> QED BY <3>1, <3>2
  <2>6. Objects'
    BY <2>3, <2>5 DEF Objects
  <2> QED BY <1>0, <1>2, <2>2, <2>3, <2>4, <2>6 DEF TypeOK
<1>3. CASE /\ table_is_update_pending(tid) /\ tid \notin InPlace
           /\ FreeNext(tid) /\ UNCHANGED <<place, counters>>
  <2> DEFINE old == IF obj[ts_next][tid] # None /\ shared[tid] THEN Freed ELSE obj[ts][tid]
  <2>1. /\ obj' = [c \in 0 .. 1 |-> [obj[c] EXCEPT ![tid] = old]]
        /\ shared' = [shared EXCEPT ![tid] = TRUE]
    BY <1>3 DEF FreeNext
  <2>2. old \in Maps \cup {None, Freed} /\ (~shared[tid] => old = obj[ts][tid])
    BY <1>0 DEF TypeOK
  <2> HIDE DEF old
  <2>3. /\ obj' \in [0 .. 1 -> [Table -> Maps \cup {None, Freed}]]
        /\ \A t \in Table \ {tid} : \A c \in 0 .. 1 : obj'[c][t] = obj[c][t]
        /\ \A c \in 0 .. 1 : obj'[c][tid] = old
    BY <2>1, <2>2 DEF TypeOK
  <2>4. shared' \in [Table -> BOOLEAN] /\ \A t \in Table \ {tid} : shared'[t] = shared[t]
    BY <2>1 DEF TypeOK
  <2>5. n_add' = n_add /\ n_modify' = n_modify /\ n_delete' = n_delete /\ place' = place
    BY <1>3 DEF counters
  <2>6. Objects'
    BY <1>0, <1>3, <2>3, <2>5 DEF Objects
  <2> QED BY <1>0, <1>3, <2>2, <2>3, <2>4, <2>5, <2>6 DEF TypeOK
<1> QED BY <1>1, <1>2, <1>3 DEF CopyStep

\* The second pass, if it is not refused: the object that is replaced is not the
\* one in use.
LEMMA IndSync ==
    ASSUME NEW S, Scope(S), IndInv(S), Sync,
           tid \in S \cap InPlace /\ table_is_update_pending(tid) => Update(tid, ts_next).ok
    PROVE  IndInv(S)'
<1> DEFINE U == Updated(tid)
           m == obj[ts_next][tid]
           p == place[ts_next][tid]
           u == UpdateInPlace(tid, m, p)
<1>0. /\ TypeOK /\ Lists /\ Objects /\ tid \in Table /\ pc = "sync"
      /\ ts \in 0 .. 1 /\ ts_next \in 0 .. 1 /\ ts # ts_next /\ ts_next' = ts_next /\ ts' = ts
  BY DEF IndInv, Phase, Sync, TypeOK, ts_next
<1>1. U \in Maps
  BY <1>0, Contents
<1>2. tid \in S => Split(tid, ts, ts_next)
  <2>1. ~(tid < tid)
    BY <1>0 DEF Table
  <2> QED BY <1>0, <2>1 DEF IndInv, Phase
<1>3. ASSUME tid \in InPlace, table_is_update_pending(tid)
      PROVE  /\ u.map \in Maps /\ u.add \in Nat /\ u.modify \in Nat /\ u.delete \in Nat
             /\ tid \in S => u.map = U
  <2>1. m \in Maps
    BY <1>0, <1>3 DEF Objects
  <2>2. tid \in S => m = Kept(tid) /\ u.ok
    BY <1>2, <1>3 DEF Split, Update
  <2> HIDE DEF m, p, u
  <2> QED BY <1>0, <2>1, <2>2, UpdateLemma DEF u
<1>c. CopyStep(u)
  BY DEF Sync, CopyStep, Update
<1> HIDE DEF m, p, u
<1>4. /\ \A t \in Table \ {tid} :
            /\ \A c \in 0 .. 1 : obj'[c][t] = obj[c][t] /\ place'[c][t] = place[c][t]
            /\ shared'[t] = shared[t] /\ n_add'[t] = n_add[t]
            /\ n_modify'[t] = n_modify[t] /\ n_delete'[t] = n_delete[t]
      /\ obj' \in [0 .. 1 -> [Table -> Maps \cup {None, Freed}]]
      /\ shared' \in [Table -> BOOLEAN]
      /\ n_add' \in [Table -> Nat] /\ n_modify' \in [Table -> Nat] /\ n_delete' \in [Table -> Nat]
      /\ Objects'
  BY <1>0, <1>3, <1>c, CopyStepLemma
<1>e. ASSUME tid \in S PROVE obj'[0][tid] = U /\ obj'[1][tid] = U
  <2>1. obj'[ts_next][tid] = U /\ obj'[ts][tid] = U
    <3>1. obj[ts][tid] = U /\ obj[ts_next][tid] = Kept(tid)
      BY <1>2, <1>e DEF Split
    <3>2. CASE ~table_is_update_pending(tid)
      <4>1. U = Kept(tid)
        BY <1>0, <3>2, Contents
      <4>2. obj' = obj
        BY <1>0, <1>3, <1>c, <3>2, CopyStepLemma
      <4> QED BY <3>1, <4>1, <4>2
    <3>3. CASE table_is_update_pending(tid) /\ tid \in InPlace
      <4>1. obj'[ts_next][tid] = u.map /\ obj'[ts][tid] = obj[ts][tid]
        BY <1>0, <1>3, <1>c, <3>3, CopyStepLemma
      <4> QED BY <1>3, <1>e, <3>1, <3>3, <4>1
    <3>4. CASE table_is_update_pending(tid) /\ tid \notin InPlace
      <4>1. ~shared[tid]
        BY <1>2, <1>e, <3>4 DEF Split
      <4> QED BY <1>0, <1>3, <1>c, <3>1, <3>4, <4>1, CopyStepLemma
    <3> QED BY <3>2, <3>3, <3>4
  <2> QED BY <1>0, <2>1
<1>5. /\ entries' = [entries EXCEPT ![tid] = U] /\ Clear(tid) /\ NextTable
      /\ UNCHANGED <<ts, held, differ>> /\ refused' \in BOOLEAN
      /\ dflt' = [dflt EXCEPT ![ts_next][tid] = Default(tid, ts_next)]
  BY <1>0 DEF Sync, TypeOK
<1> HIDE DEF U
<1>6. Ends(U)
  BY <1>1, <1>4, <1>5 DEF Ends
<1>7. Default(tid, ts_next) \in Action
  BY <1>0 DEF TypeOK, Default
<1>8. TypeOK'
  <2>0. PICK x \in Table : x = tid
    BY <1>0
  <2>1. Changed(x, U, U)
    BY <1>0, <1>6, <2>0, EndsChanged
  <2>2. dflt' \in [0 .. 1 -> [Table -> Action]]
    BY <1>0, <1>5, <1>7 DEF TypeOK
  <2>3. pending_default' \in [Table -> Action \cup {None}]
    BY <1>0, <1>5 DEF TypeOK, Clear
  <2>4. tid' \in 1 .. NTables + 1 /\ pc' \in {"idle", "fwd", "grace", "sync", "back"}
    BY <1>0, <1>5, NextTableLemma, TablesAssumption DEF Table
  <2> QED BY <1>0, <1>4, <1>5, <2>1, <2>2, <2>3, <2>4 DEF TypeOK, Changed
<1>9. Defaults'
  <2>0. tid \in Int /\ \A t \in Table : t \in Int /\ t <= NTables
    BY <1>0 DEF Table
  <2>1. ASSUME NEW t \in Table, t < tid PROVE dflt'[0][t] = dflt'[1][t]
    <3>1. ~(t >= tid) /\ t # tid
      BY <2>0, <2>1
    <3>2. dflt[0][t] = dflt[1][t]
      BY <1>0, <3>1 DEF IndInv, Defaults
    <3> QED BY <1>0, <1>5, <3>1, <3>2 DEF TypeOK
  <2>2. dflt'[0][tid] = dflt'[1][tid]
    <3>1. tid >= tid
      BY <2>0
    <3>2. dflt[ts][tid] = Default(tid, ts_next)
      BY <1>0, <3>1 DEF IndInv, Defaults
    <3>3. dflt'[ts_next][tid] = Default(tid, ts_next) /\ dflt'[ts][tid] = dflt[ts][tid]
      BY <1>0, <1>5 DEF TypeOK
    <3> QED BY <1>0, <3>2, <3>3
  <2>3. ASSUME NEW t \in Table, t > tid PROVE (dflt[ts][t] = Default(t, ts_next))'
    <3>1. t >= tid /\ t # tid
      BY <2>0, <2>3
    <3>2. dflt[ts][t] = Default(t, ts_next)
      BY <1>0, <3>1 DEF IndInv, Defaults
    <3>3. /\ dflt'[ts_next][t] = dflt[ts_next][t] /\ dflt'[ts][t] = dflt[ts][t]
          /\ pending_default'[t] = pending_default[t]
      BY <1>0, <1>5, <3>1 DEF TypeOK, Clear
    <3> QED BY <1>0, <3>2, <3>3 DEF Default
  <2>4. CASE tid = NTables /\ pc' = "idle" /\ tid' = 1
    <3>1. \A t \in Table : t < tid \/ t = tid
      BY <2>0, <2>4
    <3> QED BY <2>1, <2>2, <2>4, <3>1 DEF Defaults
  <2>5. CASE tid # NTables /\ pc' = pc /\ tid' = tid + 1 /\ tid' \in Table
    <3> SUFFICES ASSUME NEW t \in Table
                 PROVE  IF t >= tid' THEN (dflt[ts][t] = Default(t, ts_next))'
                                     ELSE dflt'[0][t] = dflt'[1][t]
      BY <1>0, <2>5 DEF Defaults
    <3>1. (t >= tid' => t > tid) /\ (~(t >= tid') => t < tid \/ t = tid)
      BY <2>0, <2>5
    <3> QED BY <2>1, <2>2, <2>3, <3>1
  <2> QED BY <1>0, <1>5, <2>4, <2>5, NextTableLemma
<1> QED BY <1>0, <1>4, <1>6, <1>8, <1>9, <1>e, IndEnds

\* The rollback, if there is room for what it puts back and it does not free the
\* object in use.
LEMMA IndRollBack ==
    ASSUME NEW S, Scope(S), IndInv(S), RollBack,
           tid \in S \cap InPlace /\ table_is_update_pending(tid) => PutBack(tid),
           tid \in S \ InPlace /\ table_is_update_pending(tid) => ~shared[tid]
    PROVE  IndInv(S)'
<1> DEFINE K == Kept(tid)
           w == Undone(tid)
<1>0. /\ TypeOK /\ Lists /\ Objects /\ tid \in Table /\ pc = "back"
      /\ ts \in 0 .. 1 /\ ts_next \in 0 .. 1 /\ ts # ts_next /\ ts_next' = ts_next /\ ts' = ts
  BY DEF IndInv, Phase, RollBack, TypeOK, ts_next
<1>1. K \in Maps
  BY <1>0, Contents
<1>2. tid \in S => Undoable(tid)
  <2>1. ~(tid < tid)
    BY <1>0 DEF Table
  <2> QED BY <1>0, <2>1 DEF IndInv, Phase
<1>3. tid \in InPlace => /\ w.map \in Maps /\ w.add \in Nat /\ w.modify \in Nat
                         /\ w.delete \in Nat
  <2>1. tid \in InPlace => obj[ts_next][tid] \in Maps
    BY <1>0 DEF Objects
  <2> QED BY <1>0, <2>1, UndoneMaps, UndoneCounts
<1>c. CopyStep(w)
  BY DEF RollBack, CopyStep
<1>w. tid \in S /\ tid \in InPlace /\ table_is_update_pending(tid) => w.map = K
  BY <1>2 DEF Undoable
<1>d. differ' \in [Table -> BOOLEAN]
  BY <1>0 DEF RollBack, TypeOK
<1> HIDE DEF w
<1>4. /\ \A t \in Table \ {tid} :
            /\ \A c \in 0 .. 1 : obj'[c][t] = obj[c][t] /\ place'[c][t] = place[c][t]
            /\ shared'[t] = shared[t] /\ n_add'[t] = n_add[t]
            /\ n_modify'[t] = n_modify[t] /\ n_delete'[t] = n_delete[t]
      /\ obj' \in [0 .. 1 -> [Table -> Maps \cup {None, Freed}]]
      /\ shared' \in [Table -> BOOLEAN]
      /\ n_add' \in [Table -> Nat] /\ n_modify' \in [Table -> Nat] /\ n_delete' \in [Table -> Nat]
      /\ Objects'
  BY <1>0, <1>3, <1>c, CopyStepLemma
<1>e. ASSUME tid \in S PROVE obj'[0][tid] = K /\ obj'[1][tid] = K
  <2>1. obj'[ts_next][tid] = K /\ obj'[ts][tid] = K
    <3>1. obj[ts][tid] = K
      BY <1>2, <1>e DEF Undoable
    <3>2. CASE ~table_is_update_pending(tid)
      <4>1. obj' = obj
        BY <1>0, <1>3, <1>c, <3>2, CopyStepLemma
      <4> QED BY <1>2, <1>e, <3>1, <3>2, <4>1 DEF Undoable
    <3>3. CASE table_is_update_pending(tid) /\ tid \in InPlace
      <4>1. obj'[ts_next][tid] = w.map /\ obj'[ts][tid] = obj[ts][tid]
        BY <1>0, <1>3, <1>c, <3>3, CopyStepLemma
      <4> QED BY <1>e, <1>w, <3>1, <3>3, <4>1
    <3>4. CASE table_is_update_pending(tid) /\ tid \notin InPlace
      <4>1. ~shared[tid]
        BY <1>e, <3>4
      <4> QED BY <1>0, <1>3, <1>c, <3>1, <3>4, <4>1, CopyStepLemma
    <3> QED BY <3>2, <3>3, <3>4
  <2> QED BY <1>0, <2>1
<1>5. /\ entries' = [entries EXCEPT ![tid] = K] /\ Clear(tid) /\ NextTable
      /\ UNCHANGED <<dflt, ts, held, refused>>
  BY DEF RollBack
<1> HIDE DEF K
<1>6. Ends(K)
  BY <1>1, <1>4, <1>5 DEF Ends
<1>8. TypeOK'
  <2>0. PICK x \in Table : x = tid
    BY <1>0
  <2>1. Changed(x, K, K)
    BY <1>0, <1>6, <2>0, EndsChanged
  <2>3. pending_default' \in [Table -> Action \cup {None}]
    BY <1>0, <1>5 DEF TypeOK, Clear
  <2>4. tid' \in 1 .. NTables + 1 /\ pc' \in {"idle", "fwd", "grace", "sync", "back"}
    BY <1>0, <1>5, NextTableLemma, TablesAssumption DEF Table
  <2> QED BY <1>0, <1>4, <1>5, <1>d, <2>1, <2>3, <2>4 DEF TypeOK, Changed
<1>9. Defaults'
  BY <1>0, <1>5, NextTableLemma DEF IndInv, Defaults
<1> QED BY <1>0, <1>4, <1>6, <1>8, <1>9, <1>e, IndEnds

----------------------------------------------------------------------------
(* The theorems on the copies.                                             *)

\* The second pass accepts the pending work of table tid.
Accepted(S) ==
    tid \in S \cap InPlace /\ table_is_update_pending(tid) => Update(tid, ts_next).ok

\* The rollback has room for what it puts back into table tid and does not free
\* the object both copies share.
Restored(S) ==
    /\ tid \in S \cap InPlace /\ table_is_update_pending(tid) => PutBack(tid)
    /\ tid \in S \ InPlace /\ table_is_update_pending(tid) => ~shared[tid]

\* Every step keeps the invariant, if the two steps that ignore a status or free
\* an object go well for the tables of S.
LEMMA IndNext ==
    ASSUME NEW S, Scope(S), IndInv(S), [Next]_vars,
           Sync => Accepted(S), RollBack => Restored(S)
    PROVE  IndInv(S)'
<1>1. ASSUME NEW t \in Table, NEW e \in Entries, TableAdd(t, e) PROVE IndInv(S)'
  BY <1>1, IndAdd
<1>2. ASSUME NEW t \in Table, NEW k \in Key, TableDelete(t, k) PROVE IndInv(S)'
  BY <1>2, IndDelete
<1>3. ASSUME NEW t \in Table, NEW a \in Action, TableDefault(t, a) PROVE IndInv(S)'
  BY <1>3, IndDefault
<1>4. CASE Abort
  BY <1>4, IndAbort
<1>5. CASE Commit
  BY <1>5, IndCommit
<1>6. CASE RollFwdSkip
  BY <1>6, IndSkip
<1>7. CASE RollFwdInPlace
  BY <1>7, IndInPlace
<1>8. CASE RollFwdRebuild
  BY <1>8, IndRebuild
<1>9. CASE RollFwdCreateFails
  BY <1>9, IndCreateFails
<1>10. CASE Swap
  BY <1>10, IndSwap
<1>11. CASE Sync
  BY <1>11, IndSync DEF Accepted
<1>12. CASE RollBack
  BY <1>12, IndRollBack DEF Restored
<1>13. CASE Usleep
  BY <1>13, IndUsleep
<1>14. ASSUME NEW w \in Thread, Rx(w) \/ Tx(w) PROVE IndInv(S)'
  BY <1>14, IndPacket
<1>15. CASE UNCHANGED vars
  BY <1>15, IndStutter
<1> QED BY <1>1, <1>2, <1>3, <1>4, <1>5, <1>6, <1>7, <1>8, <1>9, <1>10, <1>11, <1>12, <1>13,
           <1>14, <1>15 DEF Next, Command, CommitStep

\* For no table in particular nothing is assumed.
LEMMA BaseInductive == Spec => []IndInv({})
<1>1. Scope({})
  BY DEF Scope
<1>2. Init => IndInv({})
  BY <1>1, IndInit
<1>3. IndInv({}) /\ [Next]_vars => IndInv({})'
  <2>1. Accepted({}) /\ Restored({})
    BY DEF Accepted, Restored
  <2> QED BY <1>1, <2>1, IndNext
<1> QED BY <1>2, <1>3, PTL DEF Spec

\* Type correctness, for any tables of both kinds.
THEOREM TypeCorrect == Spec => []TypeOK
<1>1. IndInv({}) => TypeOK
  BY DEF IndInv
<1> QED BY <1>1, BaseInductive, PTL

\* The rollback does not meet a table with pending work whose object both
\* copies still share.
RollBackSafe ==
    pc = "back" /\ tid \notin InPlace /\ table_is_update_pending(tid) => ~shared[tid]

\* What happened stays known.
LEMMA HistoryStays ==
    ASSUME TypeOK, [Next]_vars
    PROVE  /\ refused => refused'
           /\ \A t \in Table : differ[t] => differ'[t]
<1> DEFINE Goal == (refused => refused') /\ \A t \in Table : differ[t] => differ'[t]
<1>0. ASSUME UNCHANGED history PROVE Goal
  BY <1>0 DEF history
<1> SUFFICES ASSUME ~(UNCHANGED history) PROVE Goal
  BY <1>0
<1>1. CASE Command
  BY <1>1 DEF Command, TableAdd, TableDelete, TableDefault, Abort, history
<1>2. CASE Commit \/ RollFwdSkip \/ RollFwdInPlace \/ RollFwdRebuild \/ RollFwdCreateFails
  BY <1>2 DEF Commit, RollFwdSkip, RollFwdInPlace, RollFwdRebuild, RollFwdCreateFails, history
<1>3. CASE Swap \/ Usleep
  BY <1>3 DEF Swap, Usleep, Slept, history
<1>4. CASE Sync
  <2>1. differ' = differ
    BY <1>4 DEF Sync
  <2>2. refused => refused'
    BY <1>4 DEF Sync
  <2> QED BY <2>1, <2>2
<1>5. CASE RollBack
  <2>1. refused' = refused
    BY <1>5 DEF RollBack
  <2>2. CASE differ' = differ
    BY <2>1, <2>2
  <2>3. ASSUME differ' # differ PROVE \A t \in Table : differ[t] => differ'[t]
    <3>1. PICK b \in BOOLEAN : differ' = [differ EXCEPT ![tid] = @ \/ b]
      BY <1>5, <2>3 DEF RollBack
    <3> QED BY <3>1 DEF TypeOK
  <2> QED BY <2>1, <2>2, <2>3
<1>6. ASSUME NEW w \in Thread, Rx(w) \/ Tx(w) PROVE FALSE
  BY <1>6 DEF Rx, Tx
<1>7. CASE UNCHANGED vars
  BY <1>7 DEF vars, history
<1> HIDE DEF Goal
<1>8. CASE Next
  BY <1>1, <1>2, <1>3, <1>4, <1>5, <1>6, <1>8 DEF Next, CommitStep
<1>9. Goal
  BY <1>7, <1>8
<1> QED BY <1>9 DEF Goal

\* For all tables: as long as no second pass was refused.
LEMMA AllInductive ==
    Spec /\ []RollBackSafe /\ []PutBackFits => [](refused \/ IndInv(Table))
<1>1. Scope(Table)
  BY DEF Scope
<1>2. Init => IndInv(Table)
  BY <1>1, IndInit
<1>3. ASSUME IndInv({}), refused \/ IndInv(Table), [Next]_vars, RollBackSafe, PutBackFits
      PROVE  (refused \/ IndInv(Table))'
  <2>1. CASE refused
    BY <1>3, <2>1, HistoryStays DEF IndInv
  <2>2. CASE ~refused /\ Sync /\ ~Accepted(Table)
    BY <2>2 DEF Sync, Accepted
  <2>3. CASE ~refused /\ IndInv(Table) /\ (Sync => Accepted(Table))
    <3>1. RollBack => Restored(Table)
      BY <1>3, <2>3 DEF RollBack, Restored, RollBackSafe, PutBackFits, PutBack
    <3> QED BY <1>1, <1>3, <2>3, <3>1, IndNext
  <2> QED BY <1>3, <2>1, <2>2, <2>3
<1> QED BY <1>2, <1>3, BaseInductive, PTL DEF Spec

\* The invariant implies that the copies agree.
LEMMA IndAgree ==
    ASSUME refused \/ IndInv(Table)
    PROVE  CopiesAgree
BY DEF CopiesAgree, IndInv, Phase, Rest, Defaults

\* Both copies hold what the lists say, unless a rollback freed an object in use,
\* a rollback had no room for what it put back, or a second pass was refused.
THEOREM AgreeIfSafe == Spec /\ []RollBackSafe /\ []PutBackFits => []CopiesAgree
BY AllInductive, IndAgree, PTL

----------------------------------------------------------------------------
(* The second pass does to the old copy what the first did to the other    *)
(* one, and does it with the same result: if the two had the same entries  *)
(* in the same buckets before the commit.                                  *)

\* UpdateInPlace as a function of the lists.
Work(t, a, m1, d, m, p) ==
    LET na == Admitted(t, m, p, a)
        o1 == AddAll(t, m, p, a, na)
        p1 == PlacedAll(t, p, a)[na]
        nm == IF na < Len(a) THEN 0 ELSE Admitted(t, o1, p1, m1)
        o2 == AddAll(t, o1, p1, m1, nm)
        p2 == PlacedAll(t, p1, m1)[nm]
        ok == na = Len(a) /\ nm = Len(m1)
        nd == IF ok THEN Len(d) ELSE 0
    IN  [ok |-> ok, add |-> na, modify |-> nm, delete |-> nd,
         map |-> DelAll(o2, d, nd), place |-> ReleasedAll(t, p2, d)[nd]]

WorkOn(t, c) ==
    Work(t, pending_add[t], pending_modify1[t], pending_delete[t], obj[c][t], place[c][t])

\* The two copies of a table are the same, entries and buckets.
Same(t) == obj[0][t] = obj[1][t] /\ place[0][t] = place[1][t]

\* Copy new is copy old with the pending work done and accepted.
Ahead(t, new, old) ==
    IF table_is_update_pending(t)
    THEN /\ WorkOn(t, old).ok
         /\ obj[new][t] = WorkOn(t, old).map /\ place[new][t] = WorkOn(t, old).place
    ELSE Same(t)

\* Where the copies of a table are the same or one step apart.
TwinsOf(t) ==
    /\ pc = "idle" => Same(t)
    /\ pc = "fwd" => IF t < tid THEN Ahead(t, ts_next, ts) ELSE Same(t)
    /\ pc = "grace" => Ahead(t, ts, ts_next)
    /\ pc = "sync" => IF t < tid THEN Same(t) ELSE Ahead(t, ts, ts_next)
    /\ pc = "back" /\ (t < tid \/ ~table_is_update_pending(t)) => Same(t)

Twins == \A t \in InPlace : ~differ[t] => TwinsOf(t)

\* The same work, written in two ways.
LEMMA WorkLemma ==
    ASSUME NEW t, NEW c
    PROVE  Update(t, c) = WorkOn(t, c)
BY DEF Update, UpdateInPlace, WorkOn, Work

\* The step changes nothing of table t.
Quiet(t) ==
    /\ \A c \in 0 .. 1 : obj'[c][t] = obj[c][t] /\ place'[c][t] = place[c][t]
    /\ pending_add'[t] = pending_add[t] /\ pending_modify1'[t] = pending_modify1[t]
    /\ pending_delete'[t] = pending_delete[t]

\* What such a step leaves true.
LEMMA QuietFrame ==
    ASSUME TypeOK, NEW t, Quiet(t)
    PROVE  /\ Same(t)' <=> Same(t)
           /\ table_is_update_pending(t)' <=> table_is_update_pending(t)
           /\ ts' = ts => /\ Ahead(t, ts_next, ts)' <=> Ahead(t, ts_next, ts)
                          /\ Ahead(t, ts, ts_next)' <=> Ahead(t, ts, ts_next)
           /\ ts' = ts_next => (Ahead(t, ts, ts_next)' <=> Ahead(t, ts_next, ts))
<1>1. /\ Same(t)' <=> Same(t)
      /\ table_is_update_pending(t)' <=> table_is_update_pending(t)
  BY DEF Quiet, Same, table_is_update_pending
<1>2. ts \in 0 .. 1 /\ ts_next \in 0 .. 1 /\ ts_next' = 1 - ts' /\ 1 - ts_next = ts
  BY DEF TypeOK, ts_next
<1>3. \A c \in 0 .. 1 : WorkOn(t, c)' = WorkOn(t, c)
  BY DEF WorkOn, Quiet
<1>4. ASSUME ts' = ts
      PROVE  /\ Ahead(t, ts_next, ts)' <=> Ahead(t, ts_next, ts)
             /\ Ahead(t, ts, ts_next)' <=> Ahead(t, ts, ts_next)
  <2>1. /\ ts_next' = ts_next
        /\ WorkOn(t, ts)' = WorkOn(t, ts) /\ WorkOn(t, ts_next)' = WorkOn(t, ts_next)
    BY <1>2, <1>4 DEF WorkOn, Quiet, ts_next
  <2> QED BY <1>1, <1>2, <1>4, <2>1 DEF Ahead, Quiet
<1>5. ASSUME ts' = ts_next
      PROVE  Ahead(t, ts, ts_next)' <=> Ahead(t, ts_next, ts)
  <2>1. ts_next' = ts /\ WorkOn(t, ts_next)' = WorkOn(t, ts)
    BY <1>2, <1>5 DEF WorkOn, Quiet
  <2> QED BY <1>1, <1>2, <1>5, <2>1 DEF Ahead, Quiet
<1> QED BY <1>1, <1>4, <1>5

\* A table of which the step changes nothing, when the commit goes on.
LEMMA TwinQuiet ==
    ASSUME TypeOK, NEW t \in Table, Quiet(t), TwinsOf(t), ts' = ts,
           \/ pc' = pc /\ tid' = tid
           \/ pc' = "fwd" /\ pc = "idle" /\ tid' = 1
           \/ pc' = "sync" /\ pc = "grace" /\ tid' = 1
           \/ pc' = "back" /\ pc = "fwd" /\ tid' = 1
           \/ pc' = "idle" /\ pc \in {"sync", "back"} /\ t < tid
           \/ pc' = pc /\ pc # "fwd" /\ tid' = tid + 1 /\ t # tid
           \/ pc' = pc /\ pc = "fwd" /\ tid' = tid + 1 /\ (t = tid => ~table_is_update_pending(t))
    PROVE  TwinsOf(t)'
<1>1. /\ Same(t)' <=> Same(t)
      /\ table_is_update_pending(t)' <=> table_is_update_pending(t)
      /\ Ahead(t, ts_next, ts)' <=> Ahead(t, ts_next, ts)
      /\ Ahead(t, ts, ts_next)' <=> Ahead(t, ts, ts_next)
  BY QuietFrame
<1>2. ~table_is_update_pending(t) =>
         (Ahead(t, ts_next, ts) <=> Same(t)) /\ (Ahead(t, ts, ts_next) <=> Same(t))
  BY DEF Ahead
<1>3. t \in Nat /\ t >= 1 /\ tid \in Nat
  BY TablesAssumption DEF TypeOK, Table
<1>4. CASE pc' = pc /\ tid' = tid
  BY <1>1, <1>4 DEF TwinsOf
<1>5. CASE pc' = "fwd" /\ pc = "idle" /\ tid' = 1
  BY <1>1, <1>3, <1>5 DEF TwinsOf
<1>6. CASE pc' = "sync" /\ pc = "grace" /\ tid' = 1
  BY <1>1, <1>3, <1>6 DEF TwinsOf
<1>7. CASE pc' = "back" /\ pc = "fwd" /\ tid' = 1
  BY <1>1, <1>2, <1>3, <1>7 DEF TwinsOf
<1>8. CASE pc' = "idle" /\ pc \in {"sync", "back"} /\ t < tid
  BY <1>1, <1>8 DEF TwinsOf
<1>9. CASE pc' = pc /\ pc # "fwd" /\ tid' = tid + 1 /\ t # tid
  <2>1. t < tid' <=> t < tid
    BY <1>3, <1>9
  <2> QED BY <1>1, <1>9, <2>1 DEF TwinsOf
<1>10. CASE pc' = pc /\ pc = "fwd" /\ tid' = tid + 1 /\ (t = tid => ~table_is_update_pending(t))
  <2>1. t < tid' <=> t < tid \/ t = tid
    BY <1>3, <1>10
  <2>2. ~(tid < tid)
    BY <1>3
  <2> QED BY <1>1, <1>2, <1>10, <2>1, <2>2 DEF TwinsOf
<1> QED BY <1>4, <1>5, <1>6, <1>7, <1>8, <1>9, <1>10

\* The numbers of the copies, and the tables updated in place.
LEMMA CopyNumbers ==
    ASSUME IndInv({})
    PROVE  /\ TypeOK /\ Lists /\ Objects
           /\ ts \in 0 .. 1 /\ ts_next \in 0 .. 1 /\ ts # ts_next
           /\ \A t \in InPlace : t \in Table /\ t \in Nat /\ t <= NTables
           /\ pc \in {"sync", "back"} => tid \in Table
<1>1. TypeOK /\ Lists /\ Objects /\ Phase({})
  BY DEF IndInv
<1>2. ts \in 0 .. 1 /\ ts_next \in 0 .. 1 /\ ts # ts_next
  BY <1>1 DEF TypeOK, ts_next
<1>3. \A t \in InPlace : t \in Table /\ t \in Nat /\ t <= NTables
  BY TablesAssumption DEF Table
<1>4. pc \in {"sync", "back"} => tid \in Table
  BY <1>1 DEF Phase
<1> QED BY <1>1, <1>2, <1>3, <1>4

\* The first pass on a table updated in place.
LEMMA TwinInPlace ==
    ASSUME IndInv({}), RollFwdInPlace, NEW t \in InPlace, TwinsOf(t)
    PROVE  TwinsOf(t)'
<1> DEFINE u == Update(tid, ts_next)
<1>0. /\ TypeOK /\ Objects /\ t \in Table /\ tid \in Table /\ tid \in InPlace /\ pc = "fwd"
      /\ ts \in 0 .. 1 /\ ts_next \in 0 .. 1 /\ ts # ts_next /\ ts_next' = ts_next /\ ts' = ts
      /\ UNCHANGED lists /\ table_is_update_pending(tid)
      /\ obj' = [obj EXCEPT ![ts_next][tid] = u.map]
      /\ (IF u.ok THEN Continue ELSE GoBack)
  <2>1. /\ TypeOK /\ Objects /\ t \in Table
        /\ ts \in 0 .. 1 /\ ts_next \in 0 .. 1 /\ ts # ts_next
    BY CopyNumbers
  <2>2. tid \in InPlace /\ pc = "fwd" /\ table_is_update_pending(tid)
    BY DEF RollFwdInPlace
  <2>3. tid \in Table
    BY <2>2, CopyNumbers
  <2>4. ts' = ts /\ UNCHANGED lists
    BY DEF RollFwdInPlace
  <2>5. ts_next' = ts_next
    BY <2>4 DEF ts_next
  <2>6. obj' = [obj EXCEPT ![ts_next][tid] = u.map] /\ (IF u.ok THEN Continue ELSE GoBack)
    BY DEF RollFwdInPlace, SetNext
  <2> HIDE DEF u
  <2> QED BY <2>1, <2>2, <2>3, <2>4, <2>5, <2>6
<1>1. /\ place'[ts_next][tid] = u.place
      /\ \A c \in 0 .. 1, x \in Table : c # ts_next \/ x # tid => place'[c][x] = place[c][x]
  <2>1. Shape(place) /\ place' = With(place, ts_next, tid, u.place)
    BY <1>0 DEF RollFwdInPlace, SetPlace, Objects, With
  <2>2. tid \in Table /\ ts_next \in 0 .. 1
    BY <1>0
  <2> HIDE DEF u
  <2> QED BY <2>1, <2>2, ShapeSet
<1>2. u = WorkOn(tid, ts_next)
  BY WorkLemma
<1> HIDE DEF u
<1>3. /\ obj'[ts_next][tid] = u.map
      /\ \A c \in 0 .. 1, x \in Table : c # ts_next \/ x # tid => obj'[c][x] = obj[c][x]
  BY <1>0 DEF TypeOK
<1>l. /\ pending_add' = pending_add /\ pending_modify1' = pending_modify1
      /\ pending_delete' = pending_delete
  BY <1>0 DEF lists
<1>4. CASE t # tid
  <2>1. Quiet(t)
    BY <1>0, <1>1, <1>3, <1>4, <1>l DEF Quiet
  <2> QED BY <1>0, <1>4, <2>1, TwinQuiet DEF Continue, GoBack
<1>5. CASE t = tid /\ u.ok
  <2>0. ~(t < tid) /\ t < tid' /\ pc' = "fwd"
    BY <1>0, <1>5 DEF Continue, Table
  <2>1. Same(t)
    BY <1>0, <2>0 DEF TwinsOf
  <2>2. obj[ts][t] = obj[ts_next][t] /\ place[ts][t] = place[ts_next][t]
    BY <1>0, <2>1 DEF Same
  <2>3. obj'[ts][t] = obj[ts][t] /\ place'[ts][t] = place[ts][t]
    BY <1>0, <1>1, <1>3
  <2>4. WorkOn(t, ts)' = WorkOn(tid, ts_next)
    BY <1>0, <1>5, <1>l, <2>2, <2>3 DEF WorkOn
  <2>5. Ahead(t, ts_next, ts)'
    BY <1>0, <1>1, <1>2, <1>3, <1>5, <1>l, <2>4 DEF Ahead, table_is_update_pending
  <2> QED BY <2>0, <2>5 DEF TwinsOf
<1>6. CASE t = tid /\ ~u.ok
  <2>1. pc' = "back" /\ ~(t < tid') /\ table_is_update_pending(t)'
    BY <1>0, <1>6, <1>l DEF GoBack, Table, table_is_update_pending
  <2> QED BY <2>1 DEF TwinsOf
<1> QED BY <1>4, <1>5, <1>6

\* The second pass brings the copies together; a rollback does, or is noted.
LEMMA TwinEnds ==
    ASSUME IndInv({}), Sync \/ RollBack, NEW t \in InPlace, TwinsOf(t), ~differ'[t]
    PROVE  TwinsOf(t)'
<1> DEFINE w == IF pc = "sync" THEN Update(tid, ts_next) ELSE Undone(tid)
<1>0. /\ TypeOK /\ Lists /\ Objects /\ t \in Table /\ tid \in Table
      /\ ts \in 0 .. 1 /\ ts_next \in 0 .. 1 /\ ts # ts_next /\ ts_next' = ts_next /\ ts' = ts
      /\ Clear(tid) /\ NextTable /\ pc \in {"sync", "back"}
  <2>1. /\ TypeOK /\ Lists /\ Objects /\ t \in Table
        /\ ts \in 0 .. 1 /\ ts_next \in 0 .. 1 /\ ts # ts_next
    BY CopyNumbers
  <2>2. pc \in {"sync", "back"} /\ ts' = ts /\ Clear(tid) /\ NextTable
    BY DEF Sync, RollBack
  <2>3. tid \in Table
    BY <2>2, CopyNumbers
  <2>4. ts_next' = ts_next
    BY <2>2 DEF ts_next
  <2> QED BY <2>1, <2>2, <2>3, <2>4
<1>c. CopyStep(w)
  BY DEF Sync, RollBack, CopyStep
<1>m. ASSUME tid \in InPlace
      PROVE  w.map \in Maps /\ w.add \in Nat /\ w.modify \in Nat /\ w.delete \in Nat
  <2>1. obj[ts_next][tid] \in Maps
    BY <1>0, <1>m DEF Objects
  <2>2. /\ Update(tid, ts_next).map \in Maps /\ Update(tid, ts_next).add \in Nat
        /\ Update(tid, ts_next).modify \in Nat /\ Update(tid, ts_next).delete \in Nat
    BY <1>0, <2>1, UpdateLemma DEF Update
  <2>3. /\ Undone(tid).map \in Maps /\ Undone(tid).add \in Nat
        /\ Undone(tid).modify \in Nat /\ Undone(tid).delete \in Nat
    BY <1>0, <2>1, UndoneMaps, UndoneCounts
  <2> QED BY <2>2, <2>3
<1>d. ASSUME pc = "back", t = tid, table_is_update_pending(tid)
      PROVE  w.map = obj[ts][t] /\ w.place = place[ts][t]
  <2>1. differ' = [differ EXCEPT ![tid] = @ \/ <<Undone(tid).map, Undone(tid).place>>
                                              # <<obj[ts][tid], place[ts][tid]>>]
    BY <1>d DEF RollBack, Sync
  <2>2. <<Undone(tid).map, Undone(tid).place>> = <<obj[ts][tid], place[ts][tid]>>
    BY <1>0, <1>d, <2>1 DEF TypeOK
  <2> QED BY <1>d, <2>2
<1>s. ASSUME pc = "sync", t = tid, table_is_update_pending(tid)
      PROVE  w.map = obj[ts][t] /\ w.place = place[ts][t]
  <2>1. ~(t < tid)
    BY <1>0, <1>s DEF Table
  <2>2. Ahead(t, ts, ts_next)
    BY <1>s, <2>1 DEF TwinsOf
  <2>3. w = WorkOn(t, ts_next)
    BY <1>s, WorkLemma
  <2> QED BY <1>s, <2>2, <2>3 DEF Ahead
<1> HIDE DEF w
<1>1. /\ \A x \in Table \ {tid} :
            \A c \in 0 .. 1 : obj'[c][x] = obj[c][x] /\ place'[c][x] = place[c][x]
      /\ ~table_is_update_pending(tid) => obj' = obj /\ place' = place
      /\ table_is_update_pending(tid) /\ tid \in InPlace =>
            /\ obj'[ts_next][tid] = w.map /\ obj'[ts][tid] = obj[ts][tid]
            /\ place'[ts_next][tid] = w.place /\ place'[ts][tid] = place[ts][tid]
  BY <1>0, <1>c, <1>m, CopyStepLemma
<1>n. \/ tid = NTables /\ pc' = "idle" /\ tid' = 1
      \/ tid # NTables /\ pc' = pc /\ tid' = tid + 1 /\ tid' \in Table
  BY <1>0, NextTableLemma
<1>2. CASE t # tid
  <2>1. Quiet(t)
    BY <1>0, <1>1, <1>2 DEF Quiet, Clear, TypeOK
  <2>2. tid = NTables => t < tid
    BY <1>0, <1>2 DEF Table
  <2> QED BY <1>0, <1>2, <1>n, <2>1, <2>2, TwinQuiet
<1>3. CASE t = tid
  <2>1. Same(t)'
    <3>1. CASE ~table_is_update_pending(tid)
      <4>1. ~(t < tid)
        BY <1>0, <1>3 DEF Table
      <4>2. Same(t)
        BY <1>0, <1>3, <3>1, <4>1 DEF TwinsOf, Ahead
      <4> QED BY <1>1, <3>1, <4>2 DEF Same
    <3>2. CASE table_is_update_pending(tid)
      <4>1. /\ obj'[ts_next][t] = obj[ts][t] /\ obj'[ts][t] = obj[ts][t]
            /\ place'[ts_next][t] = place[ts][t] /\ place'[ts][t] = place[ts][t]
        BY <1>0, <1>1, <1>3, <1>d, <1>s, <3>2
      <4> QED BY <1>0, <4>1 DEF Same
    <3> QED BY <3>1, <3>2
  <2>2. pc' # "idle" => t < tid'
    BY <1>0, <1>3, <1>n DEF Table
  <2> QED BY <1>0, <1>n, <2>1, <2>2 DEF TwinsOf
<1> QED BY <1>2, <1>3

\* Every step keeps the copies of a table the same or one step apart.
LEMMA TwinsNext ==
    ASSUME IndInv({}), Twins, [Next]_vars
    PROVE  Twins'
<1> SUFFICES ASSUME NEW t \in InPlace, ~differ'[t] PROVE TwinsOf(t)'
  BY DEF Twins
<1>0. /\ TypeOK /\ t \in Table /\ tid \in Nat /\ t \in Nat /\ t <= NTables
      /\ ts \in 0 .. 1 /\ ts_next \in 0 .. 1
  <2>1. tid \in Nat
    BY TablesAssumption DEF IndInv, TypeOK
  <2> QED BY <2>1, CopyNumbers
<1>1. TwinsOf(t)
  BY <1>0, HistoryStays DEF Twins
<1>q. ASSUME UNCHANGED <<obj, place, lists>> PROVE Quiet(t)
  BY <1>q DEF Quiet, lists
<1>2. CASE Command
  <2>1. UNCHANGED <<obj, place, pc, tid, ts>> /\ pc = "idle"
    BY <1>2 DEF Command, TableAdd, TableDelete, TableDefault, Abort, copies
  <2>2. Same(t)' <=> Same(t)
    BY <2>1 DEF Same
  <2> QED BY <1>1, <2>1, <2>2 DEF TwinsOf
<1>3. CASE Commit
  BY <1>0, <1>1, <1>3, <1>q, TwinQuiet DEF Commit, copies
<1>4. CASE RollFwdSkip
  BY <1>0, <1>1, <1>4, <1>q, TwinQuiet DEF RollFwdSkip, Continue, copies
<1>5. CASE RollFwdInPlace
  BY <1>1, <1>5, TwinInPlace
<1>6. CASE RollFwdRebuild \/ RollFwdCreateFails
  <2>1. /\ t # tid /\ pc = "fwd" /\ UNCHANGED lists /\ UNCHANGED <<place, ts>>
        /\ Continue \/ GoBack
        /\ \E o : obj' = [obj EXCEPT ![ts_next][tid] = o]
    BY <1>6 DEF RollFwdRebuild, RollFwdCreateFails, SetNext
  <2>2. Quiet(t)
    BY <1>0, <2>1 DEF Quiet, lists, TypeOK
  <2> QED BY <1>0, <1>1, <2>1, <2>2, TwinQuiet DEF Continue, GoBack
<1>7. CASE Swap
  <2>1. /\ pc = "fwd" /\ pc' = "grace" /\ ts' = ts_next /\ t < tid
        /\ UNCHANGED <<obj, place, lists>>
    BY <1>0, <1>7, TablesAssumption DEF Swap
  <2>2. Ahead(t, ts_next, ts)
    BY <1>1, <2>1 DEF TwinsOf
  <2>3. Ahead(t, ts, ts_next)'
    BY <1>0, <1>q, <2>1, <2>2, QuietFrame
  <2> QED BY <2>1, <2>3 DEF TwinsOf
<1>8. CASE Usleep
  BY <1>0, <1>1, <1>8, <1>q, TwinQuiet DEF Usleep, Slept, copies
<1>9. CASE Sync \/ RollBack
  BY <1>1, <1>9, TwinEnds
<1>10. ASSUME NEW w \in Thread, Rx(w) \/ Tx(w) PROVE TwinsOf(t)'
  BY <1>0, <1>1, <1>10, <1>q, TwinQuiet DEF Rx, Tx, copies
<1>11. CASE UNCHANGED vars
  BY <1>0, <1>1, <1>11, <1>q, TwinQuiet DEF vars, copies
<1> QED BY <1>2, <1>3, <1>4, <1>5, <1>6, <1>7, <1>8, <1>9, <1>10, <1>11 DEF Next, CommitStep

\* The second pass never fails on a table of which no rollback left the copies
\* unequal: it accepts what the first pass accepted on the other copy.
THEOREM SecondPassAccepted == Spec => []SecondPassFits
<1>1. Init => Twins
  <2>1. InPlace \subseteq Table
    BY TablesAssumption DEF Table
  <2> QED BY <2>1 DEF Init, Twins, TwinsOf, Same
<1>2. IndInv({}) /\ Twins /\ [Next]_vars => Twins'
  BY TwinsNext
<1>3. IndInv({}) /\ Twins => SecondPassFits
  <2> SUFFICES ASSUME IndInv({}), Twins, pc = "sync", tid \in InPlace, ~differ[tid]
               PROVE  Update(tid, ts_next).ok
    BY DEF SecondPassFits
  <2>1. ~(tid < tid)
    BY TablesAssumption
  <2>2. Ahead(tid, ts, ts_next)
    BY <2>1 DEF Twins, TwinsOf
  <2>3. CASE table_is_update_pending(tid)
    BY <2>2, <2>3, WorkLemma DEF Ahead
  <2>4. CASE ~table_is_update_pending(tid)
    <3> DEFINE m == obj[ts_next][tid]
               p == place[ts_next][tid]
               q == PlacedAll(tid, p, <<>>)[0]
    <3>1. pending_add[tid] = <<>> /\ pending_modify1[tid] = <<>>
      BY <2>4 DEF table_is_update_pending
    <3>2. \A x, y : Admitted(tid, x, y, <<>>) = 0
      BY DEF Admitted
    <3>3. WorkOn(tid, ts_next).ok
      BY <3>1, <3>2 DEF WorkOn, Work
    <3> QED BY <3>3, WorkLemma
  <2> QED BY <2>3, <2>4
<1> QED BY <1>1, <1>2, <1>3, BaseInductive, PTL DEF Spec

----------------------------------------------------------------------------
(* Pipelines in which the rollback is safe.                                *)

\* No table that is built anew comes after a table that can refuse.
RebuiltFirst == Table \ InPlace \subseteq {1}

\* Tables that are built anew have objects of their own after the first pass.
Unshared ==
    \A t \in Table \ InPlace :
        table_is_update_pending(t) =>
            /\ pc = "fwd" /\ t < tid => ~shared[t]
            /\ pc = "back" /\ t >= tid => ~shared[t]

\* Every step keeps Unshared when only the first table is built anew and there is
\* memory for the list of its entries.
LEMMA UnsharedNext ==
    ASSUME RebuiltFirst, ~MayRunOut, TypeOK, Unshared, [Next]_vars
    PROVE  Unshared'
<1> USE TablesAssumption
<1>0. SUFFICES ASSUME NEW t \in Table \ InPlace, table_is_update_pending(t)'
               PROVE  /\ pc' = "fwd" /\ t < tid' => ~shared'[t]
                      /\ pc' = "back" /\ t >= tid' => ~shared'[t]
  BY DEF Unshared
<1>1. t = 1 /\ t \in Table /\ t \notin InPlace
  BY DEF RebuiltFirst
<1>t. /\ tid \in Int /\ tid >= 1
      /\ tid \in Table \ InPlace => tid = t
      /\ tid \in InPlace => t < tid
  BY <1>1 DEF TypeOK, RebuiltFirst, Table
<1>2. CASE Command
  BY <1>2 DEF Command, TableAdd, TableDelete, TableDefault, Abort
<1>3. CASE Commit
  BY <1>1, <1>3 DEF Commit
<1>s. ASSUME UNCHANGED lists PROVE table_is_update_pending(t)
  BY <1>0, <1>s, SameAll
<1>4. CASE RollFwdSkip
  BY <1>1, <1>4, <1>s, <1>t DEF RollFwdSkip, Continue, copies, Unshared
<1>5. CASE RollFwdInPlace
  BY <1>1, <1>5, <1>s, <1>t DEF RollFwdInPlace, Continue, GoBack, Unshared
<1>6. CASE RollFwdRebuild \/ RollFwdCreateFails
  <2>1. \A none \in {FALSE} \cup {MayRunOut} : ~none
    BY BucketAssumption
  <2>2. tid = t /\ shared' = [shared EXCEPT ![t] = FALSE]
    <3>1. tid = t
      BY <1>6, <1>t DEF RollFwdRebuild, RollFwdCreateFails
    <3>2. CASE RollFwdRebuild
      BY <3>1, <3>2 DEF RollFwdRebuild
    <3>3. CASE RollFwdCreateFails
      <4>1. PICK none \in {FALSE} \cup {MayRunOut} : shared' = [shared EXCEPT ![tid] = none /\ @]
        BY <3>3 DEF RollFwdCreateFails
      <4>2. none = FALSE
        BY <2>1, <4>1, BucketAssumption
      <4> QED BY <3>1, <4>1, <4>2
    <3> QED BY <1>6, <3>1, <3>2, <3>3
  <2>3. shared'[t] = FALSE
    BY <1>1, <2>2 DEF TypeOK
  <2> QED BY <2>3
<1>7. CASE Swap \/ Usleep
  BY <1>7 DEF Swap, Usleep, Slept
<1>8. CASE Sync
  BY <1>8 DEF Sync, NextTable, Continue
<1>9. CASE RollBack
  <2>1. tid = NTables \/ (tid' = tid + 1 /\ pc' = "back")
    BY <1>9 DEF RollBack, NextTable, Continue
  <2>2. CASE tid = NTables
    BY <1>9, <2>2 DEF RollBack, NextTable
  <2>3. CASE tid' = tid + 1 /\ pc' = "back"
    BY <1>1, <1>t, <2>3
  <2> QED BY <2>1, <2>2, <2>3
<1>10. ASSUME NEW w \in Thread, Rx(w) \/ Tx(w) PROVE pc' = pc /\ tid' = tid /\ shared' = shared /\ UNCHANGED lists
  BY <1>10 DEF Rx, Tx, copies
<1>11. CASE UNCHANGED vars
  BY <1>0, <1>11, <1>s DEF vars, copies, Unshared
<1>12. ASSUME NEW w \in Thread, Rx(w) \/ Tx(w)
       PROVE  /\ pc' = "fwd" /\ t < tid' => ~shared'[t]
              /\ pc' = "back" /\ t >= tid' => ~shared'[t]
  BY <1>0, <1>10, <1>12, <1>s DEF Unshared
<1> QED BY <1>2, <1>3, <1>4, <1>5, <1>6, <1>7, <1>8, <1>9, <1>11, <1>12 DEF Next, CommitStep

\* In such a pipeline the rollback is always safe.
THEOREM SafeIfRebuiltFirst ==
    ASSUME RebuiltFirst, ~MayRunOut
    PROVE  Spec => []RollBackSafe
<1>1. Init => Unshared
  BY DEF Init, Unshared
<1>2. TypeOK /\ Unshared /\ [Next]_vars => Unshared'
  BY UnsharedNext
<1>3. IndInv({}) /\ Unshared => RollBackSafe
  BY TablesAssumption DEF IndInv, Phase, Unshared, RollBackSafe, Table
<1> QED BY <1>1, <1>2, <1>3, TypeCorrect, BaseInductive, PTL DEF Spec

\* There, between two commands, both copies hold what the control thread's lists
\* say, if no rollback lacks room and as long as no second pass was refused.
THEOREM CopiesCorrect ==
    ASSUME RebuiltFirst, ~MayRunOut
    PROVE  Spec /\ []PutBackFits => []CopiesAgree
BY SafeIfRebuiltFirst, AgreeIfSafe, PTL
=============================================================================
