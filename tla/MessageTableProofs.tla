-------------------------- MODULE MessageTableProofs --------------------------
(***************************************************************************)
(* What the writes of MessageTable preserve, for every set of chats, ids    *)
(* and senders.  These lemmas are cited by the proofs about the machines    *)
(* that own a table.                                                        *)
(***************************************************************************)
EXTENDS MessageTable, FiniteSetTheorems, TLAPS

(* The empty table is a table. *)
LEMMA EmptyTableLemma ==
    /\ IsTable(EmptyTable)
    /\ RowidsAreRanks(EmptyTable)
    /\ DOMAIN EmptyTable = {}
<1>1. DOMAIN EmptyTable = {}
  BY DEF EmptyTable
<1>2. IsTable(EmptyTable)
  BY <1>1 DEF IsTable, EmptyTable
<1>3. IsFiniteSet(DOMAIN EmptyTable) /\ Cardinality(DOMAIN EmptyTable) = 0
  BY <1>1, FS_EmptySet
<1>4. RowidsAreRanks(EmptyTable)
  BY <1>1, <1>3 DEF RowidsAreRanks
<1>5. QED
  BY <1>1, <1>2, <1>4

(* When the rowids are 1..n the next one is n + 1. *)
LEMMA NextRowidLemma ==
    ASSUME NEW t, RowidsAreRanks(t)
    PROVE  /\ Cardinality(DOMAIN t) \in Nat
           /\ NextRowid(t) = Cardinality(DOMAIN t) + 1
<1> DEFINE n == Cardinality(DOMAIN t)
           R == {0} \cup {t[k].rowid : k \in DOMAIN t}
<1>1. n \in Nat
  BY FS_CardinalityType DEF RowidsAreRanks
<1>2. R = 0..n
  BY <1>1 DEF RowidsAreRanks
<1>3. Max(0..n) = n
  <2>1. n \in 0..n /\ \A y \in 0..n : n >= y
    BY <1>1
  <2>2. \A x \in 0..n : (\A y \in 0..n : x >= y) => x = n
    BY <1>1, <2>1
  <2>3. QED
    BY <2>1, <2>2 DEF Max
<1>4. NextRowid(t) = 1 + Max(R)
  BY DEF NextRowid
<1>5. Max(R) = n
  BY <1>2, <1>3
<1>6. NextRowid(t) = n + 1
  BY <1>1, <1>4, <1>5
<1>7. QED
  BY <1>1, <1>6

(* Upsert adds at most the key it was given and touches no seen flag; a new *)
(* row is unread.                                                           *)
LEMMA UpsertRowsLemma ==
    ASSUME NEW t, IsTable(t), NEW k \in Key, NEW ts \in Nat
    PROVE  /\ DOMAIN Upsert(t, k, ts) = DOMAIN t \cup {k}
           /\ \A j \in DOMAIN t : Upsert(t, k, ts)[j].seen <=> t[j].seen
           /\ k \notin DOMAIN t => ~Upsert(t, k, ts)[k].seen
<1>1. \A j \in DOMAIN t : t[j] \in Row
  BY DEF IsTable
<1>2. QED
  BY <1>1 DEF Upsert, Row

(* Upsert adds a row for a new key, unread and with the next rowid; of a    *)
(* known key's row it replaces the timestamp and keeps flag and rowid; it   *)
(* leaves every other row as it is.  A table stays a table, with its rowids *)
(* dense.                                                                   *)
LEMMA UpsertLemma ==
    ASSUME NEW t, IsTable(t), RowidsAreRanks(t),
           NEW k \in Key, NEW ts \in Nat
    PROVE  /\ IsTable(Upsert(t, k, ts))
           /\ RowidsAreRanks(Upsert(t, k, ts))
           /\ DOMAIN Upsert(t, k, ts) = DOMAIN t \cup {k}
           /\ \A j \in DOMAIN t \ {k} : Upsert(t, k, ts)[j] = t[j]
           /\ k \in DOMAIN t =>
                 Upsert(t, k, ts)[k] = [ts |-> ts, seen |-> t[k].seen, rowid |-> t[k].rowid]
           /\ k \notin DOMAIN t =>
                 Upsert(t, k, ts)[k] = [ts |-> ts, seen |-> FALSE,
                                        rowid |-> Cardinality(DOMAIN t) + 1]
<1> DEFINE u == Upsert(t, k, ts)
           n == Cardinality(DOMAIN t)
<1>1. DOMAIN u = DOMAIN t \cup {k}
  BY DEF Upsert
<1>2. \A j \in DOMAIN t : t[j] \in Row
  BY DEF IsTable
<1>3. CASE k \in DOMAIN t
  <2>1. u = [j \in DOMAIN t |-> IF j # k THEN t[j] ELSE [t[k] EXCEPT !.ts = ts]]
    BY <1>3 DEF Upsert
  <2>2. \A j \in DOMAIN t : u[j] \in Row /\ u[j].seen = t[j].seen /\ u[j].rowid = t[j].rowid
    BY <1>2, <2>1 DEF Row
  <2>3. DOMAIN u = DOMAIN t
    BY <1>1, <1>3
  <2>4. {u[j].rowid : j \in DOMAIN u} = {t[j].rowid : j \in DOMAIN t}
    BY <2>2, <2>3
  <2>5. RowidsAreRanks(u)
    BY <2>2, <2>3, <2>4 DEF RowidsAreRanks
  <2>6. IsTable(u)
    BY <2>1, <2>2, <2>3 DEF IsTable
  <2>7. /\ \A j \in DOMAIN t \ {k} : u[j] = t[j]
        /\ u[k] = [ts |-> ts, seen |-> t[k].seen, rowid |-> t[k].rowid]
    BY <1>2, <1>3, <2>1 DEF Row
  <2>8. QED
    BY <1>1, <1>3, <2>5, <2>6, <2>7
<1>4. CASE k \notin DOMAIN t
  <2>1. n \in Nat /\ NextRowid(t) = n + 1
    BY NextRowidLemma
  <2>2. \A j \in DOMAIN t : u[j] = t[j]
    BY <1>4 DEF Upsert
  <2>3. u[k] = [ts |-> ts, seen |-> FALSE, rowid |-> n + 1]
    BY <1>4, <2>1 DEF Upsert
  <2>4. u[k] \in Row /\ u[k].seen = FALSE /\ u[k].rowid = n + 1
    BY <2>1, <2>3 DEF Row
  <2>5. IsTable(u)
    <3>1. \A j \in DOMAIN u : u[j] \in Row
      BY <1>1, <1>2, <2>2, <2>4
    <3>2. u = [j \in DOMAIN u |-> u[j]]
      BY DEF Upsert
    <3>3. DOMAIN u \subseteq Key
      BY <1>1 DEF IsTable
    <3>4. QED
      BY <3>1, <3>2, <3>3 DEF IsTable
  <2>6. IsFiniteSet(DOMAIN u) /\ Cardinality(DOMAIN u) = n + 1
    BY <1>1, <1>4, FS_AddElement DEF RowidsAreRanks
  <2>7. {u[j].rowid : j \in DOMAIN u} = {t[j].rowid : j \in DOMAIN t} \cup {n + 1}
    BY <1>1, <2>2, <2>4
  <2>8. {u[j].rowid : j \in DOMAIN u} = 1..(n + 1)
    <3>1. {t[j].rowid : j \in DOMAIN t} = 1..n
      BY DEF RowidsAreRanks
    <3>2. 1..(n + 1) = 1..n \cup {n + 1}
      BY <2>1
    <3>3. QED
      BY <2>7, <3>1, <3>2
  <2>9. \A i, j \in DOMAIN u : u[i].rowid = u[j].rowid => i = j
    <3>1. \A j \in DOMAIN t : u[j].rowid \in 1..n
      BY <2>2 DEF RowidsAreRanks
    <3>2. \A i, j \in DOMAIN t : u[i].rowid = u[j].rowid => i = j
      BY <2>2 DEF RowidsAreRanks
    <3>3. n + 1 \notin 1..n
      BY <2>1
    <3>4. QED
      BY <1>1, <2>4, <3>1, <3>2, <3>3
  <2>10. RowidsAreRanks(u)
    BY <2>6, <2>8, <2>9 DEF RowidsAreRanks
  <2>11. QED
    BY <1>1, <1>4, <2>2, <2>3, <2>5, <2>10
<1>5. QED
  BY <1>3, <1>4

(* A row that is new comes last in the order of arrival.                    *)
LEMMA UpsertNewRow ==
    ASSUME NEW t, IsTable(t), RowidsAreRanks(t),
           NEW k \in Key, k \notin DOMAIN t, NEW ts \in Nat
    PROVE  /\ Cardinality(DOMAIN Upsert(t, k, ts)) = Cardinality(DOMAIN t) + 1
           /\ Upsert(t, k, ts)[k].rowid = Cardinality(DOMAIN t) + 1
<1>1. DOMAIN Upsert(t, k, ts) = DOMAIN t \cup {k}
  BY DEF Upsert
<1>2. Cardinality(DOMAIN Upsert(t, k, ts)) = Cardinality(DOMAIN t) + 1
  BY <1>1, FS_AddElement DEF RowidsAreRanks
<1>3. NextRowid(t) = Cardinality(DOMAIN t) + 1
  BY NextRowidLemma
<1>4. Upsert(t, k, ts)[k].rowid = NextRowid(t)
  BY DEF Upsert
<1>5. QED
  BY <1>2, <1>3, <1>4

(* MarkSeen sets the flags of the given keys that have a row.  It adds and  *)
(* removes no row, and changes no other flag, no timestamp and no rowid.    *)
LEMMA MarkSeenLemma ==
    ASSUME NEW t, IsTable(t), RowidsAreRanks(t), NEW keys
    PROVE  /\ IsTable(MarkSeen(t, keys))
           /\ RowidsAreRanks(MarkSeen(t, keys))
           /\ DOMAIN MarkSeen(t, keys) = DOMAIN t
           /\ \A k \in DOMAIN t :
                 /\ MarkSeen(t, keys)[k].seen = (t[k].seen \/ k \in keys)
                 /\ MarkSeen(t, keys)[k].ts = t[k].ts
                 /\ MarkSeen(t, keys)[k].rowid = t[k].rowid
<1> DEFINE u == MarkSeen(t, keys)
<1>1. DOMAIN u = DOMAIN t
  BY DEF MarkSeen
<1>2. \A k \in DOMAIN t : t[k] \in Row
  BY DEF IsTable
<1>3. \A k \in DOMAIN t : u[k] = [t[k] EXCEPT !.seen = t[k].seen \/ k \in keys]
  BY DEF MarkSeen
<1>4. \A k \in DOMAIN t : /\ u[k] \in Row
                          /\ u[k].seen = (t[k].seen \/ k \in keys)
                          /\ u[k].ts = t[k].ts
                          /\ u[k].rowid = t[k].rowid
  BY <1>2, <1>3 DEF Row
<1>5. IsTable(u)
  <2>1. u = [k \in DOMAIN u |-> u[k]]
    BY DEF MarkSeen
  <2>2. QED
    BY <1>1, <1>4, <2>1 DEF IsTable
<1>6. {u[k].rowid : k \in DOMAIN u} = {t[k].rowid : k \in DOMAIN t}
  BY <1>1, <1>4
<1>7. RowidsAreRanks(u)
  BY <1>1, <1>4, <1>6 DEF RowidsAreRanks
<1>8. QED
  BY <1>1, <1>4, <1>5, <1>7

-----------------------------------------------------------------------------
(* The order of the queries.  A set of rows is named by its keys.           *)

(* The columns the order is made of are numbers. *)
LEMMA RowNumbers ==
    ASSUME NEW t, IsTable(t)
    PROVE  \A k \in DOMAIN t : t[k].ts \in Nat /\ t[k].rowid \in Nat
<1>1. \A k \in DOMAIN t : t[k] \in Row
  BY DEF IsTable
<1>2. QED
  BY <1>1 DEF Row

(* ORDER BY timestamp, rowid is a strict total order of the rows.           *)
LEMMA LaterIsStrictOrder ==
    ASSUME NEW t, IsTable(t), RowidsAreRanks(t)
    PROVE  /\ \A k \in DOMAIN t : ~Later(t, k, k)
           /\ \A i, j, k \in DOMAIN t : Later(t, i, j) /\ Later(t, j, k) => Later(t, i, k)
           /\ \A j, k \in DOMAIN t : j # k => Later(t, j, k) \/ Later(t, k, j)
<1>1. \A k \in DOMAIN t : t[k].ts \in Nat /\ t[k].rowid \in Nat
  BY RowNumbers
<1>2. \A j, k \in DOMAIN t : t[j].rowid = t[k].rowid => j = k
  BY DEF RowidsAreRanks
<1>3. QED
  BY <1>1, <1>2 DEF Later

(* A set of rows is finite. *)
LEMMA RowsFinite ==
    ASSUME NEW t, RowidsAreRanks(t), NEW K \in SUBSET DOMAIN t
    PROVE  IsFiniteSet(K) /\ Cardinality(K) \in Nat
<1>1. IsFiniteSet(K)
  BY FS_Subset DEF RowidsAreRanks
<1>2. QED
  BY <1>1, FS_CardinalityType

(* A row has fewer rows ahead of it than every row it comes before.         *)
LEMMA AheadIsMonotone ==
    ASSUME NEW t, IsTable(t), RowidsAreRanks(t), NEW K \in SUBSET DOMAIN t,
           NEW j \in K, NEW k \in K, Later(t, j, k)
    PROVE  Ahead(t, K, j) < Ahead(t, K, k)
<1> DEFINE J == {i \in K : Later(t, i, j)}
           L == {i \in K : Later(t, i, k)}
<1>1. J \subseteq L /\ j \in L /\ j \notin J
  BY LaterIsStrictOrder
<1>2. IsFiniteSet(L)
  BY RowsFinite
<1>3. Cardinality(J) < Cardinality(L)
  <2>1. /\ Cardinality(J) \in Nat /\ Cardinality(L) \in Nat
        /\ Cardinality(J) <= Cardinality(L)
        /\ Cardinality(J) = Cardinality(L) => J = L
    BY <1>1, <1>2, FS_Subset, FS_CardinalityType
  <2>2. QED
    BY <1>1, <2>1
<1>4. QED
  BY <1>3 DEF Ahead

(* The number of rows ahead tells the rows of a set apart, says which of    *)
(* two comes first, and takes every value below the size of the set.        *)
LEMMA AheadIsRank ==
    ASSUME NEW t, IsTable(t), RowidsAreRanks(t), NEW K \in SUBSET DOMAIN t
    PROVE  /\ \A k \in K : Ahead(t, K, k) \in 0..(Cardinality(K) - 1)
           /\ \A j, k \in K : Later(t, j, k) <=> Ahead(t, K, j) < Ahead(t, K, k)
           /\ \A j, k \in K : Ahead(t, K, j) = Ahead(t, K, k) => j = k
           /\ \A i \in 0..(Cardinality(K) - 1) : \E k \in K : Ahead(t, K, k) = i
<1> DEFINE n == Cardinality(K)
           f == [k \in K |-> Ahead(t, K, k)]
<1>1. IsFiniteSet(K) /\ n \in Nat
  BY RowsFinite
<1>2. \A k \in K : Ahead(t, K, k) \in 0..(n - 1)
  <2> SUFFICES ASSUME NEW k \in K PROVE Ahead(t, K, k) \in 0..(n - 1)
    OBVIOUS
  <2> DEFINE L == {i \in K : Later(t, i, k)}
  <2>1. L \subseteq K /\ k \notin L
    BY LaterIsStrictOrder
  <2>2. /\ Cardinality(L) \in Nat /\ Cardinality(L) <= n
        /\ Cardinality(L) = n => L = K
    BY <1>1, <2>1, FS_Subset, FS_CardinalityType
  <2>3. Cardinality(L) \in 0..(n - 1)
    BY <1>1, <2>1, <2>2
  <2>4. QED
    BY <2>3 DEF Ahead
<1>3. \A j, k \in K : Later(t, j, k) => Ahead(t, K, j) < Ahead(t, K, k)
  BY AheadIsMonotone
<1>4. \A j, k \in K : Ahead(t, K, j) = Ahead(t, K, k) => j = k
  <2>1. \A j, k \in K : j # k => Later(t, j, k) \/ Later(t, k, j)
    BY LaterIsStrictOrder
  <2>2. QED
    BY <1>2, <1>3, <2>1
<1>5. \A j, k \in K : Ahead(t, K, j) < Ahead(t, K, k) => Later(t, j, k)
  <2>1. \A j, k \in K : j # k => Later(t, j, k) \/ Later(t, k, j)
    BY LaterIsStrictOrder
  <2>2. QED
    BY <1>2, <1>3, <2>1
<1>6. \A i \in 0..(n - 1) : \E k \in K : Ahead(t, K, k) = i
  <2>1. f \in Injection(K, 0..(n - 1))
    BY <1>2, <1>4 DEF Injection, IsInjective
  <2>2. IsFiniteSet(0..(n - 1)) /\ Cardinality(0..(n - 1)) = n
    BY <1>1, FS_Interval
  <2>3. f \in Surjection(K, 0..(n - 1))
    BY <2>1, <2>2, FS_Injection
  <2>4. QED
    BY <2>3 DEF Surjection
<1>7. QED
  BY <1>2, <1>3, <1>4, <1>5, <1>6

(* ORDER BY ... DESC returns each row once, at the place its rank says.     *)
LEMMA NewestFirstLemma ==
    ASSUME NEW t, IsTable(t), RowidsAreRanks(t), NEW K \in SUBSET DOMAIN t
    PROVE  /\ NewestFirst(t, K) \in Seq(K)
           /\ Len(NewestFirst(t, K)) = Cardinality(K)
           /\ \A i \in 1..Cardinality(K) :
                 /\ NewestFirst(t, K)[i] \in K
                 /\ Ahead(t, K, NewestFirst(t, K)[i]) = i - 1
           /\ \A k \in K : /\ Ahead(t, K, k) + 1 \in 1..Cardinality(K)
                           /\ NewestFirst(t, K)[Ahead(t, K, k) + 1] = k
<1> DEFINE n == Cardinality(K)
           s == NewestFirst(t, K)
<1>1. n \in Nat
  BY RowsFinite
<1>2. s = [i \in 1..n |-> CHOOSE k \in K : Ahead(t, K, k) = i - 1]
  BY DEF NewestFirst
<1>3. \A i \in 1..n : s[i] \in K /\ Ahead(t, K, s[i]) = i - 1
  <2> SUFFICES ASSUME NEW i \in 1..n PROVE s[i] \in K /\ Ahead(t, K, s[i]) = i - 1
    OBVIOUS
  <2>1. i - 1 \in 0..(n - 1)
    BY <1>1
  <2>2. \E k \in K : Ahead(t, K, k) = i - 1
    BY <2>1, AheadIsRank
  <2>3. s[i] = CHOOSE k \in K : Ahead(t, K, k) = i - 1
    BY <1>2
  <2>4. QED
    BY <2>2, <2>3
<1>4. s \in Seq(K) /\ Len(s) = n
  BY <1>1, <1>2, <1>3
<1>5. \A k \in K : Ahead(t, K, k) + 1 \in 1..n /\ s[Ahead(t, K, k) + 1] = k
  <2> SUFFICES ASSUME NEW k \in K
               PROVE  Ahead(t, K, k) + 1 \in 1..n /\ s[Ahead(t, K, k) + 1] = k
    OBVIOUS
  <2>1. Ahead(t, K, k) \in 0..(n - 1)
    BY AheadIsRank
  <2>2. Ahead(t, K, k) + 1 \in 1..n
    BY <1>1, <2>1
  <2>3. /\ s[Ahead(t, K, k) + 1] \in K
        /\ Ahead(t, K, s[Ahead(t, K, k) + 1]) = Ahead(t, K, k)
    BY <1>1, <1>3, <2>1, <2>2
  <2>4. QED
    BY <2>2, <2>3, AheadIsRank
<1>6. QED
  BY <1>3, <1>4, <1>5

(* ORDER BY ... ASC is the same rows the other way round: each earlier one  *)
(* is one that every later one comes before in the descending order.        *)
LEMMA OldestFirstLemma ==
    ASSUME NEW t, IsTable(t), RowidsAreRanks(t), NEW K \in SUBSET DOMAIN t
    PROVE  /\ OldestFirst(t, K) \in Seq(K)
           /\ Len(OldestFirst(t, K)) = Cardinality(K)
           /\ ToSet(OldestFirst(t, K)) = K
           /\ \A i, j \in 1..Cardinality(K) :
                 i < j => Later(t, OldestFirst(t, K)[j], OldestFirst(t, K)[i])
<1> DEFINE n == Cardinality(K)
           s == NewestFirst(t, K)
           r == OldestFirst(t, K)
<1>1. n \in Nat
  BY RowsFinite
<1>2. /\ s \in Seq(K) /\ Len(s) = n
      /\ \A i \in 1..n : s[i] \in K /\ Ahead(t, K, s[i]) = i - 1
      /\ \A k \in K : Ahead(t, K, k) + 1 \in 1..n /\ s[Ahead(t, K, k) + 1] = k
  BY NewestFirstLemma
<1>3. r = [i \in 1..n |-> s[(n - i) + 1]]
  BY <1>2 DEF OldestFirst, Reverse
<1> HIDE DEF n, s, r
<1>4. \A i \in 1..n : (n - i) + 1 \in 1..n
  BY <1>1
<1>5. r \in Seq(K) /\ Len(r) = n
  BY <1>1, <1>2, <1>3, <1>4
<1>6. ToSet(r) = K
  <2>1. \A i \in 1..n : r[i] \in K
    BY <1>2, <1>3, <1>4
  <2>2. \A k \in K : \E i \in 1..n : r[i] = k
    <3> SUFFICES ASSUME NEW k \in K PROVE \E i \in 1..n : r[i] = k
      OBVIOUS
    <3>1. PICK p \in 1..n : s[p] = k
      BY <1>2
    <3>2. (n - p) + 1 \in 1..n /\ (n - ((n - p) + 1)) + 1 = p
      BY <1>1
    <3>3. r[(n - p) + 1] = k
      BY <1>3, <3>1, <3>2
    <3>4. QED
      BY <3>2, <3>3
  <2>3. DOMAIN r = 1..n
    BY <1>3
  <2>4. QED
    BY <2>1, <2>2, <2>3 DEF ToSet
<1>7. \A i, j \in 1..n : i < j => Later(t, r[j], r[i])
  <2> SUFFICES ASSUME NEW i \in 1..n, NEW j \in 1..n, i < j PROVE Later(t, r[j], r[i])
    OBVIOUS
  <2>1. r[i] \in K /\ r[j] \in K
    BY <1>2, <1>3, <1>4
  <2>2. Ahead(t, K, r[i]) = n - i /\ Ahead(t, K, r[j]) = n - j
    BY <1>1, <1>2, <1>3, <1>4
  <2>3. Ahead(t, K, r[j]) < Ahead(t, K, r[i])
    BY <1>1, <2>2
  <2>4. QED
    BY <2>1, <2>3, AheadIsRank
<1>8. QED
  BY <1>5, <1>6, <1>7 DEF n, r

(* The smaller of two numbers. *)
LEMMA MinOfTwo ==
    ASSUME NEW m \in Int, NEW n \in Int
    PROVE  Min({m, n}) = IF m <= n THEN m ELSE n
<1>1. \A x \in {m, n} : (\A y \in {m, n} : x =< y) <=> x = IF m <= n THEN m ELSE n
  OBVIOUS
<1>2. QED
  BY <1>1 DEF Min

(* LIMIT n keeps as many rows as there is room for, all of them at least as *)
(* new as any that it drops, at the places they had without the limit.      *)
LEMMA NewestOfLemma ==
    ASSUME NEW t, IsTable(t), RowidsAreRanks(t), NEW K \in SUBSET DOMAIN t, NEW m \in Nat
    PROVE  /\ NewestOf(t, K, m) \subseteq K
           /\ Cardinality(NewestOf(t, K, m)) = Min({m, Cardinality(K)})
           /\ \A k \in NewestOf(t, K, m), j \in K \ NewestOf(t, K, m) : Later(t, k, j)
           /\ \A k \in NewestOf(t, K, m) : Ahead(t, NewestOf(t, K, m), k) = Ahead(t, K, k)
<1> DEFINE n == Cardinality(K)
           N == NewestOf(t, K, m)
           w == IF m <= n THEN m ELSE n
           f == [k \in N |-> Ahead(t, K, k)]
<1>1. n \in Nat /\ Min({m, n}) = w /\ w \in Nat
  BY RowsFinite, MinOfTwo
<1>2. N \subseteq K /\ \A k \in K : k \in N <=> Ahead(t, K, k) < m
  BY DEF NewestOf
<1>3. /\ \A k \in K : Ahead(t, K, k) \in 0..(n - 1)
      /\ \A j, k \in K : Later(t, j, k) <=> Ahead(t, K, j) < Ahead(t, K, k)
      /\ \A j, k \in K : Ahead(t, K, j) = Ahead(t, K, k) => j = k
      /\ \A i \in 0..(n - 1) : \E k \in K : Ahead(t, K, k) = i
  BY AheadIsRank
<1> HIDE DEF n, N
<1>4. \A k \in N, j \in K \ N : Later(t, k, j)
  <2> SUFFICES ASSUME NEW k \in N, NEW j \in K \ N PROVE Later(t, k, j)
    OBVIOUS
  <2>1. Ahead(t, K, k) < m /\ ~(Ahead(t, K, j) < m)
    BY <1>2
  <2>2. Ahead(t, K, k) \in Int /\ Ahead(t, K, j) \in Int
    BY <1>1, <1>2, <1>3
  <2>3. QED
    BY <1>2, <1>3, <2>1, <2>2
<1>5. \A k \in N : Ahead(t, N, k) = Ahead(t, K, k)
  <2> SUFFICES ASSUME NEW k \in N PROVE Ahead(t, N, k) = Ahead(t, K, k)
    OBVIOUS
  <2>1. \A j \in K : Later(t, j, k) => j \in N
    <3> SUFFICES ASSUME NEW j \in K, Later(t, j, k) PROVE j \in N
      OBVIOUS
    <3>1. Ahead(t, K, j) < Ahead(t, K, k) /\ Ahead(t, K, k) < m
      BY <1>2, <1>3
    <3>2. Ahead(t, K, j) \in Int /\ Ahead(t, K, k) \in Int
      BY <1>1, <1>2, <1>3
    <3>3. QED
      BY <1>2, <3>1, <3>2
  <2>2. {j \in N : Later(t, j, k)} = {j \in K : Later(t, j, k)}
    BY <1>2, <2>1
  <2>3. QED
    BY <2>2 DEF Ahead
<1>6. Cardinality(N) = w
  <2>1. f \in [N -> 0..(w - 1)]
    <3> SUFFICES ASSUME NEW k \in N PROVE Ahead(t, K, k) \in 0..(w - 1)
      OBVIOUS
    <3>1. Ahead(t, K, k) \in 0..(n - 1) /\ Ahead(t, K, k) < m
      BY <1>2, <1>3
    <3>2. QED
      BY <1>1, <3>1
  <2>2. f \in Injection(N, 0..(w - 1))
    BY <1>2, <1>3, <2>1 DEF Injection, IsInjective
  <2>3. \A i \in 0..(w - 1) : \E k \in N : f[k] = i
    <3> SUFFICES ASSUME NEW i \in 0..(w - 1) PROVE \E k \in N : f[k] = i
      OBVIOUS
    <3>1. i \in 0..(n - 1) /\ i < m
      BY <1>1
    <3>2. PICK k \in K : Ahead(t, K, k) = i
      BY <1>3, <3>1
    <3>3. k \in N
      BY <1>2, <3>1, <3>2
    <3>4. QED
      BY <3>2, <3>3
  <2>4. f \in Surjection(N, 0..(w - 1))
    BY <2>1, <2>3 DEF Surjection
  <2>5. IsFiniteSet(0..(w - 1)) /\ Cardinality(0..(w - 1)) = w
    <3> HIDE DEF w
    <3>1. w - 1 \in Int /\ (IF 0 > w - 1 THEN 0 ELSE (w - 1) - 0 + 1) = w
      BY <1>1
    <3>2. QED
      BY <3>1, FS_Interval
  <2>6. QED
    BY <2>2, <2>4, <2>5, FS_Injection
<1>7. QED
  BY <1>1, <1>2, <1>4, <1>5, <1>6 DEF n, N

(* So LIMIT takes a prefix of what ORDER BY returns.                        *)
LEMMA NewestFirstPrefix ==
    ASSUME NEW t, IsTable(t), RowidsAreRanks(t), NEW K \in SUBSET DOMAIN t, NEW m \in Nat,
           NEW i \in 1..Cardinality(NewestOf(t, K, m))
    PROVE  /\ i \in 1..Cardinality(K)
           /\ NewestFirst(t, NewestOf(t, K, m))[i] = NewestFirst(t, K)[i]
<1> DEFINE N == NewestOf(t, K, m)
           k == NewestFirst(t, N)[i]
<1>1. /\ N \subseteq K
      /\ Cardinality(N) = Min({m, Cardinality(K)})
      /\ \A j \in N : Ahead(t, N, j) = Ahead(t, K, j)
  BY NewestOfLemma
<1> HIDE DEF N
<1>2. Cardinality(K) \in Nat /\ i \in 1..Cardinality(N)
  BY RowsFinite DEF N
<1>3. N \in SUBSET DOMAIN t
  BY <1>1
<1>4. i \in 1..Cardinality(K)
  BY <1>1, <1>2, MinOfTwo
<1>5. k \in N /\ Ahead(t, N, k) = i - 1
  BY <1>2, <1>3, NewestFirstLemma
<1>6. k \in K /\ Ahead(t, K, k) + 1 = i
  BY <1>1, <1>4, <1>5
<1>7. NewestFirst(t, K)[i] = k
  BY <1>6, NewestFirstLemma
<1>8. QED
  BY <1>4, <1>7 DEF N

-----------------------------------------------------------------------------
(* The chats overview.                                                      *)

(* A chat's preview is its newest row: every other one comes after it.      *)
LEMMA PreviewLemma ==
    ASSUME NEW t, IsTable(t), RowidsAreRanks(t), NEW c \in ChatsOf(t)
    PROVE  /\ Preview(t, c) \in RowsOf(t, c)
           /\ Ahead(t, RowsOf(t, c), Preview(t, c)) = 0
<1> DEFINE R == RowsOf(t, c)
<1>1. R \in SUBSET DOMAIN t /\ R # {}
  BY DEF RowsOf, ChatsOf
<1>2. IsFiniteSet(R) /\ Cardinality(R) \in Nat /\ Cardinality(R) # 0
  BY <1>1, RowsFinite, FS_EmptySet
<1> HIDE DEF R
<1>3. PICK k \in R : Ahead(t, R, k) = 0
  <2>1. 0 \in 0..(Cardinality(R) - 1)
    BY <1>2
  <2>2. QED
    BY <1>1, <2>1, AheadIsRank
<1>4. \A j \in R : j \in NewestOf(t, R, 1) <=> Ahead(t, R, j) = 0
  <2>1. \A j \in R : Ahead(t, R, j) \in Nat
    BY <1>1, <1>2, AheadIsRank
  <2>2. QED
    BY <2>1 DEF NewestOf
<1>5. Preview(t, c) \in R /\ Preview(t, c) \in NewestOf(t, R, 1)
  BY <1>3, <1>4 DEF Preview, R
<1>6. QED
  BY <1>4, <1>5 DEF R

(* There is one preview for each chat, and no more chats than rows.         *)
LEMMA PreviewsLemma ==
    ASSUME NEW t, IsTable(t), RowidsAreRanks(t)
    PROVE  /\ Previews(t) \in SUBSET DOMAIN t
           /\ \A k \in Previews(t) : k = Preview(t, k[1]) /\ k[1] \in ChatsOf(t)
           /\ \A c \in ChatsOf(t) : Preview(t, c) \in Previews(t) /\ Preview(t, c)[1] = c
           /\ Cardinality(ChatsOf(t)) = Cardinality(Previews(t))
           /\ Cardinality(Previews(t)) <= Cardinality(DOMAIN t)
<1> DEFINE P == Previews(t)
           C == ChatsOf(t)
           f == [k \in P |-> k[1]]
<1>1. \A c \in C : /\ Preview(t, c) \in DOMAIN t
                   /\ Preview(t, c)[1] = c
                   /\ Preview(t, c) \in P
  BY PreviewLemma DEF RowsOf, Previews
<1>2. P \in SUBSET DOMAIN t /\ \A k \in P : k = Preview(t, k[1]) /\ k[1] \in C
  BY <1>1 DEF Previews
<1> HIDE DEF P, C
<1>3. IsFiniteSet(P) /\ IsFiniteSet(DOMAIN t)
  BY <1>2, RowsFinite DEF RowidsAreRanks
<1>4. f \in Bijection(P, C)
  BY <1>1, <1>2 DEF Bijection, Injection, Surjection, IsInjective
<1>5. Cardinality(C) = Cardinality(P)
  BY <1>3, <1>4, FS_Bijection DEF ExistsBijection
<1>6. Cardinality(P) <= Cardinality(DOMAIN t)
  BY <1>2, <1>3, FS_Subset
<1>7. QED
  BY <1>1, <1>2, <1>5, <1>6 DEF P, C

(* The overview lists the previews, newest first; a limit keeps a prefix.   *)
LEMMA OverviewLemma ==
    ASSUME NEW t, IsTable(t), RowidsAreRanks(t), NEW limit \in Int
    PROVE  /\ Overview(t, limit) \in Seq({Entry(t, k) : k \in Previews(t)})
           /\ Len(Overview(t, limit)) =
                  Min({LimitOr(limit, DefaultChatsLimit), Cardinality(Previews(t))})
           /\ \A i \in 1..Len(Overview(t, limit)) :
                 /\ i \in 1..Cardinality(Previews(t))
                 /\ Overview(t, limit)[i] = Entry(t, NewestFirst(t, Previews(t))[i])
<1> DEFINE P == Previews(t)
           room == LimitOr(limit, DefaultChatsLimit)
           shown == NewestOf(t, P, room)
           o == Overview(t, limit)
<1>1. room \in Nat
  BY MessageAssumption DEF LimitOr
<1>2. P \in SUBSET DOMAIN t
  BY PreviewsLemma
<1>3. shown \subseteq P /\ Cardinality(shown) = Min({room, Cardinality(P)})
  BY <1>1, <1>2, NewestOfLemma
<1>4. shown \in SUBSET DOMAIN t /\ Cardinality(shown) \in Nat
  BY <1>2, <1>3, RowsFinite
<1>5. o = [i \in 1..Cardinality(shown) |-> Entry(t, NewestFirst(t, shown)[i])]
  BY DEF Overview
<1>6. \A i \in 1..Cardinality(shown) :
         /\ i \in 1..Cardinality(P)
         /\ NewestFirst(t, shown)[i] = NewestFirst(t, P)[i]
         /\ NewestFirst(t, shown)[i] \in P
  <2> SUFFICES ASSUME NEW i \in 1..Cardinality(shown)
               PROVE  /\ i \in 1..Cardinality(P)
                      /\ NewestFirst(t, shown)[i] = NewestFirst(t, P)[i]
                      /\ NewestFirst(t, shown)[i] \in P
    OBVIOUS
  <2> HIDE DEF P, room
  <2>1. i \in 1..Cardinality(P) /\ NewestFirst(t, shown)[i] = NewestFirst(t, P)[i]
    BY <1>1, <1>2, NewestFirstPrefix
  <2>2. QED
    BY <1>2, <2>1, NewestFirstLemma
<1> HIDE DEF P, room, shown, o
<1>7. Len(o) = Cardinality(shown) /\ o \in Seq({Entry(t, k) : k \in P})
  BY <1>4, <1>5, <1>6
<1>8. QED
  BY <1>3, <1>5, <1>6, <1>7 DEF P, room, o
=============================================================================
