-------------------------- MODULE MessageStoreProofs --------------------------
(***************************************************************************)
(* Proofs about MessageStore, for any chats, ids, senders, timestamps and   *)
(* limits.                                                                  *)
(***************************************************************************)
EXTENDS MessageStore, MessageTableProofs, SequenceTheorems

LEMMA InitInv == Init => IInv
<1> SUFFICES ASSUME Init PROVE IInv
  OBVIOUS
<1>1. IsTable(table) /\ RowidsAreRanks(table)
  BY EmptyTableLemma DEF Init
<1>2. arrivals \in Seq(DOMAIN table)
  BY DEF Init
<1>3. RowidsAreArrivals
  <2>1. DOMAIN table = {} /\ Cardinality(DOMAIN table) = 0
    BY EmptyTableLemma, FS_EmptySet DEF Init
  <2>2. QED
    BY <2>1 DEF Init, RowidsAreArrivals
<1>4. QED
  BY <1>1, <1>2, <1>3 DEF IInv, TypeOK

(* An upsert keeps the place of every row that was there. *)
LEMMA UpsertKeepsPlaces ==
    ASSUME NEW t, IsTable(t), NEW k \in Key, NEW ts \in Nat
    PROVE  \A j \in DOMAIN t : Upsert(t, k, ts)[j].rowid = t[j].rowid
<1>1. \A j \in DOMAIN t : t[j] \in Row
  BY DEF IsTable
<1>2. QED
  BY <1>1 DEF Upsert, Row

LEMMA ReceiveStep ==
    ASSUME IInv, NEW k \in Key, NEW ts \in Time, Receive(k, ts)
    PROVE  /\ IInv'
           /\ \A j \in DOMAIN table : /\ table'[j].seen <=> table[j].seen
                                      /\ table'[j].rowid = table[j].rowid
<1>1. ts \in Nat
  BY StoreAssumption
<1>2. IsTable(table) /\ RowidsAreRanks(table) /\ arrivals \in Seq(DOMAIN table)
  BY DEF IInv, TypeOK
<1>3. table' = Upsert(table, k, ts)
  BY DEF Receive
<1>4. IsTable(table') /\ RowidsAreRanks(table')
  BY <1>1, <1>2, <1>3, UpsertLemma
<1>5. /\ DOMAIN Upsert(table, k, ts) = DOMAIN table \cup {k}
      /\ \A j \in DOMAIN table : Upsert(table, k, ts)[j].seen <=> table[j].seen
  BY <1>1, <1>2, UpsertRowsLemma
<1>6. \A j \in DOMAIN table : Upsert(table, k, ts)[j].rowid = table[j].rowid
  BY <1>1, <1>2, UpsertKeepsPlaces
<1>7. arrivals' \in Seq(DOMAIN table')
  <2>1. DOMAIN table' = DOMAIN table \cup {k}
    BY <1>3, <1>5
  <2>2. arrivals \in Seq(DOMAIN table \cup {k})
    BY <1>2
  <2>3. Append(arrivals, k) \in Seq(DOMAIN table \cup {k})
    BY <2>2
  <2>4. QED
    BY <2>1, <2>2, <2>3 DEF Receive
<1>8. RowidsAreArrivals'
  <2> DEFINE n == Cardinality(DOMAIN table)
  <2>1. /\ n \in Nat /\ Len(arrivals) = n
        /\ \A j \in DOMAIN table : arrivals[table[j].rowid] = j
        /\ \A j \in DOMAIN table : table[j].rowid \in 1..n
    BY <1>2, NextRowidLemma DEF IInv, RowidsAreArrivals, RowidsAreRanks
  <2>2. CASE k \in DOMAIN table
    <3>1. DOMAIN table' = DOMAIN table /\ arrivals' = arrivals
      BY <1>3, <1>5, <2>2 DEF Receive
    <3>2. \A j \in DOMAIN table' : arrivals'[table'[j].rowid] = j
      BY <1>3, <1>6, <2>1, <3>1
    <3>3. QED
      BY <2>1, <3>1, <3>2 DEF RowidsAreArrivals
  <2>3. CASE k \notin DOMAIN table
    <3>1. arrivals' = Append(arrivals, k)
      BY <2>3 DEF Receive
    <3>2. Cardinality(DOMAIN table') = n + 1 /\ table'[k].rowid = n + 1
      BY <1>1, <1>2, <1>3, <2>3, UpsertNewRow
    <3>3. \A j \in DOMAIN table : table'[j].rowid \in 1..n /\ arrivals[table'[j].rowid] = j
      BY <1>3, <1>6, <2>1
    <3>4. /\ Len(arrivals') = n + 1 /\ arrivals'[n + 1] = k
          /\ \A i \in 1..n : arrivals'[i] = arrivals[i]
      BY <1>2, <1>7, <2>1, <3>1
    <3>5. \A j \in DOMAIN table' : arrivals'[table'[j].rowid] = j
      BY <1>3, <1>5, <3>2, <3>3, <3>4
    <3>6. QED
      BY <3>2, <3>4, <3>5 DEF RowidsAreArrivals
  <2>4. QED
    BY <2>2, <2>3
<1>9. QED
  BY <1>3, <1>4, <1>5, <1>6, <1>7, <1>8 DEF IInv, TypeOK

LEMMA ReadStep ==
    ASSUME IInv, NEW q \in Queries, Read(q)
    PROVE  /\ IInv'
           /\ \A j \in DOMAIN table : /\ table[j].seen => table'[j].seen
                                      /\ table'[j].rowid = table[j].rowid
<1> DEFINE keys == ToSet(List(table, q))
<1>1. IsTable(table) /\ RowidsAreRanks(table) /\ arrivals \in Seq(DOMAIN table)
  BY DEF IInv, TypeOK
<1>2. table' = MarkSeen(table, keys) /\ arrivals' = arrivals
  BY DEF Read
<1> HIDE DEF keys
<1>3. /\ IsTable(MarkSeen(table, keys))
      /\ RowidsAreRanks(MarkSeen(table, keys))
      /\ DOMAIN MarkSeen(table, keys) = DOMAIN table
      /\ \A k \in DOMAIN table :
            /\ MarkSeen(table, keys)[k].seen = (table[k].seen \/ k \in keys)
            /\ MarkSeen(table, keys)[k].rowid = table[k].rowid
  BY <1>1, MarkSeenLemma
<1>4. IInv'
  BY <1>1, <1>2, <1>3 DEF IInv, TypeOK, RowidsAreArrivals
<1>5. QED
  BY <1>2, <1>3, <1>4

LEMMA PurgeStep == ASSUME Purge PROVE IInv' /\ DOMAIN table' = {}
<1>1. table' = EmptyTable /\ arrivals' = <<>>
  BY DEF Purge, Clear
<1>2. IsTable(table') /\ RowidsAreRanks(table') /\ DOMAIN table' = {}
  BY <1>1, EmptyTableLemma
<1>3. RowidsAreArrivals'
  BY <1>1, <1>2, FS_EmptySet DEF RowidsAreArrivals
<1>4. QED
  BY <1>1, <1>2, <1>3 DEF IInv, TypeOK

(* Every step keeps the invariant, and the place and the flag of each row   *)
(* that it does not purge.                                                  *)
LEMMA StepInv ==
    ASSUME IInv, [Next]_vars
    PROVE  /\ IInv'
           /\ \A k \in DOMAIN table \cap DOMAIN table' :
                 /\ table[k].seen => table'[k].seen
                 /\ table'[k].rowid = table[k].rowid
<1>1. CASE \E k \in Key, ts \in Time : Receive(k, ts)
  BY <1>1, ReceiveStep
<1>2. CASE \E q \in Queries : ~q.all /\ Read(q)
  BY <1>2, ReadStep
<1>3. CASE Purge
  BY <1>3, PurgeStep
<1>4. CASE UNCHANGED vars
  BY <1>4 DEF IInv, TypeOK, RowidsAreArrivals, vars
<1>5. QED
  BY <1>1, <1>2, <1>3, <1>4 DEF Next

(* The store's invariant (store.go: Upsert, MarkSeen, Clear). *)
THEOREM StoreInvariant == Spec => []IInv
<1>1. IInv /\ [Next]_vars => IInv'
  BY StepInv
<1>2. QED
  BY InitInv, <1>1, PTL DEF Spec

(* The table stays a table, and only keys with a row have arrived. *)
THEOREM StoreTypeOK == Spec => []TypeOK
<1>1. IInv => TypeOK
  BY DEF IInv
<1>2. QED
  BY StoreInvariant, <1>1, PTL

(* No write reopens a message that was read or moves one in the order of    *)
(* arrival, whatever is re-delivered (store.go: Upsert).                    *)
THEOREM StoreRedeliveryKeepsPlace == Spec => RedeliveryKeepsPlace
<1> DEFINE Kept ==
      \A k \in DOMAIN table \cap DOMAIN table' :
          /\ table[k].seen => table'[k].seen
          /\ \A j \in DOMAIN table \cap DOMAIN table' :
                (table[j].rowid < table[k].rowid) => (table'[j].rowid < table'[k].rowid)
<1>1. IInv /\ [Next]_vars => [Kept]_vars
  BY StepInv
<1>2. [][Kept]_vars => RedeliveryKeepsPlace
  BY DEF RedeliveryKeepsPlace
<1>3. QED
  BY StoreInvariant, <1>1, <1>2, PTL DEF Spec

-----------------------------------------------------------------------------
(* The queries.                                                             *)

(* Exactly the messages that arrived since the last purge have a row, and   *)
(* the rowid tells which of two arrived first: the order of the queries is  *)
(* the order a reader expects.                                              *)
LEMMA OrderOfArrival ==
    ASSUME IInv
    PROVE  /\ ToSet(arrivals) = DOMAIN table
           /\ \A j, k \in DOMAIN table : Later(table, k, j) => Before(j, k)
<1> DEFINE n == Cardinality(DOMAIN table)
<1>1. /\ n \in Nat /\ Len(arrivals) = n /\ arrivals \in Seq(DOMAIN table)
      /\ \A k \in DOMAIN table : table[k].rowid \in 1..n /\ arrivals[table[k].rowid] = k
  BY NextRowidLemma DEF IInv, TypeOK, RowidsAreArrivals, RowidsAreRanks
<1>2. DOMAIN arrivals = 1..n
  BY <1>1
<1>3. ToSet(arrivals) = DOMAIN table
  <2>1. \A i \in 1..n : arrivals[i] \in DOMAIN table
    BY <1>1
  <2>2. QED
    BY <1>1, <1>2, <2>1 DEF ToSet
<1>4. \A j, k \in DOMAIN table : Later(table, k, j) => Before(j, k)
  <2> SUFFICES ASSUME NEW j \in DOMAIN table, NEW k \in DOMAIN table, Later(table, k, j)
               PROVE  Before(j, k)
    OBVIOUS
  <2>1. /\ table[j].ts \in Nat /\ table[j].rowid \in Nat
        /\ table[k].ts \in Nat /\ table[k].rowid \in Nat
    BY RowNumbers DEF IInv, TypeOK
  <2>2. CASE table[k].ts > table[j].ts
    BY <2>1, <2>2 DEF Before
  <2>3. CASE table[k].ts = table[j].ts /\ table[k].rowid > table[j].rowid
    <3>1. /\ table[j].rowid \in DOMAIN arrivals /\ table[k].rowid \in DOMAIN arrivals
          /\ table[j].rowid < table[k].rowid
          /\ arrivals[table[j].rowid] = j /\ arrivals[table[k].rowid] = k
      BY <1>1, <1>2, <2>1, <2>3
    <3>2. ArrivedBefore(j, k)
      BY <3>1 DEF ArrivedBefore
    <3>3. QED
      BY <2>3, <3>2 DEF Before
  <2>4. QED
    BY <2>2, <2>3 DEF Later
<1>5. QED
  BY <1>3, <1>4

(* What List returns: as many of the matching rows as there is room for, in *)
(* the order of the query, and none that it left out belongs after one of   *)
(* them.                                                                    *)
LEMMA ListLemma ==
    ASSUME NEW t, IsTable(t), RowidsAreRanks(t), NEW q, q.limit \in Int
    PROVE  /\ List(t, q) \in Seq(Listed(t, q))
           /\ ToSet(List(t, q)) = Listed(t, q)
           /\ Listed(t, q) \subseteq Matching(t, q)
           /\ Matching(t, q) \in SUBSET DOMAIN t
           /\ Len(List(t, q)) = Cardinality(Listed(t, q))
           /\ Cardinality(Listed(t, q)) =
                  Min({LimitOr(q.limit, DefaultLimit), Cardinality(Matching(t, q))})
           /\ \A i, j \in 1..Len(List(t, q)) :
                 i < j => Later(t, List(t, q)[j], List(t, q)[i])
           /\ \A k \in Listed(t, q), j \in Matching(t, q) \ Listed(t, q) : Later(t, k, j)
<1> DEFINE K == Matching(t, q)
           m == LimitOr(q.limit, DefaultLimit)
           N == Listed(t, q)
<1>1. m \in Nat
  BY MessageAssumption DEF LimitOr
<1>2. K \in SUBSET DOMAIN t
  BY DEF Matching
<1>3. N = NewestOf(t, K, m)
  BY DEF Listed
<1>4. List(t, q) = OldestFirst(t, N)
  BY DEF List
<1> HIDE DEF K, m, N
<1>5. /\ N \subseteq K /\ Cardinality(N) = Min({m, Cardinality(K)})
      /\ \A k \in N, j \in K \ N : Later(t, k, j)
  BY <1>1, <1>2, <1>3, NewestOfLemma
<1>6. N \in SUBSET DOMAIN t
  BY <1>2, <1>5
<1>7. /\ OldestFirst(t, N) \in Seq(N)
      /\ Len(OldestFirst(t, N)) = Cardinality(N)
      /\ ToSet(OldestFirst(t, N)) = N
      /\ \A i, j \in 1..Cardinality(N) :
            i < j => Later(t, OldestFirst(t, N)[j], OldestFirst(t, N)[i])
  BY <1>6, OldestFirstLemma
<1>8. QED
  BY <1>2, <1>4, <1>5, <1>7 DEF K, m, N

(* The numbers of a query. *)
LEMMA QueryNumbers == \A q \in Queries : q.limit \in Int /\ q.since \in Nat
<1>1. \A q \in Queries : q.limit \in Limits /\ q.since \in Time \cup {0}
  BY DEF Queries
<1>2. \A n \in Limits : n \in Int
  BY StoreAssumption
<1>3. \A n \in Time \cup {0} : n \in Nat
  BY StoreAssumption
<1>4. QED
  BY <1>1, <1>2, <1>3

(* The listing is the newest part of what was asked for, in order.          *)
LEMMA ListIsSuffix == ASSUME IInv PROVE ListIsNewestSuffix
<1> SUFFICES ASSUME NEW q \in Queries
             PROVE  LET list == List(table, q)
                        wanted == {k \in ToSet(arrivals) :
                                      /\ q.chat = AnyChat \/ k[1] = q.chat
                                      /\ q.unreadOnly /\ ~q.all => k \in Unread(table)
                                      /\ q.since = 0 \/ ~(table[k].ts < q.since)}
                        room == IF q.limit > 0 THEN q.limit ELSE DefaultLimit
                    IN  /\ ToSet(list) \subseteq wanted
                        /\ Len(list) = Min({room, Cardinality(wanted)})
                        /\ \A i, j \in DOMAIN list : i < j => Before(list[i], list[j])
                        /\ \A k \in wanted \ ToSet(list), i \in DOMAIN list :
                              Before(k, list[i])
  BY DEF ListIsNewestSuffix
<1> DEFINE list == List(table, q)
           wanted == {k \in ToSet(arrivals) :
                         /\ q.chat = AnyChat \/ k[1] = q.chat
                         /\ q.unreadOnly /\ ~q.all => k \in Unread(table)
                         /\ q.since = 0 \/ ~(table[k].ts < q.since)}
           room == IF q.limit > 0 THEN q.limit ELSE DefaultLimit
<1>1. IsTable(table) /\ RowidsAreRanks(table)
  BY DEF IInv, TypeOK
<1>2. q.limit \in Int /\ q.since \in Nat
  BY QueryNumbers
<1>3. \A k \in DOMAIN table : table[k].ts \in Nat
  BY <1>1, RowNumbers
<1>4. Matching(table, q) = wanted
  <2>1. \A k \in DOMAIN table :
            /\ q.chat \in {AnyChat, k[1]} <=> (q.chat = AnyChat \/ k[1] = q.chat)
            /\ k \in Unread(table) <=> (~table[k].seen /\ Inbound(k))
            /\ table[k].ts >= q.since <=> (q.since = 0 \/ ~(table[k].ts < q.since))
    BY <1>2, <1>3 DEF Unread
  <2>2. QED
    BY <2>1, OrderOfArrival DEF Matching
<1>5. LimitOr(q.limit, DefaultLimit) = room
  BY <1>2 DEF LimitOr
<1> HIDE DEF list, wanted, room
<1>6. /\ list \in Seq(Listed(table, q))
      /\ ToSet(list) = Listed(table, q)
      /\ Listed(table, q) \subseteq wanted
      /\ wanted \in SUBSET DOMAIN table
      /\ Len(list) = Min({room, Cardinality(wanted)})
      /\ \A i, j \in 1..Len(list) : i < j => Later(table, list[j], list[i])
      /\ \A k \in Listed(table, q), j \in wanted \ Listed(table, q) : Later(table, k, j)
  BY <1>1, <1>2, <1>4, <1>5, ListLemma DEF list
<1>7. DOMAIN list = 1..Len(list) /\ \A i \in DOMAIN list : list[i] \in Listed(table, q)
  BY <1>6
<1>8. \A i, j \in DOMAIN list : i < j => Before(list[i], list[j])
  BY <1>6, <1>7, OrderOfArrival
<1>9. \A k \in wanted \ ToSet(list), i \in DOMAIN list : Before(k, list[i])
  BY <1>6, <1>7, OrderOfArrival
<1>10. QED
  BY <1>6, <1>8, <1>9 DEF list, wanted, room

(* Every query returns the newest `limit' of the messages it asks for, in   *)
(* order, arrival deciding between messages of the same second              *)
(* (store.go: List).                                                        *)
THEOREM StoreListIsNewestSuffix == Spec => []ListIsNewestSuffix
<1>1. IInv => ListIsNewestSuffix
  BY ListIsSuffix
<1>2. QED
  BY StoreInvariant, <1>1, PTL

(* Browsing without a limit returns everything that was asked for.          *)
LEMMA BrowseLemma ==
    ASSUME IInv, NEW c, NEW unread \in BOOLEAN
    PROVE  /\ List(table, Browse(c, unread)) \in Seq(Matching(table, Browse(c, unread)))
           /\ ToSet(List(table, Browse(c, unread))) = Matching(table, Browse(c, unread))
           /\ Len(List(table, Browse(c, unread))) =
                  Cardinality(Matching(table, Browse(c, unread)))
           /\ \A i, j \in 1..Len(List(table, Browse(c, unread))) :
                 i < j => Later(table, List(table, Browse(c, unread))[j],
                                       List(table, Browse(c, unread))[i])
<1> DEFINE q == Browse(c, unread)
           K == Matching(table, q)
           n == Cardinality(DOMAIN table)
           room == LimitOr(q.limit, DefaultLimit)
<1>1. IsTable(table) /\ RowidsAreRanks(table)
  BY DEF IInv, TypeOK
<1>2. n \in Nat /\ q.limit = n
  BY <1>1, NextRowidLemma DEF Browse
<1>3. /\ List(table, q) \in Seq(Listed(table, q))
      /\ ToSet(List(table, q)) = Listed(table, q)
      /\ Listed(table, q) \subseteq K
      /\ K \in SUBSET DOMAIN table
      /\ Len(List(table, q)) = Cardinality(Listed(table, q))
      /\ Cardinality(Listed(table, q)) = Min({room, Cardinality(K)})
      /\ \A i, j \in 1..Len(List(table, q)) :
            i < j => Later(table, List(table, q)[j], List(table, q)[i])
  <2>1. q.limit \in Int
    BY <1>2
  <2> HIDE DEF q
  <2>2. QED
    BY <1>1, <2>1, ListLemma
<1> HIDE DEF q, K
<1>4. Cardinality(K) \in Nat /\ Cardinality(K) <= n /\ IsFiniteSet(K)
  BY <1>1, <1>3, RowsFinite, FS_Subset DEF RowidsAreRanks
<1>5. room \in Nat /\ Cardinality(K) <= room
  BY <1>2, <1>4, MessageAssumption DEF LimitOr
<1>6. Cardinality(Listed(table, q)) = Cardinality(K)
  BY <1>3, <1>4, <1>5, MinOfTwo
<1>7. Listed(table, q) = K
  BY <1>3, <1>4, <1>6, FS_Subset
<1>8. QED
  BY <1>3, <1>7 DEF q, K

(* What browsing asks for: all rows, a chat's rows, a chat's unread rows.   *)
LEMMA BrowseMatches ==
    ASSUME IInv
    PROVE  /\ Matching(table, Browse(AnyChat, FALSE)) = DOMAIN table
           /\ \A c \in ChatsOf(table) :
                 /\ Matching(table, Browse(c, FALSE)) = RowsOf(table, c)
                 /\ Matching(table, Browse(c, TRUE)) = RowsOf(table, c) \cap Unread(table)
<1>1. \A k \in DOMAIN table : k[1] \in Chat /\ table[k].ts >= 0
  BY RowNumbers DEF IInv, TypeOK, IsTable, Key
<1>2. \A c \in ChatsOf(table) : c # AnyChat
  BY <1>1, MessageAssumption DEF ChatsOf
<1>3. QED
  BY <1>1, <1>2 DEF Matching, Browse, RowsOf, Unread

(* A chat's preview ends its full listing.                                  *)
LEMMA PreviewIsLast ==
    ASSUME IInv, NEW c \in ChatsOf(table)
    PROVE  /\ List(table, Browse(c, FALSE)) # <<>>
           /\ Preview(table, c) = Last(List(table, Browse(c, FALSE)))
<1> DEFINE R == RowsOf(table, c)
           list == List(table, Browse(c, FALSE))
           k == Preview(table, c)
<1>1. IsTable(table) /\ RowidsAreRanks(table)
  BY DEF IInv, TypeOK
<1>2. R \in SUBSET DOMAIN table
  BY DEF RowsOf
<1>3. k \in R /\ Ahead(table, R, k) = 0
  BY <1>1, PreviewLemma
<1>4. /\ list \in Seq(R) /\ ToSet(list) = R
      /\ \A i, j \in 1..Len(list) : i < j => Later(table, list[j], list[i])
  BY BrowseLemma, BrowseMatches
<1> HIDE DEF R, list, k
<1>5. PICK a \in 1..Len(list) : list[a] = k
  BY <1>3, <1>4 DEF ToSet
<1>6. Len(list) \in Nat \ {0} /\ Len(list) \in 1..Len(list) /\ list[Len(list)] \in R
  BY <1>4, <1>5
<1>7. ~Later(table, list[Len(list)], k)
  <2>1. \A j \in R : Later(table, j, k) => Ahead(table, R, j) < 0
    BY <1>1, <1>2, <1>3, AheadIsRank
  <2>2. \A j \in R : Ahead(table, R, j) \in 0..(Cardinality(R) - 1)
    BY <1>1, <1>2, AheadIsRank
  <2>3. Cardinality(R) \in Nat
    BY <1>1, <1>2, RowsFinite
  <2>4. QED
    BY <1>6, <2>1, <2>2, <2>3
<1>8. a = Len(list)
  BY <1>4, <1>5, <1>6, <1>7
<1>9. list # <<>> /\ k = Last(list)
  BY <1>4, <1>5, <1>6, <1>8 DEF Last
<1>10. QED
  BY <1>9 DEF list, k

(* The unlimited overview, entry by entry.                                  *)
LEMMA WholeOverview ==
    ASSUME IInv
    PROVE  /\ Cardinality(DOMAIN table) \in Nat
           /\ Overview(table, Cardinality(DOMAIN table)) \in
                  Seq({Entry(table, k) : k \in Previews(table)})
           /\ Cardinality(Previews(table)) \in Nat
           /\ Len(Overview(table, Cardinality(DOMAIN table))) = Cardinality(Previews(table))
           /\ \A i \in 1..Cardinality(Previews(table)) :
                 Overview(table, Cardinality(DOMAIN table))[i] =
                     Entry(table, NewestFirst(table, Previews(table))[i])
<1> DEFINE n == Cardinality(DOMAIN table)
           p == Cardinality(Previews(table))
<1>1. IsTable(table) /\ RowidsAreRanks(table)
  BY DEF IInv, TypeOK
<1>2. n \in Nat /\ p \in Nat /\ p <= n
  BY <1>1, RowsFinite, PreviewsLemma
<1>3. p <= LimitOr(n, DefaultChatsLimit) /\ LimitOr(n, DefaultChatsLimit) \in Int
  BY <1>2, MessageAssumption DEF LimitOr
<1>4. Min({LimitOr(n, DefaultChatsLimit), p}) = p
  BY <1>2, <1>3, MinOfTwo
<1>5. n \in Int
  BY <1>2
<1> HIDE DEF n
<1>6. /\ Overview(table, n) \in Seq({Entry(table, k) : k \in Previews(table)})
      /\ Len(Overview(table, n)) = p
      /\ \A i \in 1..p :
            Overview(table, n)[i] = Entry(table, NewestFirst(table, Previews(table))[i])
  BY <1>1, <1>4, <1>5, OverviewLemma
<1>7. QED
  BY <1>2, <1>6 DEF n

(* The overview and the listing agree, clause by clause.                    *)
LEMMA OverviewAgrees == ASSUME IInv PROVE OverviewAgreesWithList
<1> DEFINE n == Cardinality(DOMAIN table)
           P == Previews(table)
           p == Cardinality(P)
           s == NewestFirst(table, P)
           overview == Overview(table, n)
           whole == List(table, Browse(AnyChat, FALSE))
           ListedBefore(j, k) ==
               \E a, b \in DOMAIN whole : a < b /\ whole[a] = j /\ whole[b] = k
<1>1. IsTable(table) /\ RowidsAreRanks(table)
  BY DEF IInv, TypeOK
<1>2. /\ P \in SUBSET DOMAIN table
      /\ \A k \in P : k = Preview(table, k[1]) /\ k[1] \in ChatsOf(table)
      /\ \A c \in ChatsOf(table) : Preview(table, c) \in P /\ Preview(table, c)[1] = c
      /\ Cardinality(ChatsOf(table)) = p
  BY <1>1, PreviewsLemma
<1>3. /\ p \in Nat /\ Len(overview) = p
      /\ overview \in Seq({Entry(table, k) : k \in P})
      /\ \A i \in 1..p : overview[i] = Entry(table, s[i])
  BY WholeOverview
<1>4. /\ \A i \in 1..p : s[i] \in P /\ Ahead(table, P, s[i]) = i - 1
      /\ \A k \in P : \E i \in 1..p : s[i] = k
  BY <1>1, <1>2, NewestFirstLemma
<1> HIDE DEF n, P, p, s, overview, whole
<1>5. \A i \in 1..p : /\ overview[i].jid = s[i][1]
                      /\ overview[i].last = s[i]
                      /\ overview[i].unread = UnreadCount(table, s[i][1])
  BY <1>3 DEF Entry
<1>6. DOMAIN overview = 1..p
  BY <1>3
<1>7. {overview[i].jid : i \in DOMAIN overview} = ChatsOf(table)
  <2>1. \A i \in 1..p : s[i][1] \in ChatsOf(table)
    BY <1>2, <1>4
  <2>2. \A c \in ChatsOf(table) : \E i \in 1..p : s[i][1] = c
    BY <1>2, <1>4
  <2>3. QED
    BY <1>5, <1>6, <2>1, <2>2
<1>8. Len(overview) = Cardinality(ChatsOf(table))
  BY <1>2, <1>3
<1>9. \A i, j \in DOMAIN overview :
         i < j => ListedBefore(overview[j].last, overview[i].last)
  <2> SUFFICES ASSUME NEW i \in 1..p, NEW j \in 1..p, i < j
               PROVE  ListedBefore(s[j], s[i])
    BY <1>5, <1>6
  <2>1. /\ whole \in Seq(DOMAIN table) /\ ToSet(whole) = DOMAIN table
        /\ \A a, b \in 1..Len(whole) : a < b => Later(table, whole[b], whole[a])
    BY BrowseLemma, BrowseMatches DEF whole
  <2>2. s[i] \in P /\ s[j] \in P /\ Ahead(table, P, s[i]) < Ahead(table, P, s[j])
    BY <1>3, <1>4
  <2>3. Later(table, s[i], s[j])
    BY <1>1, <1>2, <2>2, AheadIsRank
  <2>4. DOMAIN whole = 1..Len(whole) /\ Len(whole) \in Nat
    BY <2>1
  <2>5. PICK a \in 1..Len(whole), b \in 1..Len(whole) : whole[a] = s[j] /\ whole[b] = s[i]
    BY <1>2, <2>1, <2>2, <2>4 DEF ToSet
  <2>6. ~Later(table, s[j], s[i]) /\ s[i] # s[j]
    BY <1>1, <1>2, <2>2, <2>3, LaterIsStrictOrder
  <2>7. a < b
    BY <2>1, <2>4, <2>5, <2>6
  <2>8. QED
    BY <2>4, <2>5, <2>7
<1>10. \A i \in DOMAIN overview :
          /\ overview[i].last = Last(List(table, Browse(overview[i].jid, FALSE)))
          /\ overview[i].unread = Len(List(table, Browse(overview[i].jid, TRUE)))
  <2> SUFFICES ASSUME NEW i \in 1..p
               PROVE  /\ overview[i].last =
                             Last(List(table, Browse(overview[i].jid, FALSE)))
                      /\ overview[i].unread =
                             Len(List(table, Browse(overview[i].jid, TRUE)))
    BY <1>6
  <2>1. s[i][1] \in ChatsOf(table) /\ s[i] = Preview(table, s[i][1])
    BY <1>2, <1>4
  <2>2. s[i] = Last(List(table, Browse(s[i][1], FALSE)))
    BY <2>1, PreviewIsLast
  <2>3. Len(List(table, Browse(s[i][1], TRUE))) =
            Cardinality(RowsOf(table, s[i][1]) \cap Unread(table))
    BY <2>1, BrowseLemma, BrowseMatches
  <2>4. /\ overview[i].jid = s[i][1] /\ overview[i].last = s[i]
        /\ overview[i].unread = UnreadCount(table, s[i][1])
    BY <1>5
  <2>5. QED
    BY <2>2, <2>3, <2>4 DEF UnreadCount
<1>11. ASSUME NEW m \in Limits
       PROVE  Overview(table, m) =
                  SubSeq(overview, 1, Min({Len(overview),
                                           IF m > 0 THEN m ELSE DefaultChatsLimit}))
  <2> DEFINE room == IF m > 0 THEN m ELSE DefaultChatsLimit
             w == Min({p, room})
             o == Overview(table, m)
  <2>1. m \in Int /\ room \in Nat /\ LimitOr(m, DefaultChatsLimit) = room
    BY StoreAssumption, MessageAssumption DEF LimitOr
  <2>2. /\ o \in Seq({Entry(table, k) : k \in P})
        /\ Len(o) = Min({room, p})
        /\ \A i \in 1..Len(o) : o[i] = Entry(table, s[i])
    BY <1>1, <2>1, OverviewLemma DEF P, p, s
  <2>3. {room, p} = {p, room}
    OBVIOUS
  <2>4. Len(o) = w
    BY <2>2, <2>3
  <2>5. w \in Nat /\ w <= p
    BY <1>3, <2>1, MinOfTwo
  <2> HIDE DEF o, w, room
  <2>6. \A i \in 1..w : o[i] = overview[i]
    <3>1. \A i \in 1..w : i \in 1..p
      BY <1>3, <2>5
    <3>2. QED
      BY <1>3, <2>2, <2>4, <3>1
  <2>7. /\ SubSeq(overview, 1, w) \in Seq({Entry(table, k) : k \in P})
        /\ Len(SubSeq(overview, 1, w)) = w
        /\ \A i \in 1..w : SubSeq(overview, 1, w)[i] = overview[i]
    BY <1>3, <2>5
  <2>8. o = SubSeq(overview, 1, w)
    <3>1. \A i \in 1..Len(o) : o[i] = SubSeq(overview, 1, w)[i]
      BY <2>4, <2>6, <2>7
    <3>2. QED
      BY <2>2, <2>4, <2>7, <3>1, SeqEqual
  <2>9. QED
    BY <1>3, <2>8 DEF o, w, room
<1>12. QED
  BY <1>7, <1>8, <1>9, <1>10, <1>11 DEF OverviewAgreesWithList, n, overview, whole

(* The overview and the listing never disagree about a chat's last message, *)
(* its unread count or the order of the chats (store.go: Chats, List).      *)
THEOREM StoreOverviewAgreesWithList == Spec => []OverviewAgreesWithList
<1>1. IInv => OverviewAgreesWithList
  BY OverviewAgrees
<1>2. QED
  BY StoreInvariant, <1>1, PTL
=============================================================================
