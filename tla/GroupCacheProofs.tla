--------------------------- MODULE GroupCacheProofs ---------------------------
(***************************************************************************)
(* Proofs about GroupCache, for any groups, requests, rows and number of    *)
(* renames.                                                                 *)
(***************************************************************************)
EXTENDS GroupCache, SequenceTheorems, TLAPS

USE DEF None, Untried

Memos == [Group -> Nat \cup {Untried}]

LEMMA InitInv == Init => IInv
<1> SUFFICES ASSUME Init PROVE IInv
  OBVIOUS
<1>1. ASSUME NEW g \in Group
      PROVE  subjects[g] \in Seq(Subject) /\ Len(subjects[g]) = 1
  <2>1. PICK s \in Subject : subjects[g] = <<s>>
    BY DEF Init
  <2>2. QED
    BY <2>1
<1>2. subjects \in [Group -> Seq(Subject)]
  BY <1>1 DEF Init
<1>3. TypeOK
  BY <1>2 DEF Init, TypeOK, NoMemo
<1>4. EventInv
  <2> SUFFICES ASSUME NEW g \in Group
               PROVE  1 <= applied[g] /\ applied[g] <= Len(subjects[g])
    BY DEF EventInv, Latest
  <2>1. applied[g] = 1 /\ Len(subjects[g]) = 1
    BY <1>1 DEF Init
  <2>2. QED
    BY <2>1
<1>5. CacheNotOlderThanEvents
  BY DEF Init, CacheNotOlderThanEvents
<1>6. \A r \in Request : MemoInv(r) /\ FetchInv(r)
  BY DEF Init, MemoInv, FetchInv, NoMemo
<1>7. QED
  BY <1>3, <1>4, <1>5, <1>6 DEF IInv

(* While a request has rows left, the next one has a group. *)
LEMMA CurrentType ==
    ASSUME TypeOK, NEW r \in Request, Len(names[r]) < Len(rows[r])
    PROVE  /\ Len(names[r]) + 1 \in 1..Len(rows[r])
           /\ Current(r) \in Group
<1>1. names[r] \in Seq(Nat) /\ rows[r] \in Seq(Group)
  BY DEF TypeOK
<1>2. Len(names[r]) \in Nat /\ Len(rows[r]) \in Nat
  BY <1>1
<1>3. Len(names[r]) + 1 \in 1..Len(rows[r])
  BY <1>2
<1>4. QED
  BY <1>1, <1>3 DEF Current

-----------------------------------------------------------------------------
(* WhatsApp, the connection and the event goroutine.                        *)

(* A new subject at WhatsApp only extends the history. *)
LEMMA RenameInv ==
    ASSUME IInv, NEW h \in Group, Rename(h)
    PROVE  IInv'
<1>1. PICK s \in Subject : subjects' = [subjects EXCEPT ![h] = Append(@, s)]
  BY DEF Rename
<1>2. /\ UNCHANGED <<online, applied, cache, gen, pc, rows, connected, memo, snap,
                     got, names, floor>>
  BY DEF Rename, cacheVars, requestVars
<1>3. subjects \in [Group -> Seq(Subject)]
  BY DEF IInv, TypeOK
<1>4. subjects' \in [Group -> Seq(Subject)]
  BY <1>1, <1>3
<1>5. \A g \in Group : /\ Latest(g) \in Nat /\ Latest(g)' \in Nat
                       /\ Latest(g) <= Latest(g)'
                       /\ \A v \in 1..Latest(g) : Named(g, v)' = Named(g, v)
  BY <1>1, <1>3 DEF Latest, Named
<1>6. TypeOK'
  BY <1>2, <1>4 DEF IInv, TypeOK
<1>7. EventInv'
  BY <1>2, <1>5 DEF IInv, TypeOK, EventInv
<1>8. CacheNotOlderThanEvents'
  BY <1>2, <1>5 DEF IInv, TypeOK, EventInv, CacheNotOlderThanEvents
<1>9. ASSUME NEW r \in Request PROVE MemoInv(r)' /\ FetchInv(r)'
  <2>1. MemoInv(r) /\ FetchInv(r)
    BY DEF IInv
  <2>2. MemoInv(r)'
    <3>1. \A g \in Group : memo[r][g] \in Nat \cup {Untried}
      BY DEF IInv, TypeOK
    <3>2. QED
      BY <1>2, <1>5, <2>1, <3>1 DEF MemoInv
  <2>3. FetchInv(r)'
    <3>1. Current(r)' = Current(r)
      BY <1>2 DEF Current
    <3>2. CASE pc[r] = "fetched"
      <4>1. PICK c \in Group : c = Current(r)
        BY <2>1, <3>2, CurrentType DEF FetchInv, IInv
      <4>2. /\ got[r] # 0 /\ got[r] <= Latest(c) /\ Named(c, got[r])
            /\ floor[r][c] <= got[r]
            /\ snap[r] = gen => applied[c] <= got[r]
        BY <2>1, <3>2, <4>1 DEF FetchInv
      <4>3. got[r] \in Nat
        BY DEF IInv, TypeOK
      <4>4. got[r] \in 1..Latest(c)
        BY <1>5, <4>2, <4>3
      <4>5. got[r] <= Latest(c)' /\ Named(c, got[r])'
        BY <1>2, <1>5, <4>2, <4>3, <4>4 DEF Named
      <4>6. QED
        BY <1>2, <2>1, <3>1, <3>2, <4>1, <4>2, <4>5 DEF FetchInv
    <3>3. CASE pc[r] # "fetched"
      BY <1>2, <2>1, <3>1, <3>3 DEF FetchInv
    <3>4. QED
      BY <3>2, <3>3
  <2>4. QED
    BY <2>2, <2>3
<1>10. QED
  BY <1>6, <1>7, <1>8, <1>9 DEF IInv

LEMMA ConnectionInv ==
    ASSUME IInv, Connect \/ Disconnect
    PROVE  IInv'
<1>1. /\ UNCHANGED <<subjects, applied, cache, gen, pc, rows, connected, memo, snap,
                     got, names, floor>>
      /\ online' \in BOOLEAN
  BY DEF Connect, Disconnect, cacheVars, requestVars
<1>2. TypeOK'
  BY <1>1 DEF IInv, TypeOK
<1>3. EventInv' /\ CacheNotOlderThanEvents'
  BY <1>1 DEF IInv, EventInv, CacheNotOlderThanEvents, Latest, Named
<1>4. \A r \in Request : MemoInv(r)' /\ FetchInv(r)'
  BY <1>1 DEF IInv, MemoInv, FetchInv, Latest, Named, Current
<1>5. QED
  BY <1>2, <1>3, <1>4 DEF IInv

(* The event moves applied, the entry and the generation together. *)
LEMMA RenameEventInv ==
    ASSUME IInv, NEW h \in Group, RenameEvent(h)
    PROVE  IInv'
<1>1. UNCHANGED <<subjects, online, pc, rows, connected, memo, snap, got, names, floor>>
  BY DEF RenameEvent, serverVars, requestVars
<1>2. /\ applied' = [applied EXCEPT ![h] = applied[h] + 1]
      /\ gen' = gen + 1
      /\ cache' = [cache EXCEPT ![h] =
                      IF Named(h, applied[h] + 1) THEN applied[h] + 1 ELSE 0]
      /\ applied[h] < Latest(h)
  BY DEF RenameEvent, ApplyRename
<1>3. /\ applied \in [Group -> Nat] /\ cache \in [Group -> Nat] /\ gen \in Nat
      /\ \A g \in Group : Latest(g) \in Nat
  BY DEF IInv, TypeOK, Latest
<1>4. TypeOK'
  BY <1>1, <1>2, <1>3 DEF IInv, TypeOK
<1>5. \A g \in Group : applied[g] <= applied'[g] /\ applied'[g] <= Latest(g)
  BY <1>2, <1>3 DEF IInv, EventInv
<1>6. EventInv'
  BY <1>1, <1>3, <1>4, <1>5 DEF IInv, EventInv, Latest, TypeOK
<1>7. CacheNotOlderThanEvents'
  <2> SUFFICES ASSUME NEW g \in Group, cache'[g] # 0
               PROVE  /\ applied'[g] <= cache'[g] /\ cache'[g] <= Latest(g)
                      /\ Named(g, cache'[g])
    BY <1>1 DEF CacheNotOlderThanEvents, Latest, Named
  <2>1. CASE g = h
    BY <1>2, <1>3, <2>1
  <2>2. CASE g # h
    BY <1>2, <1>3, <2>2 DEF IInv, CacheNotOlderThanEvents
  <2>3. QED
    BY <2>1, <2>2
<1>8. ASSUME NEW r \in Request PROVE MemoInv(r)' /\ FetchInv(r)'
  <2>1. MemoInv(r) /\ FetchInv(r)
    BY DEF IInv
  <2>2. MemoInv(r)'
    <3>1. ASSUME NEW g \in Group PROVE floor[r][g] <= applied'[g]
      <4>1. floor[r][g] \in Nat /\ applied[g] \in Nat /\ applied'[g] \in Nat
        BY <1>3, <1>4 DEF IInv, TypeOK
      <4>2. floor[r][g] <= applied[g] /\ applied[g] <= applied'[g]
        BY <1>5, <2>1 DEF MemoInv
      <4>3. QED
        BY <4>1, <4>2
    <3>2. QED
      BY <1>1, <2>1, <3>1 DEF MemoInv, Latest
  <2>3. snap[r] <= gen /\ snap[r] \in Nat
    BY <2>1 DEF FetchInv, IInv, TypeOK
  <2>4. snap'[r] <= gen' /\ snap'[r] # gen'
    BY <1>1, <1>2, <1>3, <2>3
  <2>5. FetchInv(r)'
    BY <1>1, <2>1, <2>4 DEF FetchInv, Latest, Named, Current
  <2>6. QED
    BY <2>2, <2>5
<1>9. QED
  BY <1>4, <1>6, <1>7, <1>8 DEF IInv

-----------------------------------------------------------------------------
(* The steps of a request.                                                  *)

(* Another request's step leaves this one's part of the invariant alone.    *)
LEMMA OtherRequest ==
    ASSUME IInv, NEW r \in Request,
           UNCHANGED <<subjects, applied, gen>>,
           UNCHANGED <<pc[r], rows[r], memo[r], snap[r], got[r], names[r], floor[r]>>
    PROVE  MemoInv(r)' /\ FetchInv(r)'
BY DEF IInv, MemoInv, FetchInv, Latest, Named, Current

(* Naming a row with a recent enough subject, the memoized one if there is  *)
(* one, keeps the memo and the names in step.                               *)
LEMMA NameRowInv ==
    ASSUME IInv, NEW r \in Request, NEW v \in Nat,
           Len(names[r]) < Len(rows[r]),
           NameRow(r, v),
           UNCHANGED <<subjects, applied, rows, floor>>,
           v # 0 => floor[r][Current(r)] <= v /\ v <= Latest(Current(r)),
           Memoized(r) => v = memo[r][Current(r)]
    PROVE  /\ MemoInv(r)'
           /\ names' \in [Request -> Seq(Nat)]
           /\ memo' \in [Request -> Memos]
           /\ \A s \in Request \ {r} : names'[s] = names[s] /\ memo'[s] = memo[s]
<1> DEFINE n == Len(names[r])
           c == Current(r)
<1>1. /\ names[r] \in Seq(Nat) /\ rows[r] \in Seq(Group)
      /\ names \in [Request -> Seq(Nat)]
      /\ memo \in [Request -> Memos] /\ memo[r] \in Memos
  BY DEF IInv, TypeOK, Memos
<1>2. n \in Nat /\ Len(rows[r]) \in Nat /\ n + 1 \in 1..Len(rows[r]) /\ c \in Group
  BY <1>1, CurrentType DEF IInv
<1>3. names'[r] = Append(names[r], v)
  BY <1>1 DEF NameRow
<1>4. /\ Len(names'[r]) = n + 1
      /\ \A i \in 1..n : names'[r][i] = names[r][i]
      /\ names'[r][n + 1] = v
      /\ names'[r] \in Seq(Nat)
  BY <1>1, <1>3
<1>5. DOMAIN names'[r] = 1..(n + 1) /\ DOMAIN names[r] = 1..n
  BY <1>1, <1>4
<1>6. \A s \in Request \ {r} : names'[s] = names[s] /\ memo'[s] = memo[s]
  BY <1>1 DEF NameRow
<1>7. memo'[r] = [memo[r] EXCEPT ![c] = v]
  BY <1>1 DEF NameRow
<1>8. /\ memo'[r][c] = v
      /\ \A g \in Group \ {c} : memo'[r][g] = memo[r][g]
  BY <1>1, <1>2, <1>7 DEF Memos
<1>9. memo'[r] \in Memos
  BY <1>1, <1>2, <1>7 DEF Memos
<1>10. MemoInv(r)
  BY DEF IInv
<1>11. MemoInv(r)'
  <2>1. Len(names'[r]) <= Len(rows'[r])
    BY <1>2, <1>4
  <2>2. \A g \in Group : floor'[r][g] <= applied'[g]
    BY <1>10 DEF MemoInv
  <2>3. \A g \in Group : memo'[r][g] \notin {None, Untried} =>
            floor'[r][g] <= memo'[r][g] /\ memo'[r][g] <= Latest(g)'
    BY <1>8, <1>10 DEF MemoInv, Latest
  <2>4. ASSUME NEW i \in DOMAIN names'[r]
        PROVE  names'[r][i] = memo'[r][rows'[r][i]]
    <3>1. CASE i = n + 1
      BY <1>4, <1>8, <3>1 DEF Current
    <3>2. CASE i \in 1..n
      <4>1. names[r][i] = memo[r][rows[r][i]] /\ names[r][i] \in Nat
        BY <1>1, <1>5, <1>10, <3>2 DEF MemoInv
      <4>5. rows[r][i] \in Group
        BY <1>1, <1>2, <3>2
      <4>6. c = rows[r][i] => v = memo[r][c]
        BY <4>1 DEF Memoized
      <4>2. names'[r][i] = names[r][i]
        BY <1>4, <3>2
      <4>3. rows'[r][i] = rows[r][i]
        OBVIOUS
      <4>4. QED
        BY <1>8, <4>1, <4>2, <4>3, <4>5, <4>6
    <3>3. i \in 1..n \/ i = n + 1
      BY <1>2, <1>5
    <3>4. QED
      BY <3>1, <3>2, <3>3
  <2>5. ASSUME NEW g \in Group, memo'[r][g] # Untried
        PROVE  \E i \in DOMAIN names'[r] : rows'[r][i] = g
    <3>1. CASE g = c
      <4>1. n + 1 \in DOMAIN names'[r] /\ rows'[r][n + 1] = c
        BY <1>2, <1>5 DEF Current
      <4>2. QED
        BY <3>1, <4>1
    <3>2. CASE g # c
      <4>1. PICK i \in DOMAIN names[r] : rows[r][i] = g
        BY <1>8, <1>10, <2>5, <3>2 DEF MemoInv
      <4>2. i \in DOMAIN names'[r] /\ rows'[r][i] = g
        BY <1>2, <1>5, <4>1
      <4>3. QED
        BY <4>2
    <3>3. QED
      BY <3>1, <3>2
  <2>6. QED
    BY <2>1, <2>2, <2>3, <2>4, <2>5 DEF MemoInv
<1>12. names' \in [Request -> Seq(Nat)]
  BY <1>1 DEF NameRow
<1>13. memo' \in [Request -> Memos]
  BY <1>1, <1>7, <1>9 DEF NameRow
<1>14. QED
  BY <1>6, <1>11, <1>12, <1>13

(* FromMemo, FromCache, MissOffline and FetchFails name the row and touch   *)
(* neither the cache nor a fetch in flight.                                 *)
LEMMA NamedInv ==
    ASSUME IInv, NEW r \in Request,
           FromMemo(r) \/ FromCache(r) \/ MissOffline(r) \/ FetchFails(r)
    PROVE  IInv'
<1>1. /\ UNCHANGED <<subjects, online, applied, cache, gen, rows, connected, snap,
                     got, floor>>
      /\ Len(names[r]) < Len(rows[r])
      /\ pc'[r] = "row"
      /\ pc' \in [Request -> {"idle", "row", "missed", "asking", "fetched"}]
      /\ \A s \in Request \ {r} : pc'[s] = pc[s]
  BY DEF IInv, TypeOK, FetchInv, FromMemo, FromCache, MissOffline, FetchFails,
         AtRow, serverVars, cacheVars
<1>2. MemoInv(r) /\ FetchInv(r)
  BY DEF IInv
<1>3. Current(r) \in Group
  BY <1>1, CurrentType DEF IInv
<1>4. PICK v \in Nat :
          /\ NameRow(r, v)
          /\ v # 0 => floor[r][Current(r)] <= v /\ v <= Latest(Current(r))
          /\ Memoized(r) => v = memo[r][Current(r)]
  <2>1. CASE FromMemo(r)
    <3>1. memo[r][Current(r)] \in Nat
      BY <1>3, <2>1 DEF FromMemo, Memoized, IInv, TypeOK
    <3>2. QED
      BY <1>2, <1>3, <2>1, <3>1 DEF FromMemo, Memoized, MemoInv
  <2>2. CASE FromCache(r)
    <3>1. PICK c \in Group : c = Current(r)
      BY <1>3
    <3>2. /\ floor[r][c] \in Nat /\ applied[c] \in Nat /\ cache[c] \in Nat
          /\ floor[r][c] <= applied[c]
          /\ applied[c] <= cache[c] /\ cache[c] <= Latest(c)
      BY <1>2, <2>2, <3>1 DEF FromCache, IInv, TypeOK, CacheNotOlderThanEvents, MemoInv
    <3>3. QED
      BY <2>2, <3>1, <3>2 DEF FromCache, Memoized
  <2>3. CASE MissOffline(r)
    BY <2>3 DEF MissOffline, Memoized
  <2>4. CASE FetchFails(r)
    BY <1>2, <2>4 DEF FetchFails, FetchInv, Memoized
  <2>5. QED
    BY <2>1, <2>2, <2>3, <2>4
<1>5. /\ MemoInv(r)'
      /\ names' \in [Request -> Seq(Nat)]
      /\ memo' \in [Request -> Memos]
      /\ \A s \in Request \ {r} : names'[s] = names[s] /\ memo'[s] = memo[s]
  BY <1>1, <1>4, NameRowInv
<1>6. TypeOK'
  BY <1>1, <1>5 DEF IInv, TypeOK, Memos
<1>7. EventInv' /\ CacheNotOlderThanEvents'
  BY <1>1 DEF IInv, EventInv, CacheNotOlderThanEvents, Latest, Named
<1>8. FetchInv(r)'
  BY <1>1, <1>2 DEF FetchInv
<1>9. ASSUME NEW s \in Request \ {r} PROVE MemoInv(s)' /\ FetchInv(s)'
  BY <1>1, <1>5, OtherRequest
<1>10. QED
  BY <1>5, <1>6, <1>7, <1>8, <1>9 DEF IInv

(* A request begins, misses, or takes its snapshot. *)
LEMMA BeginInv ==
    ASSUME IInv, NEW r \in Request, Begin(r)
    PROVE  IInv'
<1>1. PICK list \in RowLists : rows' = [rows EXCEPT ![r] = list]
  BY DEF Begin
<1>2. list \in Seq(Group)
  BY <1>1, GroupCacheAssumption
<1>3. /\ UNCHANGED <<subjects, online, applied, cache, gen, memo, snap, got, names>>
      /\ floor' = [floor EXCEPT ![r] = applied]
      /\ connected' = [connected EXCEPT ![r] = online]
      /\ pc[r] = "idle" /\ pc' = [pc EXCEPT ![r] = "row"]
  BY DEF Begin, serverVars, cacheVars
<1>4. TypeOK'
  BY <1>1, <1>2, <1>3 DEF IInv, TypeOK
<1>5. EventInv' /\ CacheNotOlderThanEvents'
  BY <1>3 DEF IInv, EventInv, CacheNotOlderThanEvents, Latest, Named
<1>6. /\ names'[r] = <<>> /\ memo'[r] = NoMemo
      /\ floor'[r] = applied /\ rows'[r] = list /\ pc'[r] = "row"
      /\ snap'[r] <= gen'
  BY <1>1, <1>3 DEF IInv, TypeOK, FetchInv
<1>7. MemoInv(r)'
  <2>1. Len(<<>>) <= Len(list)
    BY <1>2
  <2>2. \A g \in Group : applied[g] <= applied[g]
    BY DEF IInv, TypeOK
  <2>3. QED
    BY <1>3, <1>6, <2>1, <2>2 DEF MemoInv, NoMemo
<1>8. FetchInv(r)'
  BY <1>6 DEF FetchInv
<1>9. ASSUME NEW s \in Request \ {r} PROVE MemoInv(s)' /\ FetchInv(s)'
  <2>1. UNCHANGED <<pc[s], rows[s], memo[s], snap[s], got[s], names[s], floor[s]>>
    BY <1>1, <1>3 DEF IInv, TypeOK
  <2>2. QED
    BY <1>3, <2>1, OtherRequest
<1>10. QED
  BY <1>4, <1>5, <1>7, <1>8, <1>9 DEF IInv

LEMMA MissInv ==
    ASSUME IInv, NEW r \in Request, Miss(r) \/ Snapshot(r)
    PROVE  IInv'
<1>1. /\ UNCHANGED <<subjects, online, applied, cache, gen, rows, connected, memo,
                     got, names, floor>>
      /\ pc' \in [Request -> {"idle", "row", "missed", "asking", "fetched"}]
      /\ pc'[r] \in {"missed", "asking"}
      /\ \A s \in Request \ {r} : pc'[s] = pc[s] /\ snap'[s] = snap[s]
      /\ snap' \in [Request -> Nat]
      /\ snap'[r] = snap[r] \/ snap'[r] = gen
  BY DEF IInv, TypeOK, Miss, Snapshot, serverVars, cacheVars
<1>2. TypeOK'
  BY <1>1 DEF IInv, TypeOK
<1>3. EventInv' /\ CacheNotOlderThanEvents'
  BY <1>1 DEF IInv, EventInv, CacheNotOlderThanEvents, Latest, Named
<1>4. MemoInv(r)'
  BY <1>1 DEF IInv, MemoInv, Latest
<1>5. FetchInv(r)'
  <2>1. FetchInv(r) /\ gen \in Nat
    BY DEF IInv, TypeOK
  <2>2. Current(r)' = Current(r)
    BY <1>1 DEF Current
  <2>3. Len(names[r]) < Len(rows[r]) /\ memo[r][Current(r)] = Untried
    BY <2>1 DEF FetchInv, Miss, Snapshot, AtRow, Memoized
  <2>4. snap'[r] <= gen
    BY <1>1, <2>1 DEF FetchInv
  <2>5. QED
    BY <1>1, <2>2, <2>3, <2>4 DEF FetchInv
<1>6. ASSUME NEW s \in Request \ {r} PROVE MemoInv(s)' /\ FetchInv(s)'
  BY <1>1, OtherRequest
<1>7. QED
  BY <1>2, <1>3, <1>4, <1>5, <1>6 DEF IInv

(* What the server answers is its latest subject, so at least as recent as  *)
(* every event handled so far.                                              *)
LEMMA FetchStepInv ==
    ASSUME IInv, NEW r \in Request, Fetch(r)
    PROVE  IInv'
<1>1. /\ UNCHANGED <<subjects, online, applied, cache, gen, rows, connected, memo,
                     snap, names, floor>>
      /\ pc[r] = "asking" /\ pc' = [pc EXCEPT ![r] = "fetched"]
      /\ got' = [got EXCEPT ![r] = Latest(Current(r))]
      /\ Named(Current(r), Latest(Current(r)))
  BY DEF Fetch, serverVars, cacheVars
<1>2. FetchInv(r) /\ MemoInv(r)
  BY DEF IInv
<1>3. PICK c \in Group : c = Current(r)
  BY <1>1, <1>2, CurrentType DEF IInv, FetchInv
<1>4. /\ Latest(c) \in Nat /\ applied[c] \in Nat /\ floor[r][c] \in Nat
      /\ 1 <= applied[c] /\ applied[c] <= Latest(c)
      /\ floor[r][c] <= applied[c]
  BY <1>2 DEF IInv, TypeOK, EventInv, MemoInv, Latest
<1>5. TypeOK'
  BY <1>1, <1>3, <1>4 DEF IInv, TypeOK
<1>6. EventInv' /\ CacheNotOlderThanEvents'
  BY <1>1 DEF IInv, EventInv, CacheNotOlderThanEvents, Latest, Named
<1>7. MemoInv(r)'
  BY <1>1, <1>2 DEF MemoInv, Latest
<1>8. FetchInv(r)'
  <2>1. Current(r)' = c
    BY <1>1, <1>3 DEF Current
  <2>2. got'[r] = Latest(c) /\ pc'[r] = "fetched"
    BY <1>1, <1>3 DEF IInv, TypeOK
  <2>3. Latest(c)' = Latest(c) /\ Named(c, Latest(c))'
    BY <1>1, <1>3 DEF Latest, Named
  <2>4. QED
    BY <1>1, <1>2, <1>3, <1>4, <2>1, <2>2, <2>3 DEF FetchInv, Named, Latest
<1>9. ASSUME NEW s \in Request \ {r} PROVE MemoInv(s)' /\ FetchInv(s)'
  <2>1. pc'[s] = pc[s] /\ got'[s] = got[s]
    BY <1>1 DEF IInv, TypeOK
  <2>2. QED
    BY <1>1, <2>1, OtherRequest
<1>10. QED
  BY <1>5, <1>6, <1>7, <1>8, <1>9 DEF IInv

(* The answer is cached only under the generation it was asked under.       *)
LEMMA FetchedInv ==
    ASSUME IInv, NEW r \in Request, Fetched(r)
    PROVE  IInv'
<1>1. /\ UNCHANGED <<subjects, online, applied, gen, rows, connected, snap, floor>>
      /\ pc[r] = "fetched" /\ pc' = [pc EXCEPT ![r] = "row"]
      /\ got' = [got EXCEPT ![r] = 0]
      /\ NameRow(r, got[r])
      /\ cache' = IF gen = snap[r] THEN [cache EXCEPT ![Current(r)] = got[r]] ELSE cache
  BY DEF Fetched, SetFresh, serverVars
<1>2. FetchInv(r) /\ MemoInv(r)
  BY DEF IInv
<1>3. Len(names[r]) < Len(rows[r])
  BY <1>1, <1>2 DEF FetchInv
<1>4. PICK c \in Group : c = Current(r)
  BY <1>3, CurrentType DEF IInv
<1>5. /\ got[r] \in Nat /\ got[r] # 0 /\ got[r] <= Latest(c) /\ Named(c, got[r])
      /\ floor[r][c] <= got[r]
      /\ snap[r] = gen => applied[c] <= got[r]
      /\ ~Memoized(r)
  BY <1>1, <1>2, <1>4 DEF FetchInv, IInv, TypeOK, Memoized
<1>6. /\ MemoInv(r)'
      /\ names' \in [Request -> Seq(Nat)]
      /\ memo' \in [Request -> Memos]
      /\ \A s \in Request \ {r} : names'[s] = names[s] /\ memo'[s] = memo[s]
  BY <1>1, <1>3, <1>4, <1>5, NameRowInv
<1>7. TypeOK'
  BY <1>1, <1>4, <1>5, <1>6 DEF IInv, TypeOK, Memos
<1>8. EventInv'
  BY <1>1 DEF IInv, EventInv, Latest
<1>9. CacheNotOlderThanEvents'
  <2> SUFFICES ASSUME NEW g \in Group, cache'[g] # 0
               PROVE  /\ applied[g] <= cache'[g] /\ cache'[g] <= Latest(g)
                      /\ Named(g, cache'[g])
    BY <1>1 DEF CacheNotOlderThanEvents, Latest, Named
  <2>1. CASE g = c /\ gen = snap[r]
    <3>1. cache'[g] = got[r]
      BY <1>1, <1>4, <2>1 DEF IInv, TypeOK
    <3>2. QED
      BY <1>5, <2>1, <3>1
  <2>2. CASE ~(g = c /\ gen = snap[r])
    <3>1. cache'[g] = cache[g]
      BY <1>1, <1>4, <2>2 DEF IInv, TypeOK
    <3>2. QED
      BY <3>1 DEF IInv, CacheNotOlderThanEvents
  <2>3. QED
    BY <2>1, <2>2
<1>10. FetchInv(r)'
  <2>1. pc'[r] = "row"
    BY <1>1 DEF IInv, TypeOK
  <2>2. QED
    BY <1>1, <1>2, <2>1 DEF FetchInv
<1>11. ASSUME NEW s \in Request \ {r} PROVE MemoInv(s)' /\ FetchInv(s)'
  <2>1. pc'[s] = pc[s] /\ got'[s] = got[s]
    BY <1>1 DEF IInv, TypeOK
  <2>2. QED
    BY <1>1, <1>6, <2>1, OtherRequest
<1>12. QED
  BY <1>6, <1>7, <1>8, <1>9, <1>10, <1>11 DEF IInv

LEMMA EndInv ==
    ASSUME IInv, NEW r \in Request, End(r)
    PROVE  IInv'
<1>1. /\ UNCHANGED <<subjects, online, applied, cache, gen, got>>
      /\ pc' = [pc EXCEPT ![r] = "idle"]
      /\ rows' = [rows EXCEPT ![r] = <<>>]
      /\ connected' = [connected EXCEPT ![r] = FALSE]
      /\ memo' = [memo EXCEPT ![r] = NoMemo]
      /\ snap' = [snap EXCEPT ![r] = 0]
      /\ names' = [names EXCEPT ![r] = <<>>]
      /\ floor' = [floor EXCEPT ![r] = [g \in Group |-> 0]]
  BY DEF End, serverVars, cacheVars
<1>2. NoMemo \in Memos
  BY DEF NoMemo, Memos
<1>3. TypeOK'
  BY <1>1, <1>2 DEF IInv, TypeOK, Memos
<1>4. EventInv' /\ CacheNotOlderThanEvents'
  BY <1>1 DEF IInv, EventInv, CacheNotOlderThanEvents, Latest, Named
<1>5. /\ pc'[r] = "idle" /\ rows'[r] = <<>> /\ memo'[r] = NoMemo /\ snap'[r] = 0
      /\ names'[r] = <<>> /\ floor'[r] = [g \in Group |-> 0]
  BY <1>1 DEF IInv, TypeOK
<1>6. MemoInv(r)'
  <2>1. \A g \in Group : 0 <= applied[g]
    BY DEF IInv, TypeOK
  <2>2. QED
    BY <1>1, <1>5, <2>1 DEF MemoInv, NoMemo
<1>7. FetchInv(r)'
  <2>1. 0 <= gen
    BY DEF IInv, TypeOK
  <2>2. QED
    BY <1>1, <1>5, <2>1 DEF FetchInv
<1>8. ASSUME NEW s \in Request \ {r} PROVE MemoInv(s)' /\ FetchInv(s)'
  <2>1. UNCHANGED <<pc[s], rows[s], memo[s], snap[s], got[s], names[s], floor[s]>>
    BY <1>1 DEF IInv, TypeOK
  <2>2. QED
    BY <1>1, <2>1, OtherRequest
<1>9. QED
  BY <1>3, <1>4, <1>6, <1>7, <1>8 DEF IInv

LEMMA StutterInv == ASSUME IInv, UNCHANGED vars PROVE IInv'
BY DEF vars, serverVars, cacheVars, requestVars, IInv, TypeOK, EventInv, MemoInv,
       FetchInv, CacheNotOlderThanEvents, Latest, Named, Current

(* IInv is inductive. *)
LEMMA StepInv == IInv /\ [Next]_vars => IInv'
BY RenameInv, RenameEventInv, ConnectionInv, BeginInv, NamedInv, MissInv,
   FetchStepInv, FetchedInv, EndInv, StutterInv DEF Next, RequestStep

(* The invariant holds in every reachable state. *)
THEOREM GroupCacheInvariant == Spec => []IInv
BY InitInv, StepInv, PTL DEF Spec

(* The variables keep their types. *)
THEOREM GroupCacheTypeOK == Spec => []TypeOK
<1>1. IInv => TypeOK
  BY DEF IInv
<1>2. QED
  BY <1>1, GroupCacheInvariant, PTL

(* No fetch, however slow, undoes a rename. *)
THEOREM GroupCacheNotOlderThanEvents == Spec => []CacheNotOlderThanEvents
<1>1. IInv => CacheNotOlderThanEvents
  BY DEF IInv
<1>2. QED
  BY <1>1, GroupCacheInvariant, PTL

(* No response shows a subject replaced before its request began.           *)
THEOREM GroupCacheAnswersNotOlder == Spec => []AnswersNotOlderThanRequest
<1>1. IInv => AnswersNotOlderThanRequest
  <2>1. SUFFICES ASSUME IInv, NEW r \in Request, NEW i \in DOMAIN names[r],
                        names[r][i] # None
                 PROVE  /\ floor[r][rows[r][i]] <= names[r][i]
                        /\ names[r][i] <= Latest(rows[r][i])
    BY DEF AnswersNotOlderThanRequest
  <2>2. names[r] \in Seq(Nat) /\ rows[r] \in Seq(Group) /\ MemoInv(r)
    BY <2>1 DEF IInv, TypeOK
  <2>3. names[r][i] \in Nat /\ rows[r][i] \in Group
    BY <2>2 DEF MemoInv
  <2>4. names[r][i] = memo[r][rows[r][i]]
    BY <2>2 DEF MemoInv
  <2>5. names[r][i] \notin {None, Untried}
    BY <2>1, <2>3 DEF None, Untried
  <2>6. QED
    BY <2>2, <2>3, <2>4, <2>5 DEF MemoInv
<1>2. QED
  BY <1>1, GroupCacheInvariant, PTL

(* Within a response a group has one name. *)
THEOREM GroupCacheOneNamePerResponse == Spec => []OneNamePerResponse
<1>1. IInv => OneNamePerResponse
  BY DEF IInv, MemoInv, OneNamePerResponse
<1>2. QED
  BY <1>1, GroupCacheInvariant, PTL

-----------------------------------------------------------------------------
(* The refinement of SubjectReads.                                          *)

LEMMA InitImplementsInit == Init => Reads!Init
BY DEF Init, Reads!Init, Subject

(* A request that names a row gives an answer the abstract response could   *)
(* give: the one its group already has, or a subject recent enough.         *)
LEMMA NameRowImplements ==
    ASSUME IInv, NEW r \in Request, NEW v \in Nat,
           pc[r] # "idle", Len(names[r]) < Len(rows[r]),
           pc' = [pc EXCEPT ![r] = "row"],
           NameRow(r, v),
           UNCHANGED <<subjects, applied, rows, floor>>,
           Memoized(r) => v = memo[r][Current(r)],
           ~Memoized(r) => \/ v = None
                           \/ /\ v <= Latest(Current(r))
                              /\ Named(Current(r), v)
                              /\ floor[r][Current(r)] <= v
    PROVE  Reads!Answer(r)
<1> DEFINE n == Len(names[r])
           c == Current(r)
<1>1. /\ names[r] \in Seq(Nat) /\ rows[r] \in Seq(Group)
      /\ c \in Group /\ c = rows[r][n + 1]
      /\ Latest(c) \in Nat
      /\ MemoInv(r)
  BY CurrentType DEF IInv, TypeOK, Current, Latest
<1>2. names' = [names EXCEPT ![r] = Append(@, v)]
  BY DEF NameRow
<1>3. v \in IF Reads!Given(r, c) # {} THEN Reads!Given(r, c)
            ELSE {Reads!Unnamed} \cup Reads!Recent(r, c)
  <2>1. CASE Memoized(r)
    <3>1. PICK i \in DOMAIN names[r] : rows[r][i] = c
      BY <1>1, <2>1 DEF MemoInv, Memoized
    <3>2. names[r][i] = v
      BY <1>1, <2>1, <3>1 DEF MemoInv
    <3>3. v \in Reads!Given(r, c)
      BY <3>1, <3>2 DEF Reads!Given
    <3>4. QED
      BY <3>3
  <2>2. CASE ~Memoized(r)
    <3>1. \A i \in DOMAIN names[r] : rows[r][i] # c
      <4>1. \A i \in DOMAIN names[r] : names[r][i] \in Nat
        BY <1>1
      <4>2. \A i \in DOMAIN names[r] : names[r][i] = memo[r][rows[r][i]]
        BY <1>1 DEF MemoInv
      <4>3. memo[r][c] \notin Nat
        BY <2>2 DEF Memoized
      <4>4. QED
        BY <4>1, <4>2, <4>3
    <3>2. Reads!Given(r, c) = {}
      BY <3>1 DEF Reads!Given
    <3>3. v \in {Reads!Unnamed} \cup Reads!Recent(r, c)
      <4>1. CASE v = 0
        BY <4>1 DEF Reads!Unnamed
      <4>2. CASE v # 0
        <5>1. v \in 1..Len(subjects[c]) /\ subjects[c][v] = "name" /\ floor[r][c] <= v
          BY <1>1, <2>2, <4>2 DEF Latest, Named
        <5>2. QED
          BY <5>1 DEF Reads!Recent
      <4>3. QED
        BY <4>1, <4>2
    <3>4. QED
      BY <3>2, <3>3
  <2>3. QED
    BY <2>1, <2>2
<1>4. UNCHANGED [s \in Request |-> pc[s] # "idle"]
  <2>1. \A s \in Request : (pc'[s] # "idle") <=> (pc[s] # "idle")
    BY DEF IInv, TypeOK
  <2>2. QED
    BY <2>1
<1>5. [s \in Request |-> pc[s] # "idle"][r]
  OBVIOUS
<1>6. QED
  BY <1>1, <1>2, <1>3, <1>4, <1>5 DEF Reads!Answer

LEMMA NamedImplements ==
    ASSUME IInv, NEW r \in Request,
           FromMemo(r) \/ FromCache(r) \/ MissOffline(r) \/ FetchFails(r)
    PROVE  Reads!Answer(r)
<1>1. /\ UNCHANGED <<subjects, applied, rows, floor>>
      /\ pc[r] # "idle" /\ pc' = [pc EXCEPT ![r] = "row"]
      /\ Len(names[r]) < Len(rows[r])
      /\ MemoInv(r) /\ FetchInv(r)
  BY DEF IInv, TypeOK, FetchInv, FromMemo, FromCache, MissOffline, FetchFails,
         AtRow, serverVars, cacheVars
<1>2. PICK c \in Group : c = Current(r)
  BY <1>1, CurrentType DEF IInv
<1>3. CASE FromMemo(r)
  <2>1. memo[r][c] \in Nat
    BY <1>2, <1>3 DEF FromMemo, Memoized, IInv, TypeOK
  <2>2. QED
    BY <1>1, <1>2, <1>3, <2>1, NameRowImplements DEF FromMemo
<1>4. CASE FromCache(r)
  <2>1. /\ floor[r][c] \in Nat /\ applied[c] \in Nat /\ cache[c] \in Nat /\ Latest(c) \in Nat
        /\ floor[r][c] <= applied[c]
        /\ applied[c] <= cache[c] /\ cache[c] <= Latest(c) /\ Named(c, cache[c])
    BY <1>1, <1>2, <1>4
       DEF FromCache, IInv, TypeOK, CacheNotOlderThanEvents, MemoInv, Latest
  <2>2. floor[r][c] <= cache[c]
    BY <2>1
  <2>3. QED
    BY <1>1, <1>2, <1>4, <2>1, <2>2, NameRowImplements DEF FromCache
<1>5. CASE MissOffline(r)
  <2>1. NameRow(r, 0) /\ ~Memoized(r)
    BY <1>5 DEF MissOffline
  <2>2. QED
    BY <1>1, <2>1, NameRowImplements
<1>6. CASE FetchFails(r)
  BY <1>1, <1>6, NameRowImplements DEF FetchFails, FetchInv, Memoized
<1>7. QED
  BY <1>3, <1>4, <1>5, <1>6

LEMMA FetchedImplements ==
    ASSUME IInv, NEW r \in Request, Fetched(r)
    PROVE  Reads!Answer(r)
<1>1. /\ UNCHANGED <<subjects, applied, rows, floor>>
      /\ pc[r] = "fetched" /\ pc' = [pc EXCEPT ![r] = "row"]
      /\ NameRow(r, got[r]) /\ got[r] \in Nat
      /\ FetchInv(r)
  BY DEF Fetched, serverVars, IInv, TypeOK
<1>2. QED
  BY <1>1, NameRowImplements DEF FetchInv, Memoized

(* A rename, the daemon's hearing of it, the first and the last step of a   *)
(* request.                                                                 *)
LEMMA RenameImplements ==
    ASSUME NEW g \in Group, Rename(g)
    PROVE  Reads!Rename(g)
BY DEF Rename, Reads!Rename, Subject, cacheVars, requestVars

LEMMA RenameEventImplements ==
    ASSUME NEW g \in Group, RenameEvent(g)
    PROVE  Reads!Tell(g)
BY DEF RenameEvent, Reads!Tell, Latest, serverVars, requestVars

LEMMA BeginImplements ==
    ASSUME IInv, NEW r \in Request, Begin(r)
    PROVE  Reads!Open(r)
<1>1. [s \in Request |-> pc'[s] # "idle"] =
          [[s \in Request |-> pc[s] # "idle"] EXCEPT ![r] = TRUE]
  <2>1. /\ pc' = [pc EXCEPT ![r] = "row"]
        /\ pc \in [Request -> {"idle", "row", "missed", "asking", "fetched"}]
    BY DEF Begin, IInv, TypeOK
  <2>2. \A s \in Request : pc'[s] # "idle" <=> (s = r \/ pc[s] # "idle")
    BY <2>1
  <2>3. QED
    BY <2>2
<1>2. ~[s \in Request |-> pc[s] # "idle"][r]
  BY DEF Begin
<1>3. QED
  BY <1>1, <1>2 DEF Begin, Reads!Open, serverVars, cacheVars

LEMMA EndImplements ==
    ASSUME IInv, NEW r \in Request, End(r)
    PROVE  Reads!Close(r)
<1>1. [s \in Request |-> pc'[s] # "idle"] =
          [[s \in Request |-> pc[s] # "idle"] EXCEPT ![r] = FALSE]
  <2>1. /\ pc' = [pc EXCEPT ![r] = "idle"]
        /\ pc \in [Request -> {"idle", "row", "missed", "asking", "fetched"}]
    BY DEF End, IInv, TypeOK
  <2>2. \A s \in Request : pc'[s] # "idle" <=> (s # r /\ pc[s] # "idle")
    BY <2>1
  <2>3. QED
    BY <2>2
<1>2. [s \in Request |-> pc[s] # "idle"][r]
  BY DEF End
<1>3. QED
  BY <1>1, <1>2 DEF End, Reads!Close, serverVars, cacheVars

(* The connection and the steps of a fetch before its answer is used show   *)
(* nothing.                                                                 *)
LEMMA HiddenSteps ==
    ASSUME IInv,
           \/ Connect \/ Disconnect \/ UNCHANGED vars
           \/ \E r \in Request : Miss(r) \/ Snapshot(r) \/ Fetch(r)
    PROVE  UNCHANGED Reads!readVars
<1>1. /\ UNCHANGED <<subjects, applied, rows, floor, names>>
      /\ \A s \in Request : (pc'[s] # "idle") <=> (pc[s] # "idle")
  BY DEF Connect, Disconnect, vars, serverVars, cacheVars, requestVars, Miss,
         Snapshot, Fetch, AtRow, IInv, TypeOK
<1>2. UNCHANGED [s \in Request |-> pc[s] # "idle"]
  BY <1>1
<1>3. QED
  BY <1>1, <1>2 DEF Reads!readVars

(* Every step is one of the abstract response's, or shows nothing.          *)
LEMMA StepImplementsStep == IInv /\ [Next]_vars => [Reads!Next]_(Reads!readVars)
<1> SUFFICES ASSUME IInv, [Next]_vars PROVE Reads!Next \/ UNCHANGED Reads!readVars
  OBVIOUS
<1>1. CASE \E g \in Group : Rename(g) \/ RenameEvent(g)
  BY <1>1, RenameImplements, RenameEventImplements DEF Reads!Next
<1>2. CASE \E r \in Request : Begin(r) \/ End(r)
  BY <1>2, BeginImplements, EndImplements DEF Reads!Next
<1>3. CASE \E r \in Request : FromMemo(r) \/ FromCache(r) \/ MissOffline(r) \/ FetchFails(r)
  BY <1>3, NamedImplements DEF Reads!Next
<1>4. CASE \E r \in Request : Fetched(r)
  BY <1>4, FetchedImplements DEF Reads!Next
<1>5. CASE \/ Connect \/ Disconnect \/ UNCHANGED vars
           \/ \E r \in Request : Miss(r) \/ Snapshot(r) \/ Fetch(r)
  BY <1>5, HiddenSteps
<1>6. QED
  BY <1>1, <1>2, <1>3, <1>4, <1>5 DEF Next, RequestStep

(* The cache is invisible: what responses show of the groups, they could    *)
(* show without it (names.go: groupCache, nameResolver).                    *)
THEOREM GroupCacheRefinesSubjectReads == Spec => RefinesSubjectReads
BY InitImplementsInit, GroupCacheInvariant, StepImplementsStep, PTL
   DEF Spec, RefinesSubjectReads, Reads!Spec
=============================================================================
