------------------------------ MODULE GroupCache ------------------------------
(***************************************************************************)
(* Group subjects in responses (internal/daemon/names.go): the groupCache   *)
(* shared by all requests, the nameResolver of each request, and the event  *)
(* goroutine that applies rename events.                                    *)
(*                                                                         *)
(* WhatsApp keeps the history of each group's subjects in subjects[g]; an   *)
(* entry says whether that subject is a name or empty, and a subject is     *)
(* referred to by its position.  Rename events reach the daemon in order,   *)
(* while it is connected; applied[g] is the position of the last one        *)
(* applied (the first subject predates the daemon).  A fetch is answered with the subject of   *)
(* the moment in which the server handles it, which may be long before the  *)
(* answer is put in the cache.  Each groupCache method is one critical      *)
(* section of its mutex and one action here; nothing is held across calls.  *)
(***************************************************************************)
EXTENDS Integers, Sequences

CONSTANTS
    Group,       \* groups
    Request,     \* concurrent `wa messages' and `wa chats' requests
    RowLists,    \* the groups of the rows a request resolves, in order
    MaxRenames   \* bound on the renames of one group

Subject == {"name", "empty"}

None == 0        \* no cache entry; an unresolved name (the caller's fallback)
Untried == -1    \* no entry in a request's memo

ASSUME GroupCacheAssumption ==
    /\ RowLists \subseteq Seq(Group)
    /\ MaxRenames \in Nat

VARIABLES
    subjects,  \* WhatsApp: per group, the subjects it has had
    online,    \* whether the websocket is connected
    applied,   \* per group, the last rename event handled
    cache,     \* groupCache.m
    gen,       \* groupCache.gen
    pc,        \* per request, where it is
    rows,      \* the groups of its rows
    connected, \* nameResolver.connected, read once
    memo,      \* nameResolver.groupMemo
    snap,      \* the generation its fetch started from
    got,       \* the subject its fetch was answered with
    names,     \* the names given to its rows so far
    floor      \* history: `applied' when it began

serverVars == <<subjects, online>>
cacheVars == <<cache, gen>>
requestVars == <<pc, rows, connected, memo, snap, got, names, floor>>
vars == <<serverVars, applied, cacheVars, requestVars>>

Latest(g) == Len(subjects[g])
Named(g, v) == subjects[g][v] = "name"

(* The group of the row a request is at. *)
Current(r) == rows[r][Len(names[r]) + 1]

TypeOK ==
    /\ subjects \in [Group -> Seq(Subject)]
    /\ online \in BOOLEAN
    /\ applied \in [Group -> Nat]
    /\ cache \in [Group -> Nat]
    /\ gen \in Nat
    /\ pc \in [Request -> {"idle", "row", "missed", "asking", "fetched"}]
    /\ rows \in [Request -> Seq(Group)]
    /\ connected \in [Request -> BOOLEAN]
    /\ memo \in [Request -> [Group -> Nat \cup {Untried}]]
    /\ snap \in [Request -> Nat]
    /\ got \in [Request -> Nat]
    /\ names \in [Request -> Seq(Nat)]
    /\ floor \in [Request -> [Group -> Nat]]

NoMemo == [g \in Group |-> Untried]

Init ==
    /\ subjects \in [Group -> {<<s>> : s \in Subject}]
    /\ online \in BOOLEAN
    /\ applied = [g \in Group |-> 1]
    /\ cache = [g \in Group |-> None]
    /\ gen = 0
    /\ pc = [r \in Request |-> "idle"]
    /\ rows = [r \in Request |-> <<>>]
    /\ connected = [r \in Request |-> FALSE]
    /\ memo = [r \in Request |-> NoMemo]
    /\ snap = [r \in Request |-> 0]
    /\ got = [r \in Request |-> None]
    /\ names = [r \in Request |-> <<>>]
    /\ floor = [r \in Request |-> [g \in Group |-> 0]]

-----------------------------------------------------------------------------
(* WhatsApp and the connection.                                             *)

Rename(g) ==
    /\ Latest(g) <= MaxRenames
    /\ \E s \in Subject : subjects' = [subjects EXCEPT ![g] = Append(@, s)]
    /\ UNCHANGED <<online, applied, cacheVars, requestVars>>

Connect ==
    /\ ~online
    /\ online' = TRUE
    /\ UNCHANGED <<subjects, applied, cacheVars, requestVars>>

Disconnect ==
    /\ online
    /\ online' = FALSE
    /\ UNCHANGED <<subjects, applied, cacheVars, requestVars>>

-----------------------------------------------------------------------------
(* The event goroutine.                                                     *)

\* Mutant: the event stores the name but leaves the generation alone.
RenameWithoutBump(g, v) ==
    /\ gen' = gen
    /\ cache' = [cache EXCEPT ![g] = IF Named(g, v) THEN v ELSE None]

\* Mutant: a cleared subject does not drop the entry.
RenameKeepingCleared(g, v) ==
    /\ gen' = gen + 1
    /\ cache' = [cache EXCEPT ![g] = IF Named(g, v) THEN v ELSE @]

(* groupCache.rename: store the new subject, or drop the entry. *)
ApplyRename(g, v) ==
    /\ gen' = gen + 1
    /\ cache' = [cache EXCEPT ![g] = IF Named(g, v) THEN v ELSE None]

(* handleEvent for a GroupInfo event with a name. *)
RenameEvent(g) ==
    /\ online
    /\ applied[g] < Latest(g)
    /\ applied' = [applied EXCEPT ![g] = @ + 1]
    /\ ApplyRename(g, applied[g] + 1)
    /\ UNCHANGED <<serverVars, requestVars>>

-----------------------------------------------------------------------------
(* A request.                                                               *)

(* newNameResolver, after the rows were read from the store. *)
Begin(r) ==
    /\ pc[r] = "idle"
    /\ pc' = [pc EXCEPT ![r] = "row"]
    /\ \E list \in RowLists : rows' = [rows EXCEPT ![r] = list]
    /\ connected' = [connected EXCEPT ![r] = online]
    /\ floor' = [floor EXCEPT ![r] = applied]
    /\ UNCHANGED <<serverVars, applied, cacheVars, memo, snap, got, names>>

(* The row gets its name and, as the memo, every later row of its group.    *)
NameRow(r, v) ==
    /\ names' = [names EXCEPT ![r] = Append(@, v)]
    /\ memo' = [memo EXCEPT ![r][Current(r)] = v]

AtRow(r) == pc[r] = "row" /\ Len(names[r]) < Len(rows[r])

\* Mutant: the memo is not consulted.
NeverMemoized(r) == FALSE

\* Mutant: the lookup ignores whether the memo has an entry.
AlwaysMemoized(r) == TRUE

Memoized(r) == memo[r][Current(r)] # Untried

(* groupName: a hit or a miss remembered from an earlier row. *)
FromMemo(r) ==
    /\ AtRow(r)
    /\ Memoized(r)
    /\ NameRow(r, memo[r][Current(r)])
    /\ UNCHANGED <<serverVars, applied, cacheVars, pc, rows, connected, snap,
                   got, floor>>

(* fetchGroupName: groupCache.get finds an entry. *)
FromCache(r) ==
    /\ AtRow(r)
    /\ ~Memoized(r)
    /\ cache[Current(r)] # None
    /\ NameRow(r, cache[Current(r)])
    /\ UNCHANGED <<serverVars, applied, cacheVars, pc, rows, connected, snap,
                   got, floor>>

(* A miss when the request began offline: never block on the network.       *)
MissOffline(r) ==
    /\ AtRow(r)
    /\ ~Memoized(r)
    /\ cache[Current(r)] = None
    /\ ~connected[r]
    /\ NameRow(r, None)
    /\ UNCHANGED <<serverVars, applied, cacheVars, pc, rows, connected, snap,
                   got, floor>>

Miss(r) ==
    /\ AtRow(r)
    /\ ~Memoized(r)
    /\ cache[Current(r)] = None
    /\ connected[r]
    /\ pc' = [pc EXCEPT ![r] = "missed"]
    /\ UNCHANGED <<serverVars, applied, cacheVars, rows, connected, memo, snap,
                   got, names, floor>>

(* groupCache.generation, a critical section of its own. *)
Snapshot(r) ==
    /\ pc[r] = "missed"
    /\ snap' = [snap EXCEPT ![r] = gen]
    /\ pc' = [pc EXCEPT ![r] = "asking"]
    /\ UNCHANGED <<serverVars, applied, cacheVars, rows, connected, memo, got,
                   names, floor>>

(* The server handles GetGroupInfo; the answer is now on its way. *)
Fetch(r) ==
    /\ pc[r] = "asking"
    /\ online
    /\ Named(Current(r), Latest(Current(r)))
    /\ got' = [got EXCEPT ![r] = Latest(Current(r))]
    /\ pc' = [pc EXCEPT ![r] = "fetched"]
    /\ UNCHANGED <<serverVars, applied, cacheVars, rows, connected, memo, snap,
                   names, floor>>

\* Mutant: a failed fetch is retried for as long as the daemon is offline.
FetchRetried(r) ==
    /\ pc[r] = "asking"
    /\ online
    /\ NameRow(r, None)
    /\ pc' = [pc EXCEPT ![r] = "row"]
    /\ UNCHANGED <<serverVars, applied, cacheVars, rows, connected, snap, got, floor>>

(* It fails (not a member, no connection, the request's deadline), or the   *)
(* subject is empty.                                                        *)
FetchFails(r) ==
    /\ pc[r] = "asking"
    /\ NameRow(r, None)
    /\ pc' = [pc EXCEPT ![r] = "row"]
    /\ UNCHANGED <<serverVars, applied, cacheVars, rows, connected, snap, got, floor>>

\* Mutant: the fetched name is cached whatever happened meanwhile.
SetAlways(r) == cache' = [cache EXCEPT ![Current(r)] = got[r]]

(* groupCache.setFresh. *)
SetFresh(r) ==
    cache' = IF gen = snap[r] THEN [cache EXCEPT ![Current(r)] = got[r]] ELSE cache

(* The answer arrives. *)
Fetched(r) ==
    /\ pc[r] = "fetched"
    /\ SetFresh(r)
    /\ NameRow(r, got[r])
    /\ pc' = [pc EXCEPT ![r] = "row"]
    /\ got' = [got EXCEPT ![r] = None]
    /\ UNCHANGED <<serverVars, applied, gen, rows, connected, snap, floor>>

(* All rows are named: the response is written, the resolver forgotten. *)
End(r) ==
    /\ pc[r] = "row"
    /\ Len(names[r]) = Len(rows[r])
    /\ pc' = [pc EXCEPT ![r] = "idle"]
    /\ rows' = [rows EXCEPT ![r] = <<>>]
    /\ connected' = [connected EXCEPT ![r] = FALSE]
    /\ memo' = [memo EXCEPT ![r] = NoMemo]
    /\ snap' = [snap EXCEPT ![r] = 0]
    /\ names' = [names EXCEPT ![r] = <<>>]
    /\ floor' = [floor EXCEPT ![r] = [g \in Group |-> 0]]
    /\ UNCHANGED <<serverVars, applied, cacheVars, got>>

RequestStep(r) ==
    \/ FromMemo(r)
    \/ FromCache(r)
    \/ MissOffline(r)
    \/ Miss(r)
    \/ Snapshot(r)
    \/ Fetch(r)
    \/ FetchFails(r)
    \/ Fetched(r)
    \/ End(r)

Next ==
    \/ \E g \in Group : Rename(g) \/ RenameEvent(g)
    \/ Connect
    \/ Disconnect
    \/ \E r \in Request : Begin(r) \/ RequestStep(r)

Spec == Init /\ [][Next]_vars

-----------------------------------------------------------------------------
(* A slow fetch never undoes a rename: a cached subject is one the group     *)
(* has, non-empty, and at least as recent as the last rename event handled, *)
(* whatever fetches were in flight when the event came (names.go: "A        *)
(* generation counter lets a rename win over a slow, concurrent fetch").    *)
CacheNotOlderThanEvents ==
    \A g \in Group : cache[g] # None =>
        /\ applied[g] <= cache[g] /\ cache[g] <= Latest(g)
        /\ Named(g, cache[g])

(* No response shows a subject that was already replaced, by an event the   *)
(* daemon had handled, when its request began.                              *)
AnswersNotOlderThanRequest ==
    \A r \in Request : \A i \in DOMAIN names[r] :
        names[r][i] # None =>
            /\ floor[r][rows[r][i]] <= names[r][i]
            /\ names[r][i] <= Latest(rows[r][i])

(* Within one response a group has one name, even when it is renamed, or    *)
(* the connection comes and goes, between two of its rows.                  *)
OneNamePerResponse ==
    \A r \in Request : \A i, j \in DOMAIN names[r] :
        rows[r][i] = rows[r][j] => names[r][i] = names[r][j]

(* The cache is invisible: what responses show of the groups is what they   *)
(* could show if there were none, with one subject per group and response   *)
(* that was not yet known to be replaced when it began (names.go:           *)
(* fetchGroupName, setFresh, rename against a fetch for every row).         *)
Reads == INSTANCE SubjectReads WITH
    known <- applied,
    open <- [r \in Request |-> pc[r] # "idle"],
    answers <- names

RefinesSubjectReads == Reads!Spec

(* The inductive invariant.  A request only names rows from its memo, which *)
(* holds the groups of the rows named so far and nothing else; the memo is  *)
(* as recent as the request's beginning; and a fetch in flight whose        *)
(* generation is still current is as recent as the events handled: had one  *)
(* been handled since the snapshot, the generation would have moved.        *)
EventInv == \A g \in Group : 1 <= applied[g] /\ applied[g] <= Latest(g)

MemoInv(r) ==
    /\ Len(names[r]) <= Len(rows[r])
    /\ \A g \in Group : floor[r][g] <= applied[g]
    /\ \A g \in Group : memo[r][g] \notin {None, Untried} =>
          floor[r][g] <= memo[r][g] /\ memo[r][g] <= Latest(g)
    /\ \A i \in DOMAIN names[r] : names[r][i] = memo[r][rows[r][i]]
    /\ \A g \in Group : memo[r][g] # Untried => \E i \in DOMAIN names[r] : rows[r][i] = g

FetchInv(r) ==
    /\ pc[r] = "idle" => names[r] = <<>> /\ memo[r] = NoMemo
    /\ pc[r] \in {"missed", "asking", "fetched"} =>
          Len(names[r]) < Len(rows[r]) /\ memo[r][Current(r)] = Untried
    /\ snap[r] <= gen
    /\ pc[r] = "fetched" =>
          /\ got[r] # None /\ got[r] <= Latest(Current(r))
          /\ Named(Current(r), got[r])
          /\ floor[r][Current(r)] <= got[r]
          /\ snap[r] = gen => applied[Current(r)] <= got[r]

IInv ==
    /\ TypeOK
    /\ EventInv
    /\ CacheNotOlderThanEvents
    /\ \A r \in Request : MemoInv(r) /\ FetchInv(r)

-----------------------------------------------------------------------------
(* Liveness: goroutines run, the client reconnects after a disconnection    *)
(* (whatsmeow's auto-reconnect) and events queued for the device arrive     *)
(* even if the connection keeps breaking.                                   *)
FairSpec ==
    /\ Spec
    /\ \A r \in Request : WF_vars(RequestStep(r))
    /\ WF_vars(Connect)
    /\ \A g \in Group : SF_vars(RenameEvent(g))

(* Every response is finished: no row waits for ever, online or offline.    *)
RequestsEnd == \A r \in Request : pc[r] # "idle" ~> pc[r] = "idle"

(* Once a group is no longer renamed the cache ends up with its present     *)
(* subject or without an entry, and a stale one does not come back.         *)
CacheConverges ==
    \A g \in Group : <>[](cache[g] \in {None, Latest(g)})
=============================================================================
