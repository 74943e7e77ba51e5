----------------------------- MODULE MessageTable -----------------------------
(***************************************************************************)
(* The messages table of the shared SQLite database and the queries that    *)
(* internal/store/store.go runs on it, as operators on the table's value.   *)
(*                                                                         *)
(* A table is a function from the primary keys that have a row to the rows. *)
(* Chat, id and sender never change for a key, so the sender is a constant  *)
(* of the key (SenderOf) instead of a column; from_me is "the sender is     *)
(* Me".  Names, type, text and raw_json are payload no query depends on.    *)
(* The handle is limited to one connection (cmd/wa/lifecycle.go), so every  *)
(* statement or transaction below is atomic with respect to the others.     *)
(***************************************************************************)
EXTENDS Integers, SequencesExt

CONSTANTS
    Chat,              \* chat JIDs
    Id,                \* message ids, unique within a chat only
    Sender,            \* sender JIDs, the linked account's own among them
    Me,                \* the linked account's own JID
    SenderOf,          \* who sent the message with a given key
    AnyChat,           \* Query.Chat = "": no chat filter
    DefaultLimit,      \* defaultLimit of store.go
    DefaultChatsLimit  \* the limit Chats falls back to

Key == Chat \X Id

ASSUME MessageAssumption ==
    /\ AnyChat \notin Chat
    /\ Me \in Sender
    /\ SenderOf \in [Key -> Sender]
    /\ DefaultLimit \in Nat \ {0}
    /\ DefaultChatsLimit \in Nat \ {0}

Row == [ts : Nat, seen : BOOLEAN, rowid : Nat \ {0}]

IsTable(t) == DOMAIN t \subseteq Key /\ t \in [DOMAIN t -> Row]

EmptyTable == [k \in {} |-> [ts |-> 0, seen |-> FALSE, rowid |-> 1]]

Inbound(k) == SenderOf[k] # Me

Unread(t) == {k \in DOMAIN t : Inbound(k) /\ ~t[k].seen}

\* Mutant: the largest rowid itself, not one more.
NextRowidReused(t) == Max({0} \cup {t[k].rowid : k \in DOMAIN t})

(* SQLite gives a new row of a table without AUTOINCREMENT one more than    *)
(* the largest rowid in the table; an emptied table starts again at 1.      *)
NextRowid(t) == 1 + Max({0} \cup {t[k].rowid : k \in DOMAIN t})

(* As rows go away only all together, the rowids are always 1..n: a row's   *)
(* rowid is its rank in the order of arrival.                               *)
RowidsAreRanks(t) ==
    /\ IsFiniteSet(DOMAIN t)
    /\ {t[k].rowid : k \in DOMAIN t} = 1..Cardinality(DOMAIN t)
    /\ \A j, k \in DOMAIN t : t[j].rowid = t[k].rowid => j = k

-----------------------------------------------------------------------------
(* Writes.                                                                  *)

\* Mutant: INSERT OR REPLACE, which gives the row a new rowid and default columns.
UpsertReplacing(t, k, ts) ==
    [j \in DOMAIN t \cup {k} |->
        IF j # k THEN t[j]
        ELSE [ts |-> ts, seen |-> FALSE, rowid |-> NextRowid(t)]]

(* Store.Upsert: a key that has a row keeps its rowid and its seen flag.    *)
Upsert(t, k, ts) ==
    [j \in DOMAIN t \cup {k} |->
        IF j # k THEN t[j]
        ELSE IF k \in DOMAIN t THEN [t[k] EXCEPT !.ts = ts]
        ELSE [ts |-> ts, seen |-> FALSE, rowid |-> NextRowid(t)]]

(* Store.MarkSeen: one transaction; UPDATE skips a key that has no row.     *)
MarkSeen(t, keys) ==
    [k \in DOMAIN t |-> [t[k] EXCEPT !.seen = @ \/ k \in keys]]

(* Store.Clear. *)
Clear == EmptyTable

-----------------------------------------------------------------------------
(* Reads.                                                                   *)

\* Mutant: ties on the timestamp fall to the order of the message ids.
LaterById(t, j, k) ==
    \/ t[j].ts > t[k].ts
    \/ t[j].ts = t[k].ts /\ j[2] > k[2]
    \/ t[j].ts = t[k].ts /\ j[2] = k[2] /\ t[j].rowid > t[k].rowid

(* ORDER BY timestamp DESC, rowid DESC: j comes before k in that order.     *)
Later(t, j, k) ==
    \/ t[j].ts > t[k].ts
    \/ t[j].ts = t[k].ts /\ t[j].rowid > t[k].rowid

(* How many of a set of rows come before k. *)
Ahead(t, keys, k) == Cardinality({j \in keys : Later(t, j, k)})

\* Mutant: the inner SELECT sorts ascending, so LIMIT keeps the oldest rows.
OldestOf(t, keys, n) ==
    {k \in keys : Cardinality({j \in keys : Later(t, k, j)}) < n}

(* ... LIMIT n: the n newest of a set of rows. *)
NewestOf(t, keys, n) == {k \in keys : Ahead(t, keys, k) < n}

(* The rows of a set as that ORDER BY returns them. *)
NewestFirst(t, keys) ==
    [i \in 1..Cardinality(keys) |-> CHOOSE k \in keys : Ahead(t, keys, k) = i - 1]

(* The outer ORDER BY timestamp ASC, rid ASC. *)
OldestFirst(t, keys) == Reverse(NewestFirst(t, keys))

(* store.Query.  A since of 0 is the zero time: every timestamp is at or    *)
(* after it.  A limit of 0 or less asks for the default.                    *)
Query == [chat : Chat \cup {AnyChat}, unreadOnly : BOOLEAN, all : BOOLEAN,
          since : Nat, limit : Int]

(* The WHERE clause. *)
Matching(t, q) ==
    {k \in DOMAIN t :
        /\ q.chat \in {AnyChat, k[1]}
        /\ (q.unreadOnly /\ ~q.all) => (~t[k].seen /\ Inbound(k))
        /\ t[k].ts >= q.since}

LimitOr(n, default) == IF n <= 0 THEN default ELSE n

(* Store.List, as the set of keys and as the sequence it returns. *)
Listed(t, q) == NewestOf(t, Matching(t, q), LimitOr(q.limit, DefaultLimit))

List(t, q) == OldestFirst(t, Listed(t, q))

-----------------------------------------------------------------------------
(* The chats overview.                                                      *)

RowsOf(t, c) == {k \in DOMAIN t : k[1] = c}

\* Mutant: the unread subquery forgets from_me = 0.
UnseenCount(t, c) == Cardinality({k \in RowsOf(t, c) : ~t[k].seen})

(* SELECT COUNT( * ) ... seen = 0 AND from_me = 0. *)
UnreadCount(t, c) == Cardinality(RowsOf(t, c) \cap Unread(t))

\* Mutant: MAX(timestamp) joined back to the table, any of the tied rows.
PreviewOfAnyTied(t, c) ==
    CHOOSE k \in RowsOf(t, c) : \A j \in RowsOf(t, c) : t[j].ts <= t[k].ts

(* The row a chat is previewed by: the newest by timestamp, then rowid.     *)
Preview(t, c) == CHOOSE k \in RowsOf(t, c) : k \in NewestOf(t, RowsOf(t, c), 1)

(* Store.Chats: one entry per chat, most recently active first. *)
ChatsOf(t) == {k[1] : k \in DOMAIN t}

Previews(t) == {Preview(t, c) : c \in ChatsOf(t)}

Entry(t, k) == [jid |-> k[1], last |-> k, unread |-> UnreadCount(t, k[1])]

Overview(t, limit) ==
    LET shown == NewestOf(t, Previews(t), LimitOr(limit, DefaultChatsLimit))
    IN  [i \in 1..Cardinality(shown) |-> Entry(t, NewestFirst(t, shown)[i])]
=============================================================================
