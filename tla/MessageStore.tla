----------------------------- MODULE MessageStore -----------------------------
(***************************************************************************)
(* The message store as a state machine: the writes of internal/store in    *)
(* any order, so that its queries can be compared, on every table they can  *)
(* meet, with what they are meant to return.  `arrivals' is history: the    *)
(* keys in the order in which they first arrived since the last purge.      *)
(***************************************************************************)
EXTENDS MessageTable

CONSTANTS
    Time,    \* the (second-granular) timestamps a message can carry
    Limits   \* the --limit values tried; 0 or less asks for the default

VARIABLES table, arrivals

vars == <<table, arrivals>>

ASSUME StoreAssumption == Time \subseteq Nat /\ Limits \subseteq Int

Queries == [chat : Chat \cup {AnyChat}, unreadOnly : BOOLEAN, all : BOOLEAN,
            since : Time \cup {0}, limit : Limits]

TypeOK ==
    /\ IsTable(table)
    /\ arrivals \in Seq(DOMAIN table)

Init ==
    /\ table = EmptyTable
    /\ arrivals = <<>>

(* A message event is stored.  A known key is a re-delivery (a retry or an  *)
(* edit), which may carry another timestamp.                                *)
Receive(k, ts) ==
    /\ table' = Upsert(table, k, ts)
    /\ arrivals' = IF k \in DOMAIN table THEN arrivals ELSE Append(arrivals, k)

(* A consuming read: what List returned is marked seen. *)
Read(q) ==
    /\ table' = MarkSeen(table, ToSet(List(table, q)))
    /\ UNCHANGED arrivals

Purge ==
    /\ table' = Clear
    /\ arrivals' = <<>>

Next ==
    \/ \E k \in Key, ts \in Time : Receive(k, ts)
    \/ \E q \in Queries : ~q.all /\ Read(q)
    \/ Purge

Spec == Init /\ [][Next]_vars

-----------------------------------------------------------------------------
ArrivedBefore(j, k) ==
    \E m, n \in DOMAIN arrivals : m < n /\ arrivals[m] = j /\ arrivals[n] = k

(* j belongs before k in a chronological listing: it is older, or carries   *)
(* the same second and arrived earlier.                                     *)
Before(j, k) ==
    \/ table[j].ts < table[k].ts
    \/ table[j].ts = table[k].ts /\ ArrivedBefore(j, k)

(* What List returns is exactly the newest `limit' of the matching messages *)
(* in chronological order, arrival deciding between messages of the same    *)
(* second: nothing that was left out belongs after something returned, and  *)
(* nothing is left out while there is room (store.go: List, its comment on  *)
(* ties).  Matching is restated here from the meaning of the flags.         *)
ListIsNewestSuffix ==
    \A q \in Queries :
        LET list == List(table, q)
            wanted == {k \in ToSet(arrivals) :
                          /\ q.chat = AnyChat \/ k[1] = q.chat
                          /\ q.unreadOnly /\ ~q.all => k \in Unread(table)
                          /\ q.since = 0 \/ ~(table[k].ts < q.since)}
            room == IF q.limit > 0 THEN q.limit ELSE DefaultLimit
        IN  /\ ToSet(list) \subseteq wanted
            /\ Len(list) = Min({room, Cardinality(wanted)})
            /\ \A i, j \in DOMAIN list : i < j => Before(list[i], list[j])
            /\ \A k \in wanted \ ToSet(list), i \in DOMAIN list : Before(k, list[i])

(* A query for everything of a chat, or for everything unread of it.        *)
Browse(c, unread) ==
    [chat |-> c, unreadOnly |-> unread, all |-> ~unread, since |-> 0,
     limit |-> Cardinality(DOMAIN table)]

(* The overview and the listing never disagree: a chat is previewed by the  *)
(* message that ends its full listing, its unread count is the number of    *)
(* messages an unlimited unread listing of it returns, every chat with a    *)
(* message is in it once, the chats come in the reverse of the order in     *)
(* which their last messages are listed, and a limit cuts off the chats     *)
(* that were quiet longest (store.go: Chats against List).                  *)
OverviewAgreesWithList ==
    LET overview == Overview(table, Cardinality(DOMAIN table))
        whole == List(table, Browse(AnyChat, FALSE))
        ListedBefore(j, k) ==
            \E m, n \in DOMAIN whole : m < n /\ whole[m] = j /\ whole[n] = k
    IN  /\ {overview[i].jid : i \in DOMAIN overview} = ChatsOf(table)
        /\ Len(overview) = Cardinality(ChatsOf(table))
        /\ \A i, j \in DOMAIN overview :
              i < j => ListedBefore(overview[j].last, overview[i].last)
        /\ \A i \in DOMAIN overview :
              /\ overview[i].last = Last(List(table, Browse(overview[i].jid, FALSE)))
              /\ overview[i].unread = Len(List(table, Browse(overview[i].jid, TRUE)))
        /\ \A n \in Limits :
              Overview(table, n) =
                  SubSeq(overview, 1, Min({Len(overview),
                                           IF n > 0 THEN n ELSE DefaultChatsLimit}))

(* A re-delivery neither reopens a message that was read nor moves it in    *)
(* the order of arrival; only a purge forgets it (store.go: Upsert keeps    *)
(* the seen flag, and the rowid that breaks ties).                          *)
RedeliveryKeepsPlace ==
    [][\A k \in DOMAIN table \cap DOMAIN table' :
          /\ table[k].seen => table'[k].seen
          /\ \A j \in DOMAIN table \cap DOMAIN table' :
                (table[j].rowid < table[k].rowid) => (table'[j].rowid < table'[k].rowid)]_vars

(* A row's rowid is its place in the order of arrival. *)
RowidsAreArrivals ==
    /\ Len(arrivals) = Cardinality(DOMAIN table)
    /\ \A k \in DOMAIN table : arrivals[table[k].rowid] = k

(* The inductive invariant: with the types, that rowids are the order of    *)
(* arrival, as rows only go away all together.                              *)
IInv == TypeOK /\ RowidsAreRanks(table) /\ RowidsAreArrivals
=============================================================================
