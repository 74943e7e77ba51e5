-------------------------------- MODULE Inbox --------------------------------
(***************************************************************************)
(* The part of the daemon that reads and writes the messages table          *)
(* (internal/daemon/daemon.go): the event goroutine storing incoming        *)
(* messages, the `messages' handler run by one goroutine per connection,    *)
(* `logout --purge', and the end of the process at any point in between.    *)
(* Daemons that overlap while one takes over from another (Lifecycle) share  *)
(* the database file: their requests run side by side and end separately.   *)
(*                                                                         *)
(* A `messages' request runs List, MarkSeen, the read receipts and the      *)
(* answer as separate steps, because the handler holds no lock between      *)
(* them; each database operation is one step because the handle has one     *)
(* connection.  Name resolution changes nothing here and is in GroupCache.  *)
(*                                                                         *)
(* `marked', `handed' and `dropped' are history: which rows a running       *)
(* request has marked seen, and which rows were marked seen by requests     *)
(* whose answer reached, or did not reach, its caller.                      *)
(***************************************************************************)
EXTENDS MessageTable

CONSTANTS
    Reader,    \* concurrent `wa messages' invocations
    Requests,  \* the arguments they are tried with (api.MessagesArgs)
    Time,      \* timestamps of incoming messages
    MaxFaults  \* bound: failed database calls, lost answers and crashes

VARIABLES
    table,      \* the messages table, on disk
    up,         \* whether a daemon process runs
    pc,         \* where each reader's request is
    args,       \* its arguments
    page,       \* the keys of the rows List returned to it
    marked,     \* history: the rows its MarkSeen marked
    sent,       \* the keys its sendReadReceipts sent a receipt for
    handed, dropped,  \* history, see above
    logout,     \* the `wa logout' request, if one is running
    fresh,      \* history: keys stored since the running logout began
    faults

requestVars == <<pc, args, page, marked, sent>>
historyVars == <<handed, dropped>>
logoutVars == <<logout, fresh>>
vars == <<table, up, requestVars, historyVars, logoutVars, faults>>

Args == [chat : Chat \cup {AnyChat}, unread : BOOLEAN, all : BOOLEAN,
         since : Nat, limit : Int, markRead : BOOLEAN]

(* The zero api.MessagesArgs; also what stands in args while a reader is idle. *)
NoArgs == [chat |-> AnyChat, unread |-> FALSE, all |-> FALSE,
           since |-> 0, limit |-> 0, markRead |-> FALSE]

ASSUME InboxAssumption ==
    /\ Requests \subseteq Args
    /\ Requests # {}
    /\ Time \subseteq Nat
    /\ MaxFaults \in Nat

NoLogout == [pc |-> "none", purge |-> FALSE, unlinked |-> FALSE, failed |-> FALSE]

TypeOK ==
    /\ IsTable(table)
    /\ up \in BOOLEAN
    /\ pc \in [Reader -> {"idle", "listed", "marked", "answering"}]
    /\ args \in [Reader -> Args]
    /\ page \in [Reader -> SUBSET Key]
    /\ marked \in [Reader -> SUBSET Key]
    /\ sent \in [Reader -> SUBSET Key]
    /\ handed \subseteq Key
    /\ dropped \subseteq Key
    /\ logout \in [pc : {"none", "unlinking", "clearing", "answering"},
                   purge : BOOLEAN, unlinked : BOOLEAN, failed : BOOLEAN]
    /\ fresh \subseteq Key
    /\ faults \in 0..MaxFaults

Init ==
    /\ table = EmptyTable
    /\ up = TRUE
    /\ pc = [r \in Reader |-> "idle"]
    /\ args = [r \in Reader |-> NoArgs]
    /\ page = [r \in Reader |-> {}]
    /\ marked = [r \in Reader |-> {}]
    /\ sent = [r \in Reader |-> {}]
    /\ handed = {}
    /\ dropped = {}
    /\ logout = NoLogout
    /\ fresh = {}
    /\ faults = 0

Fault == faults < MaxFaults /\ faults' = faults + 1

Seen == {k \in DOMAIN table : table[k].seen}

Carried == UNION {marked[r] : r \in Reader}

-----------------------------------------------------------------------------
(* The event goroutine: storeMessage.                                       *)

Receive(k, ts) ==
    /\ up
    /\ table' = Upsert(table, k, ts)
    /\ fresh' = IF logout.pc = "none" THEN fresh ELSE fresh \cup {k}
    /\ UNCHANGED <<up, requestVars, historyVars, logout, faults>>

(* A failed Upsert is only logged: the message never gets a row. *)
ReceiveFails ==
    /\ up
    /\ Fault
    /\ UNCHANGED <<table, up, requestVars, historyVars, logoutVars>>

-----------------------------------------------------------------------------
(* The messages handler.                                                    *)

(* Unread is the default only when no selector was given. *)
QueryOf(a) ==
    [chat |-> a.chat,
     unreadOnly |-> a.unread \/ (~a.all /\ a.chat = AnyChat /\ a.since = 0),
     all |-> a.all,
     since |-> a.since,
     limit |-> a.limit]

StartRead(r, a) ==
    /\ up
    /\ pc[r] = "idle"
    /\ pc' = [pc EXCEPT ![r] = "listed"]
    /\ args' = [args EXCEPT ![r] = a]
    /\ page' = [page EXCEPT ![r] = Listed(table, QueryOf(a))]
    /\ UNCHANGED <<table, up, marked, sent, historyVars, logoutVars, faults>>

(* List fails: an error answer, nothing else happened. *)
ListFails ==
    /\ up
    /\ \E r \in Reader : pc[r] = "idle"
    /\ Fault
    /\ UNCHANGED <<table, up, requestVars, historyVars, logoutVars>>

\* Mutant: one UPDATE over what matches the query now, instead of the listed rows.
MarkMatchingNow(r) ==
    /\ pc[r] = "listed"
    /\ ~args[r].all
    /\ table' = MarkSeen(table, Matching(table, QueryOf(args[r])))
    /\ marked' = [marked EXCEPT ![r] = page[r] \cap DOMAIN table]
    /\ pc' = [pc EXCEPT ![r] = "marked"]
    /\ UNCHANGED <<up, args, page, sent, historyVars, logoutVars, faults>>

\* Mutant: MarkSeen is forgotten.
MarkNothing(r) ==
    /\ pc[r] = "listed"
    /\ ~args[r].all
    /\ marked' = [marked EXCEPT ![r] = page[r] \cap DOMAIN table]
    /\ pc' = [pc EXCEPT ![r] = "marked"]
    /\ UNCHANGED <<table, up, args, page, sent, historyVars, logoutVars, faults>>

(* MarkSeen on the listed rows; a row purged in between stays away. *)
MarkPage(r) ==
    /\ pc[r] = "listed"
    /\ ~args[r].all
    /\ table' = MarkSeen(table, page[r])
    /\ marked' = [marked EXCEPT ![r] = page[r] \cap DOMAIN table]
    /\ pc' = [pc EXCEPT ![r] = "marked"]
    /\ UNCHANGED <<up, args, page, sent, historyVars, logoutVars, faults>>

(* --all does not consume: MarkSeen is not called. *)
SkipMarking(r) ==
    /\ pc[r] = "listed"
    /\ args[r].all
    /\ pc' = [pc EXCEPT ![r] = "marked"]
    /\ UNCHANGED <<table, up, args, page, marked, sent, historyVars,
                   logoutVars, faults>>

(* The transaction is rolled back and the error only logged: the rows are   *)
(* returned all the same and stay unread.                                   *)
MarkingFails(r) ==
    /\ pc[r] = "listed"
    /\ ~args[r].all
    /\ Fault
    /\ pc' = [pc EXCEPT ![r] = "marked"]
    /\ UNCHANGED <<table, up, args, page, marked, sent, historyVars, logoutVars>>

Group(k) == <<k[1], SenderOf[k]>>

\* Mutant: own messages are not skipped.
AllGroups(r) == {Group(k) : k \in page[r]}

ReceiptGroups(r) == {Group(k) : k \in {j \in page[r] : Inbound(j)}}

(* sendReadReceipts: one MarkRead call per chat and sender of the inbound   *)
(* rows.  A call that fails is logged and the next one is made.             *)
SendReceipts(r) ==
    /\ pc[r] = "marked"
    /\ \E done \in SUBSET ReceiptGroups(r) :
          /\ args[r].markRead \/ done = {}
          /\ sent' = [sent EXCEPT ![r] = {k \in page[r] : Group(k) \in done}]
    /\ pc' = [pc EXCEPT ![r] = "answering"]
    /\ UNCHANGED <<table, up, args, page, marked, historyVars, logoutVars, faults>>

EndReads(S) ==
    /\ pc' = [r \in Reader |-> IF r \in S THEN "idle" ELSE pc[r]]
    /\ args' = [r \in Reader |-> IF r \in S THEN NoArgs ELSE args[r]]
    /\ page' = [r \in Reader |-> IF r \in S THEN {} ELSE page[r]]
    /\ marked' = [r \in Reader |-> IF r \in S THEN {} ELSE marked[r]]
    /\ sent' = [r \in Reader |-> IF r \in S THEN {} ELSE sent[r]]

Answer(r) ==
    /\ pc[r] = "answering"
    /\ handed' = handed \cup marked[r]
    /\ EndReads({r})
    /\ UNCHANGED <<table, up, dropped, logoutVars, faults>>

(* The caller has gone (interrupted, or past its timeout): the answer of a  *)
(* handler that ran to its end reaches nobody.                              *)
AnswerLost(r) ==
    /\ pc[r] = "answering"
    /\ Fault
    /\ dropped' = dropped \cup marked[r]
    /\ EndReads({r})
    /\ UNCHANGED <<table, up, handed, logoutVars>>

-----------------------------------------------------------------------------
(* The logout handler.                                                      *)

StartLogout ==
    /\ up
    /\ logout.pc = "none"
    /\ \E purge \in BOOLEAN :
          logout' = [NoLogout EXCEPT !.pc = "unlinking", !.purge = purge]
    /\ fresh' = {}
    /\ UNCHANGED <<table, up, requestVars, historyVars, faults>>

\* Mutant: a failed unlink returns before the purge.
UnlinkOrReturn ==
    /\ logout.pc = "unlinking"
    /\ \E done \in BOOLEAN :
          logout' = [logout EXCEPT
                        !.unlinked = done,
                        !.pc = IF done /\ logout.purge THEN "clearing" ELSE "answering"]
    /\ UNCHANGED <<table, up, requestVars, historyVars, fresh, faults>>

(* client.Logout succeeds or fails; the purge is honoured either way. *)
Unlink ==
    /\ logout.pc = "unlinking"
    /\ \E done \in BOOLEAN :
          logout' = [logout EXCEPT
                        !.unlinked = done,
                        !.pc = IF logout.purge THEN "clearing" ELSE "answering"]
    /\ UNCHANGED <<table, up, requestVars, historyVars, fresh, faults>>

(* store.Clear.  History starts over: a message stored later is a new one.  *)
ClearTable ==
    /\ logout.pc = "clearing"
    /\ table' = Clear
    /\ marked' = [r \in Reader |-> {}]
    /\ handed' = {}
    /\ dropped' = {}
    /\ logout' = [logout EXCEPT !.pc = "answering"]
    /\ UNCHANGED <<up, pc, args, page, sent, fresh, faults>>

(* An error of the DELETE; it runs on the context of the unlink, so one that *)
(* used up the request's time makes it fail, too.                           *)
ClearFails ==
    /\ logout.pc = "clearing"
    /\ Fault
    /\ logout' = [logout EXCEPT !.pc = "answering", !.failed = TRUE]
    /\ UNCHANGED <<table, up, requestVars, historyVars, fresh>>

AnswerLogout ==
    /\ logout.pc = "answering"
    /\ logout' = NoLogout
    /\ fresh' = {}
    /\ UNCHANGED <<table, up, requestVars, historyVars, faults>>

-----------------------------------------------------------------------------
(* A process dies, or Serve returns and it exits under running handlers.    *)
(* The table stays; what its reads had marked is lost.  The requests of     *)
(* another daemon on the same database go on.                               *)
Crash ==
    /\ up
    /\ Fault
    /\ \E S \in SUBSET Reader, last \in BOOLEAN :
          /\ last => S = Reader
          /\ up' = ~last
          /\ dropped' = dropped \cup UNION {marked[r] : r \in S}
          /\ EndReads(S)
          /\ \/ logout' = NoLogout /\ fresh' = {}
             \/ ~last /\ UNCHANGED logoutVars
    /\ UNCHANGED <<table, handed>>

Restart ==
    /\ ~up
    /\ up' = TRUE
    /\ UNCHANGED <<table, requestVars, historyVars, logoutVars, faults>>

HandlerStep(r) ==
    \/ MarkPage(r)
    \/ SkipMarking(r)
    \/ MarkingFails(r)
    \/ SendReceipts(r)
    \/ Answer(r)
    \/ AnswerLost(r)

LogoutStep == Unlink \/ ClearTable \/ ClearFails \/ AnswerLogout

Next ==
    \/ \E k \in Key, ts \in Time : Receive(k, ts)
    \/ ReceiveFails
    \/ \E r \in Reader, a \in Requests : StartRead(r, a)
    \/ ListFails
    \/ \E r \in Reader : HandlerStep(r)
    \/ StartLogout
    \/ LogoutStep
    \/ Crash
    \/ Restart

Spec == Init /\ [][Next]_vars

-----------------------------------------------------------------------------
(* No row is marked seen behind the callers' backs: a seen row was carried  *)
(* by a read that is still running, that was answered, or whose answer was  *)
(* lost.  A message that arrives between List and MarkSeen is not consumed. *)
ConsumedIsAccounted == Seen \subseteq handed \cup dropped \cup Carried

(* What a read has marked seen and returned, no later default read returns  *)
(* again, whatever is re-delivered, fails or restarts meanwhile (the design *)
(* document: "so the next --unread call doesn't repeat them").              *)
HandedStaysRead == handed \cap Unread(table) = {}

(* Refuted (InboxLostAnswer.cfg).  The design document says of `wa           *)
(* messages' (line 208) "After a successful read, matching rows get seen =  *)
(* 1": then every seen row was returned to a caller, or is about to be.     *)
(* The handler marks before it answers, so a lost answer or a crash in      *)
(* between consumes messages nobody has read.                               *)
SeenMeansHanded == Seen \subseteq handed \cup Carried

(* When logout --purge answers, no message stored before it began is left,  *)
(* even if unlinking failed, and none that a concurrent read was holding    *)
(* has come back (daemon.go: "Purge is honored even if the remote unlink    *)
(* failed").  The exception is a purge whose own DELETE failed, also because *)
(* the unlink had used up the time of the request.                          *)
PurgeHonoured ==
    logout.pc = "answering" /\ logout.purge /\ ~logout.failed
        => DOMAIN table \subseteq fresh

(* A read receipt tells somebody else we read their message: it is only     *)
(* ever sent for an inbound row that a --mark-read request is returning.    *)
ReceiptsOnRequest ==
    \A r \in Reader : \A k \in sent[r] :
        /\ Inbound(k)
        /\ args[r].markRead
        /\ k \in page[r]

(* The inductive invariant behind these: what is seen is exactly what was   *)
(* carried, handed or dropped, only a read past MarkSeen carries anything,  *)
(* and the table is as the store leaves it.                                 *)
IInv ==
    /\ TypeOK
    /\ RowidsAreRanks(table)
    /\ Seen = handed \cup dropped \cup Carried
    /\ \A r \in Reader : pc[r] \in {"idle", "listed"} => marked[r] = {}
    /\ PurgeHonoured

(* And behind ReceiptsOnRequest: receipts go out last, for what is left of  *)
(* the page.                                                                *)
ReceiptInv ==
    /\ ReceiptsOnRequest
    /\ \A r \in Reader : pc[r] # "answering" => sent[r] = {}

(* The inbox implements UnreadLog for the messages of others: whatever the   *)
(* order of arrivals, reads, failures, crashes and purges, each message is   *)
(* stored unread once, is consumed by a read that carries it, and is then    *)
(* handed over or dropped for good (storeMessage, messages and logout).      *)
Others(S) == {k \in S : Inbound(k)}

LogTransit == Others(Carried \ (handed \cup dropped))
LogHanded == Others(handed)
LogDropped == Others(dropped \ handed)

Log == INSTANCE UnreadLog WITH
    Message <- Others(Key),
    unread <- Unread(table),
    transit <- LogTransit,
    handed <- LogHanded,
    dropped <- LogDropped

RefinesUnreadLog == Log!Spec

-----------------------------------------------------------------------------
(* Liveness.  Handlers run to their end (goroutines are scheduled), a dead  *)
(* daemon is started again, and every reader keeps polling with the default *)
(* query between its other calls (strong fairness, because those calls keep *)
(* it busy now and then).  Nothing is asked of the phone, or of who logs    *)
(* out.                                                                     *)
Poll(r) == \E a \in Requests : QueryOf(a).unreadOnly /\ a.chat = AnyChat
                                /\ a.since = 0 /\ StartRead(r, a)

FairSpec ==
    /\ Spec
    /\ \A r \in Reader : WF_vars(HandlerStep(r))
    /\ WF_vars(LogoutStep)
    /\ WF_vars(Restart)
    /\ \A r \in Reader : SF_vars(Poll(r))

(* Once new messages cease to arrive, somebody who polls with any limit     *)
(* gets to the oldest unread one: re-deliveries, purges, lost answers and   *)
(* crashes do not keep a message unread for ever.  While they do arrive,    *)
(* nothing is promised: List returns the newest unread rows, so as many     *)
(* arrivals per poll as the limit hide an older row for good.               *)
Arrival == ~(DOMAIN table' \subseteq DOMAIN table)

UnreadDrains ==
    \/ []<><<Arrival>>_table
    \/ \A k \in Key : k \in Unread(table) ~> k \notin Unread(table)
=============================================================================
