----------------------------- MODULE InboxProofs -----------------------------
(***************************************************************************)
(* Proofs about Inbox, for any chats, ids, senders, readers, requests and   *)
(* any number of faults.                                                    *)
(***************************************************************************)
EXTENDS Inbox, MessageTableProofs

LEMMA CarriedDef == \A k : k \in Carried <=> \E r \in Reader : k \in marked[r]
BY DEF Carried

(* The reads of a request are keys of the table. *)
LEMMA ListedInTable == \A t, q : Listed(t, q) \subseteq DOMAIN t
BY DEF Listed, NewestOf, Matching

LEMMA InitInv == Init => IInv
<1> SUFFICES ASSUME Init PROVE IInv
  OBVIOUS
<1>1. /\ IsTable(table)
      /\ RowidsAreRanks(table)
      /\ DOMAIN table = {}
  BY EmptyTableLemma DEF Init
<1>2. NoArgs \in Args
  BY DEF NoArgs, Args
<1>3. TypeOK
  BY <1>1, <1>2, InboxAssumption DEF Init, TypeOK, NoLogout
<1>4. Seen = handed \cup dropped \cup Carried
  BY <1>1 DEF Init, Seen, Carried
<1>5. PurgeHonoured
  BY DEF Init, NoLogout, PurgeHonoured
<1>6. \A r \in Reader : pc[r] \in {"idle", "listed"} => marked[r] = {}
  BY DEF Init
<1>7. QED
  BY <1>1, <1>3, <1>4, <1>5, <1>6 DEF IInv

LEMMA FaultType == faults \in 0..MaxFaults /\ Fault => faults' \in 0..MaxFaults
BY InboxAssumption DEF Fault

-----------------------------------------------------------------------------
(* One lemma per group of actions.                                          *)

LEMMA ReceiveTable ==
    ASSUME IInv, NEW k \in Key, NEW ts \in Time, Receive(k, ts)
    PROVE  /\ IsTable(table')
           /\ RowidsAreRanks(table')
           /\ DOMAIN table' = DOMAIN table \cup {k}
           /\ \A j \in DOMAIN table : table'[j].seen <=> table[j].seen
           /\ k \notin DOMAIN table => ~table'[k].seen
<1>1. ts \in Nat
  BY InboxAssumption
<1>2. IsTable(table) /\ RowidsAreRanks(table)
  BY DEF IInv, TypeOK
<1>3. table' = Upsert(table, k, ts)
  BY DEF Receive
<1>4. /\ IsTable(Upsert(table, k, ts))
      /\ RowidsAreRanks(Upsert(table, k, ts))
  BY <1>1, <1>2, UpsertLemma
<1>5. DOMAIN Upsert(table, k, ts) = DOMAIN table \cup {k}
  BY <1>1, <1>2, UpsertRowsLemma
<1>6. \A j \in DOMAIN table : Upsert(table, k, ts)[j].seen <=> table[j].seen
  BY <1>1, <1>2, UpsertRowsLemma
<1>7. k \notin DOMAIN table => ~Upsert(table, k, ts)[k].seen
  BY <1>1, <1>2, UpsertRowsLemma
<1>8. QED
  BY <1>3, <1>4, <1>5, <1>6, <1>7

LEMMA ReceiveInv ==
    ASSUME IInv, NEW k \in Key, NEW ts \in Time, Receive(k, ts)
    PROVE  IInv'
<1>1. /\ IsTable(table')
      /\ RowidsAreRanks(table')
      /\ DOMAIN table' = DOMAIN table \cup {k}
      /\ \A j \in DOMAIN table : table'[j].seen <=> table[j].seen
      /\ k \notin DOMAIN table => ~table'[k].seen
  BY ReceiveTable
<1>2. fresh' \subseteq Key /\ (logout.pc # "none" => fresh' = fresh \cup {k})
  BY DEF Receive, IInv, TypeOK
<1>3. TypeOK'
  BY <1>1, <1>2 DEF IInv, TypeOK, Receive, requestVars, historyVars
<1>4. Seen' = Seen
  BY <1>1 DEF Seen
<1>5. (handed \cup dropped \cup Carried)' = handed \cup dropped \cup Carried
  BY DEF Receive, requestVars, historyVars, Carried
<1>6. PurgeHonoured'
  BY <1>1, <1>2 DEF Receive, IInv, PurgeHonoured
<1>7. (\A r \in Reader : pc[r] \in {"idle", "listed"} => marked[r] = {})'
  BY DEF IInv, Receive, requestVars
<1>8. QED
  BY <1>1, <1>3, <1>4, <1>5, <1>6, <1>7 DEF IInv

(* Steps of a request that touch neither the table nor the history. *)
LEMMA QuietRequestInv ==
    ASSUME IInv,
           \/ \E r \in Reader, a \in Requests : StartRead(r, a)
           \/ \E r \in Reader : SkipMarking(r) \/ MarkingFails(r) \/ SendReceipts(r)
           \/ ReceiveFails
           \/ ListFails
           \/ Restart
    PROVE  IInv'
<1>1. /\ table' = table /\ handed' = handed /\ dropped' = dropped
      /\ marked' = marked /\ logout' = logout /\ fresh' = fresh
  BY DEF StartRead, SkipMarking, MarkingFails, SendReceipts, ReceiveFails,
         ListFails, Restart, requestVars, historyVars, logoutVars
<1>2. TypeOK'
  <2>1. IsTable(table')
    BY <1>1 DEF IInv, TypeOK
  <2>2. faults' \in 0..MaxFaults
    BY FaultType DEF IInv, TypeOK, StartRead, SkipMarking, MarkingFails,
       SendReceipts, ReceiveFails, ListFails, Restart
  <2>3. page' \in [Reader -> SUBSET Key]
    <3>1. \A q : Listed(table, q) \subseteq Key
      BY ListedInTable DEF IInv, TypeOK, IsTable
    <3>2. QED
      BY <3>1 DEF IInv, TypeOK, StartRead, SkipMarking, MarkingFails,
         SendReceipts, ReceiveFails, ListFails, Restart, requestVars
  <2>4. args' \in [Reader -> Args]
    BY InboxAssumption DEF IInv, TypeOK, StartRead, SkipMarking, MarkingFails,
       SendReceipts, ReceiveFails, ListFails, Restart, requestVars
  <2>5. sent' \in [Reader -> SUBSET Key]
    BY DEF IInv, TypeOK, StartRead, SkipMarking, MarkingFails,
       SendReceipts, ReceiveFails, ListFails, Restart, requestVars
  <2>6. pc' \in [Reader -> {"idle", "listed", "marked", "answering"}] /\ up' \in BOOLEAN
    BY DEF IInv, TypeOK, StartRead, SkipMarking, MarkingFails,
       SendReceipts, ReceiveFails, ListFails, Restart, requestVars
  <2>7. QED
    BY <1>1, <2>1, <2>2, <2>3, <2>4, <2>5, <2>6 DEF IInv, TypeOK
<1>3. (Seen = handed \cup dropped \cup Carried)'
  BY <1>1 DEF IInv, Seen, Carried
<1>4. (\A r \in Reader : pc[r] \in {"idle", "listed"} => marked[r] = {})'
  BY <1>1 DEF IInv, TypeOK, StartRead, SkipMarking, MarkingFails,
     SendReceipts, ReceiveFails, ListFails, Restart, requestVars
<1>5. PurgeHonoured'
  BY <1>1 DEF IInv, PurgeHonoured
<1>6. RowidsAreRanks(table)'
  BY <1>1 DEF IInv
<1>7. QED
  BY <1>2, <1>3, <1>4, <1>5, <1>6 DEF IInv

LEMMA MarkPageFacts ==
    ASSUME IInv, NEW r \in Reader, MarkPage(r)
    PROVE  /\ IsTable(table')
           /\ RowidsAreRanks(table')
           /\ DOMAIN table' = DOMAIN table
           /\ Seen' = Seen \cup (page[r] \cap DOMAIN table)
           /\ Carried' = Carried \cup (page[r] \cap DOMAIN table)
           /\ UNCHANGED <<handed, dropped>>
<1>1. /\ IsTable(table')
      /\ RowidsAreRanks(table')
      /\ DOMAIN table' = DOMAIN table
      /\ \A k \in DOMAIN table : table'[k].seen = (table[k].seen \/ k \in page[r])
  BY MarkSeenLemma DEF MarkPage, IInv, TypeOK
<1>2. \A k \in DOMAIN table : table[k].seen \in BOOLEAN
  BY DEF IInv, TypeOK, IsTable, Row
<1>3. Seen' = Seen \cup (page[r] \cap DOMAIN table)
  BY <1>1, <1>2 DEF Seen
<1>4. marked[r] = {}
  BY DEF MarkPage, IInv
<1>5. /\ marked'[r] = page[r] \cap DOMAIN table
      /\ \A s \in Reader \ {r} : marked'[s] = marked[s]
  BY DEF MarkPage, IInv, TypeOK
<1>6. Carried' = Carried \cup (page[r] \cap DOMAIN table)
  BY <1>4, <1>5 DEF Carried
<1>7. QED
  BY <1>1, <1>3, <1>6 DEF MarkPage, historyVars

LEMMA MarkPageInv ==
    ASSUME IInv, NEW r \in Reader, MarkPage(r)
    PROVE  IInv'
<1>1. TypeOK'
  BY MarkPageFacts DEF IInv, TypeOK, MarkPage, historyVars, logoutVars
<1>2. (Seen = handed \cup dropped \cup Carried)'
  BY MarkPageFacts DEF IInv
<1>3. (\A s \in Reader : pc[s] \in {"idle", "listed"} => marked[s] = {})'
  BY DEF IInv, TypeOK, MarkPage
<1>4. PurgeHonoured'
  BY MarkPageFacts DEF IInv, PurgeHonoured, MarkPage, logoutVars
<1>5. QED
  BY <1>1, <1>2, <1>3, <1>4, MarkPageFacts DEF IInv

(* What reads that end have marked is no longer carried. *)
LEMMA EndReadsLemma ==
    ASSUME IInv, NEW S \in SUBSET Reader, EndReads(S)
    PROVE  /\ pc' \in [Reader -> {"idle", "listed", "marked", "answering"}]
           /\ args' \in [Reader -> Args]
           /\ page' \in [Reader -> SUBSET Key]
           /\ marked' \in [Reader -> SUBSET Key]
           /\ sent' \in [Reader -> SUBSET Key]
           /\ Carried = Carried' \cup UNION {marked[r] : r \in S}
           /\ \A r \in Reader : pc'[r] \in {"idle", "listed"} => marked'[r] = {}
<1>1. NoArgs \in Args
  BY DEF NoArgs, Args
<1>2. \A r \in Reader : marked'[r] = IF r \in S THEN {} ELSE marked[r]
  BY DEF EndReads
<1>3. Carried = Carried' \cup UNION {marked[r] : r \in S}
  BY <1>2 DEF Carried
<1>4. \A r \in Reader : pc'[r] \in {"idle", "listed"} => marked'[r] = {}
  BY <1>2 DEF EndReads, IInv
<1>5. QED
  BY <1>1, <1>3, <1>4 DEF EndReads, IInv, TypeOK

(* The end of a read moves what it carried to handed or to dropped. *)
LEMMA EndReadFacts ==
    ASSUME IInv, NEW r \in Reader, Answer(r) \/ AnswerLost(r)
    PROVE  /\ EndReads({r})
           /\ table' = table
           /\ Carried = Carried' \cup marked[r]
           /\ \/ handed' = handed \cup marked[r] /\ dropped' = dropped
              \/ handed' = handed /\ dropped' = dropped \cup marked[r]
<1>1. EndReads({r})
  BY DEF Answer, AnswerLost
<1>2. UNION {marked[s] : s \in {r}} = marked[r]
  OBVIOUS
<1>3. Carried = Carried' \cup marked[r]
  BY <1>1, <1>2, EndReadsLemma
<1>4. QED
  BY <1>1, <1>3 DEF Answer, AnswerLost

LEMMA EndReadInv ==
    ASSUME IInv, NEW r \in Reader, Answer(r) \/ AnswerLost(r)
    PROVE  IInv'
<1>1. TypeOK'
  <2>1. faults' \in 0..MaxFaults
    BY FaultType DEF IInv, TypeOK, Answer, AnswerLost
  <2>2. IsTable(table')
    BY EndReadFacts DEF IInv, TypeOK
  <2>3. handed' \subseteq Key /\ dropped' \subseteq Key
    <3>1. marked[r] \subseteq Key /\ handed \subseteq Key /\ dropped \subseteq Key
      BY DEF IInv, TypeOK
    <3>2. QED
      BY <3>1, EndReadFacts
  <2>4. QED
    BY <2>1, <2>2, <2>3, EndReadFacts, EndReadsLemma
       DEF IInv, TypeOK, Answer, AnswerLost, logoutVars
<1>2. (Seen = handed \cup dropped \cup Carried)'
  <2>1. Seen' = Seen
    BY EndReadFacts DEF Seen
  <2>2. QED
    BY <2>1, EndReadFacts DEF IInv
<1>3. (\A s \in Reader : pc[s] \in {"idle", "listed"} => marked[s] = {})'
  BY EndReadFacts, EndReadsLemma
<1>4. PurgeHonoured'
  BY EndReadFacts DEF IInv, PurgeHonoured, Answer, AnswerLost, logoutVars
<1>5. QED
  BY <1>1, <1>2, <1>3, <1>4, EndReadFacts DEF IInv

LEMMA LogoutInv ==
    ASSUME IInv, StartLogout \/ Unlink \/ ClearFails \/ AnswerLogout
    PROVE  IInv'
<1>1. table' = table /\ UNCHANGED <<requestVars, historyVars>>
  BY DEF StartLogout, Unlink, ClearFails, AnswerLogout
<1> DEFINE LogoutType == [pc : {"none", "unlinking", "clearing", "answering"},
                          purge : BOOLEAN, unlinked : BOOLEAN, failed : BOOLEAN]
<1>2. /\ logout' \in LogoutType
      /\ (logout'.pc = "answering" /\ logout'.purge) => logout'.failed
  <2>1. logout \in LogoutType
    BY DEF IInv, TypeOK
  <2>2. CASE StartLogout
    <3>1. PICK purge \in BOOLEAN :
              logout' = [NoLogout EXCEPT !.pc = "unlinking", !.purge = purge]
      BY <2>2 DEF StartLogout
    <3>2. logout' = [pc |-> "unlinking", purge |-> purge,
                     unlinked |-> FALSE, failed |-> FALSE]
      BY <3>1 DEF NoLogout
    <3>3. QED
      BY <3>2
  <2>3. CASE Unlink
    <3>1. PICK done \in BOOLEAN :
              logout' = [logout EXCEPT
                            !.unlinked = done,
                            !.pc = IF logout.purge THEN "clearing" ELSE "answering"]
      BY <2>3 DEF Unlink
    <3>2. logout' = [pc |-> IF logout.purge THEN "clearing" ELSE "answering",
                     purge |-> logout.purge, unlinked |-> done,
                     failed |-> logout.failed]
      BY <2>1, <3>1
    <3>3. CASE logout.purge
      BY <2>1, <3>2, <3>3
    <3>4. CASE ~logout.purge
      BY <2>1, <3>2, <3>4
    <3>5. QED
      BY <3>3, <3>4
  <2>4. CASE ClearFails
    <3>1. logout' = [pc |-> "answering", purge |-> logout.purge,
                     unlinked |-> logout.unlinked, failed |-> TRUE]
      BY <2>1, <2>4 DEF ClearFails
    <3>2. QED
      BY <2>1, <3>1
  <2>5. CASE AnswerLogout
    BY <2>5 DEF AnswerLogout, NoLogout
  <2>6. QED
    BY <2>2, <2>3, <2>4, <2>5
<1>3. TypeOK'
  <2>1. faults' \in 0..MaxFaults
    BY FaultType DEF IInv, TypeOK, StartLogout, Unlink, ClearFails, AnswerLogout
  <2>2. IsTable(table')
    BY <1>1 DEF IInv, TypeOK
  <2>3. logout' \in LogoutType
    BY <1>2
  <2>4. fresh' \subseteq Key /\ up' = up
    BY DEF IInv, TypeOK, StartLogout, Unlink, ClearFails, AnswerLogout
  <2>5. QED
    BY <1>1, <2>1, <2>2, <2>3, <2>4 DEF IInv, TypeOK, requestVars, historyVars
<1>4. PurgeHonoured'
  BY <1>2 DEF PurgeHonoured
<1>5. (Seen = handed \cup dropped \cup Carried)'
  BY <1>1 DEF IInv, Seen, Carried, requestVars, historyVars
<1>6. QED
  BY <1>1, <1>3, <1>4, <1>5 DEF IInv, requestVars

LEMMA ClearTableInv ==
    ASSUME IInv, ClearTable
    PROVE  IInv'
<1>1. /\ IsTable(table')
      /\ RowidsAreRanks(table')
      /\ DOMAIN table' = {}
  BY EmptyTableLemma DEF ClearTable, Clear
<1>2. TypeOK'
  BY <1>1 DEF IInv, TypeOK, ClearTable
<1>3. (Seen = handed \cup dropped \cup Carried)'
  BY <1>1 DEF Seen, Carried, ClearTable
<1>4. PurgeHonoured'
  BY <1>1 DEF PurgeHonoured
<1>5. (\A r \in Reader : pc[r] \in {"idle", "listed"} => marked[r] = {})'
  BY DEF ClearTable
<1>6. QED
  BY <1>1, <1>2, <1>3, <1>4, <1>5 DEF IInv

LEMMA CrashInv ==
    ASSUME IInv, Crash
    PROVE  IInv'
<1>1. PICK S \in SUBSET Reader, last \in BOOLEAN :
          /\ up' = ~last
          /\ dropped' = dropped \cup UNION {marked[r] : r \in S}
          /\ EndReads(S)
          /\ \/ logout' = NoLogout /\ fresh' = {}
             \/ UNCHANGED logoutVars
  BY DEF Crash
<1>2. table' = table /\ handed' = handed /\ faults' \in 0..MaxFaults
  BY FaultType DEF IInv, TypeOK, Crash
<1>3. TypeOK'
  <2>1. dropped' \subseteq Key
    BY <1>1 DEF IInv, TypeOK
  <2>2. IsTable(table')
    BY <1>2 DEF IInv, TypeOK
  <2>3. /\ logout' \in [pc : {"none", "unlinking", "clearing", "answering"},
                        purge : BOOLEAN, unlinked : BOOLEAN, failed : BOOLEAN]
        /\ fresh' \subseteq Key
    <3>1. CASE logout' = NoLogout /\ fresh' = {}
      BY <3>1 DEF NoLogout
    <3>2. CASE UNCHANGED logoutVars
      BY <3>2 DEF IInv, TypeOK, logoutVars
    <3>3. QED
      BY <1>1, <3>1, <3>2
  <2>4. QED
    BY <1>1, <1>2, <2>1, <2>2, <2>3, EndReadsLemma DEF IInv, TypeOK
<1>4. (Seen = handed \cup dropped \cup Carried)'
  <2>1. Carried = Carried' \cup UNION {marked[r] : r \in S}
    BY <1>1, EndReadsLemma
  <2>2. Seen' = Seen
    BY <1>2 DEF Seen
  <2>3. QED
    BY <1>1, <1>2, <2>1, <2>2 DEF IInv
<1>5. PurgeHonoured'
  BY <1>1, <1>2 DEF IInv, NoLogout, PurgeHonoured, logoutVars
<1>6. (\A r \in Reader : pc[r] \in {"idle", "listed"} => marked[r] = {})'
  BY <1>1, EndReadsLemma
<1>7. QED
  BY <1>2, <1>3, <1>4, <1>5, <1>6 DEF IInv

LEMMA StutterInv == ASSUME IInv, UNCHANGED vars PROVE IInv'
BY DEF vars, requestVars, historyVars, logoutVars, IInv, TypeOK, Seen, Carried,
       PurgeHonoured

(* IInv is inductive. *)
LEMMA StepInv == IInv /\ [Next]_vars => IInv'
BY ReceiveInv, QuietRequestInv, MarkPageInv, EndReadInv, LogoutInv, ClearTableInv,
   CrashInv, StutterInv DEF Next, HandlerStep, LogoutStep

(* The invariant holds in every reachable state. *)
THEOREM InboxInvariant == Spec => []IInv
BY InitInv, StepInv, PTL DEF Spec

(* The variables of Inbox, and its table in particular, keep their types.   *)
THEOREM InboxTypeOK == Spec => []TypeOK
<1>1. IInv => TypeOK
  BY DEF IInv
<1>2. QED
  BY <1>1, InboxInvariant, PTL

(* No row is marked seen unless a read carried it: running, answered or     *)
(* lost.                                                                    *)
THEOREM InboxConsumedIsAccounted == Spec => []ConsumedIsAccounted
<1>1. IInv => ConsumedIsAccounted
  BY DEF IInv, ConsumedIsAccounted
<1>2. QED
  BY <1>1, InboxInvariant, PTL

(* A message that a read marked and returned never becomes unread again.    *)
THEOREM InboxHandedStaysRead == Spec => []HandedStaysRead
<1>1. IInv => HandedStaysRead
  BY DEF IInv, HandedStaysRead, Seen, Unread
<1>2. QED
  BY <1>1, InboxInvariant, PTL

(* A purge that reports anything but a failed DELETE left nothing behind.   *)
THEOREM InboxPurgeHonoured == Spec => []PurgeHonoured
<1>1. IInv => PurgeHonoured
  BY DEF IInv
<1>2. QED
  BY <1>1, InboxInvariant, PTL

-----------------------------------------------------------------------------
(* Read receipts.                                                           *)

(* The messages of a group all have the sender of the inbound one it was    *)
(* formed for.                                                              *)
LEMMA SendReceiptsInv ==
    ASSUME TypeOK, ReceiptInv, NEW r \in Reader, SendReceipts(r)
    PROVE  ReceiptInv'
<1>1. PICK done \in SUBSET ReceiptGroups(r) :
          /\ args[r].markRead \/ done = {}
          /\ sent' = [sent EXCEPT ![r] = {k \in page[r] : Group(k) \in done}]
  BY DEF SendReceipts
<1>2. /\ sent'[r] = {k \in page[r] : Group(k) \in done}
      /\ \A s \in Reader \ {r} : sent'[s] = sent[s]
  BY <1>1 DEF TypeOK
<1>3. ASSUME NEW k \in sent'[r]
      PROVE  Inbound(k) /\ args[r].markRead /\ k \in page[r]
  <2>1. k \in page[r] /\ Group(k) \in ReceiptGroups(r) /\ args[r].markRead
    BY <1>1, <1>2
  <2>2. PICK j \in page[r] : Inbound(j) /\ Group(k) = Group(j)
    BY <2>1 DEF ReceiptGroups
  <2>3. SenderOf[k] = SenderOf[j]
    BY <2>2 DEF Group
  <2>4. QED
    BY <2>1, <2>2, <2>3 DEF Inbound
<1>4. UNCHANGED <<args, page>> /\ pc' = [pc EXCEPT ![r] = "answering"]
  BY DEF SendReceipts
<1>5. QED
  BY <1>2, <1>3, <1>4 DEF ReceiptInv, ReceiptsOnRequest, TypeOK

(* A read that is starting or ending has no receipts. *)
LEMMA ReadBoundsReceipts ==
    ASSUME TypeOK, ReceiptInv, NEW r \in Reader,
           (\E a \in Requests : StartRead(r, a)) \/ Answer(r) \/ AnswerLost(r)
    PROVE  ReceiptInv'
<1>1. /\ sent'[r] = {}
      /\ \A s \in Reader \ {r} : /\ sent'[s] = sent[s] /\ args'[s] = args[s]
                                 /\ page'[s] = page[s] /\ pc'[s] = pc[s]
  BY DEF TypeOK, ReceiptInv, StartRead, Answer, AnswerLost, EndReads
<1>2. QED
  BY <1>1 DEF ReceiptInv, ReceiptsOnRequest

(* Steps before the receipts. *)
LEMMA MarkingKeepsReceipts ==
    ASSUME TypeOK, ReceiptInv, NEW r \in Reader,
           MarkPage(r) \/ SkipMarking(r) \/ MarkingFails(r)
    PROVE  ReceiptInv'
<1>1. /\ UNCHANGED <<args, page, sent>>
      /\ pc[r] = "listed" /\ pc' = [pc EXCEPT ![r] = "marked"]
  BY DEF MarkPage, SkipMarking, MarkingFails
<1>2. QED
  BY <1>1 DEF TypeOK, ReceiptInv, ReceiptsOnRequest

LEMMA ReceiptStep == TypeOK /\ ReceiptInv /\ [Next]_vars => ReceiptInv'
<1> SUFFICES ASSUME TypeOK, ReceiptInv, [Next]_vars PROVE ReceiptInv'
  OBVIOUS
<1>1. ASSUME UNCHANGED <<pc, args, page, sent>> PROVE ReceiptInv'
  BY <1>1 DEF ReceiptInv, ReceiptsOnRequest
<1>2. CASE \/ \E k \in Key, ts \in Time : Receive(k, ts)
           \/ ReceiveFails \/ ListFails \/ StartLogout \/ LogoutStep \/ Restart
           \/ UNCHANGED vars
  BY <1>1, <1>2 DEF Receive, ReceiveFails, ListFails, StartLogout, LogoutStep, Unlink,
     ClearTable, ClearFails, AnswerLogout, Restart, vars, requestVars
<1>3. CASE Crash
  <2>1. PICK S \in SUBSET Reader : EndReads(S)
    BY <1>3 DEF Crash
  <2>2. QED
    BY <2>1 DEF EndReads, ReceiptInv, ReceiptsOnRequest
<1>4. CASE \E r \in Reader, a \in Requests : StartRead(r, a)
  BY <1>4, ReadBoundsReceipts
<1>5. CASE \E r \in Reader : HandlerStep(r)
  BY <1>5, SendReceiptsInv, ReadBoundsReceipts, MarkingKeepsReceipts DEF HandlerStep
<1>6. QED
  BY <1>2, <1>3, <1>4, <1>5 DEF Next

(* Receipts are only sent for inbound rows that a --mark-read request is    *)
(* returning (daemon.go: messages, sendReadReceipts).                       *)
THEOREM InboxReceiptsOnRequest == Spec => []ReceiptsOnRequest
<1>1. Init => ReceiptInv
  BY DEF Init, ReceiptInv, ReceiptsOnRequest
<1>2. TypeOK /\ ReceiptInv /\ [Next]_vars => ReceiptInv'
  BY ReceiptStep
<1>3. ReceiptInv => ReceiptsOnRequest
  BY DEF ReceiptInv
<1>4. QED
  BY InboxTypeOK, <1>1, <1>2, <1>3, PTL DEF Spec

-----------------------------------------------------------------------------
(* The refinement of UnreadLog.                                             *)

LEMMA UnreadDef == IInv => /\ Unread(table) = Others(DOMAIN table \ Seen)
                           /\ Seen \subseteq DOMAIN table
                           /\ DOMAIN table \subseteq Key
BY DEF IInv, TypeOK, IsTable, Unread, Others, Seen

LEMMA InitImplementsInit == Init => Log!Init
<1> SUFFICES ASSUME Init PROVE Log!Init
  OBVIOUS
<1>1. DOMAIN table = {}
  BY EmptyTableLemma DEF Init
<1>2. Unread(table) = {}
  BY <1>1 DEF Unread
<1>3. LogTransit = {} /\ LogHanded = {} /\ LogDropped = {}
  BY DEF Init, LogTransit, LogHanded, LogDropped, Others, Carried
<1>4. QED
  BY <1>2, <1>3 DEF Log!Init

(* A message event is an arrival, unless the message is known or our own.   *)
LEMMA ReceiveImplements ==
    ASSUME IInv, IInv', NEW k \in Key, NEW ts \in Time, Receive(k, ts)
    PROVE  Log!Next \/ UNCHANGED Log!logVars
<1>1. /\ DOMAIN table' = DOMAIN table \cup {k}
      /\ \A j \in DOMAIN table : table'[j].seen <=> table[j].seen
      /\ k \notin DOMAIN table => ~table'[k].seen
  BY ReceiveTable
<1>2. Seen' = Seen
  BY <1>1 DEF Seen
<1>3. UNCHANGED <<LogTransit, LogHanded, LogDropped>>
  BY DEF Receive, requestVars, historyVars, LogTransit, LogHanded, LogDropped,
         Others, Carried
<1>4. Unread(table)' = Others((DOMAIN table \cup {k}) \ Seen)
  <2>1. Unread(table)' = Others(DOMAIN table' \ Seen')
    BY DEF Unread, Others, Seen
  <2>2. QED
    BY <1>1, <1>2, <2>1
<1>5. CASE k \in DOMAIN table \/ ~Inbound(k)
  <2>1. Unread(table)' = Unread(table)
    BY <1>4, <1>5, UnreadDef DEF Others
  <2>2. QED
    BY <1>3, <2>1 DEF Log!logVars
<1>6. CASE k \notin DOMAIN table /\ Inbound(k)
  <2>1. Unread(table)' = Unread(table) \cup {k}
    BY <1>4, <1>6, UnreadDef DEF Others
  <2>2. k \notin Seen /\ k \notin Unread(table)
    BY <1>6, UnreadDef DEF Others
  <2>3. k \notin Log!Known
    BY <2>2 DEF IInv, Log!Known, LogTransit, LogHanded, LogDropped, Others
  <2>4. k \in Others(Key)
    BY <1>6 DEF Others
  <2>5. Log!Arrive(k)
    BY <1>3, <2>1, <2>3 DEF Log!Arrive
  <2>6. QED
    BY <2>4, <2>5 DEF Log!Next
<1>7. QED
  BY <1>5, <1>6

LEMMA QuietImplements ==
    ASSUME table' = table, handed' = handed, dropped' = dropped, marked' = marked
    PROVE  UNCHANGED Log!logVars
BY DEF Log!logVars, LogTransit, LogHanded, LogDropped, Others, Carried, Unread

(* MarkSeen takes the unread rows of the page off the pile. *)
LEMMA MarkPageImplements ==
    ASSUME IInv, IInv', NEW r \in Reader, MarkPage(r)
    PROVE  Log!Next
<1> DEFINE S == page[r] \cap Unread(table)
<1>1. S \subseteq Others(Key)
  BY UnreadDef DEF Others
<1>2. Unread(table)' = Unread(table) \ S
  <2>1. Unread(table)' = Others(DOMAIN table' \ Seen')
    BY DEF Unread, Others, Seen
  <2>2. QED
    BY <2>1, MarkPageFacts, UnreadDef DEF Others
<1>3. LogTransit' = LogTransit \cup S
  BY MarkPageFacts, UnreadDef DEF IInv, LogTransit, Others
<1>4. UNCHANGED <<LogHanded, LogDropped>>
  BY MarkPageFacts DEF LogHanded, LogDropped, Others
<1>5. Log!Take(S)
  BY <1>2, <1>3, <1>4 DEF Log!Take
<1>6. QED
  BY <1>1, <1>5 DEF Log!Next

(* What is lost with an answer or a process is dropped, unless another read *)
(* handed it over.                                                          *)
LEMMA LossImplements ==
    ASSUME NEW M \in SUBSET Key, UNCHANGED <<table, handed>>,
           dropped' = dropped \cup M, Carried = Carried' \cup M
    PROVE  Log!Next
<1> DEFINE S == Others(M \ (handed \cup dropped))
<1>1. S \in SUBSET Others(Key)
  BY DEF Others
<1>2. S \subseteq LogTransit
  BY DEF LogTransit, Others
<1>3. LogHanded' = LogHanded /\ UNCHANGED Unread(table)
  BY DEF LogHanded, Unread
<1>4. LogTransit' = LogTransit \ S
  BY DEF LogTransit, Others
<1>5. LogDropped' = LogDropped \cup S
  BY DEF LogDropped, Others
<1>6. Log!Drop(S)
  BY <1>2, <1>3, <1>4, <1>5 DEF Log!Drop
<1>7. QED
  BY <1>1, <1>6 DEF Log!Next

(* An answer hands over what the read marked. *)
LEMMA EndReadImplements ==
    ASSUME IInv, IInv', NEW r \in Reader, Answer(r) \/ AnswerLost(r)
    PROVE  Log!Next
<1>1. marked[r] \in SUBSET Key
  BY DEF IInv, TypeOK
<1>2. UNCHANGED Unread(table)
  BY EndReadFacts DEF Unread
<1>3. CASE handed' = handed \cup marked[r] /\ dropped' = dropped
  <2> DEFINE S == Others(marked[r] \ handed)
  <2>1. S \in SUBSET Others(Key)
    BY <1>1 DEF Others
  <2>2. S \subseteq LogTransit \cup LogDropped
    BY EndReadFacts DEF LogTransit, LogDropped, Others
  <2>3. LogHanded' = LogHanded \cup S
    BY <1>3 DEF LogHanded, Others
  <2>4. LogTransit' = LogTransit \ S
    BY <1>3, EndReadFacts DEF LogTransit, Others
  <2>5. LogDropped' = LogDropped \ S
    BY <1>3 DEF LogDropped, Others
  <2>6. Log!Hand(S)
    BY <1>2, <2>2, <2>3, <2>4, <2>5 DEF Log!Hand
  <2>7. QED
    BY <2>1, <2>6 DEF Log!Next
<1>4. CASE handed' = handed /\ dropped' = dropped \cup marked[r]
  BY <1>1, <1>4, EndReadFacts, LossImplements
<1>5. QED
  BY <1>3, <1>4, EndReadFacts

LEMMA ClearTableImplements == ASSUME ClearTable PROVE Log!Next
<1>1. DOMAIN table' = {}
  BY EmptyTableLemma DEF ClearTable, Clear
<1>2. Unread(table)' = {}
  BY <1>1 DEF Unread
<1>3. LogTransit' = {} /\ LogHanded' = {} /\ LogDropped' = {}
  BY DEF ClearTable, LogTransit, LogHanded, LogDropped, Others, Carried
<1>4. QED
  BY <1>2, <1>3 DEF Log!Purge, Log!Next

(* The end of a process drops what its reads had in transit. *)
LEMMA CrashImplements == ASSUME IInv, Crash PROVE Log!Next
<1>1. PICK S \in SUBSET Reader :
          dropped' = dropped \cup UNION {marked[r] : r \in S} /\ EndReads(S)
  BY DEF Crash
<1> DEFINE M == UNION {marked[r] : r \in S}
<1>2. M \in SUBSET Key
  BY DEF IInv, TypeOK
<1>3. Carried = Carried' \cup M
  BY <1>1, EndReadsLemma
<1>4. UNCHANGED <<table, handed>> /\ dropped' = dropped \cup M
  BY <1>1 DEF Crash
<1>5. QED
  BY <1>2, <1>3, <1>4, LossImplements

LEMMA StepImplementsStep ==
    IInv /\ IInv' /\ [Next]_vars => [Log!Next]_(Log!logVars)
<1> SUFFICES ASSUME IInv, IInv', [Next]_vars
             PROVE  Log!Next \/ UNCHANGED Log!logVars
  OBVIOUS
<1>1. CASE \E k \in Key, ts \in Time : Receive(k, ts)
  BY <1>1, ReceiveImplements
<1>2. CASE \/ \E r \in Reader, a \in Requests : StartRead(r, a)
           \/ \E r \in Reader : SkipMarking(r) \/ MarkingFails(r) \/ SendReceipts(r)
           \/ ReceiveFails \/ ListFails \/ Restart
           \/ StartLogout \/ Unlink \/ ClearFails \/ AnswerLogout
           \/ UNCHANGED vars
  <2>1. table' = table /\ handed' = handed /\ dropped' = dropped /\ marked' = marked
    BY <1>2 DEF StartRead, SkipMarking, MarkingFails, SendReceipts, ReceiveFails,
       ListFails, Restart, StartLogout, Unlink, ClearFails, AnswerLogout,
       vars, requestVars, historyVars
  <2>2. QED
    BY <2>1, QuietImplements
<1>3. CASE \E r \in Reader : MarkPage(r)
  BY <1>3, MarkPageImplements
<1>4. CASE \E r \in Reader : Answer(r) \/ AnswerLost(r)
  BY <1>4, EndReadImplements
<1>5. CASE ClearTable
  BY <1>5, ClearTableImplements
<1>6. CASE Crash
  BY <1>6, CrashImplements
<1>7. QED
  BY <1>1, <1>2, <1>3, <1>4, <1>5, <1>6 DEF Next, HandlerStep, LogoutStep

(* The store and the handlers around it implement the unread log.           *)
THEOREM InboxRefinesUnreadLog == Spec => RefinesUnreadLog
BY InitImplementsInit, StepImplementsStep, InboxInvariant, PTL
   DEF Spec, RefinesUnreadLog, Log!Spec
=============================================================================
