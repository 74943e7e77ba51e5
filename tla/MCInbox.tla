------------------------------- MODULE MCInbox -------------------------------
(***************************************************************************)
(* Inbox on two messages in two chats (Inbox.cfg) and on three messages of  *)
(* one group, one of them our own (InboxPolling.cfg).                       *)
(***************************************************************************)
EXTENDS Inbox

CONSTANTS alice, bob, group, me, r1, r2

MCSender == {alice, bob, me}

\* alice and bob wrote in chats of their own.
MCChat == {alice, bob}
MCId == {1}
MCSenderOf == [k \in MCChat \X MCId |-> k[1]]

\* alice, bob and we ourselves wrote in a group.
MCGroup == {group}
MCGroupIds == 1..3
MCGroupSenderOf == [k \in MCGroup \X MCGroupIds |->
                       CASE k[2] = 1 -> alice [] k[2] = 2 -> bob [] OTHER -> me]

Call(chat, unread, all, limit, markRead) ==
    [chat |-> chat, unread |-> unread, all |-> all, since |-> 0,
     limit |-> limit, markRead |-> markRead]

\* wa messages --limit 1
\* wa messages --chat alice --mark-read
\* wa messages --all --mark-read
MCRequests == {Call(AnyChat, FALSE, FALSE, 1, FALSE),
               Call(alice, FALSE, FALSE, 0, TRUE),
               Call(AnyChat, FALSE, TRUE, 0, TRUE)}

\* wa messages --limit 1
\* wa messages --all --mark-read
MCPolls == {Call(AnyChat, FALSE, FALSE, 1, FALSE),
            Call(AnyChat, FALSE, TRUE, 0, TRUE)}

MCTime == {1}
ReaderSymmetry == Permutations(Reader)
=============================================================================
