---------------------------- MODULE MCMessageStore ----------------------------
(***************************************************************************)
(* MessageStore and Recipients on a person's chat and a group's, with two   *)
(* messages each, one of them our own.  The two JIDs differ in the server   *)
(* only.                                                                    *)
(***************************************************************************)
EXTENDS Recipients

CONSTANTS alice, bob, me, user, group

AliceChat == [user |-> <<1, 0>>, server |-> user]
GroupChat == [user |-> <<1, 0>>, server |-> group]

\* Ids are numbers so that the id order a wrong tie-break would use exists.
MCChat == {AliceChat, GroupChat}
MCId == 1..2
MCSender == {alice, bob, me}
MCSenderOf == [k \in MCChat \X MCId |->
                  CASE k[1] = AliceChat /\ k[2] = 1 -> alice
                    [] k[1] = AliceChat /\ k[2] = 2 -> me
                    [] OTHER -> bob]
MCTime == 1..2
MCLimits == {-1, 1, 2}
=============================================================================
