-------------------------- MODULE LoginSessionProofs --------------------------
(***************************************************************************)
(* Proofs about LoginSession for any number of requests: each step keeps    *)
(* the guard exact and every open channel read.  Then those about a status  *)
(* request beside them (StatusReport).                                      *)
(***************************************************************************)
EXTENDS StatusReport, TLAPS

LEMMA InitInv == Init => IInv
BY LoginAssumption
   DEF Init, IInv, TypeOK, GuardIsExact, Holding, QrStages, LoginStages, ChannelIsRead

-----------------------------------------------------------------------------
(* The handlers.                                                            *)

LEMMA QrCheckUnlinkedInv ==
    ASSUME IInv, NEW r \in Request, QrCheckUnlinked(r) PROVE IInv'
<1> USE DEF IInv, TypeOK, QrCheckUnlinked, Goto, clientVars, channelVars
<1>1. TypeOK'
  BY DEF QrStages, LoginStages
<1>2. GuardIsExact'
  BY DEF GuardIsExact, Holding, QrStages
<1>3. ChannelIsRead'
  BY DEF ChannelIsRead
<1>4. QED
  BY <1>1, <1>2, <1>3

LEMMA QrCheckDisconnectedInv ==
    ASSUME IInv, NEW r \in Request, QrCheckDisconnected(r) PROVE IInv'
<1> USE DEF IInv, TypeOK, QrCheckDisconnected, Goto, clientVars, channelVars
<1>1. TypeOK'
  BY DEF QrStages, LoginStages
<1>2. GuardIsExact'
  BY DEF GuardIsExact, Holding, QrStages
<1>3. ChannelIsRead'
  BY DEF ChannelIsRead
<1>4. QED
  BY <1>1, <1>2, <1>3

LEMMA TakeGuardInv ==
    ASSUME IInv, NEW r \in Request, TakeGuard(r) PROVE IInv'
<1> USE DEF IInv, TypeOK, TakeGuard, Goto, clientVars, channelVars
<1>1. TypeOK'
  BY DEF QrStages, LoginStages
<1>2. GuardIsExact'
  BY DEF GuardIsExact, Holding, QrStages
<1>3. ChannelIsRead'
  BY DEF ChannelIsRead
<1>4. QED
  BY <1>1, <1>2, <1>3

LEMMA OpenChannelInv ==
    ASSUME IInv, NEW r \in Request, OpenChannel(r) PROVE IInv'
<1> USE DEF IInv, TypeOK, OpenChannel, Goto, clientVars
<1>1. TypeOK'
  BY DEF QrStages, LoginStages
<1>2. GuardIsExact'
  BY DEF GuardIsExact, Holding, QrStages
<1>3. ChannelIsRead'
  BY DEF ChannelIsRead
<1>4. QED
  BY <1>1, <1>2, <1>3

LEMMA OpenFailsInv ==
    ASSUME IInv, NEW r \in Request, OpenFails(r) PROVE IInv'
<1> USE DEF IInv, TypeOK, OpenFails, Goto, clientVars, channelVars
<1>1. TypeOK'
  BY DEF QrStages, LoginStages
<1>2. GuardIsExact'
  BY DEF GuardIsExact, Holding, QrStages
<1>3. ChannelIsRead'
  BY DEF ChannelIsRead
<1>4. QED
  BY <1>1, <1>2, <1>3

LEMMA QrConnectInv ==
    ASSUME IInv, NEW r \in Request, QrConnect(r) PROVE IInv'
<1> USE DEF IInv, TypeOK, QrConnect, Goto, Up, channelVars
<1>1. TypeOK'
  BY DEF QrStages, LoginStages
<1>2. GuardIsExact'
  BY DEF GuardIsExact, Holding, QrStages
<1>3. ChannelIsRead'
  BY DEF ChannelIsRead
<1>4. QED
  BY <1>1, <1>2, <1>3

LEMMA QrConnectFailsInv ==
    ASSUME IInv, NEW r \in Request, QrConnectFails(r) PROVE IInv'
<1> USE DEF IInv, TypeOK, QrConnectFails, Goto, clientVars, channelVars
<1>1. TypeOK'
  BY DEF QrStages, LoginStages
<1>2. GuardIsExact'
  BY DEF GuardIsExact, Holding, QrStages
<1>3. ChannelIsRead'
  BY DEF ChannelIsRead
<1>4. QED
  BY <1>1, <1>2, <1>3

LEMMA AnswerCodeInv ==
    ASSUME IInv, NEW r \in Request, AnswerCode(r) PROVE IInv'
<1> USE DEF IInv, TypeOK, AnswerCode, Goto, clientVars, channelVars
<1>1. TypeOK'
  BY DEF QrStages, LoginStages
<1>2. GuardIsExact'
  BY DEF GuardIsExact, Holding, QrStages
<1>3. ChannelIsRead'
  BY DEF ChannelIsRead
<1>4. QED
  BY <1>1, <1>2, <1>3

LEMMA GiveUpInv ==
    ASSUME IInv, NEW r \in Request, GiveUp(r) PROVE IInv'
<1> USE DEF IInv, TypeOK, GiveUp, Goto, clientVars, channelVars
<1>1. TypeOK'
  BY DEF QrStages, LoginStages
<1>2. GuardIsExact'
  BY DEF GuardIsExact, Holding, QrStages
<1>3. ChannelIsRead'
  BY DEF ChannelIsRead
<1>4. QED
  BY <1>1, <1>2, <1>3

LEMMA AbortInv ==
    ASSUME IInv, NEW r \in Request, Abort(r) PROVE IInv'
<1> USE DEF IInv, TypeOK, Abort, Goto, Down
<1>1. TypeOK'
  BY DEF QrStages, LoginStages
<1>2. GuardIsExact'
  BY DEF GuardIsExact, Holding, QrStages
<1>3. ChannelIsRead'
  BY DEF ChannelIsRead
<1>4. QED
  BY <1>1, <1>2, <1>3

LEMMA AbortReleasesInv ==
    ASSUME IInv, NEW r \in Request, AbortReleases(r) PROVE IInv'
<1> USE DEF IInv, TypeOK, AbortReleases, Goto, Forget, clientVars
<1>1. TypeOK'
  BY DEF QrStages, LoginStages
<1>2. GuardIsExact'
  BY DEF GuardIsExact, Holding, QrStages
<1>3. ChannelIsRead'
  BY DEF ChannelIsRead
<1>4. QED
  BY <1>1, <1>2, <1>3

LEMMA DrainEndsInv ==
    ASSUME IInv, NEW r \in Request, DrainEnds(r) PROVE IInv'
<1> USE DEF IInv, TypeOK, DrainEnds, Goto, Forget, clientVars
<1>1. TypeOK'
  BY DEF QrStages, LoginStages
<1>2. GuardIsExact'
  BY DEF GuardIsExact, Holding, QrStages
<1>3. ChannelIsRead'
  BY DEF ChannelIsRead
<1>4. QED
  BY <1>1, <1>2, <1>3

LEMMA LoginCheckUnlinkedInv ==
    ASSUME IInv, NEW r \in Request, LoginCheckUnlinked(r) PROVE IInv'
<1> USE DEF IInv, TypeOK, LoginCheckUnlinked, Goto, clientVars, channelVars
<1>1. TypeOK'
  BY DEF QrStages, LoginStages
<1>2. GuardIsExact'
  BY DEF GuardIsExact, Holding, QrStages
<1>3. ChannelIsRead'
  BY DEF ChannelIsRead
<1>4. QED
  BY <1>1, <1>2, <1>3

LEMMA LoginCheckConnectedInv ==
    ASSUME IInv, NEW r \in Request, LoginCheckConnected(r) PROVE IInv'
<1> USE DEF IInv, TypeOK, LoginCheckConnected, Goto, clientVars, channelVars
<1>1. TypeOK'
  BY DEF QrStages, LoginStages
<1>2. GuardIsExact'
  BY DEF GuardIsExact, Holding, QrStages
<1>3. ChannelIsRead'
  BY DEF ChannelIsRead
<1>4. QED
  BY <1>1, <1>2, <1>3

LEMMA LoginConnectInv ==
    ASSUME IInv, NEW r \in Request, LoginConnect(r) PROVE IInv'
<1> USE DEF IInv, TypeOK, LoginConnect, Goto, Up, channelVars
<1>1. TypeOK'
  BY DEF QrStages, LoginStages
<1>2. GuardIsExact'
  BY DEF GuardIsExact, Holding, QrStages
<1>3. ChannelIsRead'
  BY DEF ChannelIsRead
<1>4. QED
  BY <1>1, <1>2, <1>3

LEMMA LoginConnectFailsInv ==
    ASSUME IInv, NEW r \in Request, LoginConnectFails(r) PROVE IInv'
<1> USE DEF IInv, TypeOK, LoginConnectFails, Goto, clientVars, channelVars
<1>1. TypeOK'
  BY DEF QrStages, LoginStages
<1>2. GuardIsExact'
  BY DEF GuardIsExact, Holding, QrStages
<1>3. ChannelIsRead'
  BY DEF ChannelIsRead
<1>4. QED
  BY <1>1, <1>2, <1>3

LEMMA PairPhoneInv ==
    ASSUME IInv, NEW r \in Request, PairPhone(r) PROVE IInv'
<1> USE DEF IInv, TypeOK, PairPhone, Goto, clientVars, channelVars
<1>1. TypeOK'
  BY DEF QrStages, LoginStages
<1>2. GuardIsExact'
  BY DEF GuardIsExact, Holding, QrStages
<1>3. ChannelIsRead'
  BY DEF ChannelIsRead
<1>4. QED
  BY <1>1, <1>2, <1>3

LEMMA PairPhoneFailsInv ==
    ASSUME IInv, NEW r \in Request, PairPhoneFails(r) PROVE IInv'
<1> USE DEF IInv, TypeOK, PairPhoneFails, Goto, clientVars, channelVars
<1>1. TypeOK'
  BY DEF QrStages, LoginStages
<1>2. GuardIsExact'
  BY DEF GuardIsExact, Holding, QrStages
<1>3. ChannelIsRead'
  BY DEF ChannelIsRead
<1>4. QED
  BY <1>1, <1>2, <1>3

LEMMA PairingCodeExpiresInv ==
    ASSUME IInv, NEW r \in Request, PairingCodeExpires(r) PROVE IInv'
<1> USE DEF IInv, TypeOK, PairingCodeExpires, Goto, clientVars, channelVars
<1>1. TypeOK'
  BY DEF QrStages, LoginStages
<1>2. GuardIsExact'
  BY DEF GuardIsExact, Holding, QrStages
<1>3. ChannelIsRead'
  BY DEF ChannelIsRead
<1>4. QED
  BY <1>1, <1>2, <1>3

-----------------------------------------------------------------------------
(* whatsmeow and the phone.                                                 *)

LEMMA EmitCodeInv ==
    ASSUME IInv, NEW r \in Request, EmitCode(r) PROVE IInv'
<1> USE DEF IInv, TypeOK, EmitCode, clientVars
<1>1. TypeOK'
  BY DEF QrStages, LoginStages
<1>2. GuardIsExact'
  BY DEF GuardIsExact, Holding, QrStages
<1>3. ChannelIsRead'
  BY DEF ChannelIsRead
<1>4. QED
  BY <1>1, <1>2, <1>3

LEMMA CodesExpireInv ==
    ASSUME IInv, NEW r \in Request, CodesExpire(r) PROVE IInv'
<1> USE DEF IInv, TypeOK, CodesExpire, Down
<1>1. TypeOK'
  BY DEF QrStages, LoginStages
<1>2. GuardIsExact'
  BY DEF GuardIsExact, Holding, QrStages
<1>3. ChannelIsRead'
  BY DEF ChannelIsRead
<1>4. QED
  BY <1>1, <1>2, <1>3

LEMMA LogoutInv ==
    ASSUME IInv, Logout PROVE IInv'
<1> USE DEF IInv, TypeOK, Logout, Down, channelVars
<1>1. TypeOK'
  BY DEF QrStages, LoginStages
<1>2. GuardIsExact'
  BY DEF GuardIsExact, Holding, QrStages
<1>3. ChannelIsRead'
  BY DEF ChannelIsRead
<1>4. QED
  BY <1>1, <1>2, <1>3

LEMMA LogoutForgetsInv ==
    ASSUME IInv, LogoutForgets PROVE IInv'
<1> USE DEF IInv, TypeOK, LogoutForgets, channelVars
<1>1. TypeOK'
  BY DEF QrStages, LoginStages
<1>2. GuardIsExact'
  BY DEF GuardIsExact, Holding, QrStages
<1>3. ChannelIsRead'
  BY DEF ChannelIsRead
<1>4. QED
  BY <1>1, <1>2, <1>3

LEMMA PairSuccessInv ==
    ASSUME IInv, PairSuccess PROVE IInv'
<1> USE DEF IInv, TypeOK, PairSuccess, Ended
<1>1. TypeOK'
  BY DEF QrStages, LoginStages
<1>2. GuardIsExact'
  BY DEF GuardIsExact, Holding, QrStages
<1>3. ChannelIsRead'
  BY DEF ChannelIsRead
<1>4. QED
  BY <1>1, <1>2, <1>3

LEMMA ConnectionLostInv ==
    ASSUME IInv, ConnectionLost PROVE IInv'
<1> USE DEF IInv, TypeOK, ConnectionLost, Down, Ended
<1>1. TypeOK'
  BY DEF QrStages, LoginStages
<1>2. GuardIsExact'
  BY DEF GuardIsExact, Holding, QrStages
<1>3. ChannelIsRead'
  BY DEF ChannelIsRead
<1>4. QED
  BY <1>1, <1>2, <1>3

LEMMA ReconnectInv ==
    ASSUME IInv, Reconnect PROVE IInv'
<1> USE DEF IInv, TypeOK, Reconnect, Up, channelVars
<1>1. TypeOK'
  BY DEF QrStages, LoginStages
<1>2. GuardIsExact'
  BY DEF GuardIsExact, Holding, QrStages
<1>3. ChannelIsRead'
  BY DEF ChannelIsRead
<1>4. QED
  BY <1>1, <1>2, <1>3

LEMMA StutterInv == ASSUME IInv, UNCHANGED vars PROVE IInv'
BY DEF vars, clientVars, channelVars, IInv, TypeOK, GuardIsExact, Holding, ChannelIsRead

LEMMA StepInv == IInv /\ [Next]_vars => IInv'
BY QrCheckUnlinkedInv, QrCheckDisconnectedInv, TakeGuardInv, OpenChannelInv,
   OpenFailsInv, QrConnectInv, QrConnectFailsInv, AnswerCodeInv, GiveUpInv,
   AbortInv, AbortReleasesInv, DrainEndsInv, LoginCheckUnlinkedInv,
   LoginCheckConnectedInv, LoginConnectInv, LoginConnectFailsInv, PairPhoneInv,
   PairPhoneFailsInv, PairingCodeExpiresInv, EmitCodeInv, CodesExpireInv,
   LogoutInv, LogoutForgetsInv, PairSuccessInv, ConnectionLostInv, ReconnectInv, StutterInv
   DEF Next, QrStep, QrLocalStep, LoginStep

(* The invariant holds in every reachable state. *)
THEOREM LoginSessionInvariant == Spec => []IInv
BY InitInv, StepInv, PTL DEF Spec

(* The variables keep their types. *)
THEOREM LoginSessionTypeOK == Spec => []TypeOK
<1>1. IInv => TypeOK
  BY DEF IInv
<1>2. QED
  BY <1>1, LoginSessionInvariant, PTL

(* At most one QR session exists, and the guard says whether one does. *)
THEOREM LoginSessionGuardIsExact == Spec => []GuardIsExact
<1>1. IInv => GuardIsExact
  BY DEF IInv
<1>2. QED
  BY <1>1, LoginSessionInvariant, PTL

(* No open channel is left without a reader. *)
THEOREM LoginSessionChannelIsRead == Spec => []ChannelIsRead
<1>1. IInv => ChannelIsRead
  BY DEF IInv
<1>2. QED
  BY <1>1, LoginSessionInvariant, PTL
-----------------------------------------------------------------------------
(* A status request.                                                        *)

(* It changes nothing that the others see. *)
THEOREM StatusImplementsLogin == StatusSpec => Spec
<1>1. StatusInit => Init
  BY DEF StatusInit
<1>2. [StatusNext]_<<vars, statusVars>> => [Next]_vars
  BY DEF StatusNext, ReadOwnID, ReadConnected
<1>3. QED
  BY <1>1, <1>2, PTL DEF StatusSpec, Spec

(* But for the end of a logout, which began with one, the pairing changes   *)
(* over a connection only, and not while one is made.                       *)
LEMMA PairingNeedsConnection ==
    TypeOK /\ Next /\ ~conn /\ ~leaving => paired' = paired /\ leaving' = leaving
BY DEF Next, QrCheckUnlinked, QrStep, QrLocalStep, QrCheckDisconnected, TakeGuard, OpenChannel, OpenFails,
       QrConnect, QrConnectFails, AnswerCode, GiveUp, Abort, AbortReleases, DrainEnds,
       LoginCheckUnlinked, LoginStep, LoginCheckConnected, LoginConnect, LoginConnectFails,
       PairPhone, PairPhoneFails, PairingCodeExpires, EmitCode, CodesExpire, Logout, LogoutForgets,
       PairSuccess, ConnectionLost, Reconnect, clientVars

LEMMA StatusInitInv == StatusInit => StatusTypeOK /\ StatusInv
<1>1. StatusInit => TypeOK
  BY InitInv DEF StatusInit, IInv
<1>2. QED
  BY <1>1 DEF StatusInit, StatusTypeOK, StatusInv

LEMMA StatusStepInv ==
    IInv /\ StatusTypeOK /\ StatusInv /\ [StatusNext]_<<vars, statusVars>>
        => StatusTypeOK' /\ StatusInv'
<1> SUFFICES ASSUME IInv, StatusTypeOK, StatusInv, [StatusNext]_<<vars, statusVars>>
             PROVE  StatusTypeOK' /\ StatusInv'
  OBVIOUS
<1> USE DEF StatusTypeOK, StatusInv, Matches
<1>1. CASE Next /\ UNCHANGED <<probe, torn>> /\ held' = (held \/ Matches')
  <2>1. TypeOK'
    BY <1>1, StepInv DEF IInv
  <2>2. ~conn /\ ~leaving => paired' = paired /\ leaving' = leaving
    BY <1>1, PairingNeedsConnection DEF IInv
  <2>3. conn \in BOOLEAN /\ conn' \in BOOLEAN /\ paired \in BOOLEAN /\ paired' \in BOOLEAN
        /\ leaving \in BOOLEAN /\ leaving' \in BOOLEAN /\ held \in BOOLEAN /\ torn \in BOOLEAN
    BY <2>1 DEF TypeOK
  <2>4. QED
    BY <1>1, <2>1, <2>2, <2>3
<1>2. CASE ReadOwnID
  BY <1>2 DEF ReadOwnID, vars, clientVars, channelVars, TypeOK
<1>3. CASE ReadConnected
  BY <1>3 DEF ReadConnected, vars, clientVars, channelVars, TypeOK
<1>4. CASE UNCHANGED <<vars, statusVars>>
  BY <1>4 DEF vars, statusVars, clientVars, channelVars, TypeOK
<1>5. QED
  BY <1>1, <1>2, <1>3, <1>4 DEF StatusNext

THEOREM StatusInvariant == StatusSpec => [](StatusTypeOK /\ StatusInv)
BY StatusInitInv, StatusStepInv, StatusImplementsLogin, LoginSessionInvariant, PTL DEF StatusSpec

(* The variables of a status request keep their types, like the others'.    *)
THEOREM StatusReportTypeOK == StatusSpec => []StatusTypeOK
BY StatusInvariant, PTL

(* A status that says "connected" describes a moment of its request,        *)
(* whatever logins, logouts and reconnections come between its reads, if it *)
(* did not read the pairing in the middle of a logout.                      *)
THEOREM StatusReportConnectedHeld == StatusSpec => []ConnectedStatusHeld
<1>1. StatusTypeOK /\ StatusInv => ConnectedStatusHeld
  BY DEF StatusTypeOK, TypeOK, StatusInv, ConnectedStatusHeld
<1>2. QED
  BY <1>1, StatusInvariant, PTL
=============================================================================
