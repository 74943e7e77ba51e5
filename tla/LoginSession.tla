----------------------------- MODULE LoginSession -----------------------------
(***************************************************************************)
(* Linking an account: the `login' and `login-qr' handlers, the goroutine   *)
(* that drains a QR session (internal/daemon/daemon.go) and the one         *)
(* WhatsApp client they share (internal/wa/client.go).                      *)
(*                                                                         *)
(* A request is an invocation with what it leaves behind: the QR session it *)
(* started ("draining"), or the pairing code it returned, as long as that   *)
(* can be entered ("coded").  The handlers hold no lock from one client     *)
(* call to the next, only qrActive, so each client call is a step.          *)
(*                                                                         *)
(* whatsmeow itself is external.  As the handlers use it: Connect fails on  *)
(* a connected client, GetQRChannel on a connected or linked one; it emits  *)
(* codes while connected, ends a channel on success, on the last code's     *)
(* expiry (and then disconnects) or when its context is cancelled, but not  *)
(* on a Disconnect that was asked for; it reconnects a linked device; its   *)
(* Logout disconnects first and forgets the session afterwards.             *)
(***************************************************************************)
EXTENDS Naturals

CONSTANTS
    Request,   \* login and login-qr invocations, by identity
    None

ASSUME LoginAssumption == None \notin Request

VARIABLES
    conn,      \* the client's websocket is up
    opener,    \* history: whose Connect opened it, None if whatsmeow's own
    paired,    \* the device is linked
    leaving,   \* a logout has disconnected and not yet forgotten the session
    qrActive,  \* Daemon.qrActive
    pc,        \* per request, where it is
    chan,      \* per request, its QR channel (and the translator behind it)
    code       \* per request, whether its channel has had a code

clientVars == <<conn, opener, paired, leaving>>
channelVars == <<chan, code>>
vars == <<clientVars, qrActive, pc, channelVars>>

QrStages == {"unlinked", "free", "guarded", "opened", "waiting", "aborting",
             "dropping", "draining"}
LoginStages == {"login", "dialing", "pairing", "coded"}

TypeOK ==
    /\ conn \in BOOLEAN
    /\ opener \in Request \cup {None}
    /\ paired \in BOOLEAN
    /\ leaving \in BOOLEAN
    /\ qrActive \in BOOLEAN
    /\ pc \in [Request -> {"idle"} \cup QrStages \cup LoginStages]
    /\ chan \in [Request -> {"none", "open", "ended"}]
    /\ code \in [Request -> BOOLEAN]

Init ==
    /\ paired \in BOOLEAN
    /\ conn \in BOOLEAN /\ (conn => paired)
    /\ opener = None
    /\ leaving = FALSE
    /\ qrActive = FALSE
    /\ pc = [r \in Request |-> "idle"]
    /\ chan = [r \in Request |-> "none"]
    /\ code = [r \in Request |-> FALSE]

Goto(r, from, to) == pc[r] = from /\ pc' = [pc EXCEPT ![r] = to]

Up(r) == conn' = TRUE /\ opener' = r
Down == conn' = FALSE /\ opener' = None

(* The channels after those of a set of requests have ended. *)
Ended(S) ==
    [r \in Request |-> IF r \in S /\ chan[r] = "open" THEN "ended" ELSE chan[r]]

-----------------------------------------------------------------------------
(* loginQR.                                                                 *)

(* already_logged_in answers are steps from idle to idle and left out. *)
QrCheckUnlinked(r) ==
    /\ ~paired
    /\ Goto(r, "idle", "unlinked")
    /\ UNCHANGED <<clientVars, qrActive, channelVars>>

QrCheckDisconnected(r) ==
    /\ Goto(r, "unlinked", IF conn THEN "idle" ELSE "free")
    /\ UNCHANGED <<clientVars, qrActive, channelVars>>

\* Mutant: the guard is set without looking whether it is.
TakeGuardBlindly(r) ==
    /\ Goto(r, "free", "guarded")
    /\ qrActive' = TRUE
    /\ UNCHANGED <<clientVars, channelVars>>

(* The critical section of qrMu. *)
TakeGuard(r) ==
    /\ Goto(r, "free", IF qrActive THEN "idle" ELSE "guarded")
    /\ qrActive' = TRUE
    /\ UNCHANGED <<clientVars, channelVars>>

(* GetQRChannel; an error cancels the session and releases the guard. *)
OpenChannel(r) ==
    /\ ~conn /\ ~paired
    /\ Goto(r, "guarded", "opened")
    /\ chan' = [chan EXCEPT ![r] = "open"]
    /\ UNCHANGED <<clientVars, qrActive, code>>

\* Mutant: an error returns without releasing the guard.
OpenFailsGuarded(r) ==
    /\ Goto(r, "guarded", "idle")
    /\ UNCHANGED <<clientVars, qrActive, channelVars>>

OpenFails(r) ==
    /\ Goto(r, "guarded", "idle")
    /\ qrActive' = FALSE
    /\ UNCHANGED <<clientVars, channelVars>>

(* Connect on the daemon-lifetime context; an error aborts. *)
QrConnect(r) ==
    /\ ~conn
    /\ Goto(r, "opened", "waiting")
    /\ Up(r)
    /\ UNCHANGED <<paired, leaving, qrActive, channelVars>>

QrConnectFails(r) ==
    /\ Goto(r, "opened", "aborting")
    /\ UNCHANGED <<clientVars, qrActive, channelVars>>

(* The first item is a code: answer it and leave the session running. *)
AnswerCode(r) ==
    /\ code[r]
    /\ Goto(r, "waiting", "draining")
    /\ UNCHANGED <<clientVars, qrActive, channelVars>>

(* The channel ends without a code, or begins with another event, the timer *)
(* fires, possibly with an item at hand, or the code cannot be rendered.    *)
GiveUp(r) ==
    /\ Goto(r, "waiting", "aborting")
    /\ UNCHANGED <<clientVars, qrActive, channelVars>>

\* Mutant: the session's context is not cancelled.
AbortUncancelled(r) ==
    /\ Goto(r, "aborting", "dropping")
    /\ Down
    /\ UNCHANGED <<paired, leaving, qrActive, channelVars>>

(* abort: cancel the session and disconnect ... *)
Abort(r) ==
    /\ Goto(r, "aborting", "dropping")
    /\ Down
    /\ chan' = [chan EXCEPT ![r] = "ended"]
    /\ UNCHANGED <<paired, leaving, qrActive, code>>

\* Mutant: the session's channel is kept, as a closed one.
ForgetClosed(r) ==
    /\ chan' = [chan EXCEPT ![r] = "closed"]
    /\ code' = [code EXCEPT ![r] = FALSE]

(* Session and channel are garbage. *)
Forget(r) ==
    /\ chan' = [chan EXCEPT ![r] = "none"]
    /\ code' = [code EXCEPT ![r] = FALSE]

(* ... and release the guard. *)
AbortReleases(r) ==
    /\ Goto(r, "dropping", "idle")
    /\ qrActive' = FALSE
    /\ Forget(r)
    /\ UNCHANGED clientVars

(* drainQR sees the channel closed. *)
DrainEnds(r) ==
    /\ chan[r] = "ended"
    /\ Goto(r, "draining", "idle")
    /\ qrActive' = FALSE
    /\ Forget(r)
    /\ UNCHANGED clientVars

-----------------------------------------------------------------------------
(* login.                                                                   *)

LoginCheckUnlinked(r) ==
    /\ ~paired
    /\ Goto(r, "idle", "login")
    /\ UNCHANGED <<clientVars, qrActive, channelVars>>

(* An existing connection, a QR session's too, is used as it is. *)
LoginCheckConnected(r) ==
    /\ Goto(r, "login", IF conn THEN "pairing" ELSE "dialing")
    /\ UNCHANGED <<clientVars, qrActive, channelVars>>

LoginConnect(r) ==
    /\ ~conn
    /\ Goto(r, "dialing", "pairing")
    /\ Up(r)
    /\ UNCHANGED <<paired, leaving, qrActive, channelVars>>

(* No connection, or somebody connected meanwhile. *)
LoginConnectFails(r) ==
    /\ Goto(r, "dialing", "idle")
    /\ UNCHANGED <<clientVars, qrActive, channelVars>>

(* PairPhone returns a pairing code, which the user then enters. *)
PairPhone(r) ==
    /\ conn
    /\ Goto(r, "pairing", "coded")
    /\ UNCHANGED <<clientVars, qrActive, channelVars>>

PairPhoneFails(r) ==
    /\ Goto(r, "pairing", "idle")
    /\ UNCHANGED <<clientVars, qrActive, channelVars>>

PairingCodeExpires(r) ==
    /\ Goto(r, "coded", "idle")
    /\ UNCHANGED <<clientVars, qrActive, channelVars>>

(* logout: whatsmeow unlinks the device, or fails, and disconnects ...  The *)
(* phone can unlink it too.                                                 *)
Logout ==
    /\ conn /\ paired /\ ~leaving
    /\ Down
    /\ leaving' = TRUE
    /\ UNCHANGED <<paired, qrActive, pc, channelVars>>

\* Mutant: the session is cleared even if the server cannot be told.
ForgetOffline ==
    /\ paired
    /\ paired' = FALSE
    /\ leaving' = FALSE
    /\ UNCHANGED <<conn, opener, qrActive, pc, channelVars>>

(* ... and then forgets the session. *)
LogoutForgets ==
    /\ leaving
    /\ paired' = FALSE
    /\ leaving' = FALSE
    /\ UNCHANGED <<conn, opener, qrActive, pc, channelVars>>

-----------------------------------------------------------------------------
(* whatsmeow and the phone.                                                 *)

EmitCode(r) ==
    /\ conn /\ chan[r] = "open" /\ ~code[r]
    /\ code' = [code EXCEPT ![r] = TRUE]
    /\ UNCHANGED <<clientVars, qrActive, pc, chan>>

(* Nobody scanned the last code. *)
CodesExpire(r) ==
    /\ chan[r] = "open" /\ code[r]
    /\ chan' = [chan EXCEPT ![r] = "ended"]
    /\ Down
    /\ UNCHANGED <<paired, leaving, qrActive, pc, code>>

(* A code was scanned, or a pairing code entered. *)
PairSuccess ==
    /\ conn /\ ~paired
    /\ \E r \in Request : pc[r] = "coded" \/ (chan[r] = "open" /\ code[r])
    /\ paired' = TRUE
    /\ chan' = Ended(Request)
    /\ pc' = [r \in Request |-> IF pc[r] = "coded" THEN "idle" ELSE pc[r]]
    /\ UNCHANGED <<conn, opener, leaving, qrActive, code>>

(* The connection breaks; a channel may or may not end with it. *)
ConnectionLost ==
    /\ conn
    /\ Down
    /\ \E S \in SUBSET Request : chan' = Ended(S)
    /\ UNCHANGED <<paired, leaving, qrActive, pc, code>>

Reconnect ==
    /\ ~conn /\ paired /\ ~leaving
    /\ Up(None)
    /\ UNCHANGED <<paired, leaving, qrActive, pc, channelVars>>

-----------------------------------------------------------------------------
(* What a login-qr does without waiting for the server. *)
QrLocalStep(r) ==
    \/ QrCheckDisconnected(r)
    \/ TakeGuard(r)
    \/ OpenChannel(r) \/ OpenFails(r)
    \/ AnswerCode(r) \/ GiveUp(r)
    \/ Abort(r) \/ AbortReleases(r)
    \/ DrainEnds(r)

QrStep(r) == QrLocalStep(r) \/ QrConnect(r) \/ QrConnectFails(r)

LoginStep(r) ==
    \/ LoginCheckConnected(r)
    \/ LoginConnect(r) \/ LoginConnectFails(r)
    \/ PairPhone(r) \/ PairPhoneFails(r)

Next ==
    \/ \E r \in Request : QrCheckUnlinked(r) \/ QrStep(r)
    \/ \E r \in Request : LoginCheckUnlinked(r) \/ LoginStep(r) \/ PairingCodeExpires(r)
    \/ \E r \in Request : EmitCode(r) \/ CodesExpire(r)
    \/ Logout \/ LogoutForgets \/ PairSuccess \/ ConnectionLost \/ Reconnect

Spec == Init /\ [][Next]_vars

-----------------------------------------------------------------------------
Holding(r) == pc[r] \in QrStages \ {"unlinked", "free"}

(* The guard is exact: while it is set exactly one request has a QR session *)
(* (its handler or the goroutine it left behind), otherwise none has; no    *)
(* error path keeps it and no session releases it for another               *)
(* (loginQR, drainQR: "qr login already in progress").                      *)
GuardIsExact ==
    /\ qrActive <=> \E r \in Request : Holding(r)
    /\ \A r, s \in Request : Holding(r) /\ Holding(s) => r = s

(* A QR channel that is open is going to be read: by the handler until it   *)
(* answers, by drainQR afterwards.  Otherwise the goroutine translating its *)
(* events would block for ever on a channel nobody reads (GetQRChannel:     *)
(* "Canceling ctx unwinds the translation goroutine").                      *)
ChannelIsRead == \A r \in Request :
    chan[r] = "open" => pc[r] \in {"opened", "waiting", "aborting", "draining"}

(* The inductive invariant. *)
IInv == TypeOK /\ GuardIsExact /\ ChannelIsRead

(* Refuted by LoginAbort.cfg.  loginQR: "an aborted attempt can be torn     *)
(* down without affecting the connection".  An abort would then never take  *)
(* down a connection that another request opened; but when its own Connect  *)
(* failed, it disconnects whatever connection the client has by then, and a *)
(* pairing code given out by `login' dies with it.                          *)
AbortSparesOthers ==
    [][\A r \in Request :
          pc[r] = "aborting" /\ pc'[r] = "dropping" /\ conn => opener \in {r, None}]_vars

(* Liveness: the handlers run, the first-code timer fires, and the codes of *)
(* a channel expire.  A Connect is not fair: it runs on the daemon-lifetime *)
(* context, and nothing makes it return.                                    *)
Fairness == \A r \in Request : WF_vars(QrLocalStep(r)) /\ WF_vars(CodesExpire(r))

(* However an attempt goes, another one becomes possible, unless its        *)
(* Connect never returns (loginQR: no timeout bounds it, and then the guard *)
(* stays set until the daemon ends).                                        *)
GuardIsReleased ==
    \/ []<>~qrActive
    \/ \E r \in Request : <>[](pc[r] = "opened")
=============================================================================
