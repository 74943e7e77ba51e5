--------------------------------- MODULE Rpc ---------------------------------
(***************************************************************************)
(* One command from end to end: the invocation that dials the daemon, the   *)
(* goroutine that serves its connection, and what the exit code says        *)
(* (cmd/wa/cmds.go, internal/client, internal/ipc, internal/api,            *)
(* internal/daemon/server.go, and the stages of the handlers that take      *)
(* time).  Calls run in parallel with each other and with the end of the    *)
(* daemon.                                                                  *)
(*                                                                         *)
(* A connection is a pair of states, pc[c] for the invocation and handler[c] *)
(* for the daemon's goroutine; answer[c] is what has been decided and, when *)
(* handler[c] is no longer "answering", what the socket holds.  "messages"  *)
(* stands for messages, chats and logout: work bounded by the request's     *)
(* context, whose effects are those of module Inbox; "login" for login and  *)
(* login-qr; "unknown" for a command of a newer binary.                     *)
(*                                                                         *)
(* Time is counted in ticks.  What the CLI and the daemon do by themselves  *)
(* (scheduling, the database, the socket) takes up to Lag ticks of a call   *)
(* in all, a network operation under the request's context ends with it,    *)
(* Connect ends whenever it ends.                                           *)
(***************************************************************************)
EXTENDS Integers

CONSTANTS
    Call,            \* concurrent invocations
    CommandsOf,      \* the commands each of them may run
    None,
    RequestTimeout,  \* server.go, in ticks
    CallTimeout,     \* client.go, in ticks
    Lag              \* bound on a call's local delays, in ticks

Command == {"status", "stop", "messages", "send", "login", "unknown"}

Code == {"generic", "usage", "daemon_not_running", "not_logged_in",
         "already_logged_in", "invalid_recipient", "send_failed", "login_failed"}

(* Success, with the payload of status and stop where the CLI makes it up.  *)
Success == {"ok", "stopped", "not_running"}

ASSUME RpcAssumption ==
    /\ RequestTimeout \in Nat /\ CallTimeout \in Nat /\ Lag \in Nat
    /\ RequestTimeout + Lag < CallTimeout
    /\ CommandsOf \in [Call -> SUBSET Command]
    /\ None \notin Command \cup Code \cup Success

ExitCode(outcome) ==
    CASE outcome \in Success            -> 0
      [] outcome = "usage"              -> 2
      [] outcome = "daemon_not_running" -> 3
      [] outcome = "not_logged_in"      -> 4
      [] outcome = "already_logged_in"  -> 5
      [] outcome = "invalid_recipient"  -> 6
      [] outcome = "send_failed"        -> 7
      [] outcome = "login_failed"       -> 8
      [] OTHER                          -> 1

(* Exit codes that say that the command was refused. *)
Refusal(o) == ExitCode(o) \in {2, 4, 5, 6}

VARIABLES
    daemon,   \* the process and its listener
    cmd,      \* per call, the command
    pc,       \* how far the invocation is; "gone" and "mute": killed after,
              \* before it had sent its request
    outcome,  \* what it has reported
    handler,  \* how far the goroutine serving it is
    answer,   \* the response
    done,     \* the message has left for WhatsApp
    waited,   \* ticks since the CLI set its deadline
    spent,    \* ticks of the request's context, up to its timeout
    lag,      \* ticks of local delay
    connected, \* history: the dial has succeeded
    sawDown   \* history: since then the daemon has stopped listening

cliVars == <<cmd, pc, outcome>>
serverVars == <<handler, answer, done>>
timeVars == <<waited, spent, lag>>
historyVars == <<connected, sawDown>>
vars == <<daemon, cliVars, serverVars, timeVars, historyVars>>

(* Stages of a handler that last: under the request's context, or not. *)
Bounded == {"working", "sent", "pairing"}
Working == Bounded \cup {"connecting"}

TypeOK ==
    /\ daemon \in {"up", "closing", "down"}
    /\ cmd \in [Call -> Command \cup {None}]
    /\ pc \in [Call -> {"idle", "starting", "dialled", "waiting", "told", "gone", "mute"}]
    /\ outcome \in [Call -> Code \cup Success \cup {None}]
    /\ handler \in [Call -> {"none", "queued", "accepted", "answering", "stopping"} \cup Working]
    /\ answer \in [Call -> Code \cup {"ok", None}]
    /\ done \in [Call -> BOOLEAN]
    /\ waited \in [Call -> 0..CallTimeout]
    /\ spent \in [Call -> 0..RequestTimeout]
    /\ lag \in [Call -> 0..Lag]
    /\ connected \in [Call -> BOOLEAN]
    /\ sawDown \in [Call -> BOOLEAN]

Init ==
    /\ daemon \in {"up", "down"}
    /\ cmd = [c \in Call |-> None]
    /\ pc = [c \in Call |-> "idle"]
    /\ outcome = [c \in Call |-> None]
    /\ handler = [c \in Call |-> "none"]
    /\ answer = [c \in Call |-> None]
    /\ done = [c \in Call |-> FALSE]
    /\ waited = [c \in Call |-> 0]
    /\ spent = [c \in Call |-> 0]
    /\ lag = [c \in Call |-> 0]
    /\ connected = [c \in Call |-> FALSE]
    /\ sawDown = [c \in Call |-> FALSE]

Calling(c) == pc[c] \in {"dialled", "waiting"}

(* The daemon has closed the connection, or died, without an answer. *)
HungUp(c) == handler[c] = "none" /\ answer[c] = None

(* A response is in the socket. *)
Answered(c) == handler[c] # "answering" /\ answer[c] # None

Step(c, from, to) == pc[c] = from /\ pc' = [pc EXCEPT ![c] = to]
Handler(c, from, to) == handler[c] = from /\ handler' = [handler EXCEPT ![c] = to]

-----------------------------------------------------------------------------
(* The invocation.                                                          *)

(* A command line that parses. *)
Begin(c) ==
    /\ Step(c, "idle", "starting")
    /\ \E k \in CommandsOf[c] : cmd' = [cmd EXCEPT ![c] = k]
    /\ UNCHANGED <<daemon, outcome, serverVars, timeVars, historyVars>>

(* What becomes of the outcome o: if it cannot be written, a failure. *)
PrintResponse(o) == {o, "generic"}

Emit(c, o) ==
    \E p \in PrintResponse(o) : outcome' = [outcome EXCEPT ![c] = p]

(* No data directory; for messages, a malformed --since. *)
GiveUp(c) ==
    /\ Step(c, "starting", "told")
    /\ \/ Emit(c, "generic")
       \/ cmd[c] = "messages" /\ Emit(c, "usage")
    /\ UNCHANGED <<daemon, cmd, serverVars, timeVars, historyVars>>

(* Call returned an error: a finding for status and stop, else an error. *)
EmitCallError(c) ==
    Emit(c, CASE cmd[c] = "status" -> "stopped"
              [] cmd[c] = "stop"   -> "not_running"
              [] OTHER             -> "daemon_not_running")

Dial(c) ==
    /\ daemon = "up"
    /\ Step(c, "starting", "dialled")
    /\ handler' = [handler EXCEPT ![c] = "queued"]
    /\ connected' = [connected EXCEPT ![c] = TRUE]
    /\ UNCHANGED <<daemon, cmd, outcome, answer, done, timeVars, sawDown>>

(* Nobody listens, the socket's path is gone from under a daemon that does  *)
(* (module Lifecycle), its backlog is full, or it takes too long.           *)
DialRefused(c) ==
    /\ Step(c, "starting", "told")
    /\ EmitCallError(c)
    /\ UNCHANGED <<daemon, cmd, serverVars, timeVars, historyVars>>

WriteRequest(c) ==
    /\ ~HungUp(c)
    /\ Step(c, "dialled", "waiting")
    /\ UNCHANGED <<daemon, cmd, outcome, serverVars, timeVars, historyVars>>

ReadAnswer(c) ==
    /\ Answered(c)
    /\ Step(c, "waiting", "told")
    /\ Emit(c, answer[c])
    /\ UNCHANGED <<daemon, cmd, serverVars, timeVars, historyVars>>

\* Mutant: the error is reported under a code of its own.
ConnectionBrokenRaw(c) ==
    /\ Calling(c)
    /\ HungUp(c)
    /\ pc' = [pc EXCEPT ![c] = "told"]
    /\ Emit(c, "broken_pipe")
    /\ UNCHANGED <<daemon, cmd, serverVars, timeVars, historyVars>>

(* Writing the request or reading the response fails. *)
ConnectionBroken(c) ==
    /\ Calling(c)
    /\ HungUp(c)
    /\ pc' = [pc EXCEPT ![c] = "told"]
    /\ EmitCallError(c)
    /\ UNCHANGED <<daemon, cmd, serverVars, timeVars, historyVars>>

\* Mutant: the connection has no deadline.
TimesOutNever(c) == FALSE /\ UNCHANGED vars

(* The deadline set after dialling passes. *)
TimesOut(c) ==
    /\ waited[c] = CallTimeout
    /\ Step(c, "waiting", "told")
    /\ EmitCallError(c)
    /\ UNCHANGED <<daemon, cmd, serverVars, timeVars, historyVars>>

(* The user interrupts it. *)
Killed(c) ==
    /\ pc[c] \in {"starting", "dialled", "waiting"}
    /\ pc' = [pc EXCEPT ![c] = IF pc[c] = "waiting" THEN "gone" ELSE "mute"]
    /\ UNCHANGED <<daemon, cmd, outcome, serverVars, timeVars, historyVars>>

(* Both ends are finished; c may stand for another call. *)
Forget(c) ==
    /\ pc[c] \in {"told", "gone", "mute"}
    /\ handler[c] = "none"
    /\ pc' = [pc EXCEPT ![c] = "idle"]
    /\ cmd' = [cmd EXCEPT ![c] = None]
    /\ outcome' = [outcome EXCEPT ![c] = None]
    /\ answer' = [answer EXCEPT ![c] = None]
    /\ done' = [done EXCEPT ![c] = FALSE]
    /\ waited' = [waited EXCEPT ![c] = 0]
    /\ spent' = [spent EXCEPT ![c] = 0]
    /\ lag' = [lag EXCEPT ![c] = 0]
    /\ connected' = [connected EXCEPT ![c] = FALSE]
    /\ sawDown' = [sawDown EXCEPT ![c] = FALSE]
    /\ UNCHANGED <<daemon, handler>>

-----------------------------------------------------------------------------
(* The goroutine serving the connection.                                    *)

Accept(c) ==
    /\ daemon = "up"
    /\ Handler(c, "queued", "accepted")
    /\ UNCHANGED <<daemon, cliVars, answer, done, timeVars, historyVars>>

\* Mutant: the end of the input is not noticed.
ReadFailsNever(c) == FALSE /\ UNCHANGED vars

(* The caller went without having sent a line: close silently. *)
ReadFails(c) ==
    /\ pc[c] = "mute"
    /\ Handler(c, "accepted", "none")
    /\ UNCHANGED <<daemon, cliVars, answer, done, timeVars, historyVars>>

(* A request is there; its context starts. *)
HasRequest(c) == handler[c] = "accepted" /\ pc[c] \in {"waiting", "told", "gone"}

Answering(c, response) ==
    /\ handler' = [handler EXCEPT ![c] = "answering"]
    /\ answer' = [answer EXCEPT ![c] = response]
    /\ UNCHANGED <<daemon, cliVars, done, timeVars, historyVars>>

(* Responses given without any work: status, and what each handler refuses  *)
(* (linking and connection are module LoginSession's state).                *)
Immediate(k) ==
    CASE k = "status"   -> {"ok"}
      [] k = "unknown"  -> {"usage"}
      [] k = "messages" -> {"invalid_recipient", "usage"}
      [] k = "send"     -> {"not_logged_in", "invalid_recipient", "usage"}
      [] k = "login"    -> {"already_logged_in", "login_failed", "usage"}
      [] OTHER          -> {}

\* Mutant: an error is not written to the connection.
AnswerSuccessAtOnce(c) ==
    /\ HasRequest(c)
    /\ \E response \in Immediate(cmd[c]) :
          \/ response = "ok" /\ Answering(c, response)
          \/ /\ response # "ok"
             /\ handler' = [handler EXCEPT ![c] = "none"]
             /\ UNCHANGED <<daemon, cliVars, answer, done, timeVars, historyVars>>

AnswerAtOnce(c) ==
    /\ HasRequest(c)
    /\ \E response \in Immediate(cmd[c]) : Answering(c, response)

(* send, messages: the handler goes on to the store or the network.  login  *)
(* goes on to pair if the client is connected, else connects it first, on   *)
(* the daemon's context.                                                    *)
StartWork(c) ==
    /\ HasRequest(c)
    /\ \/ cmd[c] \in {"send", "messages"} /\ Handler(c, "accepted", "working")
       \/ cmd[c] = "login" /\ Handler(c, "accepted", "pairing")
       \/ cmd[c] = "login" /\ Handler(c, "accepted", "connecting")
    /\ UNCHANGED <<daemon, cliVars, answer, done, timeVars, historyVars>>

(* SendText: the message leaves ... *)
SendLeaves(c) ==
    /\ cmd[c] = "send"
    /\ Handler(c, "working", "sent")
    /\ done' = [done EXCEPT ![c] = TRUE]
    /\ UNCHANGED <<daemon, cliVars, answer, timeVars, historyVars>>

Connected(c) ==
    /\ Handler(c, "connecting", "pairing")
    /\ UNCHANGED <<daemon, cliVars, answer, done, timeVars, historyVars>>

\* Mutant: success is answered without the server's acknowledgement.
SucceedUnsent(c) ==
    /\ handler[c] \in Bounded
    /\ Answering(c, "ok")

(* ... and the server acknowledges it; the rows are read; a pairing code is *)
(* there.                                                                   *)
Succeed(c) ==
    /\ handler[c] \in Bounded
    /\ cmd[c] = "send" => handler[c] = "sent"
    /\ Answering(c, "ok")

(* The operation fails, by itself or with the request's context. *)
Fail(c) ==
    /\ handler[c] \in Working
    /\ Answering(c, CASE cmd[c] = "send"  -> "send_failed"
                      [] cmd[c] = "login" -> "login_failed"
                      [] OTHER            -> "generic")

(* The response is written, or the caller has gone; the connection is closed. *)
WriteAnswer(c) ==
    /\ Handler(c, "answering", "none")
    /\ UNCHANGED <<daemon, cliVars, answer, done, timeVars, historyVars>>

(* stop: answer first ... *)
AnswerStop(c) ==
    /\ HasRequest(c)
    /\ cmd[c] = "stop"
    /\ Handler(c, "accepted", "stopping")
    /\ answer' = [answer EXCEPT ![c] = "ok"]
    /\ UNCHANGED <<daemon, cliVars, done, timeVars, historyVars>>

(* ... then close the listener, and with it the connections not accepted.   *)
ListenerCloses(h) ==
    /\ daemon' = IF daemon = "up" THEN "closing" ELSE daemon
    /\ handler' = [c \in Call |-> IF h[c] = "queued" THEN "none" ELSE h[c]]
    /\ sawDown' = [c \in Call |-> sawDown[c] \/ Calling(c)]
    /\ UNCHANGED <<cliVars, answer, done, timeVars, connected>>

CloseListener(c) ==
    /\ handler[c] = "stopping"
    /\ ListenerCloses([handler EXCEPT ![c] = "none"])

(* SIGTERM or SIGINT. *)
Signal ==
    /\ daemon = "up"
    /\ ListenerCloses(handler)

(* Serve has returned and the process exits under its handlers, or dies.    *)
(* What was written can still be read.                                      *)
ProcessEnds ==
    /\ daemon # "down"
    /\ daemon' = "down"
    /\ handler' = [c \in Call |-> "none"]
    /\ answer' = [c \in Call |-> IF Answered(c) THEN answer[c] ELSE None]
    /\ sawDown' = [c \in Call |-> sawDown[c] \/ Calling(c)]
    /\ UNCHANGED <<cliVars, done, timeVars, connected>>

(* `wa start' (module Lifecycle). *)
Start ==
    /\ daemon = "down"
    /\ daemon' = "up"
    /\ UNCHANGED <<cliVars, serverVars, timeVars, historyVars>>

-----------------------------------------------------------------------------
(* Time.                                                                    *)

\* Mutant: the work is done on the daemon's context.
BoundByContextPairing(c) == handler[c] = "pairing"

(* The handler is in an operation that ends with the request's context. *)
BoundByContext(c) == handler[c] \in Bounded

(* The invocation is waiting for something that takes no time of its own. *)
Local(c) == Calling(c) /\ handler[c] \notin Working

Tick ==
    /\ \A c \in Call :
          /\ Calling(c) => waited[c] < CallTimeout
          /\ BoundByContext(c) => spent[c] < RequestTimeout
          /\ Local(c) => lag[c] < Lag
    /\ waited' = [c \in Call |-> IF Calling(c) THEN waited[c] + 1 ELSE waited[c]]
    /\ spent' = [c \in Call |-> IF handler[c] \in Working /\ spent[c] < RequestTimeout
                                THEN spent[c] + 1 ELSE spent[c]]
    /\ lag' = [c \in Call |-> IF Local(c) THEN lag[c] + 1 ELSE lag[c]]
    /\ UNCHANGED <<daemon, cliVars, serverVars, historyVars>>

-----------------------------------------------------------------------------
CliStep(c) ==
    \/ WriteRequest(c) \/ ReadAnswer(c) \/ ConnectionBroken(c) \/ TimesOut(c)

LocalStep(c) ==
    \/ Accept(c) \/ ReadFails(c)
    \/ AnswerAtOnce(c) \/ StartWork(c) \/ AnswerStop(c)
    \/ WriteAnswer(c) \/ CloseListener(c)

NetworkStep(c) == SendLeaves(c) \/ Connected(c) \/ Succeed(c) \/ Fail(c)

Next ==
    \/ \E c \in Call : Begin(c) \/ GiveUp(c) \/ Dial(c) \/ DialRefused(c)
    \/ \E c \in Call : CliStep(c) \/ Killed(c) \/ Forget(c)
    \/ \E c \in Call : LocalStep(c) \/ NetworkStep(c)
    \/ Signal \/ ProcessEnds \/ Start
    \/ Tick

Spec == Init /\ [][Next]_vars

(* Processes run, time passes, and an operation whose context is over ends. *)
FairSpec ==
    /\ Spec
    /\ WF_vars(Tick)
    /\ WF_vars(daemon = "closing" /\ ProcessEnds)
    /\ \A c \in Call :
          /\ WF_vars(CliStep(c))
          /\ WF_vars(LocalStep(c))
          /\ WF_vars(BoundByContext(c) /\ spent[c] = RequestTimeout /\ NetworkStep(c))

-----------------------------------------------------------------------------
(* The daemon's error response wins over the CLI's deadline: no command but *)
(* a login, whose Connect no context of the request bounds, ever reaches it *)
(* (client.go 20-24, server.go 15-18: "so the daemon returns a proper error *)
(* response first").                                                        *)
DaemonAnswersFirst ==
    \A c \in Call : Calling(c) /\ waited[c] = CallTimeout => cmd[c] = "login"

(* A command other than a login that got through to the daemon says that it *)
(* is not running only if it has stopped listening since: the CLI turns     *)
(* every transport error into that answer, and none comes from a daemon     *)
(* that is well (runRemote; status: "stopped"; stop: "not_running").  A     *)
(* dial that fails shows nothing: client.go takes it for an absent daemon.  *)
DownMeansDown ==
    \A c \in Call :
        /\ connected[c]
        /\ outcome[c] \in {"daemon_not_running", "stopped", "not_running"}
        => sawDown[c] \/ cmd[c] = "login"

(* Refuted by RpcRetry.cfg.  Exit code 3: "A command needing the daemon     *)
(* found it down -> run wa start" (design document), and then "retry once"  *)
(* (SKILL.md).  The command would then not have been carried out.           *)
NotRunningMeansNotDone ==
    \A c \in Call : pc[c] = "told" /\ ExitCode(outcome[c]) = 3 => ~done[c]

(* The inductive invariant.  The time of a call is the time its handler has *)
(* spent and the local delays, unless it was connecting; a connection is    *)
(* closed without an answer only if the listener was.                       *)
StageInv(c) ==
    /\ pc[c] \in {"idle", "starting"} => handler[c] = "none" /\ answer[c] = None
    /\ pc[c] \in {"idle", "starting"} => ~done[c] /\ waited[c] = 0
    /\ pc[c] = "idle" <=> cmd[c] = None
    /\ pc[c] # "told" => outcome[c] = None
    /\ pc[c] = "dialled" => handler[c] \in {"none", "queued", "accepted"} /\ answer[c] = None
    /\ handler[c] \in {"queued", "accepted"} \cup Working => answer[c] = None
    /\ handler[c] \in {"answering", "stopping"} => answer[c] # None
    /\ handler[c] = "connecting" => cmd[c] = "login"
    /\ handler[c] = "stopping" => cmd[c] = "stop"

TimeInv(c) == Calling(c) /\ cmd[c] # "login" => waited[c] <= spent[c] + lag[c]

DownInv(c) ==
    /\ Calling(c) /\ HungUp(c) => sawDown[c]
    /\ pc[c] \in {"idle", "starting"} => ~connected[c]
    /\ answer[c] # "daemon_not_running"

(* The effect of a send is behind "sent" and before an "ok". *)
SendInv(c) ==
    /\ done[c] => cmd[c] = "send"
    /\ cmd[c] = "send" =>
          /\ handler[c] \in {"queued", "accepted", "working"} => ~done[c]
          /\ handler[c] = "sent" \/ answer[c] = "ok" => done[c]
          /\ answer[c] # None /\ Refusal(answer[c]) => ~done[c]
          /\ pc[c] = "told" => handler[c] = "none"

IInv ==
    /\ TypeOK
    /\ DownMeansDown
    /\ \A c \in Call : StageInv(c) /\ TimeInv(c) /\ DownInv(c) /\ SendInv(c)

(* A send as its caller sees it, judging by the exit code. *)
SendStatus(c) ==
    IF cmd[c] # "send" THEN "none"
    ELSE IF pc[c] \in {"starting", "dialled", "waiting"} THEN "open"
    ELSE IF pc[c] \in {"gone", "mute"} THEN "left"
    ELSE IF ExitCode(outcome[c]) = 0 THEN "ok"
    ELSE IF Refusal(outcome[c]) THEN "refused" ELSE "failed"

Contract == INSTANCE CallContract WITH status <- [c \in Call |-> SendStatus(c)]

(* `wa send' keeps the contract: exit 0 only if the message has left, exit  *)
(* codes 2, 4 and 6 only if it never will, and whatever the exit code, the  *)
(* message does not leave after the command has ended (server.go, client.go: *)
(* the order of the two timeouts).                                          *)
RefinesCallContract == Contract!Spec

(* No invocation waits for ever, not even for a Connect that hangs          *)
(* (client.go: a stuck daemon "cannot hang the CLI forever").               *)
CallsEnd == \A c \in Call : Calling(c) ~> ~Calling(c)

(* No goroutine is left behind by a request, except in a Connect that hangs *)
(* (server.go: a stalled operation "cannot leak a goroutine forever").      *)
HandlersEnd == \A c \in Call : handler[c] # "none" ~> handler[c] \in {"none", "connecting"}
=============================================================================
