------------------------------ MODULE Lifecycle ------------------------------
(***************************************************************************)
(* `wa start', `wa stop' and the daemon process (cmd/wa/lifecycle.go and    *)
(* internal/daemon/server.go): what happens to the socket and the pid file  *)
(* of one data directory when invocations overlap, daemons are killed, and  *)
(* starts give up waiting.                                                  *)
(*                                                                         *)
(* A socket file belongs to the daemon that bound it and outlives it if the *)
(* daemon is killed; unlinking is by name, whoever's socket is there.  A    *)
(* status call is one step: it succeeds exactly if the socket file leads to *)
(* a daemon that is serving.  The database and WhatsApp are not here.       *)
(***************************************************************************)
EXTENDS Naturals

CONSTANTS
    Daemon,     \* daemon processes, by pid; a pid is used once
    Cli,        \* concurrent invocations of `wa start'
    None,       \* no file
    MaxFaults   \* bound: killed, terminated and failing daemons

ASSUME LifecycleAssumption ==
    /\ None \notin Daemon
    /\ MaxFaults \in Nat

VARIABLES
    path,       \* whose socket the socket file is
    pidfile,    \* whom the pid file names
    proc,       \* per daemon, how far it is
    stopping,   \* it has answered a `stop' request
    signalled,  \* it has received SIGTERM or SIGINT
    deaf,       \* Serve has returned and left the listener open
    pc,         \* per invocation, how far `wa start' is
    child,      \* the daemon it spawned
    disturbed,  \* history: since it began, a daemon failed, was killed or
                \* closed its listener, or the windows of two overlapped
    overlapped, \* history: the windows of two daemons, each from its check of
                \* the socket to its listen(2), have overlapped
    faults

files == <<path, pidfile>>
marks == <<stopping, signalled, deaf>>
daemonVars == <<proc, marks>>
cliVars == <<pc, child, disturbed>>
vars == <<files, daemonVars, cliVars, overlapped, faults>>

TypeOK ==
    /\ path \in Daemon \cup {None}
    /\ pidfile \in Daemon \cup {None}
    /\ proc \in [Daemon -> {"unborn", "building", "built", "checked", "removed",
                            "bound", "serving", "closed", "leaving", "exited",
                            "killed"}]
    /\ stopping \in [Daemon -> BOOLEAN]
    /\ signalled \in [Daemon -> BOOLEAN]
    /\ deaf \in [Daemon -> BOOLEAN]
    /\ pc \in [Cli -> {"idle", "spawning", "waiting", "polled"}]
    /\ child \in [Cli -> Daemon \cup {None}]
    /\ disturbed \in [Cli -> BOOLEAN]
    /\ overlapped \in BOOLEAN
    /\ faults \in 0..MaxFaults

Init ==
    /\ path = None
    /\ pidfile = None
    /\ proc = [d \in Daemon |-> "unborn"]
    /\ stopping = [d \in Daemon |-> FALSE]
    /\ signalled = [d \in Daemon |-> FALSE]
    /\ deaf = [d \in Daemon |-> FALSE]
    /\ pc = [c \in Cli |-> "idle"]
    /\ child = [c \in Cli |-> None]
    /\ disturbed = [c \in Cli |-> FALSE]
    /\ overlapped = FALSE
    /\ faults = 0

Gone(d) == proc[d] \in {"exited", "killed"}

(* daemonRunning, and the fate of any other call: the socket file leads to  *)
(* a serving daemon, to nobody, or to one that listens but does not accept  *)
(* (the call then waits for it to serve, or to exit).                       *)
Answers == path # None /\ proc[path] = "serving"
Pending == path # None /\ proc[path] \in {"bound", "closed", "leaving"}

Move(d, from, to) == proc[d] = from /\ proc' = [proc EXCEPT ![d] = to]

Disturb == disturbed' = [c \in Cli |-> pc[c] # "idle"]

Fault == faults < MaxFaults /\ faults' = faults + 1

-----------------------------------------------------------------------------
(* runDaemon.                                                               *)

(* buildDaemon: open the database, connect if paired. *)
Build(d) ==
    /\ Move(d, "building", "built")
    /\ UNCHANGED <<files, marks, cliVars, overlapped, faults>>

(* A database error, or a signal meanwhile, which cancels the context.      *)
BuildFails(d) ==
    /\ Move(d, "building", "exited")
    /\ IF signalled[d] THEN UNCHANGED faults ELSE Fault
    /\ Disturb
    /\ UNCHANGED <<files, marks, pc, child, overlapped>>

InWindow(d) == proc[d] \in {"checked", "removed"}

(* Nobody answers on the socket: go on, whoever else does so, too. *)
EnterWindow(d) ==
    /\ Move(d, "built", "checked")
    /\ IF \E e \in Daemon : InWindow(e)
       THEN overlapped' = TRUE /\ Disturb
       ELSE UNCHANGED <<overlapped, disturbed>>
    /\ UNCHANGED <<files, marks, pc, child, faults>>

\* Mutant: the socket is taken over without asking whether anybody answers.
TakeOver(d) == ~Pending /\ EnterWindow(d)

(* Don't take over from a daemon already live on the socket. *)
CheckSocket(d) ==
    \/ /\ Answers
       /\ Move(d, "built", "exited")
       /\ UNCHANGED <<files, marks, cliVars, overlapped, faults>>
    \/ ~Answers /\ ~Pending /\ EnterWindow(d)

\* Mutant: the stale socket file is left where it is.
KeepSocket(d) ==
    /\ Move(d, "checked", "removed")
    /\ UNCHANGED <<files, marks, cliVars, overlapped, faults>>

(* os.Remove of what was found to be a stale socket file. *)
RemoveSocket(d) ==
    /\ Move(d, "checked", "removed")
    /\ path' = None
    /\ UNCHANGED <<pidfile, marks, cliVars, overlapped, faults>>

(* It cannot be removed: exit. *)
RemoveSocketFails(d) ==
    /\ Move(d, "checked", "exited")
    /\ Fault
    /\ Disturb
    /\ UNCHANGED <<files, marks, pc, child, overlapped>>

(* net.Listen binds the path, or fails because it exists. *)
Listen(d) ==
    /\ Move(d, "removed", IF path = None THEN "bound" ELSE "exited")
    /\ path' = IF path = None THEN d ELSE path
    /\ UNCHANGED <<pidfile, marks, cliVars, overlapped, faults>>

(* ... or for another reason. *)
ListenFails(d) ==
    /\ Move(d, "removed", "exited")
    /\ Fault
    /\ Disturb
    /\ UNCHANGED <<files, marks, pc, child, overlapped>>

\* Mutant: the file is created but the pid is not in it.
WritePidEmpty(d) ==
    /\ Move(d, "bound", "serving")
    /\ pidfile' = "empty"
    /\ UNCHANGED <<path, marks, cliVars, overlapped, faults>>

(* Write the pid file, start serving. *)
WritePid(d) ==
    /\ Move(d, "bound", "serving")
    /\ pidfile' = d
    /\ UNCHANGED <<path, marks, cliVars, overlapped, faults>>

(* The pid file cannot be written: close the listener and exit. *)
WritePidFails(d) ==
    /\ Move(d, "bound", "exited")
    /\ Fault
    /\ path' = None
    /\ Disturb
    /\ UNCHANGED <<pidfile, marks, pc, child, overlapped>>

\* Mutant: nobody waits for the signal context.
CloseOnStop(d) ==
    /\ stopping[d]
    /\ Move(d, "serving", "closed")
    /\ path' = None
    /\ Disturb
    /\ UNCHANGED <<pidfile, marks, pc, child, overlapped, faults>>

(* ln.Close, after a stop request or a signal: the path is unlinked, Accept *)
(* fails, Serve returns and the client is disconnected.                     *)
CloseListener(d) ==
    /\ stopping[d] \/ signalled[d]
    /\ Move(d, "serving", "closed")
    /\ path' = None
    /\ Disturb
    /\ UNCHANGED <<pidfile, marks, pc, child, overlapped, faults>>

(* Accept fails for another reason than a closed listener: Serve returns    *)
(* and leaves the listener as it is ...                                     *)
AcceptFails(d) ==
    /\ Move(d, "serving", "closed")
    /\ Fault
    /\ deaf' = [deaf EXCEPT ![d] = TRUE]
    /\ Disturb
    /\ UNCHANGED <<files, stopping, signalled, pc, child, overlapped>>

(* ... unless a stop or a signal closes it before the process has ended.    *)
CloseDeaf(d) ==
    /\ stopping[d] \/ signalled[d]
    /\ deaf[d] /\ ~Gone(d)
    /\ deaf' = [deaf EXCEPT ![d] = FALSE]
    /\ path' = None
    /\ Disturb
    /\ UNCHANGED <<pidfile, proc, stopping, signalled, pc, child, overlapped, faults>>

(* "Remove the pid file only if it still names this process": the check ... *)
CheckPid(d) ==
    /\ Move(d, "closed", IF pidfile = d THEN "leaving" ELSE "exited")
    /\ UNCHANGED <<files, marks, cliVars, overlapped, faults>>

\* Mutant: the pid file is left behind.
KeepPid(d) ==
    /\ Move(d, "leaving", "exited")
    /\ UNCHANGED <<files, marks, cliVars, overlapped, faults>>

(* ... and the removal. *)
RemovePid(d) ==
    /\ Move(d, "leaving", "exited")
    /\ pidfile' = None
    /\ UNCHANGED <<path, marks, cliVars, overlapped, faults>>

DaemonStep(d) ==
    \/ Build(d)
    \/ CheckSocket(d)
    \/ RemoveSocket(d)
    \/ Listen(d)
    \/ WritePid(d)
    \/ CloseListener(d)
    \/ CloseDeaf(d)
    \/ CheckPid(d)
    \/ RemovePid(d)

(* SIGTERM or SIGINT: remembered by the signal context until there is a     *)
(* listener to close.                                                       *)
Signal(d) ==
    /\ proc[d] # "unborn" /\ ~Gone(d)
    /\ ~signalled[d]
    /\ Fault
    /\ signalled' = [signalled EXCEPT ![d] = TRUE]
    /\ UNCHANGED <<files, proc, stopping, deaf, cliVars, overlapped>>

(* SIGKILL or a crash: both files stay. *)
Kill(d) ==
    /\ proc[d] # "unborn" /\ ~Gone(d)
    /\ Fault
    /\ proc' = [proc EXCEPT ![d] = "killed"]
    /\ Disturb
    /\ UNCHANGED <<files, marks, pc, child, overlapped>>

-----------------------------------------------------------------------------
(* runStart.                                                                *)

EndStart(c) ==
    /\ pc' = [pc EXCEPT ![c] = "idle"]
    /\ child' = [child EXCEPT ![c] = None]
    /\ disturbed' = [disturbed EXCEPT ![c] = FALSE]
    /\ UNCHANGED <<files, daemonVars, overlapped, faults>>

(* already_running, or the decision to spawn a daemon. *)
BeginStart(c) ==
    /\ pc[c] = "idle"
    /\ ~Pending
    /\ IF Answers
       THEN UNCHANGED <<pc, disturbed>>
       ELSE /\ pc' = [pc EXCEPT ![c] = "spawning"]
            /\ disturbed' = [disturbed EXCEPT ![c] =
                   \E d, e \in Daemon : d # e /\ InWindow(d) /\ InWindow(e)]
    /\ UNCHANGED <<files, daemonVars, child, overlapped, faults>>

Spawn(c, d) ==
    /\ pc[c] = "spawning"
    /\ Move(d, "unborn", "building")
    /\ pc' = [pc EXCEPT ![c] = "waiting"]
    /\ child' = [child EXCEPT ![c] = d]
    /\ UNCHANGED <<files, marks, disturbed, overlapped, faults>>

(* The data directory, the executable, the log or the fork fails. *)
SpawnFails(c) ==
    /\ pc[c] = "spawning"
    /\ EndStart(c)

(* waitForSocketOrExit: a daemon answers, whoever it is ... *)
StartReady(c) ==
    /\ pc[c] = "waiting"
    /\ Answers
    /\ EndStart(c)

(* ... or nobody does: up to 100 ms pass until it asks again ... *)
Poll(c) ==
    /\ pc[c] = "waiting"
    /\ ~Answers /\ ~Pending
    /\ pc' = [pc EXCEPT ![c] = "polled"]
    /\ UNCHANGED <<files, daemonVars, child, disturbed, overlapped, faults>>

PollAgain(c) ==
    /\ pc[c] = "polled"
    /\ pc' = [pc EXCEPT ![c] = "waiting"]
    /\ UNCHANGED <<files, daemonVars, child, disturbed, overlapped, faults>>

(* ... unless the child has exited meanwhile ... *)
FindsChildGone(c) == pc[c] = "polled" /\ Gone(child[c])

StartFails(c) == FindsChildGone(c) /\ EndStart(c)

(* ... or the wait is over, and the child stays behind. *)
StartTimesOut(c) ==
    /\ pc[c] = "waiting"
    /\ EndStart(c)

(* runStop, by anybody: the daemon answers first and closes its listener    *)
(* afterwards.                                                              *)
Stop ==
    /\ Answers
    /\ stopping' = [stopping EXCEPT ![path] = TRUE]
    /\ UNCHANGED <<files, proc, signalled, deaf, cliVars, overlapped, faults>>

(* runStop: not_running. *)
NothingToStop ==
    /\ ~Answers /\ ~Pending
    /\ UNCHANGED vars

DaemonFault(d) ==
    \/ BuildFails(d)
    \/ RemoveSocketFails(d)
    \/ ListenFails(d)
    \/ WritePidFails(d)
    \/ AcceptFails(d)
    \/ Signal(d)
    \/ Kill(d)

CliStep(c) ==
    \/ BeginStart(c)
    \/ \E d \in Daemon : Spawn(c, d)
    \/ SpawnFails(c)
    \/ StartReady(c)
    \/ Poll(c)
    \/ PollAgain(c)
    \/ StartFails(c)
    \/ StartTimesOut(c)

Next ==
    \/ \E d \in Daemon : DaemonStep(d)
    \/ \E d \in Daemon : DaemonFault(d)
    \/ \E c \in Cli : CliStep(c)
    \/ Stop
    \/ NothingToStop

Spec == Init /\ [][Next]_vars

(* A running process takes its steps.  Nothing bounds the Connect of        *)
(* buildDaemon but the signal context.                                      *)
FairSpec ==
    /\ Spec
    /\ \A d \in Daemon :
          WF_vars((proc[d] = "building" => signalled[d]) /\ DaemonStep(d))

-----------------------------------------------------------------------------
Listens(d) == proc[d] \in {"bound", "serving"} \/ (deaf[d] /\ ~Gone(d))

(* Refuted (LifecycleTakeover.cfg).  A daemon that listens is the one the   *)
(* socket file leads to: "Don't take over from a daemon already live on the *)
(* socket (start races / double-start)" (runDaemon).  A daemon off its path *)
(* can no longer be stopped or queried, but keeps its WhatsApp connection.  *)
ServerReachable == \A d \in Daemon : Listens(d) => path = d

(* It does hold as long as no two daemons have been between check and       *)
(* listen(2) at once, which nothing in the code prevents: then nobody takes *)
(* the socket over from a live daemon, and a daemon that closes its         *)
(* listener does not unlink the socket of its successor.                    *)
ReachableUnlessOverlapped == ~overlapped => ServerReachable

(* A daemon that came to its end by itself leaves nothing of its own        *)
(* behind, neither a pid file that names it nor, unless Accept failed, a    *)
(* socket file (runDaemon).                                                 *)
ExitCleansUp ==
    \A d \in Daemon : proc[d] = "exited" => pidfile # d /\ (path = d => deaf[d])

(* When `wa start' reports that its daemon exited, a daemon failed, was      *)
(* killed or shut down while it ran, or two were between check and listen   *)
(* at once, or else a daemon is answering all the same, which another start *)
(* brought up since the last poll (waitForSocketOrExit).  Whatever happened *)
(* before, the files left by a killed daemon above all, never makes it fail.*)
StartFailsOnlyIfDisturbed ==
    \A c \in Cli : FindsChildGone(c) => disturbed[c] \/ Answers

(* The inductive invariant.  The files name only daemons that have made     *)
(* them and not yet cleaned up.  Without an overlap, a daemon in its window *)
(* is alone there, and nobody listens, as it found out on entering.         *)
FilesInv ==
    \A d \in Daemon :
        /\ path = d => proc[d] \in {"bound", "serving", "killed"} \/ deaf[d]
        /\ deaf[d] => proc[d] \in {"closed", "leaving", "exited", "killed"}
        /\ pidfile = d => proc[d] \in {"serving", "closed", "leaving", "killed"}

WindowInv ==
    \A d \in Daemon : InWindow(d) =>
        /\ \A e \in Daemon : InWindow(e) => e = d
        /\ \A e \in Daemon : ~Listens(e)
        /\ proc[d] = "removed" => path = None

(* Since a start that is still undisturbed began, there was one daemon in   *)
(* its window at a time, and none while the socket file led to a live       *)
(* daemon.  Its child finds the path free when it comes to listen, and if   *)
(* it has exited, it had found a daemon, which is still there.              *)
StartInv ==
    \A c \in Cli : pc[c] # "idle" /\ ~disturbed[c] =>
        \A d \in Daemon : InWindow(d) =>
            /\ \A e \in Daemon : InWindow(e) => e = d
            /\ path # None => proc[path] \notin {"bound", "serving"}

ChildInv ==
    \A c \in Cli : pc[c] \in {"waiting", "polled"} =>
        /\ child[c] \in Daemon
        /\ proc[child[c]] # "unborn"
        /\ ~disturbed[c] =>
              /\ proc[child[c]] \notin {"closed", "leaving", "killed"}
              /\ proc[child[c]] = "removed" => path = None
              /\ proc[child[c]] = "exited" => Answers

IInv ==
    /\ TypeOK
    /\ FilesInv
    /\ ~overlapped => ServerReachable /\ WindowInv
    /\ StartInv
    /\ ChildInv

(* Refuted by LifecycleStop.cfg.  "status after stop -> stopped"            *)
(* (e2e_test.go): a daemon that has answered a stop answers no status call  *)
(* any more.  The handler writes its answer before it closes the listener.  *)
StopIsFinal == Answers => ~stopping[path]

(* A daemon that answered a stop or received a signal comes to its end, at  *)
(* whatever stage of its start the signal came.                             *)
AskedToExit == \A d \in Daemon : stopping[d] \/ signalled[d] ~> Gone(d)
=============================================================================
