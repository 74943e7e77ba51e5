--------------------------- MODULE LifecycleProofs ---------------------------
(***************************************************************************)
(* Proofs about Lifecycle for any number of daemons, invocations and faults.*)
(* Each step preserves the five parts of the invariant.  Nothing is assumed *)
(* about how daemons overlap: what an overlap spoils is conditional on it   *)
(* in the properties themselves.                                            *)
(***************************************************************************)
EXTENDS Lifecycle, TLAPS

LEMMA InitInv == Init => IInv
<1> SUFFICES ASSUME Init PROVE IInv
  OBVIOUS
<1> USE DEF Init
<1>1. TypeOK
  <2>1. faults \in 0..MaxFaults
    BY LifecycleAssumption
  <2>2. QED
    BY <2>1 DEF TypeOK
<1>2. FilesInv
  BY LifecycleAssumption DEF FilesInv
<1>3. ServerReachable /\ WindowInv
  BY DEF ServerReachable, Listens, WindowInv, InWindow
<1>4. StartInv /\ ChildInv
  BY DEF StartInv, ChildInv
<1>5. QED
  BY <1>1, <1>2, <1>3, <1>4 DEF IInv

-----------------------------------------------------------------------------
(* Steps of a daemon.                                                       *)

LEMMA BuildInv ==
    ASSUME IInv, NEW d \in Daemon, Build(d) PROVE IInv'
<1> USE LifecycleAssumption DEF IInv, Build, Move, files, cliVars, marks, Listens, Gone, InWindow, Answers, Pending
<1>1. TypeOK'
  BY DEF TypeOK
<1>2. FilesInv'
  BY DEF TypeOK, FilesInv
<1>3. ASSUME ~overlapped' PROVE ServerReachable' /\ WindowInv'
  <2>1. ~overlapped /\ ServerReachable /\ WindowInv
    BY <1>3 DEF TypeOK
  <2>2. ServerReachable'
    BY <1>3, <2>1 DEF TypeOK, FilesInv, ServerReachable, WindowInv
  <2>3. WindowInv'
    BY <1>3, <2>1 DEF TypeOK, FilesInv, ServerReachable, WindowInv
  <2>4. QED
    BY <2>2, <2>3
<1>4. StartInv'
  BY DEF TypeOK, FilesInv, StartInv
<1>5. ChildInv'
  BY DEF TypeOK, FilesInv, StartInv, ChildInv
<1>6. QED
  BY <1>1, <1>2, <1>3, <1>4, <1>5

LEMMA BuildFailsInv ==
    ASSUME IInv, NEW d \in Daemon, BuildFails(d) PROVE IInv'
<1> USE LifecycleAssumption DEF IInv, BuildFails, Move, Fault, Disturb, files, marks, Listens, Gone, InWindow, Answers, Pending
<1>1. TypeOK'
  BY DEF TypeOK
<1>2. FilesInv'
  BY DEF TypeOK, FilesInv
<1>3. ASSUME ~overlapped' PROVE ServerReachable' /\ WindowInv'
  <2>1. ~overlapped /\ ServerReachable /\ WindowInv
    BY <1>3 DEF TypeOK
  <2>2. ServerReachable'
    BY <1>3, <2>1 DEF TypeOK, FilesInv, ServerReachable, WindowInv
  <2>3. WindowInv'
    BY <1>3, <2>1 DEF TypeOK, FilesInv, ServerReachable, WindowInv
  <2>4. QED
    BY <2>2, <2>3
<1>4. StartInv'
  BY DEF TypeOK, FilesInv, StartInv
<1>5. ChildInv'
  BY DEF TypeOK, FilesInv, StartInv, ChildInv
<1>6. QED
  BY <1>1, <1>2, <1>3, <1>4, <1>5

LEMMA CheckSocketInv ==
    ASSUME IInv, NEW d \in Daemon, CheckSocket(d) PROVE IInv'
<1> USE LifecycleAssumption DEF IInv, CheckSocket, EnterWindow, Move, Disturb, files, cliVars, marks, Listens, Gone, InWindow, Answers, Pending
<1>a. ASSUME UNCHANGED <<overlapped, disturbed>>
       PROVE TypeOK' /\ StartInv'
  <2>1. TypeOK'
    BY <1>a DEF TypeOK
  <2>2. StartInv'
    BY <1>a DEF TypeOK, FilesInv, StartInv
  <2>3. QED
    BY <2>1, <2>2
<1>b. ASSUME overlapped' = TRUE /\ disturbed' = [c \in Cli |-> pc[c] # "idle"] /\ UNCHANGED pc
       PROVE TypeOK' /\ StartInv'
  <2>1. TypeOK'
    BY <1>b DEF TypeOK
  <2>2. StartInv'
    BY <1>b DEF StartInv
  <2>3. QED
    BY <2>1, <2>2
<1>1. TypeOK'
  BY <1>a, <1>b
<1>2. FilesInv'
  BY DEF TypeOK, FilesInv
<1>3. ASSUME ~overlapped' PROVE ServerReachable' /\ WindowInv'
  <2>1. ~overlapped /\ ServerReachable /\ WindowInv
    BY <1>3 DEF TypeOK
  <2>2. ServerReachable'
    BY <1>3, <2>1 DEF TypeOK, FilesInv, ServerReachable, WindowInv
  <2>3. WindowInv'
    BY <1>3, <2>1 DEF TypeOK, FilesInv, ServerReachable, WindowInv
  <2>4. QED
    BY <2>2, <2>3
<1>4. StartInv'
  BY <1>a, <1>b
<1>5. ChildInv'
  BY DEF TypeOK, FilesInv, StartInv, ChildInv
<1>6. QED
  BY <1>1, <1>2, <1>3, <1>4, <1>5

LEMMA RemoveSocketInv ==
    ASSUME IInv, NEW d \in Daemon, RemoveSocket(d) PROVE IInv'
<1> USE LifecycleAssumption DEF IInv, RemoveSocket, Move, cliVars, marks, Listens, Gone, InWindow, Answers, Pending
<1>1. TypeOK'
  BY DEF TypeOK
<1>2. FilesInv'
  BY DEF TypeOK, FilesInv
<1>3. ASSUME ~overlapped' PROVE ServerReachable' /\ WindowInv'
  <2>1. ~overlapped /\ ServerReachable /\ WindowInv
    BY <1>3 DEF TypeOK
  <2>2. ServerReachable'
    BY <1>3, <2>1 DEF TypeOK, FilesInv, ServerReachable, WindowInv
  <2>3. WindowInv'
    BY <1>3, <2>1 DEF TypeOK, FilesInv, ServerReachable, WindowInv
  <2>4. QED
    BY <2>2, <2>3
<1>4. StartInv'
  BY DEF TypeOK, FilesInv, StartInv
<1>5. ChildInv'
  BY DEF TypeOK, FilesInv, StartInv, ChildInv
<1>6. QED
  BY <1>1, <1>2, <1>3, <1>4, <1>5

LEMMA RemoveSocketFailsInv ==
    ASSUME IInv, NEW d \in Daemon, RemoveSocketFails(d) PROVE IInv'
<1> USE LifecycleAssumption DEF IInv, RemoveSocketFails, Move, Fault, Disturb, files, marks, Listens, Gone, InWindow, Answers, Pending
<1>1. TypeOK'
  BY DEF TypeOK
<1>2. FilesInv'
  BY DEF TypeOK, FilesInv
<1>3. ASSUME ~overlapped' PROVE ServerReachable' /\ WindowInv'
  <2>1. ~overlapped /\ ServerReachable /\ WindowInv
    BY <1>3 DEF TypeOK
  <2>2. ServerReachable'
    BY <1>3, <2>1 DEF TypeOK, FilesInv, ServerReachable, WindowInv
  <2>3. WindowInv'
    BY <1>3, <2>1 DEF TypeOK, FilesInv, ServerReachable, WindowInv
  <2>4. QED
    BY <2>2, <2>3
<1>4. StartInv'
  BY DEF TypeOK, FilesInv, StartInv
<1>5. ChildInv'
  BY DEF TypeOK, FilesInv, StartInv, ChildInv
<1>6. QED
  BY <1>1, <1>2, <1>3, <1>4, <1>5

LEMMA ListenInv ==
    ASSUME IInv, NEW d \in Daemon, Listen(d) PROVE IInv'
<1> USE LifecycleAssumption DEF IInv, Listen, Move, cliVars, marks, Listens, Gone, InWindow, Answers, Pending
<1>1. TypeOK'
  BY DEF TypeOK
<1>2. FilesInv'
  BY DEF TypeOK, FilesInv
<1>3. ASSUME ~overlapped' PROVE ServerReachable' /\ WindowInv'
  <2>1. ~overlapped /\ ServerReachable /\ WindowInv
    BY <1>3 DEF TypeOK
  <2>2. ServerReachable'
    BY <1>3, <2>1 DEF TypeOK, FilesInv, ServerReachable, WindowInv
  <2>3. WindowInv'
    BY <1>3, <2>1 DEF TypeOK, FilesInv, ServerReachable, WindowInv
  <2>4. QED
    BY <2>2, <2>3
<1>4. StartInv'
  BY DEF TypeOK, FilesInv, StartInv
<1>5. ChildInv'
  BY DEF TypeOK, FilesInv, StartInv, ChildInv
<1>6. QED
  BY <1>1, <1>2, <1>3, <1>4, <1>5

LEMMA ListenFailsInv ==
    ASSUME IInv, NEW d \in Daemon, ListenFails(d) PROVE IInv'
<1> USE LifecycleAssumption DEF IInv, ListenFails, Move, Fault, Disturb, files, marks, Listens, Gone, InWindow, Answers, Pending
<1>1. TypeOK'
  BY DEF TypeOK
<1>2. FilesInv'
  BY DEF TypeOK, FilesInv
<1>3. ASSUME ~overlapped' PROVE ServerReachable' /\ WindowInv'
  <2>1. ~overlapped /\ ServerReachable /\ WindowInv
    BY <1>3 DEF TypeOK
  <2>2. ServerReachable'
    BY <1>3, <2>1 DEF TypeOK, FilesInv, ServerReachable, WindowInv
  <2>3. WindowInv'
    BY <1>3, <2>1 DEF TypeOK, FilesInv, ServerReachable, WindowInv
  <2>4. QED
    BY <2>2, <2>3
<1>4. StartInv'
  BY DEF TypeOK, FilesInv, StartInv
<1>5. ChildInv'
  BY DEF TypeOK, FilesInv, StartInv, ChildInv
<1>6. QED
  BY <1>1, <1>2, <1>3, <1>4, <1>5

LEMMA WritePidInv ==
    ASSUME IInv, NEW d \in Daemon, WritePid(d) PROVE IInv'
<1> USE LifecycleAssumption DEF IInv, WritePid, Move, cliVars, marks, Listens, Gone, InWindow, Answers, Pending
<1>1. TypeOK'
  BY DEF TypeOK
<1>2. FilesInv'
  BY DEF TypeOK, FilesInv
<1>3. ASSUME ~overlapped' PROVE ServerReachable' /\ WindowInv'
  <2>1. ~overlapped /\ ServerReachable /\ WindowInv
    BY <1>3 DEF TypeOK
  <2>2. ServerReachable'
    BY <1>3, <2>1 DEF TypeOK, FilesInv, ServerReachable, WindowInv
  <2>3. WindowInv'
    BY <1>3, <2>1 DEF TypeOK, FilesInv, ServerReachable, WindowInv
  <2>4. QED
    BY <2>2, <2>3
<1>4. StartInv'
  BY DEF TypeOK, FilesInv, StartInv
<1>5. ChildInv'
  BY DEF TypeOK, FilesInv, StartInv, ChildInv
<1>6. QED
  BY <1>1, <1>2, <1>3, <1>4, <1>5

LEMMA WritePidFailsInv ==
    ASSUME IInv, NEW d \in Daemon, WritePidFails(d) PROVE IInv'
<1> USE LifecycleAssumption DEF IInv, WritePidFails, Move, Fault, Disturb, marks, Listens, Gone, InWindow, Answers, Pending
<1>1. TypeOK'
  BY DEF TypeOK
<1>2. FilesInv'
  BY DEF TypeOK, FilesInv
<1>3. ASSUME ~overlapped' PROVE ServerReachable' /\ WindowInv'
  <2>1. ~overlapped /\ ServerReachable /\ WindowInv
    BY <1>3 DEF TypeOK
  <2>2. ServerReachable'
    BY <1>3, <2>1 DEF TypeOK, FilesInv, ServerReachable, WindowInv
  <2>3. WindowInv'
    BY <1>3, <2>1 DEF TypeOK, FilesInv, ServerReachable, WindowInv
  <2>4. QED
    BY <2>2, <2>3
<1>4. StartInv'
  BY DEF TypeOK, FilesInv, StartInv
<1>5. ChildInv'
  BY DEF TypeOK, FilesInv, StartInv, ChildInv
<1>6. QED
  BY <1>1, <1>2, <1>3, <1>4, <1>5

LEMMA CloseListenerInv ==
    ASSUME IInv, NEW d \in Daemon, CloseListener(d) PROVE IInv'
<1> USE LifecycleAssumption DEF IInv, CloseListener, Move, Disturb, marks, Listens, Gone, InWindow, Answers, Pending
<1>1. TypeOK'
  BY DEF TypeOK
<1>2. FilesInv'
  BY DEF TypeOK, FilesInv
<1>3. ASSUME ~overlapped' PROVE ServerReachable' /\ WindowInv'
  <2>1. ~overlapped /\ ServerReachable /\ WindowInv
    BY <1>3 DEF TypeOK
  <2>2. ServerReachable'
    BY <1>3, <2>1 DEF TypeOK, FilesInv, ServerReachable, WindowInv
  <2>3. WindowInv'
    BY <1>3, <2>1 DEF TypeOK, FilesInv, ServerReachable, WindowInv
  <2>4. QED
    BY <2>2, <2>3
<1>4. StartInv'
  BY DEF TypeOK, FilesInv, StartInv
<1>5. ChildInv'
  BY DEF TypeOK, FilesInv, StartInv, ChildInv
<1>6. QED
  BY <1>1, <1>2, <1>3, <1>4, <1>5

LEMMA AcceptFailsInv ==
    ASSUME IInv, NEW d \in Daemon, AcceptFails(d) PROVE IInv'
<1> USE LifecycleAssumption DEF IInv, AcceptFails, Move, Fault, Disturb, files, Listens, Gone, InWindow, Answers, Pending
<1>1. TypeOK'
  BY DEF TypeOK
<1>2. FilesInv'
  BY DEF TypeOK, FilesInv
<1>3. ASSUME ~overlapped' PROVE ServerReachable' /\ WindowInv'
  <2>1. ~overlapped /\ ServerReachable /\ WindowInv
    BY <1>3 DEF TypeOK
  <2>2. ServerReachable'
    BY <1>3, <2>1 DEF TypeOK, FilesInv, ServerReachable, WindowInv
  <2>3. WindowInv'
    BY <1>3, <2>1 DEF TypeOK, FilesInv, ServerReachable, WindowInv
  <2>4. QED
    BY <2>2, <2>3
<1>4. StartInv'
  BY DEF TypeOK, FilesInv, StartInv
<1>5. ChildInv'
  BY DEF TypeOK, FilesInv, StartInv, ChildInv
<1>6. QED
  BY <1>1, <1>2, <1>3, <1>4, <1>5

LEMMA CloseDeafInv ==
    ASSUME IInv, NEW d \in Daemon, CloseDeaf(d) PROVE IInv'
<1> USE LifecycleAssumption DEF IInv, CloseDeaf, Disturb, Listens, Gone, InWindow, Answers, Pending
<1>1. TypeOK'
  BY DEF TypeOK
<1>2. FilesInv'
  BY DEF TypeOK, FilesInv
<1>3. ASSUME ~overlapped' PROVE ServerReachable' /\ WindowInv'
  <2>1. ~overlapped /\ ServerReachable /\ WindowInv
    BY <1>3 DEF TypeOK
  <2>2. ServerReachable'
    BY <1>3, <2>1 DEF TypeOK, FilesInv, ServerReachable, WindowInv
  <2>3. WindowInv'
    BY <1>3, <2>1 DEF TypeOK, FilesInv, ServerReachable, WindowInv
  <2>4. QED
    BY <2>2, <2>3
<1>4. StartInv'
  BY DEF TypeOK, FilesInv, StartInv
<1>5. ChildInv'
  BY DEF TypeOK, FilesInv, StartInv, ChildInv
<1>6. QED
  BY <1>1, <1>2, <1>3, <1>4, <1>5

LEMMA CheckPidInv ==
    ASSUME IInv, NEW d \in Daemon, CheckPid(d) PROVE IInv'
<1> USE LifecycleAssumption DEF IInv, CheckPid, Move, files, cliVars, marks, Listens, Gone, InWindow, Answers, Pending
<1>1. TypeOK'
  BY DEF TypeOK
<1>2. FilesInv'
  BY DEF TypeOK, FilesInv
<1>3. ASSUME ~overlapped' PROVE ServerReachable' /\ WindowInv'
  <2>1. ~overlapped /\ ServerReachable /\ WindowInv
    BY <1>3 DEF TypeOK
  <2>2. ServerReachable'
    BY <1>3, <2>1 DEF TypeOK, FilesInv, ServerReachable, WindowInv
  <2>3. WindowInv'
    BY <1>3, <2>1 DEF TypeOK, FilesInv, ServerReachable, WindowInv
  <2>4. QED
    BY <2>2, <2>3
<1>4. StartInv'
  BY DEF TypeOK, FilesInv, StartInv
<1>5. ChildInv'
  BY DEF TypeOK, FilesInv, StartInv, ChildInv
<1>6. QED
  BY <1>1, <1>2, <1>3, <1>4, <1>5

LEMMA RemovePidInv ==
    ASSUME IInv, NEW d \in Daemon, RemovePid(d) PROVE IInv'
<1> USE LifecycleAssumption DEF IInv, RemovePid, Move, cliVars, marks, Listens, Gone, InWindow, Answers, Pending
<1>1. TypeOK'
  BY DEF TypeOK
<1>2. FilesInv'
  BY DEF TypeOK, FilesInv
<1>3. ASSUME ~overlapped' PROVE ServerReachable' /\ WindowInv'
  <2>1. ~overlapped /\ ServerReachable /\ WindowInv
    BY <1>3 DEF TypeOK
  <2>2. ServerReachable'
    BY <1>3, <2>1 DEF TypeOK, FilesInv, ServerReachable, WindowInv
  <2>3. WindowInv'
    BY <1>3, <2>1 DEF TypeOK, FilesInv, ServerReachable, WindowInv
  <2>4. QED
    BY <2>2, <2>3
<1>4. StartInv'
  BY DEF TypeOK, FilesInv, StartInv
<1>5. ChildInv'
  BY DEF TypeOK, FilesInv, StartInv, ChildInv
<1>6. QED
  BY <1>1, <1>2, <1>3, <1>4, <1>5

LEMMA SignalInv ==
    ASSUME IInv, NEW d \in Daemon, Signal(d) PROVE IInv'
<1> USE LifecycleAssumption DEF IInv, Signal, Fault, files, cliVars, marks, Listens, Gone, InWindow, Answers, Pending
<1>1. TypeOK'
  BY DEF TypeOK
<1>2. FilesInv'
  BY DEF TypeOK, FilesInv
<1>3. ASSUME ~overlapped' PROVE ServerReachable' /\ WindowInv'
  <2>1. ~overlapped /\ ServerReachable /\ WindowInv
    BY <1>3 DEF TypeOK
  <2>2. ServerReachable'
    BY <1>3, <2>1 DEF TypeOK, FilesInv, ServerReachable, WindowInv
  <2>3. WindowInv'
    BY <1>3, <2>1 DEF TypeOK, FilesInv, ServerReachable, WindowInv
  <2>4. QED
    BY <2>2, <2>3
<1>4. StartInv'
  BY DEF TypeOK, FilesInv, StartInv
<1>5. ChildInv'
  BY DEF TypeOK, FilesInv, StartInv, ChildInv
<1>6. QED
  BY <1>1, <1>2, <1>3, <1>4, <1>5

LEMMA KillInv ==
    ASSUME IInv, NEW d \in Daemon, Kill(d) PROVE IInv'
<1> USE LifecycleAssumption DEF IInv, Kill, Fault, Disturb, files, marks, Listens, Gone, InWindow, Answers, Pending
<1>1. TypeOK'
  BY DEF TypeOK
<1>2. FilesInv'
  BY DEF TypeOK, FilesInv
<1>3. ASSUME ~overlapped' PROVE ServerReachable' /\ WindowInv'
  <2>1. ~overlapped /\ ServerReachable /\ WindowInv
    BY <1>3 DEF TypeOK
  <2>2. ServerReachable'
    BY <1>3, <2>1 DEF TypeOK, FilesInv, ServerReachable, WindowInv
  <2>3. WindowInv'
    BY <1>3, <2>1 DEF TypeOK, FilesInv, ServerReachable, WindowInv
  <2>4. QED
    BY <2>2, <2>3
<1>4. StartInv'
  BY DEF TypeOK, FilesInv, StartInv
<1>5. ChildInv'
  BY DEF TypeOK, FilesInv, StartInv, ChildInv
<1>6. QED
  BY <1>1, <1>2, <1>3, <1>4, <1>5

-----------------------------------------------------------------------------
(* Steps of an invocation.                                                  *)

LEMMA BeginStartInv ==
    ASSUME IInv, NEW c \in Cli, BeginStart(c) PROVE IInv'
<1> USE LifecycleAssumption DEF IInv, BeginStart, files, daemonVars, marks, Listens, Gone, InWindow, Answers, Pending
<1>1. TypeOK'
  BY DEF TypeOK
<1>2. FilesInv'
  BY DEF TypeOK, FilesInv
<1>3. ASSUME ~overlapped' PROVE ServerReachable' /\ WindowInv'
  <2>1. ~overlapped /\ ServerReachable /\ WindowInv
    BY <1>3 DEF TypeOK
  <2>2. ServerReachable'
    BY <1>3, <2>1 DEF TypeOK, FilesInv, ServerReachable, WindowInv
  <2>3. WindowInv'
    BY <1>3, <2>1 DEF TypeOK, FilesInv, ServerReachable, WindowInv
  <2>4. QED
    BY <2>2, <2>3
<1>4. StartInv'
  BY DEF TypeOK, FilesInv, StartInv
<1>5. ChildInv'
  BY DEF TypeOK, FilesInv, StartInv, ChildInv
<1>6. QED
  BY <1>1, <1>2, <1>3, <1>4, <1>5

LEMMA PollInv ==
    ASSUME IInv, NEW c \in Cli, Poll(c) PROVE IInv'
<1> USE LifecycleAssumption DEF IInv, Poll, files, daemonVars, marks, Listens, Gone, InWindow, Answers, Pending
<1>1. TypeOK'
  BY DEF TypeOK
<1>2. FilesInv'
  BY DEF TypeOK, FilesInv
<1>3. ASSUME ~overlapped' PROVE ServerReachable' /\ WindowInv'
  <2>1. ~overlapped /\ ServerReachable /\ WindowInv
    BY <1>3 DEF TypeOK
  <2>2. ServerReachable'
    BY <1>3, <2>1 DEF TypeOK, FilesInv, ServerReachable, WindowInv
  <2>3. WindowInv'
    BY <1>3, <2>1 DEF TypeOK, FilesInv, ServerReachable, WindowInv
  <2>4. QED
    BY <2>2, <2>3
<1>4. StartInv'
  BY DEF TypeOK, FilesInv, StartInv
<1>5. ChildInv'
  BY DEF TypeOK, FilesInv, StartInv, ChildInv
<1>6. QED
  BY <1>1, <1>2, <1>3, <1>4, <1>5

LEMMA PollAgainInv ==
    ASSUME IInv, NEW c \in Cli, PollAgain(c) PROVE IInv'
<1> USE LifecycleAssumption DEF IInv, PollAgain, files, daemonVars, marks, Listens, Gone, InWindow, Answers, Pending
<1>1. TypeOK'
  BY DEF TypeOK
<1>2. FilesInv'
  BY DEF TypeOK, FilesInv
<1>3. ASSUME ~overlapped' PROVE ServerReachable' /\ WindowInv'
  <2>1. ~overlapped /\ ServerReachable /\ WindowInv
    BY <1>3 DEF TypeOK
  <2>2. ServerReachable'
    BY <1>3, <2>1 DEF TypeOK, FilesInv, ServerReachable, WindowInv
  <2>3. WindowInv'
    BY <1>3, <2>1 DEF TypeOK, FilesInv, ServerReachable, WindowInv
  <2>4. QED
    BY <2>2, <2>3
<1>4. StartInv'
  BY DEF TypeOK, FilesInv, StartInv
<1>5. ChildInv'
  BY DEF TypeOK, FilesInv, StartInv, ChildInv
<1>6. QED
  BY <1>1, <1>2, <1>3, <1>4, <1>5

LEMMA EndStartInv ==
    ASSUME IInv, NEW c \in Cli, EndStart(c) PROVE IInv'
<1> USE LifecycleAssumption DEF IInv, EndStart, files, daemonVars, marks, Listens, Gone, InWindow, Answers, Pending
<1>1. TypeOK'
  BY DEF TypeOK
<1>2. FilesInv'
  BY DEF TypeOK, FilesInv
<1>3. ASSUME ~overlapped' PROVE ServerReachable' /\ WindowInv'
  <2>1. ~overlapped /\ ServerReachable /\ WindowInv
    BY <1>3 DEF TypeOK
  <2>2. ServerReachable'
    BY <1>3, <2>1 DEF TypeOK, FilesInv, ServerReachable, WindowInv
  <2>3. WindowInv'
    BY <1>3, <2>1 DEF TypeOK, FilesInv, ServerReachable, WindowInv
  <2>4. QED
    BY <2>2, <2>3
<1>4. StartInv'
  BY DEF TypeOK, FilesInv, StartInv
<1>5. ChildInv'
  BY DEF TypeOK, FilesInv, StartInv, ChildInv
<1>6. QED
  BY <1>1, <1>2, <1>3, <1>4, <1>5

LEMMA SpawnInv ==
    ASSUME IInv, NEW c \in Cli, NEW d \in Daemon, Spawn(c, d) PROVE IInv'
<1> USE LifecycleAssumption DEF IInv, Spawn, Move, files, marks, Listens, Gone, InWindow, Answers, Pending
<1>1. TypeOK'
  BY DEF TypeOK
<1>2. FilesInv'
  BY DEF TypeOK, FilesInv
<1>3. ASSUME ~overlapped' PROVE ServerReachable' /\ WindowInv'
  <2>1. ~overlapped /\ ServerReachable /\ WindowInv
    BY <1>3 DEF TypeOK
  <2>2. ServerReachable'
    BY <1>3, <2>1 DEF TypeOK, FilesInv, ServerReachable, WindowInv
  <2>3. WindowInv'
    BY <1>3, <2>1 DEF TypeOK, FilesInv, ServerReachable, WindowInv
  <2>4. QED
    BY <2>2, <2>3
<1>4. StartInv'
  BY DEF TypeOK, FilesInv, StartInv
<1>5. ChildInv'
  BY DEF TypeOK, FilesInv, StartInv, ChildInv
<1>6. QED
  BY <1>1, <1>2, <1>3, <1>4, <1>5

LEMMA StopInv ==
    ASSUME IInv, Stop PROVE IInv'
<1> USE LifecycleAssumption DEF IInv, Stop, files, cliVars, Listens, Gone, InWindow, Answers, Pending
<1>1. TypeOK'
  BY DEF TypeOK
<1>2. FilesInv'
  BY DEF TypeOK, FilesInv
<1>3. ASSUME ~overlapped' PROVE ServerReachable' /\ WindowInv'
  <2>1. ~overlapped /\ ServerReachable /\ WindowInv
    BY <1>3 DEF TypeOK
  <2>2. ServerReachable'
    BY <1>3, <2>1 DEF TypeOK, FilesInv, ServerReachable, WindowInv
  <2>3. WindowInv'
    BY <1>3, <2>1 DEF TypeOK, FilesInv, ServerReachable, WindowInv
  <2>4. QED
    BY <2>2, <2>3
<1>4. StartInv'
  BY DEF TypeOK, FilesInv, StartInv
<1>5. ChildInv'
  BY DEF TypeOK, FilesInv, StartInv, ChildInv
<1>6. QED
  BY <1>1, <1>2, <1>3, <1>4, <1>5

LEMMA StutterInv == ASSUME IInv, UNCHANGED vars PROVE IInv'
BY DEF vars, files, daemonVars, marks, cliVars, IInv, TypeOK, FilesInv, ServerReachable,
       Listens, Gone, WindowInv, StartInv, ChildInv, InWindow, Answers, Pending

LEMMA StepInv == IInv /\ [Next]_vars => IInv'
<1> SUFFICES ASSUME IInv, [Next]_vars PROVE IInv'
  OBVIOUS
<1>1. ASSUME NEW d \in Daemon, DaemonStep(d) PROVE IInv'
  BY <1>1, BuildInv, CheckSocketInv, RemoveSocketInv, ListenInv, WritePidInv,
     CloseListenerInv, CloseDeafInv, CheckPidInv, RemovePidInv DEF DaemonStep
<1>2. ASSUME NEW d \in Daemon, DaemonFault(d) PROVE IInv'
  BY <1>2, BuildFailsInv, RemoveSocketFailsInv, ListenFailsInv, WritePidFailsInv,
     AcceptFailsInv, SignalInv, KillInv DEF DaemonFault
<1>3. ASSUME NEW c \in Cli, CliStep(c) PROVE IInv'
  BY <1>3, BeginStartInv, SpawnInv, PollInv, PollAgainInv, EndStartInv
     DEF CliStep, SpawnFails, StartReady, StartFails, StartTimesOut
<1>4. QED
  BY <1>1, <1>2, <1>3, StopInv, StutterInv DEF Next, NothingToStop

(* The invariant holds in every reachable state. *)
THEOREM LifecycleInvariant == Spec => []IInv
BY InitInv, StepInv, PTL DEF Spec

(* The variables keep their types. *)
THEOREM LifecycleTypeOK == Spec => []TypeOK
<1>1. IInv => TypeOK
  BY DEF IInv
<1>2. QED
  BY <1>1, LifecycleInvariant, PTL

(* As long as no two daemons have been between their check of the socket    *)
(* and their listen at once, no listening daemon loses its socket file.     *)
THEOREM LifecycleReachableUnlessOverlapped == Spec => []ReachableUnlessOverlapped
<1>1. IInv => ReachableUnlessOverlapped
  BY DEF IInv, ReachableUnlessOverlapped
<1>2. QED
  BY <1>1, LifecycleInvariant, PTL

(* However daemons overlap, one that exits leaves no file of its own        *)
(* behind, but for the socket if Accept failed.                             *)
THEOREM LifecycleExitCleansUp == Spec => []ExitCleansUp
<1>1. IInv => ExitCleansUp
  BY DEF IInv, FilesInv, ExitCleansUp
<1>2. QED
  BY <1>1, LifecycleInvariant, PTL

(* A start that finds its daemon gone was disturbed while it ran - a daemon *)
(* failed, was killed or shut down, or two overlapped between check and     *)
(* listen - or a daemon answers at that moment.                             *)
THEOREM LifecycleStartFailsOnlyIfDisturbed == Spec => []StartFailsOnlyIfDisturbed
<1>1. IInv => StartFailsOnlyIfDisturbed
  BY DEF IInv, ChildInv, StartFailsOnlyIfDisturbed, FindsChildGone, Gone
<1>2. QED
  BY <1>1, LifecycleInvariant, PTL
=============================================================================
