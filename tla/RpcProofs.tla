------------------------------ MODULE RpcProofs ------------------------------
(***************************************************************************)
(* Proofs about Rpc for any number of calls and any timeouts of which the   *)
(* request's, with the local delays, is the shorter one.  Every step of a   *)
(* call keeps the parts of the invariant that speak of that call and leaves *)
(* those of other calls alone; the steps of the daemon and of the clock     *)
(* move all calls at once.                                                  *)
(***************************************************************************)
EXTENDS Rpc, TLAPS

(* What the exit codes tell apart. *)
LEMMA ExitCodes ==
    ASSUME NEW o
    PROVE  /\ ExitCode(o) = 0 <=> o \in Success
           /\ Refusal(o) <=> o \in {"usage", "not_logged_in", "already_logged_in",
                                    "invalid_recipient"}
BY DEF ExitCode, Refusal, Success

LEMMA EmitLemma ==
    ASSUME TypeOK, NEW c \in Call, NEW o \in Code \cup Success, Emit(c, o)
    PROVE  /\ outcome' \in [Call -> Code \cup Success \cup {None}]
           /\ outcome'[c] \in {o, "generic"}
           /\ \A x \in Call : x # c => outcome'[x] = outcome[x]
BY DEF TypeOK, Emit, PrintResponse, Code, Success

LEMMA EmitCallErrorLemma ==
    ASSUME TypeOK, NEW c \in Call, EmitCallError(c)
    PROVE  /\ outcome' \in [Call -> Code \cup Success \cup {None}]
           /\ outcome'[c] \in {"stopped", "not_running", "daemon_not_running", "generic"}
           /\ cmd[c] = "send" => outcome'[c] \in {"daemon_not_running", "generic"}
           /\ \A x \in Call : x # c => outcome'[x] = outcome[x]
<1> DEFINE error == CASE cmd[c] = "status" -> "stopped"
                     [] cmd[c] = "stop"   -> "not_running"
                     [] OTHER             -> "daemon_not_running"
<1>1. Emit(c, error)
  BY DEF EmitCallError
<1>2. /\ error \in {"stopped", "not_running", "daemon_not_running"}
      /\ cmd[c] = "send" => error = "daemon_not_running"
  OBVIOUS
<1> HIDE DEF error
<1>3. error \in Code \cup Success
  BY <1>2 DEF Code, Success
<1>4. QED
  BY <1>1, <1>2, <1>3, EmitLemma

LEMMA NoneLemma ==
    /\ \A k \in Command : k # None
    /\ None \notin {"ok", "generic", "usage", "send_failed", "login_failed",
                    "daemon_not_running", "stopped", "not_running"}
BY RpcAssumption DEF Command, Code, Success

LEMMA ImmediateLemma ==
    ASSUME NEW k \in Command
    PROVE  /\ Immediate(k) \subseteq Code \cup {"ok"}
           /\ "daemon_not_running" \notin Immediate(k)
           /\ k = "send" => "ok" \notin Immediate(k)
BY DEF Immediate, Command, Code

LEMMA InitInv == Init => IInv
<1> SUFFICES ASSUME Init PROVE IInv
  OBVIOUS
<1> USE DEF Init
<1>1. TypeOK
  BY RpcAssumption DEF TypeOK
<1>2. DownMeansDown
  BY NoneLemma DEF DownMeansDown
<1>3. \A c \in Call : StageInv(c) /\ TimeInv(c) /\ DownInv(c) /\ SendInv(c)
  BY RpcAssumption, NoneLemma DEF StageInv, TimeInv, DownInv, SendInv, Calling, HungUp, Refusal, Working, Bounded
<1>4. QED
  BY <1>1, <1>2, <1>3 DEF IInv

-----------------------------------------------------------------------------
(* Steps of an invocation.                                                  *)

LEMMA BeginInv == ASSUME IInv, NEW c \in Call, Begin(c) PROVE IInv'
<1> USE RpcAssumption, NoneLemma DEF IInv, Begin, Step, cliVars, serverVars, timeVars, historyVars
<1>0. PICK k \in CommandsOf[c] : cmd' = [cmd EXCEPT ![c] = k]
  OBVIOUS
<1>a. k \in Command
  OBVIOUS
<1>1. TypeOK'
  BY <1>0, <1>a DEF TypeOK, Working, Bounded
<1>2. DownMeansDown'
  BY <1>0, <1>a DEF TypeOK, DownMeansDown, StageInv, TimeInv, DownInv, Calling, HungUp
<1>3. ASSUME NEW x \in Call PROVE StageInv(x)'
  BY <1>0, <1>a DEF TypeOK, StageInv, Working, Bounded
<1>4. ASSUME NEW x \in Call PROVE TimeInv(x)'
  BY <1>0, <1>a DEF TypeOK, StageInv, TimeInv, Calling, Working, Bounded
<1>5. ASSUME NEW x \in Call PROVE DownInv(x)'
  BY <1>0, <1>a DEF TypeOK, StageInv, DownInv, Calling, HungUp
<1>6. ASSUME NEW x \in Call PROVE SendInv(x)'
  BY <1>0, <1>a DEF TypeOK, StageInv, SendInv, Working, Bounded
<1>7. QED
  BY <1>1, <1>2, <1>3, <1>4, <1>5, <1>6

LEMMA GiveUpInv == ASSUME IInv, NEW c \in Call, GiveUp(c) PROVE IInv'
<1> USE RpcAssumption, NoneLemma DEF IInv, GiveUp, Step, cliVars, serverVars, timeVars, historyVars
<1>0. /\ outcome' \in [Call -> Code \cup Success \cup {None}]
      /\ outcome'[c] \in {"generic", "usage"}
      /\ \A x \in Call : x # c => outcome'[x] = outcome[x]
  <2>1. "generic" \in Code /\ "usage" \in Code
    BY DEF Code
  <2>2. QED
    BY <2>1, EmitLemma
<1>1. TypeOK'
  BY <1>0 DEF TypeOK, Working, Bounded
<1>2. DownMeansDown'
  BY <1>0 DEF TypeOK, DownMeansDown, StageInv, TimeInv, DownInv, Calling, HungUp
<1>3. ASSUME NEW x \in Call PROVE StageInv(x)'
  BY <1>0 DEF TypeOK, StageInv, Working, Bounded
<1>4. ASSUME NEW x \in Call PROVE TimeInv(x)'
  BY <1>0 DEF TypeOK, StageInv, TimeInv, Calling, Working, Bounded
<1>5. ASSUME NEW x \in Call PROVE DownInv(x)'
  BY <1>0 DEF TypeOK, StageInv, DownInv, Calling, HungUp
<1>6. ASSUME NEW x \in Call PROVE SendInv(x)'
  BY <1>0 DEF TypeOK, StageInv, SendInv, Working, Bounded
<1>7. QED
  BY <1>1, <1>2, <1>3, <1>4, <1>5, <1>6

LEMMA DialInv == ASSUME IInv, NEW c \in Call, Dial(c) PROVE IInv'
<1> USE RpcAssumption, NoneLemma DEF IInv, Dial, Step, cliVars, serverVars, timeVars, historyVars
<1>1. TypeOK'
  BY DEF TypeOK, Working, Bounded
<1>2. DownMeansDown'
  BY DEF TypeOK, DownMeansDown, StageInv, TimeInv, DownInv, Calling, HungUp
<1>3. ASSUME NEW x \in Call PROVE StageInv(x)'
  BY DEF TypeOK, StageInv, Working, Bounded
<1>4. ASSUME NEW x \in Call PROVE TimeInv(x)'
  BY DEF TypeOK, StageInv, TimeInv, Calling, Working, Bounded
<1>5. ASSUME NEW x \in Call PROVE DownInv(x)'
  BY DEF TypeOK, StageInv, DownInv, Calling, HungUp
<1>6. ASSUME NEW x \in Call PROVE SendInv(x)'
  BY DEF TypeOK, StageInv, SendInv, Working, Bounded
<1>7. QED
  BY <1>1, <1>2, <1>3, <1>4, <1>5, <1>6

LEMMA DialRefusedInv == ASSUME IInv, NEW c \in Call, DialRefused(c) PROVE IInv'
<1> USE RpcAssumption, NoneLemma DEF IInv, DialRefused, Step, cliVars, serverVars, timeVars, historyVars
<1>0. /\ outcome' \in [Call -> Code \cup Success \cup {None}]
      /\ \A x \in Call : x # c => outcome'[x] = outcome[x]
      /\ pc'[c] = "told"
  BY EmitCallErrorLemma DEF TypeOK
<1>1. TypeOK'
  BY <1>0 DEF TypeOK, Working, Bounded
<1>2. DownMeansDown'
  BY <1>0 DEF TypeOK, DownMeansDown, StageInv, TimeInv, DownInv, Calling, HungUp
<1>3. ASSUME NEW x \in Call PROVE StageInv(x)'
  BY <1>0 DEF TypeOK, StageInv, Working, Bounded
<1>4. ASSUME NEW x \in Call PROVE TimeInv(x)'
  BY <1>0 DEF TypeOK, StageInv, TimeInv, Calling, Working, Bounded
<1>5. ASSUME NEW x \in Call PROVE DownInv(x)'
  BY <1>0 DEF TypeOK, StageInv, DownInv, Calling, HungUp
<1>6. ASSUME NEW x \in Call PROVE SendInv(x)'
  BY <1>0 DEF TypeOK, StageInv, SendInv, Working, Bounded
<1>7. QED
  BY <1>1, <1>2, <1>3, <1>4, <1>5, <1>6

LEMMA WriteRequestInv == ASSUME IInv, NEW c \in Call, WriteRequest(c) PROVE IInv'
<1> USE RpcAssumption, NoneLemma DEF IInv, WriteRequest, Step, cliVars, serverVars, timeVars, historyVars
<1>1. TypeOK'
  BY DEF TypeOK, Working, Bounded
<1>2. DownMeansDown'
  BY DEF TypeOK, DownMeansDown, StageInv, TimeInv, DownInv, Calling, HungUp
<1>3. ASSUME NEW x \in Call PROVE StageInv(x)'
  BY DEF TypeOK, StageInv, Working, Bounded
<1>4. ASSUME NEW x \in Call PROVE TimeInv(x)'
  BY DEF TypeOK, StageInv, TimeInv, Calling, Working, Bounded
<1>5. ASSUME NEW x \in Call PROVE DownInv(x)'
  BY DEF TypeOK, StageInv, DownInv, Calling, HungUp
<1>6. ASSUME NEW x \in Call PROVE SendInv(x)'
  BY DEF TypeOK, StageInv, SendInv, Working, Bounded
<1>7. QED
  BY <1>1, <1>2, <1>3, <1>4, <1>5, <1>6

LEMMA ReadAnswerInv == ASSUME IInv, NEW c \in Call, ReadAnswer(c) PROVE IInv'
<1> USE RpcAssumption, NoneLemma DEF IInv, ReadAnswer, Step, Answered, cliVars, serverVars, timeVars, historyVars
<1>0. /\ outcome' \in [Call -> Code \cup Success \cup {None}]
      /\ outcome'[c] \in {answer[c], "generic"}
      /\ \A x \in Call : x # c => outcome'[x] = outcome[x]
  <2>1. answer[c] \in Code \cup Success
    BY DEF TypeOK, Success
  <2>2. QED
    BY <2>1, EmitLemma
<1>1. TypeOK'
  BY <1>0 DEF TypeOK, Working, Bounded
<1>2. DownMeansDown'
  BY <1>0 DEF TypeOK, DownMeansDown, StageInv, TimeInv, DownInv, Calling, HungUp, Code
<1>3. ASSUME NEW x \in Call PROVE StageInv(x)'
  BY <1>0 DEF TypeOK, StageInv, Working, Bounded
<1>4. ASSUME NEW x \in Call PROVE TimeInv(x)'
  BY <1>0 DEF TypeOK, StageInv, TimeInv, Calling, Working, Bounded
<1>5. ASSUME NEW x \in Call PROVE DownInv(x)'
  BY <1>0 DEF TypeOK, StageInv, DownInv, Calling, HungUp
<1>6. ASSUME NEW x \in Call PROVE SendInv(x)'
  BY <1>0 DEF TypeOK, StageInv, SendInv, Working, Bounded
<1>7. QED
  BY <1>1, <1>2, <1>3, <1>4, <1>5, <1>6

LEMMA ConnectionBrokenInv == ASSUME IInv, NEW c \in Call, ConnectionBroken(c) PROVE IInv'
<1> USE RpcAssumption, NoneLemma DEF IInv, ConnectionBroken, HungUp, cliVars, serverVars, timeVars, historyVars
<1>0. /\ outcome' \in [Call -> Code \cup Success \cup {None}]
      /\ \A x \in Call : x # c => outcome'[x] = outcome[x]
      /\ pc'[c] = "told"
  BY EmitCallErrorLemma DEF TypeOK
<1>1. TypeOK'
  BY <1>0 DEF TypeOK, Working, Bounded
<1>2. DownMeansDown'
  BY <1>0 DEF TypeOK, DownMeansDown, StageInv, TimeInv, DownInv, Calling, HungUp
<1>3. ASSUME NEW x \in Call PROVE StageInv(x)'
  BY <1>0 DEF TypeOK, StageInv, Working, Bounded, Calling
<1>4. ASSUME NEW x \in Call PROVE TimeInv(x)'
  BY <1>0 DEF TypeOK, StageInv, TimeInv, Calling, Working, Bounded
<1>5. ASSUME NEW x \in Call PROVE DownInv(x)'
  BY <1>0 DEF TypeOK, StageInv, DownInv, Calling, HungUp
<1>6. ASSUME NEW x \in Call PROVE SendInv(x)'
  BY <1>0 DEF TypeOK, StageInv, SendInv, Working, Bounded
<1>7. QED
  BY <1>1, <1>2, <1>3, <1>4, <1>5, <1>6

LEMMA TimesOutInv == ASSUME IInv, NEW c \in Call, TimesOut(c) PROVE IInv'
<1> USE RpcAssumption, NoneLemma DEF IInv, TimesOut, Step, cliVars, serverVars, timeVars, historyVars
<1>0. /\ outcome' \in [Call -> Code \cup Success \cup {None}]
      /\ \A x \in Call : x # c => outcome'[x] = outcome[x]
      /\ pc'[c] = "told"
  BY EmitCallErrorLemma DEF TypeOK
<1>1. TypeOK'
  BY <1>0 DEF TypeOK, Working, Bounded
<1>2. DownMeansDown'
  BY <1>0 DEF TypeOK, DownMeansDown, StageInv, TimeInv, DownInv, Calling, HungUp
<1>3. ASSUME NEW x \in Call PROVE StageInv(x)'
  BY <1>0 DEF TypeOK, StageInv, Working, Bounded
<1>4. ASSUME NEW x \in Call PROVE TimeInv(x)'
  BY <1>0 DEF TypeOK, StageInv, TimeInv, Calling, Working, Bounded
<1>5. ASSUME NEW x \in Call PROVE DownInv(x)'
  BY <1>0 DEF TypeOK, StageInv, DownInv, Calling, HungUp
<1>6. ASSUME NEW x \in Call PROVE SendInv(x)'
  BY <1>0 DEF TypeOK, StageInv, SendInv, Working, Bounded, TimeInv, Calling
<1>7. QED
  BY <1>1, <1>2, <1>3, <1>4, <1>5, <1>6

LEMMA KilledInv == ASSUME IInv, NEW c \in Call, Killed(c) PROVE IInv'
<1> USE RpcAssumption, NoneLemma DEF IInv, Killed, cliVars, serverVars, timeVars, historyVars
<1>1. TypeOK'
  BY DEF TypeOK, Working, Bounded
<1>2. DownMeansDown'
  BY DEF TypeOK, DownMeansDown, StageInv, TimeInv, DownInv, Calling, HungUp
<1>3. ASSUME NEW x \in Call PROVE StageInv(x)'
  BY DEF TypeOK, StageInv, Working, Bounded
<1>4. ASSUME NEW x \in Call PROVE TimeInv(x)'
  BY DEF TypeOK, StageInv, TimeInv, Calling, Working, Bounded
<1>5. ASSUME NEW x \in Call PROVE DownInv(x)'
  BY DEF TypeOK, StageInv, DownInv, Calling, HungUp
<1>6. ASSUME NEW x \in Call PROVE SendInv(x)'
  BY DEF TypeOK, StageInv, SendInv, Working, Bounded
<1>7. QED
  BY <1>1, <1>2, <1>3, <1>4, <1>5, <1>6

LEMMA ForgetInv == ASSUME IInv, NEW c \in Call, Forget(c) PROVE IInv'
<1> USE RpcAssumption, NoneLemma DEF IInv, Forget, cliVars, serverVars, timeVars, historyVars
<1>1. TypeOK'
  BY DEF TypeOK, Working, Bounded
<1>2. DownMeansDown'
  BY DEF TypeOK, DownMeansDown, StageInv, TimeInv, DownInv, Calling, HungUp
<1>3. ASSUME NEW x \in Call PROVE StageInv(x)'
  BY DEF TypeOK, StageInv, Working, Bounded
<1>4. ASSUME NEW x \in Call PROVE TimeInv(x)'
  BY DEF TypeOK, StageInv, TimeInv, Calling, Working, Bounded
<1>5. ASSUME NEW x \in Call PROVE DownInv(x)'
  BY DEF TypeOK, StageInv, DownInv, Calling, HungUp
<1>6. ASSUME NEW x \in Call PROVE SendInv(x)'
  BY DEF TypeOK, StageInv, SendInv, Working, Bounded
<1>7. QED
  BY <1>1, <1>2, <1>3, <1>4, <1>5, <1>6

-----------------------------------------------------------------------------
(* Steps of a handler.                                                      *)

LEMMA AcceptInv == ASSUME IInv, NEW c \in Call, Accept(c) PROVE IInv'
<1> USE RpcAssumption, NoneLemma DEF IInv, Accept, Handler, cliVars, serverVars, timeVars, historyVars
<1>1. TypeOK'
  BY DEF TypeOK, Working, Bounded
<1>2. DownMeansDown'
  BY DEF TypeOK, DownMeansDown, StageInv, TimeInv, DownInv, Calling, HungUp
<1>3. ASSUME NEW x \in Call PROVE StageInv(x)'
  BY DEF TypeOK, StageInv, Working, Bounded
<1>4. ASSUME NEW x \in Call PROVE TimeInv(x)'
  BY DEF TypeOK, StageInv, TimeInv, Calling, Working, Bounded
<1>5. ASSUME NEW x \in Call PROVE DownInv(x)'
  BY DEF TypeOK, StageInv, DownInv, Calling, HungUp
<1>6. ASSUME NEW x \in Call PROVE SendInv(x)'
  BY DEF TypeOK, StageInv, SendInv, Working, Bounded
<1>7. QED
  BY <1>1, <1>2, <1>3, <1>4, <1>5, <1>6

LEMMA ReadFailsInv == ASSUME IInv, NEW c \in Call, ReadFails(c) PROVE IInv'
<1> USE RpcAssumption, NoneLemma DEF IInv, ReadFails, Handler, cliVars, serverVars, timeVars, historyVars
<1>1. TypeOK'
  BY DEF TypeOK, Working, Bounded
<1>2. DownMeansDown'
  BY DEF TypeOK, DownMeansDown, StageInv, TimeInv, DownInv, Calling, HungUp
<1>3. ASSUME NEW x \in Call PROVE StageInv(x)'
  BY DEF TypeOK, StageInv, Working, Bounded
<1>4. ASSUME NEW x \in Call PROVE TimeInv(x)'
  BY DEF TypeOK, StageInv, TimeInv, Calling, Working, Bounded
<1>5. ASSUME NEW x \in Call PROVE DownInv(x)'
  BY DEF TypeOK, StageInv, DownInv, Calling, HungUp
<1>6. ASSUME NEW x \in Call PROVE SendInv(x)'
  BY DEF TypeOK, StageInv, SendInv, Working, Bounded
<1>7. QED
  BY <1>1, <1>2, <1>3, <1>4, <1>5, <1>6

LEMMA AnswerAtOnceInv == ASSUME IInv, NEW c \in Call, AnswerAtOnce(c) PROVE IInv'
<1> USE RpcAssumption, NoneLemma DEF IInv, AnswerAtOnce, HasRequest, Answering, cliVars, serverVars, timeVars, historyVars
<1>0. PICK response \in Immediate(cmd[c]) : Answering(c, response)
  OBVIOUS
<1>a. cmd[c] \in Command
  BY DEF TypeOK, StageInv
<1>b. /\ response \in Code \cup {"ok"}
      /\ response # "daemon_not_running"
      /\ cmd[c] = "send" => response # "ok"
  BY <1>0, <1>a, ImmediateLemma
<1>1. TypeOK'
  BY <1>0, <1>a, <1>b DEF TypeOK, Working, Bounded
<1>2. DownMeansDown'
  BY <1>0, <1>a, <1>b DEF TypeOK, DownMeansDown, StageInv, TimeInv, DownInv, Calling, HungUp
<1>3. ASSUME NEW x \in Call PROVE StageInv(x)'
  BY <1>0, <1>a, <1>b DEF TypeOK, StageInv, Working, Bounded
<1>4. ASSUME NEW x \in Call PROVE TimeInv(x)'
  BY <1>0, <1>a, <1>b DEF TypeOK, StageInv, TimeInv, Calling, Working, Bounded
<1>5. ASSUME NEW x \in Call PROVE DownInv(x)'
  BY <1>0, <1>a, <1>b DEF TypeOK, StageInv, DownInv, Calling, HungUp
<1>6. ASSUME NEW x \in Call PROVE SendInv(x)'
  BY <1>0, <1>a, <1>b DEF TypeOK, StageInv, SendInv, Working, Bounded
<1>7. QED
  BY <1>1, <1>2, <1>3, <1>4, <1>5, <1>6

LEMMA StartWorkInv == ASSUME IInv, NEW c \in Call, StartWork(c) PROVE IInv'
<1> USE RpcAssumption, NoneLemma DEF IInv, StartWork, HasRequest, Handler, cliVars, serverVars, timeVars, historyVars
<1>1. TypeOK'
  BY DEF TypeOK, Working, Bounded
<1>2. DownMeansDown'
  BY DEF TypeOK, DownMeansDown, StageInv, TimeInv, DownInv, Calling, HungUp
<1>3. ASSUME NEW x \in Call PROVE StageInv(x)'
  BY DEF TypeOK, StageInv, Working, Bounded
<1>4. ASSUME NEW x \in Call PROVE TimeInv(x)'
  BY DEF TypeOK, StageInv, TimeInv, Calling, Working, Bounded
<1>5. ASSUME NEW x \in Call PROVE DownInv(x)'
  BY DEF TypeOK, StageInv, DownInv, Calling, HungUp
<1>6. ASSUME NEW x \in Call PROVE SendInv(x)'
  BY DEF TypeOK, StageInv, SendInv, Working, Bounded
<1>7. QED
  BY <1>1, <1>2, <1>3, <1>4, <1>5, <1>6

LEMMA SendLeavesInv == ASSUME IInv, NEW c \in Call, SendLeaves(c) PROVE IInv'
<1> USE RpcAssumption, NoneLemma DEF IInv, SendLeaves, Handler, cliVars, serverVars, timeVars, historyVars
<1>1. TypeOK'
  BY DEF TypeOK, Working, Bounded
<1>2. DownMeansDown'
  BY DEF TypeOK, DownMeansDown, StageInv, TimeInv, DownInv, Calling, HungUp
<1>3. ASSUME NEW x \in Call PROVE StageInv(x)'
  BY DEF TypeOK, StageInv, Working, Bounded
<1>4. ASSUME NEW x \in Call PROVE TimeInv(x)'
  BY DEF TypeOK, StageInv, TimeInv, Calling, Working, Bounded
<1>5. ASSUME NEW x \in Call PROVE DownInv(x)'
  BY DEF TypeOK, StageInv, DownInv, Calling, HungUp
<1>6. ASSUME NEW x \in Call PROVE SendInv(x)'
  BY DEF TypeOK, StageInv, SendInv, Working, Bounded
<1>7. QED
  BY <1>1, <1>2, <1>3, <1>4, <1>5, <1>6

LEMMA ConnectedInv == ASSUME IInv, NEW c \in Call, Connected(c) PROVE IInv'
<1> USE RpcAssumption, NoneLemma DEF IInv, Connected, Handler, cliVars, serverVars, timeVars, historyVars
<1>1. TypeOK'
  BY DEF TypeOK, Working, Bounded
<1>2. DownMeansDown'
  BY DEF TypeOK, DownMeansDown, StageInv, TimeInv, DownInv, Calling, HungUp
<1>3. ASSUME NEW x \in Call PROVE StageInv(x)'
  BY DEF TypeOK, StageInv, Working, Bounded
<1>4. ASSUME NEW x \in Call PROVE TimeInv(x)'
  BY DEF TypeOK, StageInv, TimeInv, Calling, Working, Bounded
<1>5. ASSUME NEW x \in Call PROVE DownInv(x)'
  BY DEF TypeOK, StageInv, DownInv, Calling, HungUp
<1>6. ASSUME NEW x \in Call PROVE SendInv(x)'
  BY DEF TypeOK, StageInv, SendInv, Working, Bounded
<1>7. QED
  BY <1>1, <1>2, <1>3, <1>4, <1>5, <1>6

LEMMA SucceedInv == ASSUME IInv, NEW c \in Call, Succeed(c) PROVE IInv'
<1> USE RpcAssumption, NoneLemma DEF IInv, Succeed, Answering, cliVars, serverVars, timeVars, historyVars
<1>1. TypeOK'
  BY DEF TypeOK, Working, Bounded
<1>2. DownMeansDown'
  BY DEF TypeOK, DownMeansDown, StageInv, TimeInv, DownInv, Calling, HungUp
<1>3. ASSUME NEW x \in Call PROVE StageInv(x)'
  BY DEF TypeOK, StageInv, Working, Bounded
<1>4. ASSUME NEW x \in Call PROVE TimeInv(x)'
  BY DEF TypeOK, StageInv, TimeInv, Calling, Working, Bounded
<1>5. ASSUME NEW x \in Call PROVE DownInv(x)'
  BY DEF TypeOK, StageInv, DownInv, Calling, HungUp
<1>6. ASSUME NEW x \in Call PROVE SendInv(x)'
  BY ExitCodes DEF TypeOK, StageInv, SendInv, Working, Bounded
<1>7. QED
  BY <1>1, <1>2, <1>3, <1>4, <1>5, <1>6

LEMMA FailInv == ASSUME IInv, NEW c \in Call, Fail(c) PROVE IInv'
<1> USE RpcAssumption, NoneLemma DEF IInv, Fail, Answering, cliVars, serverVars, timeVars, historyVars
<1>1. TypeOK'
  BY DEF TypeOK, Working, Bounded, Code
<1>2. DownMeansDown'
  BY DEF TypeOK, DownMeansDown, StageInv, TimeInv, DownInv, Calling, HungUp
<1>3. ASSUME NEW x \in Call PROVE StageInv(x)'
  BY DEF TypeOK, StageInv, Working, Bounded
<1>4. ASSUME NEW x \in Call PROVE TimeInv(x)'
  BY DEF TypeOK, StageInv, TimeInv, Calling, Working, Bounded
<1>5. ASSUME NEW x \in Call PROVE DownInv(x)'
  BY DEF TypeOK, StageInv, DownInv, Calling, HungUp
<1>6. ASSUME NEW x \in Call PROVE SendInv(x)'
  BY ExitCodes DEF TypeOK, StageInv, SendInv, Working, Bounded
<1>7. QED
  BY <1>1, <1>2, <1>3, <1>4, <1>5, <1>6

LEMMA WriteAnswerInv == ASSUME IInv, NEW c \in Call, WriteAnswer(c) PROVE IInv'
<1> USE RpcAssumption, NoneLemma DEF IInv, WriteAnswer, Handler, cliVars, serverVars, timeVars, historyVars
<1>1. TypeOK'
  BY DEF TypeOK, Working, Bounded
<1>2. DownMeansDown'
  BY DEF TypeOK, DownMeansDown, StageInv, TimeInv, DownInv, Calling, HungUp
<1>3. ASSUME NEW x \in Call PROVE StageInv(x)'
  BY DEF TypeOK, StageInv, Working, Bounded
<1>4. ASSUME NEW x \in Call PROVE TimeInv(x)'
  BY DEF TypeOK, StageInv, TimeInv, Calling, Working, Bounded
<1>5. ASSUME NEW x \in Call PROVE DownInv(x)'
  BY DEF TypeOK, StageInv, DownInv, Calling, HungUp
<1>6. ASSUME NEW x \in Call PROVE SendInv(x)'
  BY DEF TypeOK, StageInv, SendInv, Working, Bounded
<1>7. QED
  BY <1>1, <1>2, <1>3, <1>4, <1>5, <1>6

LEMMA AnswerStopInv == ASSUME IInv, NEW c \in Call, AnswerStop(c) PROVE IInv'
<1> USE RpcAssumption, NoneLemma DEF IInv, AnswerStop, HasRequest, Handler, cliVars, serverVars, timeVars, historyVars
<1>1. TypeOK'
  BY DEF TypeOK, Working, Bounded
<1>2. DownMeansDown'
  BY DEF TypeOK, DownMeansDown, StageInv, TimeInv, DownInv, Calling, HungUp
<1>3. ASSUME NEW x \in Call PROVE StageInv(x)'
  BY DEF TypeOK, StageInv, Working, Bounded
<1>4. ASSUME NEW x \in Call PROVE TimeInv(x)'
  BY DEF TypeOK, StageInv, TimeInv, Calling, Working, Bounded
<1>5. ASSUME NEW x \in Call PROVE DownInv(x)'
  BY DEF TypeOK, StageInv, DownInv, Calling, HungUp
<1>6. ASSUME NEW x \in Call PROVE SendInv(x)'
  BY DEF TypeOK, StageInv, SendInv, Working, Bounded
<1>7. QED
  BY <1>1, <1>2, <1>3, <1>4, <1>5, <1>6

LEMMA CloseListenerInv == ASSUME IInv, NEW c \in Call, CloseListener(c) PROVE IInv'
<1> USE RpcAssumption, NoneLemma DEF IInv, CloseListener, ListenerCloses, cliVars, serverVars, timeVars, historyVars
<1>1. TypeOK'
  BY DEF TypeOK, Working, Bounded
<1>2. DownMeansDown'
  BY DEF TypeOK, DownMeansDown, StageInv, TimeInv, DownInv, Calling, HungUp
<1>3. ASSUME NEW x \in Call PROVE StageInv(x)'
  BY DEF TypeOK, StageInv, Working, Bounded
<1>4. ASSUME NEW x \in Call PROVE TimeInv(x)'
  BY DEF TypeOK, StageInv, TimeInv, Calling, Working, Bounded
<1>5. ASSUME NEW x \in Call PROVE DownInv(x)'
  BY DEF TypeOK, StageInv, DownInv, Calling, HungUp
<1>6. ASSUME NEW x \in Call PROVE SendInv(x)'
  BY DEF TypeOK, StageInv, SendInv, Working, Bounded
<1>7. QED
  BY <1>1, <1>2, <1>3, <1>4, <1>5, <1>6

-----------------------------------------------------------------------------
(* Steps of the daemon, and time.                                           *)

LEMMA SignalInv == ASSUME IInv, Signal PROVE IInv'
<1> USE RpcAssumption, NoneLemma DEF IInv, Signal, ListenerCloses, cliVars, serverVars, timeVars, historyVars
<1>1. TypeOK'
  BY DEF TypeOK, Working, Bounded
<1>2. DownMeansDown'
  BY DEF TypeOK, DownMeansDown, StageInv, TimeInv, DownInv, Calling, HungUp
<1>3. ASSUME NEW x \in Call PROVE StageInv(x)'
  BY DEF TypeOK, StageInv, Working, Bounded
<1>4. ASSUME NEW x \in Call PROVE TimeInv(x)'
  BY DEF TypeOK, StageInv, TimeInv, Calling, Working, Bounded
<1>5. ASSUME NEW x \in Call PROVE DownInv(x)'
  BY DEF TypeOK, StageInv, DownInv, Calling, HungUp
<1>6. ASSUME NEW x \in Call PROVE SendInv(x)'
  BY DEF TypeOK, StageInv, SendInv, Working, Bounded
<1>7. QED
  BY <1>1, <1>2, <1>3, <1>4, <1>5, <1>6

LEMMA ProcessEndsInv == ASSUME IInv, ProcessEnds PROVE IInv'
<1> USE RpcAssumption, NoneLemma DEF IInv, ProcessEnds, Answered, cliVars, serverVars, timeVars, historyVars
<1>1. TypeOK'
  BY DEF TypeOK, Working, Bounded
<1>2. DownMeansDown'
  BY DEF TypeOK, DownMeansDown, StageInv, TimeInv, DownInv, Calling, HungUp
<1>3. ASSUME NEW x \in Call PROVE StageInv(x)'
  BY DEF TypeOK, StageInv, Working, Bounded
<1>4. ASSUME NEW x \in Call PROVE TimeInv(x)'
  BY DEF TypeOK, StageInv, TimeInv, Calling, Working, Bounded
<1>5. ASSUME NEW x \in Call PROVE DownInv(x)'
  BY DEF TypeOK, StageInv, DownInv, Calling, HungUp
<1>6. ASSUME NEW x \in Call PROVE SendInv(x)'
  BY DEF TypeOK, StageInv, SendInv, Working, Bounded
<1>7. QED
  BY <1>1, <1>2, <1>3, <1>4, <1>5, <1>6

LEMMA StartInv == ASSUME IInv, Start PROVE IInv'
<1> USE RpcAssumption, NoneLemma DEF IInv, Start, cliVars, serverVars, timeVars, historyVars
<1>1. TypeOK'
  BY DEF TypeOK, Working, Bounded
<1>2. DownMeansDown'
  BY DEF TypeOK, DownMeansDown, StageInv, TimeInv, DownInv, Calling, HungUp
<1>3. ASSUME NEW x \in Call PROVE StageInv(x)'
  BY DEF TypeOK, StageInv, Working, Bounded
<1>4. ASSUME NEW x \in Call PROVE TimeInv(x)'
  BY DEF TypeOK, StageInv, TimeInv, Calling, Working, Bounded
<1>5. ASSUME NEW x \in Call PROVE DownInv(x)'
  BY DEF TypeOK, StageInv, DownInv, Calling, HungUp
<1>6. ASSUME NEW x \in Call PROVE SendInv(x)'
  BY DEF TypeOK, StageInv, SendInv, Working, Bounded
<1>7. QED
  BY <1>1, <1>2, <1>3, <1>4, <1>5, <1>6

LEMMA TickInv == ASSUME IInv, Tick PROVE IInv'
<1> USE RpcAssumption, NoneLemma DEF IInv, Tick, Local, BoundByContext, cliVars, serverVars, timeVars, historyVars
<1>1. TypeOK'
  BY DEF TypeOK, Working, Bounded
<1>2. DownMeansDown'
  BY DEF TypeOK, DownMeansDown, StageInv, TimeInv, DownInv, Calling, HungUp
<1>3. ASSUME NEW x \in Call PROVE StageInv(x)'
  BY DEF TypeOK, StageInv, Working, Bounded, Calling
<1>4. ASSUME NEW x \in Call PROVE TimeInv(x)'
  BY DEF TypeOK, StageInv, TimeInv, Calling, Working, Bounded
<1>5. ASSUME NEW x \in Call PROVE DownInv(x)'
  BY DEF TypeOK, StageInv, DownInv, Calling, HungUp
<1>6. ASSUME NEW x \in Call PROVE SendInv(x)'
  BY DEF TypeOK, StageInv, SendInv, Working, Bounded
<1>7. QED
  BY <1>1, <1>2, <1>3, <1>4, <1>5, <1>6

-----------------------------------------------------------------------------
(* The theorems about the invariant.                                        *)

LEMMA StutterInv == ASSUME IInv, UNCHANGED vars PROVE IInv'
<1> USE DEF IInv, vars, cliVars, serverVars, timeVars, historyVars
<1>1. TypeOK'
  BY DEF TypeOK
<1>2. DownMeansDown'
  BY DEF DownMeansDown
<1>3. ASSUME NEW x \in Call PROVE (StageInv(x) /\ TimeInv(x) /\ DownInv(x) /\ SendInv(x))'
  BY DEF StageInv, TimeInv, DownInv, SendInv, Calling, HungUp
<1>4. QED
  BY <1>1, <1>2, <1>3

LEMMA StepInv == IInv /\ [Next]_vars => IInv'
<1> SUFFICES ASSUME IInv, [Next]_vars PROVE IInv'
  OBVIOUS
<1>1. CASE \E c \in Call : Begin(c) \/ GiveUp(c) \/ Dial(c) \/ DialRefused(c)
  BY <1>1, BeginInv, GiveUpInv, DialInv, DialRefusedInv
<1>2. CASE \E c \in Call : CliStep(c) \/ Killed(c) \/ Forget(c)
  BY <1>2, WriteRequestInv, ReadAnswerInv, ConnectionBrokenInv, TimesOutInv, KilledInv, ForgetInv
     DEF CliStep
<1>3. CASE \E c \in Call : LocalStep(c)
  BY <1>3, AcceptInv, ReadFailsInv, AnswerAtOnceInv, StartWorkInv, AnswerStopInv, WriteAnswerInv,
     CloseListenerInv DEF LocalStep
<1>4. CASE \E c \in Call : NetworkStep(c)
  BY <1>4, SendLeavesInv, ConnectedInv, SucceedInv, FailInv DEF NetworkStep
<1>5. CASE Signal \/ ProcessEnds \/ Start
  BY <1>5, SignalInv, ProcessEndsInv, StartInv
<1>6. CASE Tick
  BY <1>6, TickInv
<1>7. CASE UNCHANGED vars
  BY <1>7, StutterInv
<1>8. QED
  BY <1>1, <1>2, <1>3, <1>4, <1>5, <1>6, <1>7 DEF Next

THEOREM RpcInvariant == Spec => []IInv
BY InitInv, StepInv, PTL DEF Spec

(* The variables of Rpc keep their types; no counter leaves its range.      *)
THEOREM RpcTypeOK == Spec => []TypeOK
<1>1. IInv => TypeOK
  BY DEF IInv
<1>2. QED
  BY <1>1, RpcInvariant, PTL

(* Once connected, the CLI calls a daemon down only if it has stopped       *)
(* listening since (runRemote's one code for every transport error).        *)
THEOREM RpcDownMeansDown == Spec => []DownMeansDown
<1>1. IInv => DownMeansDown
  BY DEF IInv
<1>2. QED
  BY <1>1, RpcInvariant, PTL

(* The daemon's 100 seconds end before the CLI's 120 (client.go 20-24), for *)
(* any number of calls: the time of a call is that of its handler and of    *)
(* the local delays, and both are bounded.                                  *)
THEOREM RpcDaemonAnswersFirst == Spec => []DaemonAnswersFirst
<1>1. IInv => DaemonAnswersFirst
  <2> SUFFICES ASSUME IInv, NEW c \in Call, Calling(c), waited[c] = CallTimeout, cmd[c] # "login"
               PROVE  FALSE
    BY DEF DaemonAnswersFirst
  <2>1. waited[c] <= spent[c] + lag[c]
    BY DEF IInv, TimeInv
  <2>2. spent[c] \in 0..RequestTimeout /\ lag[c] \in 0..Lag
    BY DEF IInv, TypeOK
  <2>3. QED
    BY <2>1, <2>2, RpcAssumption
<1>2. QED
  BY <1>1, RpcInvariant, PTL

-----------------------------------------------------------------------------
(* The refinement of CallContract.  A step of one call leaves the status of *)
(* the others; most steps of a handler leave its own too.                   *)

LEMMA InitImplementsInit == Init => Contract!Init
<1> SUFFICES ASSUME Init PROVE Contract!Init
  OBVIOUS
<1>1. \A c \in Call : cmd[c] # "send"
  BY NoneLemma DEF Init, Command
<1>2. \A c \in Call : SendStatus(c) = "none"
  BY <1>1 DEF SendStatus
<1>3. QED
  BY <1>2 DEF Contract!Init, Init

LEMMA StatusFrame ==
    ASSUME NEW x \in Call, cmd'[x] = cmd[x], pc'[x] = pc[x], outcome'[x] = outcome[x]
    PROVE  SendStatus(x)' = SendStatus(x)
BY DEF SendStatus

LEMMA StatusDomain ==
    ASSUME NEW c \in Call, (\A x \in Call : x # c => SendStatus(x)' = SendStatus(x))
    PROVE  [x \in Call |-> SendStatus(x)]'
             = [[x \in Call |-> SendStatus(x)] EXCEPT ![c] = SendStatus(c)']
OBVIOUS

LEMMA StatusUnchanged ==
    ASSUME \A x \in Call : SendStatus(x)' = SendStatus(x)
    PROVE  [x \in Call |-> SendStatus(x)]' = [x \in Call |-> SendStatus(x)]
OBVIOUS

(* A step that leaves the invocations and the messages alone stutters. *)
LEMMA QuietStutters ==
    ASSUME UNCHANGED cliVars, UNCHANGED done
    PROVE  UNCHANGED Contract!vars
<1>1. \A x \in Call : SendStatus(x)' = SendStatus(x)
  BY StatusFrame DEF cliVars
<1>2. QED
  BY <1>1, StatusUnchanged DEF Contract!vars

(* A step that ends a call reports what CallContract allows. *)
LEMMA ReportLemma ==
    ASSUME IInv, NEW c \in Call, UNCHANGED <<cmd, done>>,
           pc[c] \in {"starting", "dialled", "waiting"},
           pc' = [pc EXCEPT ![c] = "told"],
           (\A x \in Call : x # c => outcome'[x] = outcome[x]),
           cmd[c] = "send" => /\ outcome'[c] \in Success => done[c]
                              /\ Refusal(outcome'[c]) => ~done[c]
    PROVE  [Contract!Next]_(Contract!vars)
<1>1. \A x \in Call : pc'[x] = IF x = c THEN "told" ELSE pc[x]
  BY DEF IInv, TypeOK
<1>2. \A x \in Call : x # c => SendStatus(x)' = SendStatus(x)
  BY <1>1, StatusFrame
<1>3. CASE cmd[c] # "send"
  <2>1. SendStatus(c)' = SendStatus(c)
    BY <1>3 DEF SendStatus
  <2>2. QED
    BY <1>2, <2>1, StatusUnchanged DEF Contract!vars
<1>4. CASE cmd[c] = "send"
  <2>1. SendStatus(c) = "open"
    BY <1>4 DEF SendStatus
  <2>2. \/ SendStatus(c)' = "ok" /\ done[c]
        \/ SendStatus(c)' = "refused" /\ ~done[c]
        \/ SendStatus(c)' = "failed"
    <3>1. /\ pc'[c] = "told"
          /\ cmd'[c] = "send"
      BY <1>1, <1>4
    <3>2. SendStatus(c)' = IF ExitCode(outcome'[c]) = 0 THEN "ok"
                           ELSE IF Refusal(outcome'[c]) THEN "refused" ELSE "failed"
      BY <3>1 DEF SendStatus, Refusal, ExitCode, Success
    <3>3. QED
      BY <3>2, <1>4, ExitCodes
  <2>3. Contract!Report(c)
    BY <1>2, <2>1, <2>2, StatusDomain DEF Contract!Report
  <2>4. QED
    BY <2>3 DEF Contract!Next
<1>5. QED
  BY <1>3, <1>4
(* Ends of a call. *)

LEMMA GiveUpReports == ASSUME IInv, NEW c \in Call, GiveUp(c) PROVE [Contract!Next]_(Contract!vars)
<1>1. /\ outcome'[c] \in {"generic", "usage"}
      /\ cmd[c] = "send" => outcome'[c] = "generic"
      /\ \A x \in Call : x # c => outcome'[x] = outcome[x]
  <2>1. "generic" \in Code /\ "usage" \in Code
    BY DEF Code
  <2>2. CASE Emit(c, "generic")
    BY <2>1, <2>2, EmitLemma DEF IInv
  <2>3. CASE cmd[c] = "messages" /\ Emit(c, "usage")
    BY <2>1, <2>3, EmitLemma DEF IInv
  <2>4. QED
    BY <2>2, <2>3 DEF GiveUp
<1>2. cmd[c] = "send" => outcome'[c] \notin Success /\ ~Refusal(outcome'[c])
  BY <1>1, ExitCodes DEF Success
<1>3. QED
  BY <1>1, <1>2, ReportLemma DEF GiveUp, Step, serverVars

(* Every transport error, whatever the daemon did, is a failure. *)
LEMMA CallErrorReports ==
    ASSUME IInv, NEW c \in Call, EmitCallError(c), UNCHANGED <<cmd, done>>,
           pc[c] \in {"starting", "dialled", "waiting"},
           pc' = [pc EXCEPT ![c] = "told"]
    PROVE  [Contract!Next]_(Contract!vars)
<1>1. /\ cmd[c] = "send" => outcome'[c] \in {"daemon_not_running", "generic"}
      /\ \A x \in Call : x # c => outcome'[x] = outcome[x]
  BY EmitCallErrorLemma DEF IInv
<1>2. cmd[c] = "send" => outcome'[c] \notin Success /\ ~Refusal(outcome'[c])
  BY <1>1, ExitCodes DEF Success
<1>3. QED
  BY <1>1, <1>2, ReportLemma

LEMMA ReadAnswerReports ==
    ASSUME IInv, NEW c \in Call, ReadAnswer(c) PROVE [Contract!Next]_(Contract!vars)
<1> USE DEF ReadAnswer, Step, Answered, serverVars
<1>1. answer[c] \in Code \cup Success
  BY NoneLemma DEF IInv, TypeOK, Success
<1>2. /\ outcome'[c] \in {answer[c], "generic"}
      /\ \A x \in Call : x # c => outcome'[x] = outcome[x]
  BY <1>1, EmitLemma DEF IInv
<1>3. cmd[c] = "send" => /\ outcome'[c] \in Success => done[c]
                         /\ Refusal(outcome'[c]) => ~done[c]
  <2> SUFFICES ASSUME cmd[c] = "send"
               PROVE  /\ outcome'[c] \in Success => done[c]
                      /\ Refusal(outcome'[c]) => ~done[c]
    OBVIOUS
  <2>1. CASE outcome'[c] = "generic"
    BY <2>1, ExitCodes DEF Success
  <2>2. CASE outcome'[c] = answer[c]
    <3>1. /\ answer[c] = "ok" => done[c]
          /\ Refusal(answer[c]) => ~done[c]
      BY DEF IInv, SendInv
    <3>2. answer[c] \in Success => answer[c] = "ok"
      BY DEF IInv, TypeOK, Success, Code
    <3>3. QED
      BY <2>2, <3>1, <3>2
  <2>3. QED
    BY <1>2, <2>1, <2>2
<1>4. QED
  BY <1>2, <1>3, ReportLemma

(* The other steps that a caller sees. *)

LEMMA BeginAsks == ASSUME IInv, NEW c \in Call, Begin(c) PROVE [Contract!Next]_(Contract!vars)
<1> USE DEF Begin, Step
<1>1. PICK k \in CommandsOf[c] : cmd' = [cmd EXCEPT ![c] = k]
  OBVIOUS
<1>2. /\ \A x \in Call : x # c => cmd'[x] = cmd[x] /\ pc'[x] = pc[x]
      /\ cmd'[c] = k /\ pc'[c] = "starting"
  BY <1>1 DEF IInv, TypeOK
<1>3. \A x \in Call : x # c => SendStatus(x)' = SendStatus(x)
  BY <1>2, StatusFrame
<1>4. SendStatus(c) = "none"
  BY NoneLemma DEF SendStatus, IInv, StageInv, Command
<1>5. SendStatus(c)' \in {"none", "open"}
  BY <1>2 DEF SendStatus
<1>6. CASE SendStatus(c)' = "none"
  BY <1>3, <1>4, <1>6, StatusUnchanged DEF Contract!vars, serverVars
<1>7. CASE SendStatus(c)' = "open"
  <2>1. Contract!Ask(c)
    BY <1>3, <1>4, <1>7, StatusDomain DEF Contract!Ask, serverVars
  <2>2. QED
    BY <2>1 DEF Contract!Next
<1>8. QED
  BY <1>5, <1>6, <1>7

LEMMA KilledLeaves == ASSUME IInv, NEW c \in Call, Killed(c) PROVE [Contract!Next]_(Contract!vars)
<1> USE DEF Killed
<1>1. /\ \A x \in Call : x # c => pc'[x] = pc[x]
      /\ pc'[c] \in {"gone", "mute"}
  BY DEF IInv, TypeOK
<1>2. \A x \in Call : x # c => SendStatus(x)' = SendStatus(x)
  BY <1>1, StatusFrame
<1>3. CASE cmd[c] # "send"
  <2>1. SendStatus(c)' = SendStatus(c)
    BY <1>3 DEF SendStatus
  <2>2. QED
    BY <1>2, <2>1, StatusUnchanged DEF Contract!vars, serverVars
<1>4. CASE cmd[c] = "send"
  <2>1. SendStatus(c) = "open" /\ SendStatus(c)' = "left"
    BY <1>1, <1>4 DEF SendStatus
  <2>2. Contract!Leave(c)
    BY <1>2, <2>1, StatusDomain DEF Contract!Leave, serverVars
  <2>3. QED
    BY <2>2 DEF Contract!Next
<1>5. QED
  BY <1>3, <1>4

LEMMA ForgetForgets == ASSUME IInv, NEW c \in Call, Forget(c) PROVE [Contract!Next]_(Contract!vars)
<1> USE DEF Forget
<1>1. /\ \A x \in Call : x # c => /\ cmd'[x] = cmd[x] /\ pc'[x] = pc[x]
                                  /\ outcome'[x] = outcome[x]
      /\ cmd'[c] = None
      /\ done' = [done EXCEPT ![c] = FALSE]
  BY DEF IInv, TypeOK
<1>2. \A x \in Call : x # c => SendStatus(x)' = SendStatus(x)
  BY <1>1, StatusFrame
<1>3. SendStatus(c)' = "none"
  BY <1>1, NoneLemma DEF SendStatus, Command
<1>4. CASE cmd[c] # "send"
  <2>1. SendStatus(c) = "none"
    BY <1>4 DEF SendStatus
  <2>2. ~done[c]
    BY <1>4 DEF IInv, SendInv
  <2>3. done' = done
    BY <1>1, <2>2 DEF IInv, TypeOK
  <2>4. QED
    BY <1>2, <1>3, <2>1, <2>3, StatusUnchanged DEF Contract!vars
<1>5. CASE cmd[c] = "send"
  <2>1. SendStatus(c) \notin {"none", "open"}
    BY <1>5 DEF SendStatus
  <2>2. Contract!Forget(c)
    BY <1>1, <1>2, <1>3, <2>1, StatusDomain DEF Contract!Forget
  <2>3. QED
    BY <2>2 DEF Contract!Next
<1>6. QED
  BY <1>4, <1>5

(* The message leaves while its caller waits, or after it was killed: never *)
(* after it was told.                                                       *)
LEMMA SendLeavesIsEffect ==
    ASSUME IInv, NEW c \in Call, SendLeaves(c) PROVE [Contract!Next]_(Contract!vars)
<1> USE DEF SendLeaves, Handler
<1>1. pc[c] \notin {"told", "idle"} /\ ~done[c]
  BY DEF IInv, SendInv, StageInv
<1>2. SendStatus(c) \in {"open", "left"}
  BY <1>1 DEF SendStatus, IInv, TypeOK
<1>3. \A x \in Call : SendStatus(x)' = SendStatus(x)
  BY StatusFrame DEF cliVars
<1>4. Contract!Effect(c)
  BY <1>1, <1>2, <1>3, StatusUnchanged DEF Contract!Effect
<1>5. QED
  BY <1>4 DEF Contract!Next

LEMMA StepImplementsStep == IInv /\ [Next]_vars => [Contract!Next]_(Contract!vars)
<1> SUFFICES ASSUME IInv, [Next]_vars PROVE [Contract!Next]_(Contract!vars)
  OBVIOUS
<1> USE DEF serverVars, cliVars
<1>1. CASE UNCHANGED cliVars /\ UNCHANGED done
  BY <1>1, QuietStutters
<1>2. ASSUME NEW c \in Call, DialRefused(c) \/ ConnectionBroken(c) \/ TimesOut(c)
      PROVE  [Contract!Next]_(Contract!vars)
  BY <1>2, CallErrorReports DEF DialRefused, ConnectionBroken, TimesOut, Step, Calling
<1>3. ASSUME NEW c \in Call, Dial(c) \/ WriteRequest(c)
      PROVE  [Contract!Next]_(Contract!vars)
  <2>1. /\ \A x \in Call : x # c => pc'[x] = pc[x]
        /\ pc[c] \in {"starting", "dialled"} /\ pc'[c] \in {"dialled", "waiting"}
        /\ UNCHANGED <<cmd, outcome, done>>
    BY <1>3 DEF Dial, WriteRequest, Step, IInv, TypeOK
  <2>2. \A x \in Call : x # c => SendStatus(x)' = SendStatus(x)
    BY <2>1, StatusFrame
  <2>3. SendStatus(c)' = SendStatus(c)
    BY <2>1 DEF SendStatus
  <2>4. QED
    BY <2>1, <2>2, <2>3, StatusUnchanged DEF Contract!vars
<1>4. CASE \E c \in Call : Begin(c) \/ GiveUp(c) \/ Dial(c) \/ DialRefused(c)
  BY <1>2, <1>3, <1>4, BeginAsks, GiveUpReports
<1>5. CASE \E c \in Call : CliStep(c) \/ Killed(c) \/ Forget(c)
  BY <1>2, <1>3, <1>5, ReadAnswerReports, KilledLeaves, ForgetForgets DEF CliStep
<1>6. CASE \E c \in Call : LocalStep(c)
  BY <1>1, <1>6 DEF LocalStep, Accept, ReadFails, AnswerAtOnce, Answering, StartWork, AnswerStop,
     WriteAnswer, CloseListener, ListenerCloses
<1>7. CASE \E c \in Call : NetworkStep(c)
  BY <1>1, <1>7, SendLeavesIsEffect DEF NetworkStep, Connected, Succeed, Fail, Answering
<1>8. CASE Signal \/ ProcessEnds \/ Start \/ Tick
  BY <1>1, <1>8 DEF Signal, ListenerCloses, ProcessEnds, Start, Tick
<1>9. CASE UNCHANGED vars
  BY <1>1, <1>9 DEF vars
<1>10. QED
  BY <1>4, <1>5, <1>6, <1>7, <1>8, <1>9 DEF Next

(* `wa send' implements CallContract: exit 0 only of a message that left, a *)
(* refusal only of one that never does, nothing after the command ended     *)
(* (the order of the two timeouts, and answers given after the work).       *)
THEOREM RpcRefinesCallContract == Spec => RefinesCallContract
BY InitImplementsInit, StepImplementsStep, RpcInvariant, PTL
   DEF Spec, RefinesCallContract, Contract!Spec
=============================================================================
