----------------------------- MODULE CallContract -----------------------------
(***************************************************************************)
(* What a caller may rely on when it runs a command with an effect on the   *)
(* world (`wa send'): the effect happens at most once, success is only      *)
(* reported of an effect that happened, a refusal only of one that will     *)
(* not, and whatever is reported, nothing happens after the report.  Only a *)
(* caller that leaves without an answer has to expect an effect later.      *)
(***************************************************************************)
CONSTANT Call

VARIABLES status, done

vars == <<status, done>>

TypeOK ==
    /\ status \in [Call -> {"none", "open", "ok", "refused", "failed", "left"}]
    /\ done \in [Call -> BOOLEAN]

Init ==
    /\ status = [c \in Call |-> "none"]
    /\ done = [c \in Call |-> FALSE]

Ask(c) ==
    /\ status[c] = "none"
    /\ status' = [status EXCEPT ![c] = "open"]
    /\ UNCHANGED done

Effect(c) ==
    /\ status[c] \in {"open", "left"}
    /\ ~done[c]
    /\ done' = [done EXCEPT ![c] = TRUE]
    /\ UNCHANGED status

(* A failure leaves open whether the effect happened. *)
Report(c) ==
    /\ status[c] = "open"
    /\ \/ done[c] /\ status' = [status EXCEPT ![c] = "ok"]
       \/ ~done[c] /\ status' = [status EXCEPT ![c] = "refused"]
       \/ status' = [status EXCEPT ![c] = "failed"]
    /\ UNCHANGED done

Leave(c) ==
    /\ status[c] = "open"
    /\ status' = [status EXCEPT ![c] = "left"]
    /\ UNCHANGED done

(* The call is over and c may stand for another one. *)
Forget(c) ==
    /\ status[c] \notin {"none", "open"}
    /\ status' = [status EXCEPT ![c] = "none"]
    /\ done' = [done EXCEPT ![c] = FALSE]

Next == \E c \in Call : Ask(c) \/ Effect(c) \/ Report(c) \/ Leave(c) \/ Forget(c)

Spec == Init /\ [][Next]_vars
=============================================================================
