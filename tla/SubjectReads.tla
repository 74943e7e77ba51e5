----------------------------- MODULE SubjectReads -----------------------------
(***************************************************************************)
(* What a response promises about group subjects, with no cache in sight.   *)
(* WhatsApp renames groups, the daemon is told of each rename in order and  *)
(* some time later, and a response names its rows one after another: each   *)
(* group with one subject that it has, no older than what the daemon knew   *)
(* when the response was begun, or with no subject at all.                  *)
(***************************************************************************)
EXTENDS Integers, Sequences

CONSTANTS Group, Request, RowLists

VARIABLES
    subjects,  \* per group, the subjects it has had
    known,     \* per group, the last of them the daemon was told of
    open,      \* whether a response is being put together
    rows,      \* the groups of its rows
    floor,     \* `known' when it was begun
    answers    \* what its rows have been named with so far

readVars == <<subjects, known, open, rows, floor, answers>>

Unnamed == 0   \* the caller's fallback: no subject was found

Init ==
    /\ subjects \in [Group -> {<<s>> : s \in {"name", "empty"}}]
    /\ known = [g \in Group |-> 1]
    /\ open = [r \in Request |-> FALSE]
    /\ rows = [r \in Request |-> <<>>]
    /\ floor = [r \in Request |-> [g \in Group |-> 0]]
    /\ answers = [r \in Request |-> <<>>]

Rename(g) ==
    /\ \E s \in {"name", "empty"} : subjects' = [subjects EXCEPT ![g] = Append(@, s)]
    /\ UNCHANGED <<known, open, rows, floor, answers>>

Tell(g) ==
    /\ known[g] < Len(subjects[g])
    /\ known' = [known EXCEPT ![g] = @ + 1]
    /\ UNCHANGED <<subjects, open, rows, floor, answers>>

Open(r) ==
    /\ ~open[r]
    /\ open' = [open EXCEPT ![r] = TRUE]
    /\ \E list \in RowLists : rows' = [rows EXCEPT ![r] = list]
    /\ floor' = [floor EXCEPT ![r] = known]
    /\ UNCHANGED <<subjects, known, answers>>

Recent(r, g) ==
    {v \in 1..Len(subjects[g]) : subjects[g][v] = "name" /\ floor[r][g] <= v}

(* The answers earlier rows of the group have got. *)
Given(r, g) ==
    {answers[r][i] : i \in {j \in DOMAIN answers[r] : rows[r][j] = g}}

Answer(r) ==
    /\ open[r]
    /\ Len(answers[r]) < Len(rows[r])
    /\ LET g == rows[r][Len(answers[r]) + 1]
       IN  \E v \in IF Given(r, g) # {} THEN Given(r, g) ELSE {Unnamed} \cup Recent(r, g) :
               answers' = [answers EXCEPT ![r] = Append(@, v)]
    /\ UNCHANGED <<subjects, known, open, rows, floor>>

Close(r) ==
    /\ open[r]
    /\ Len(answers[r]) = Len(rows[r])
    /\ open' = [open EXCEPT ![r] = FALSE]
    /\ rows' = [rows EXCEPT ![r] = <<>>]
    /\ floor' = [floor EXCEPT ![r] = [g \in Group |-> 0]]
    /\ answers' = [answers EXCEPT ![r] = <<>>]
    /\ UNCHANGED <<subjects, known>>

Next ==
    \/ \E g \in Group : Rename(g) \/ Tell(g)
    \/ \E r \in Request : Open(r) \/ Answer(r) \/ Close(r)

Spec == Init /\ [][Next]_readVars
=============================================================================
