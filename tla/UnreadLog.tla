------------------------------ MODULE UnreadLog ------------------------------
(***************************************************************************)
(* What the inbox promises, whatever requests, failures and crashes happen: *)
(* a message is delivered to the user's unread pile once, is taken off it   *)
(* only by a read that carries it towards a caller, and from then on is     *)
(* either in transit, handed to a caller, or dropped together with the      *)
(* answer that carried it.  It never goes back to the pile, and only a      *)
(* purge makes the program forget it.                                       *)
(***************************************************************************)
CONSTANT Message   \* the messages others can send us

VARIABLES
    unread,   \* stored and not yet returned by a consuming read
    transit,  \* marked seen by a read that has not been answered yet
    handed,   \* marked seen and returned to a caller
    dropped   \* marked seen by reads whose answers were all lost

logVars == <<unread, transit, handed, dropped>>

Known == unread \cup transit \cup handed \cup dropped

TypeInv ==
    /\ Known \subseteq Message
    /\ unread \cap (transit \cup handed \cup dropped) = {}

Init ==
    /\ unread = {}
    /\ transit = {}
    /\ handed = {}
    /\ dropped = {}

Arrive(m) ==
    /\ m \notin Known
    /\ unread' = unread \cup {m}
    /\ UNCHANGED <<transit, handed, dropped>>

Take(S) ==
    /\ S \subseteq unread
    /\ unread' = unread \ S
    /\ transit' = transit \cup S
    /\ UNCHANGED <<handed, dropped>>

(* A dropped message may still be carried by another, overlapping read. *)
Hand(S) ==
    /\ S \subseteq transit \cup dropped
    /\ transit' = transit \ S
    /\ handed' = handed \cup S
    /\ dropped' = dropped \ S
    /\ UNCHANGED unread

Drop(S) ==
    /\ S \subseteq transit
    /\ transit' = transit \ S
    /\ dropped' = dropped \cup S
    /\ UNCHANGED <<unread, handed>>

Purge ==
    /\ unread' = {}
    /\ transit' = {}
    /\ handed' = {}
    /\ dropped' = {}

Next ==
    \/ \E m \in Message : Arrive(m)
    \/ \E S \in SUBSET Message : Take(S) \/ Hand(S) \/ Drop(S)
    \/ Purge

Spec == Init /\ [][Next]_logVars
=============================================================================
