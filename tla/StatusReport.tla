----------------------------- MODULE StatusReport -----------------------------
(***************************************************************************)
(* `wa status' beside LoginSession: the handler reads the pairing and then  *)
(* the connection of a client that other requests, whatsmeow and the phone  *)
(* change in between (internal/daemon/daemon.go, status).  One request is   *)
(* enough, since it changes nothing the others see.  Push name and number   *)
(* of a linked account are payload.                                         *)
(***************************************************************************)
EXTENDS LoginSession

VARIABLES
    probe,   \* what the running status request has read of the pairing
    held,    \* history: since then, the client was once connected with it
    torn     \* history: it read it between the two steps of a logout

statusVars == <<probe, held, torn>>

StatusTypeOK ==
    /\ TypeOK
    /\ probe \in {"idle", "linked", "unlinked"}
    /\ held \in BOOLEAN
    /\ torn \in BOOLEAN

StatusInit == Init /\ probe = "idle" /\ held = FALSE /\ torn = FALSE

Matches == probe # "idle" /\ conn /\ (paired <=> probe = "linked")

(* OwnID. *)
ReadOwnID ==
    /\ probe = "idle"
    /\ probe' = IF paired THEN "linked" ELSE "unlinked"
    /\ UNCHANGED vars
    /\ held' = Matches'
    /\ torn' = leaving

(* IsConnected; the answer is what the two reads have given. *)
ReadConnected ==
    /\ probe # "idle"
    /\ probe' = "idle"
    /\ held' = FALSE
    /\ torn' = FALSE
    /\ UNCHANGED vars

StatusNext ==
    \/ Next /\ UNCHANGED <<probe, torn>> /\ held' = (held \/ Matches')
    \/ ReadOwnID
    \/ ReadConnected

StatusSpec == StatusInit /\ [][StatusNext]_<<vars, statusVars>>

FairStatusSpec == StatusSpec /\ Fairness

(* A status that says "connected" describes a moment of its request, linked *)
(* or not: a login, a logout or a reconnection between its two reads cannot *)
(* make up a state that never was, because the pairing only changes over a  *)
(* connection.  The one exception is a pairing read after a logout has      *)
(* disconnected and before it has forgotten the session.  (A status that    *)
(* says "not connected" may be made up.)                                    *)
ConnectedStatusHeld == probe # "idle" /\ conn => held \/ torn

(* The inductive invariant: until the client is connected, what was read of *)
(* the pairing stays true.                                                  *)
StatusInv ==
    probe # "idle" => \/ held
                      \/ torn
                      \/ ~conn /\ ~leaving /\ (paired <=> probe = "linked")
=============================================================================
