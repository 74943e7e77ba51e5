-------------------------------- MODULE MCRpc --------------------------------
(***************************************************************************)
(* Rpc with an invocation of any command beside one of `wa stop'.           *)
(***************************************************************************)
EXTENDS Rpc

CONSTANTS c1, c2

MCCommands == [c \in Call |-> IF c = c1 THEN Command ELSE {"stop"}]
=============================================================================
