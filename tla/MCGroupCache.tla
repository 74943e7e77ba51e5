----------------------------- MODULE MCGroupCache -----------------------------
(***************************************************************************)
(* GroupCache with one group and two concurrent requests.  (Groups meet     *)
(* only in the generation; the theorems hold for any number of them.)       *)
(***************************************************************************)
EXTENDS GroupCache

CONSTANTS g1, q1, q2

\* The second row finds the first one's name, or failure, in the memo.
MCRowLists == {<<g1, g1>>}
=============================================================================
