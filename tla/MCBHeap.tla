------------------------------ MODULE MCBHeap ------------------------------
(***************************************************************************)
(* Five keys, two of the same rank, of which the first four are ranked as  *)
(* their addresses are and the last one is not.                            *)
(***************************************************************************)
EXTENDS BHeap, TLC

RankOfFive == (1 :> 1) @@ (2 :> 2) @@ (3 :> 2) @@ (4 :> 3) @@ (5 :> 1)

=============================================================================
