-------------------- MODULE MCConfirmationHeightProcessor --------------------
(***************************************************************************)
(* The confirmation height processor for TLC: two blocks that meet one     *)
(* other writer; one block that meets both other writers, and one whose    *)
(* entries cement two blocks, on a node that may be stopped.               *)
(***************************************************************************)
EXTENDS ConfirmationHeightProcessor

CONSTANTS b1, b2

MCLoads ==
    {[blocks |-> {b1, b2}, writers |-> {"process_batch"}, iterations |-> 2, sizes |-> 1,
      stops |-> FALSE],
     [blocks |-> {b1}, writers |-> {"process_batch", "pruning"}, iterations |-> 2, sizes |-> 1,
      stops |-> TRUE],
     [blocks |-> {b1}, writers |-> {"pruning"}, iterations |-> 2, sizes |-> 2, stops |-> TRUE]}
=============================================================================
