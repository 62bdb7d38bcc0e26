------------------------ MODULE MCActiveTransactions ------------------------
(***************************************************************************)
(* a opens with the receive of a cemented send of g and has another block. *)
(* Both blocks fall in the same bucket, which holds one.                   *)
(***************************************************************************)
EXTENDS ActiveTransactions, TLC

CONSTANTS g, a

MCLength == (g :> 1) @@ (a :> 2)
MCFirst == (g :> 1) @@ (a :> 0)
MCSource == (<<g, 1>> :> None) @@ (<<a, 1>> :> <<g, 1>>) @@ (<<a, 2>> :> None)
MCBucket == (<<g, 1>> :> 0) @@ (<<a, 1>> :> 1) @@ (<<a, 2>> :> 1)
MCModified == (<<g, 1>> :> 1) @@ (<<a, 1>> :> 2) @@ (<<a, 2>> :> 3)
=============================================================================
