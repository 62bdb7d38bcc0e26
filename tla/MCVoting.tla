------------------------------ MODULE MCVoting ------------------------------
(* One root with two competing blocks. *)
EXTENDS Voting

CONSTANTS r1, A, B
MCBlock == {A, B}
MCroot(b) == r1
MCfirst == [r \in {r1} |-> A]
=============================================================================
