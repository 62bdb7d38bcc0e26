----------------------------- MODULE Cementing -----------------------------
(***************************************************************************)
(* What the confirmation height processor promises, whatever algorithm it  *)
(* uses: a block becomes cemented only together with everything it depends *)
(* on, only because a block that depends on it was confirmed, and for      *)
(* good; and the observers hear of cemented blocks, dependencies first and *)
(* no block twice.  A block depends on itself, on its predecessor in the   *)
(* account chain, on the send it receives, and on what these depend on.    *)
(* ConfirmationHeightBounded and ConfirmationHeightUnbounded implement it. *)
(***************************************************************************)
EXTENDS Naturals, Sequences

VARIABLES
    dependencies,   \* block -> the blocks it depends on, itself included
    requested,      \* the blocks given to confirmation_height_processor::add since the start
    cemented,       \* the blocks at or below the confirmation height of their account
    announced       \* the blocks the cemented observers were called with, in order

vars == <<dependencies, requested, cemented, announced>>

Closed(S) == \A b \in S : dependencies[b] \subseteq S

\* Confirmed by a request: depended on by a block that was asked for.
Wanted == UNION {dependencies[b] : b \in requested}

\* A dependency is never announced after a block that depends on it.
Ordered(s) ==
    \A i, j \in 1..Len(s) : i < j => s[j] \notin dependencies[s[i]]

Init ==
    /\ requested = {}
    /\ cemented \subseteq DOMAIN dependencies
    /\ Closed(cemented)
    /\ announced = <<>>

Add ==
    /\ \E b \in DOMAIN dependencies : requested' = requested \cup {b}
    /\ UNCHANGED <<dependencies, cemented, announced>>

Cement ==
    /\ cemented \subseteq cemented'
    /\ cemented' \ cemented \subseteq Wanted
    /\ \A b \in cemented' : dependencies[b] \subseteq cemented'
    /\ UNCHANGED <<dependencies, requested, announced>>

Announce ==
    /\ Len(announced) <= Len(announced')
    /\ announced' = announced \o SubSeq(announced', Len(announced) + 1, Len(announced'))
    /\ \A i \in (Len(announced) + 1)..Len(announced') : announced'[i] \in cemented
    /\ \A i, j \in 1..Len(announced') :
           i < j => announced'[j] \notin dependencies[announced'[i]]
    /\ UNCHANGED <<dependencies, requested, cemented>>

\* What was asked of a node that crashes or stops is forgotten.
Restart ==
    /\ requested' = {}
    /\ UNCHANGED <<dependencies, cemented, announced>>

Next == Add \/ Cement \/ Announce \/ Restart

Spec == Init /\ [][Next]_vars
=============================================================================
