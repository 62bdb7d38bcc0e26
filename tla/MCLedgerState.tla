---------------------------- MODULE MCLedgerState ---------------------------
(***************************************************************************)
(* A universe of state and epoch blocks over the accounts G (genesis and   *)
(* epoch signer), A and B.  G issues 3.                                    *)
(***************************************************************************)
EXTENDS LedgerInvariants, TLC

CONSTANTS G, A, B, link_1, link_2, g, s1, f1, o1, e1, p1, d1, t1, r1, x1, l1, k1, m1

Block(previous, acct, link, representative, amount_a, signer, work) ==
    [type |-> "state", previous |-> previous, account |-> acct, link |-> link,
     representative |-> representative, balance |-> amount_a, signer |-> signer, work |-> work]

const_content ==
    g  :> [Block(Zero, G, G, G, 0, G, 1) EXCEPT !.type = "open"]
 @@ s1 :> Block(g, G, A, B, 1, G, 1)          \* G sends 2 to A and changes to B
 @@ f1 :> Block(g, G, B, G, 2, G, 1)          \* and, as a fork, 1 to B
 @@ d1 :> Block(s1, G, link_1, B, 1, G, 1)    \* G upgrades to epoch 1
 @@ o1 :> Block(Zero, A, s1, A, 2, A, 1)      \* A receives
 @@ e1 :> Block(Zero, A, link_2, Zero, 0, G, 1)  \* or is opened by an epoch block
 @@ p1 :> Block(e1, A, s1, A, 2, A, 1)        \* and then receives
 @@ t1 :> Block(o1, A, G, A, 1, A, 1)         \* A sends 1 back
 @@ r1 :> Block(d1, G, t1, G, 2, G, 1)        \* G receives it
 @@ x1 :> Block(s1, G, t1, B, 3, G, 1)        \* G claims 2 of the 1 that was sent
 @@ k1 :> Block(d1, G, A, B, 0, G, 1)         \* G, in epoch 1, sends 1 to A
 @@ m1 :> Block(o1, A, k1, A, 3, A, 1)        \* which moves A to epoch 1
 @@ l1 :> Block(p1, A, link_1, B, 1, A, 1)    \* A sends 1 to the word of epoch 1

const_rank ==
    g :> 0 @@ s1 :> 1 @@ f1 :> 1 @@ d1 :> 2 @@ o1 :> 2 @@ e1 :> 0 @@ p1 :> 2 @@ t1 :> 3
    @@ r1 :> 4 @@ x1 :> 4 @@ l1 :> 3 @@ k1 :> 3 @@ m1 :> 4

const_owner == [h \in {g, s1, f1, d1, r1, x1, k1} |-> G] @@ [h \in {o1, e1, p1, t1, l1, m1} |-> A]

const_EpochLink == <<link_1, link_2>>
=============================================================================
