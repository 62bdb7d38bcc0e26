--------------------------- MODULE MCLedgerLegacy ---------------------------
(***************************************************************************)
(* A universe of legacy blocks over the accounts G (genesis), A and B,     *)
(* with the state blocks that end a legacy chain.  G issues 3.             *)
(***************************************************************************)
EXTENDS LedgerInvariants, TLC

CONSTANTS G, A, B, link_1, link_2, g, s1, f1, o1, t1, r1, c1, u1, v1, w1

Block(type, previous, acct, link, representative, amount_a, signer) ==
    [type |-> type, previous |-> previous, account |-> acct, link |-> link,
     representative |-> representative, balance |-> amount_a, signer |-> signer, work |-> 1]

const_content ==
    g  :> Block("open", Zero, G, G, G, 0, G)
 @@ s1 :> Block("send", g, Zero, A, Zero, 1, G)        \* G sends 2 to A
 @@ f1 :> Block("send", g, Zero, B, Zero, 2, G)        \* and, as a fork, 1 to B
 @@ o1 :> Block("open", Zero, A, s1, B, 0, A)          \* A receives them
 @@ t1 :> Block("send", o1, Zero, G, Zero, 1, A)       \* and sends 1 back
 @@ r1 :> Block("receive", s1, Zero, t1, Zero, 0, G)
 @@ c1 :> Block("change", t1, Zero, Zero, A, 0, A)     \* A represents itself
 @@ u1 :> Block("state", c1, A, B, G, 0, A)            \* a state block of A sends 1 to B
 @@ v1 :> Block("state", Zero, B, u1, A, 1, B)         \* B receives it
 @@ w1 :> Block("send", s1, Zero, A, Zero, 2, G)       \* G has only 1 at this point

const_rank ==
    g :> 0 @@ s1 :> 1 @@ f1 :> 1 @@ o1 :> 2 @@ t1 :> 3 @@ r1 :> 4 @@ c1 :> 4 @@ u1 :> 5
    @@ v1 :> 6 @@ w1 :> 2

const_owner ==
    [h \in {g, s1, f1, r1, w1} |-> G] @@ [h \in {o1, t1, c1, u1} |-> A] @@ v1 :> B

const_EpochLink == <<link_1, link_2>>
=============================================================================
