-------------------------- MODULE MCBlockProcessor --------------------------
(***************************************************************************)
(* Blocks over the accounts A, B and C, from which an instance takes some. *)
(***************************************************************************)
EXTENDS BlockProcessor

CONSTANTS A, B, C, a1, a2, a3, b1, c1, f1, x2

Entry(root, source, type, signer, pays) ==
    [root |-> root, source |-> source, type |-> type, epoch_link |-> signer = "epoch",
     signer |-> signer, pays |-> pays]

universe ==
    a1 :> Entry(A, None, "state", "account", None)      \* the first block of A
 @@ f1 :> Entry(A, None, "state", "account", None)      \* a fork of it
 @@ a2 :> Entry(a1, None, "legacy", "account", C)       \* A pays C
 @@ a3 :> [Entry(a1, None, "state", "account", None)    \* a fork of a2 that sends to
             EXCEPT !.epoch_link = TRUE]                \* the word of an epoch
 @@ x2 :> Entry(a1, None, "state", "other", None)       \* a fork nobody signed
 @@ b1 :> Entry(B, a2, "state", "account", None)        \* B receives a2
 @@ c1 :> Entry(C, None, "state", "epoch", None)        \* an epoch block opens C

const_content == [b \in Block |-> universe[b]]
=============================================================================
