--------------------------- MODULE CementedLedger ---------------------------
(***************************************************************************)
(* What the two cementing algorithms share: the block store they read, the *)
(* confirmation height table they write, the blocks the processor is asked *)
(* to cement and the observers it calls.                                   *)
(*                                                                         *)
(* A block is the pair <<account, height>>; the sideband's successor and   *)
(* the block's previous are the neighbours in the account chain.  Blocks   *)
(* the algorithms are asked about are confirmed and are not rolled back,   *)
(* so the chains stand still; pruning removes cemented blocks at any time. *)
(***************************************************************************)
EXTENDS Integers, Sequences, FiniteSets, SequencesExt

CONSTANTS
    Account,
    genesis,        \* the genesis account, whose first block is cemented from the start
    Ledgers,        \* the block stores considered
    None,           \* no block, a zero hash, an unset optional
    MaxRequests,    \* bound: blocks given to add, one less after a restart
    MaxRestarts,    \* bound: crashes and restarts
    Pruning         \* ledger.pruning

VARIABLES
    ledger,                 \* [length, source, dependencies]: the chains, the send a block receives
    pruned,                 \* store.pruned: removed from the block table
    confirmation_height,    \* store.confirmation_height, as committed
    cemented_count,         \* ledger.cache.cemented_count
    awaiting_processing,    \* confirmation_height_processor::awaiting_processing
    requested,              \* every block given to add since the start
    announced,              \* calls of the cemented observers
    already_cemented,       \* calls of the already cemented observers
    stopped,
    restarts

shared == <<ledger, pruned, confirmation_height, cemented_count, awaiting_processing,
            requested, announced, already_cemented, stopped, restarts>>

(***************************************************************************)
(* The block store.                                                        *)
(***************************************************************************)
Block == DOMAIN ledger.source

account(b) == b[1]

height(b) == b[2]

previous(b) == IF height(b) = 1 THEN None ELSE <<account(b), height(b) - 1>>

successor(b) == IF height(b) = ledger.length[account(b)] THEN None
                ELSE <<account(b), height(b) + 1>>

open_block(a) == <<a, 1>>

\* store.block.exists: the block is in the block table.
stored(b) == b \in Block \ pruned

\* The send a block receives, when that send is in the block table.
receives(b) == ledger.source[b] # None /\ stored(ledger.source[b])

cemented == {b \in Block : height(b) <= confirmation_height[account(b)].height}

dependencies == ledger.dependencies

SumOver(f, S) == FoldSet(LAMBDA a, n : f[a] + n, 0, S)

blocks_cemented(table) == SumOver([a \in Account |-> table[a].height], Account)

(***************************************************************************)
(* The environment of the algorithms.                                      *)
(***************************************************************************)
SharedInit ==
    /\ ledger \in Ledgers
    /\ pruned = {}
    /\ confirmation_height = [a \in Account |->
           IF a = genesis THEN [height |-> 1, frontier |-> open_block(a)]
           ELSE [height |-> 0, frontier |-> None]]
    /\ cemented_count = 1
    /\ awaiting_processing = <<>>
    /\ requested = {}
    /\ announced = <<>>
    /\ already_cemented = {}
    /\ stopped = FALSE
    /\ restarts = 0

\* A confirmed block is queued.
add(b) ==
    /\ Cardinality(requested) + restarts < MaxRequests
    /\ b \notin requested
    /\ requested' = requested \cup {b}
    /\ awaiting_processing' = Append(awaiting_processing, b)
    /\ UNCHANGED <<ledger, pruned, confirmation_height, cemented_count, announced,
                   already_cemented, stopped, restarts>>

stop ==
    /\ ~stopped
    /\ stopped' = TRUE
    /\ UNCHANGED <<ledger, pruned, confirmation_height, cemented_count, awaiting_processing,
                   requested, announced, already_cemented, restarts>>

\* node::ledger_pruning: everything of an account from a block below the confirmed
\* frontier downwards leaves the block table, the genesis block excepted.
prune(b) ==
    /\ Pruning
    /\ stored(b)
    /\ height(b) < confirmation_height[account(b)].height
    /\ b # open_block(genesis)
    /\ pruned' = pruned \cup ({<<account(b), h>> : h \in 1..height(b)} \ {open_block(genesis)})
    /\ UNCHANGED <<ledger, confirmation_height, cemented_count, awaiting_processing,
                   requested, announced, already_cemented, stopped, restarts>>

\* The node stops or crashes and starts again: only the tables survive, and the cached
\* count is read back from the confirmation height table.
SharedRestart ==
    /\ restarts < MaxRestarts
    /\ restarts' = restarts + 1
    /\ cemented_count' = blocks_cemented(confirmation_height)
    /\ awaiting_processing' = <<>>
    /\ requested' = {}
    /\ stopped' = FALSE
    /\ UNCHANGED <<ledger, pruned, confirmation_height, announced, already_cemented>>
=============================================================================
