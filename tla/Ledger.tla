------------------------------- MODULE Ledger -------------------------------
(***************************************************************************)
(* The block lattice: the store tables, the in-memory ledger cache, the    *)
(* validation of a block (ledger_processor), the undoing of blocks         *)
(* (rollback_visitor, ledger::rollback) and the pruning of cemented        *)
(* history.  Every step below runs under the single write transaction of   *)
(* the store, so a write operation that takes several steps excludes the   *)
(* others until it is finished.                                            *)
(*                                                                         *)
(* A block hash covers the whole content of the block, so a block IS its   *)
(* hash here: `content' gives the fields of the block with a given hash.   *)
(* A table without an entry for a key holds None (or Zero where the code   *)
(* returns a zero value, or the default-constructed record).               *)
(***************************************************************************)
EXTENDS Integers, Sequences, FiniteSets, FiniteSetsExt

CONSTANTS
    Account,            \* public keys that can own a chain
    Hash,               \* hashes of the blocks that exist anywhere
    Zero,               \* the all-zero 256 bit word: no hash, no link, burn account
    None,               \* absent table entry
    content,            \* [Hash -> Content]
    rank,               \* [Hash -> Nat], grows along the hashes a block refers to
    owner,              \* [Hash -> Account], whose chain a block would extend
    genesis,            \* hash of the genesis block
    EpochLink,          \* link words of the epochs 1 and 2
    EpochSigner,        \* key that signs epoch blocks
    UInt128Max,         \* largest amount; all of it is issued by the genesis block
    epoch_1, epoch_2, epoch_2_receive,   \* work thresholds
    pruning             \* is the node run with --enable_pruning

Epoch == 0..2

Legacy == {"send", "receive", "open", "change"}

\* Whatever a 256 bit field may hold: an account, a hash, an epoch link, zero.
Word == Account \cup Hash \cup {EpochLink[e] : e \in 1..2} \cup {Zero}

Amount == 0..UInt128Max

(***************************************************************************)
(* The fields of a block.  `link' is the destination of a send, the source *)
(* of a receive or an open and the link of a state block; fields a type    *)
(* does not have hold Zero or 0.  `signer' is the key whose signature the  *)
(* block carries and `work' the difficulty of its proof of work.           *)
(***************************************************************************)
Content == [type : Legacy \cup {"state"}, previous : Hash \cup {Zero},
            account : Account \cup {Zero}, link : Word,
            representative : Account \cup {Zero}, balance : Amount,
            signer : Account \cup {EpochSigner}, work : Nat]

Sideband == [successor : Hash \cup {Zero}, account : Account \cup {Zero}, height : Nat,
             balance : Amount, epoch : Epoch, is_send : BOOLEAN, is_receive : BOOLEAN,
             is_epoch : BOOLEAN, source_epoch : Epoch]

AccountInfo == [head : Hash \cup {Zero}, representative : Account \cup {Zero},
                open_block : Hash \cup {Zero}, balance : Amount,
                block_count : Nat, epoch : Epoch]

\* account_info info;  -- also the value of a missing table entry
account_info == [head |-> Zero, representative |-> Zero, open_block |-> Zero,
                 balance |-> 0, block_count |-> 0, epoch |-> 0]

\* The constructor of account_info (without the time of the last change)
new_account_info(head, representative, open_block, balance_a, count, epoch) ==
    [head |-> head, representative |-> representative, open_block |-> open_block,
     balance |-> balance_a, block_count |-> count, epoch |-> epoch]

PendingInfo == [source : Account \cup {Zero}, amount : Amount, epoch : Epoch]

ConfirmationHeightInfo == [height : Nat, frontier : Hash \cup {Zero}]

\* A block's hash is computed from the hashes it names, so these never form a cycle.
ASSUME HashAssumption ==
    /\ rank \in [Hash -> Nat]
    /\ \A h \in Hash : /\ content[h].previous \in Hash => rank[content[h].previous] < rank[h]
                       /\ content[h].link \in Hash => rank[content[h].link] < rank[h]

ASSUME ContentAssumption ==
    /\ content \in [Hash -> Content]
    /\ UInt128Max \in Nat
    /\ pruning \in BOOLEAN
    /\ Zero \notin Account \cup Hash
    /\ Account \cap Hash = {}
    /\ None \notin Account \cup Hash \cup {Zero} \cup Sideband \cup PendingInfo
    /\ \A e \in 1..2 : EpochLink[e] \notin Hash \cup {Zero}
    /\ \A h \in Hash : content[h].type \in {"send", "receive", "change"} =>
          content[h].account = Zero /\ content[h].previous \in Hash
    /\ \A h \in Hash : content[h].type = "open" => content[h].previous = Zero

\* Blocks that do not name their account belong to the account of their predecessor.
ASSUME OwnerAssumption ==
    /\ owner \in [Hash -> Account \cup {Zero}]
    /\ \A h \in Hash : owner[h] = IF content[h].type \in {"open", "state"} THEN content[h].account
                                  ELSE owner[content[h].previous]

(***************************************************************************)
(* The epoch signer is the network's operator: an epoch block it signs     *)
(* extends the account the block names.  (epoch_block_impl does not check  *)
(* the previous block of an epoch block that opens an account.)            *)
(***************************************************************************)
ASSUME EpochSignerAssumption ==
    \A h \in Hash : /\ content[h].type = "state" /\ content[h].signer = EpochSigner
                    /\ content[h].link \in {EpochLink[e] : e \in 1..2}
                    /\ content[h].previous # Zero
                    => owner[content[h].previous] = content[h].account

ASSUME GenesisAssumption ==
    /\ genesis \in Hash
    /\ content[genesis].type = "open"
    /\ content[genesis].account \in Account
    /\ content[genesis].link = content[genesis].account
    /\ content[genesis].representative = content[genesis].account

VARIABLES
    block,                  \* table blocks: hash -> sideband or None
    account,                \* table accounts: account -> account_info
    pending,                \* table pending: <<destination, send hash>> -> pending_info or None
    frontier,               \* table frontiers: head of a legacy chain -> account or Zero
    confirmation_height,    \* table confirmation_height
    pruned,                 \* table pruned
    rep_weights,            \* cache: voting weight of each representative
    block_count, account_count, cemented_count, pruned_count,   \* cache
    calls,                  \* stack of the running ledger::rollback calls
    list,                   \* blocks undone by the running rollback
    prune_hash              \* loop variable of the running pruning_action

store == <<block, account, pending, frontier, confirmation_height, pruned>>

cache == <<rep_weights, block_count, account_count, cemented_count, pruned_count>>

vars == <<store, cache, calls, list, prune_hash>>

-----------------------------------------------------------------------------
(***************************************************************************)
(* One activation of ledger::rollback with the visitor it owns.  The       *)
(* visitor undoes one head at a time; `visiting' is the send whose undoing *)
(* waits for nested rollbacks, `info' the account it read before them and  *)
(* `new_info' the account it will write after them.                        *)
(***************************************************************************)
Call == [target : Hash, account : Account, height : Nat, visiting : Hash \cup {Zero},
         info : AccountInfo, new_info : AccountInfo, error : BOOLEAN]

-----------------------------------------------------------------------------
(* Reading the store                                                       *)

exists(h) == h \in Hash /\ block[h] # None

block_or_pruned_exists(h) == h \in pruned \/ exists(h)

is_legacy(h) == content[h].type \in Legacy

account_of(h) == IF content[h].account # Zero THEN content[h].account ELSE block[h].account

height_of(h) == block[h].height

\* store.block.balance: sends and state blocks carry it, the sideband of the others does.
balance_of(h) == IF content[h].type \in {"send", "state"} THEN content[h].balance ELSE block[h].balance

\* ledger::balance, 0 for the zero hash
balance(h) == IF h = Zero THEN 0 ELSE balance_of(h)

\* Mutant of amount: the previous balance is not subtracted.
amount_whole_balance(h) == balance(h)

\* ledger::amount
amount(h) ==
    LET here == balance(h)
        there == balance(content[h].previous)
    IN  IF here > there THEN here - there ELSE there - here

\* Mutant of version: every block is taken for a legacy block.
version_legacy(h) == 0

\* store.block.version
version(h) == IF exists(h) /\ ~is_legacy(h) THEN block[h].epoch ELSE 0

opened(a) == account[a].head # Zero

\* ledger::latest
latest(a) == IF a \in Account THEN account[a].head ELSE Zero

pending_exists(key) == pending[key] # None

is_epoch_link(w) == \E e \in 1..2 : EpochLink[e] = w

epoch_of_link(w) == CHOOSE e \in 1..2 : EpochLink[e] = w

signed_by(h, key) == content[h].signer = key

\* The block a chain took its representative from: sends and receives inherit it.
\* Zero when the walk down the chain meets a block that is not in the store.
representative_visitor[h \in Hash \cup {Zero}] ==
    IF ~exists(h) THEN Zero
    ELSE IF content[h].type \in {"open", "change", "state"} THEN h
    ELSE representative_visitor[content[h].previous]

\* ledger::account_safe: with pruning the source block may be gone.
account_safe(h) == IF exists(h) THEN account_of(h) ELSE Zero

\* Mutant of block_confirmed: pruned blocks are not remembered to be confirmed.
block_confirmed_stored(h) == exists(h) /\ confirmation_height[account_of(h)].height >= height_of(h)

\* ledger::block_confirmed
block_confirmed(h) ==
    \/ h \in pruned
    \/ exists(h) /\ confirmation_height[account_of(h)].height >= height_of(h)

\* The entry of ledger::dependent_blocks that is not the previous block, for a block with a sideband
source_of(h) ==
    CASE content[h].type = "receive" -> content[h].link
      [] content[h].type = "open" ->
            IF content[h].link = content[genesis].account THEN Zero ELSE content[h].link
      [] content[h].type = "state" ->
            IF is_epoch_link(content[h].link) \/ block[h].is_send THEN Zero ELSE content[h].link
      [] OTHER -> Zero

\* Is the block h of the ledger a send
is_send(h) == content[h].type = "send" \/ (content[h].type = "state" /\ block[h].is_send)

\* Mutant of dependents_confirmed: the source is not looked at.
dependents_confirmed_chain(h) == content[h].previous = Zero \/ block_confirmed(content[h].previous)

dependents_confirmed(h) ==
    \A d \in {content[h].previous, source_of(h)} : d = Zero \/ block_confirmed(d)

\* ledger::forked_block: the block of the ledger that took the place the block h wants.
\* None when the code's assertions fail.
forked_block(h) ==
    LET previous == content[h].previous
        open_block == account[content[h].account].open_block
        found == IF previous # Zero THEN block[previous].successor ELSE open_block
    IN  IF exists(found) THEN found ELSE None

threshold(epoch, is_receive, is_epoch) ==
    IF epoch < 2 THEN epoch_1
    ELSE IF is_receive \/ is_epoch THEN epoch_2_receive ELSE epoch_2

-----------------------------------------------------------------------------
(* Writing the store and the cache                                         *)

\* store.block.put and the successor of the previous block that goes with it
block_put(h, sideband) ==
    [x \in Hash |-> IF x = h THEN sideband
                    ELSE IF x = content[h].previous THEN [block[x] EXCEPT !.successor = h]
                    ELSE block[x]]

\* store.block.del and successor_clear of the previous block
block_del(h) ==
    [x \in Hash |-> IF x = h THEN None
                    ELSE IF x = content[h].previous /\ exists(x) THEN [block[x] EXCEPT !.successor = Zero]
                    ELSE block[x]]

Modulus == UInt128Max + 1

\* Mutant of minus: the sign is lost.
minus_lost(x) == x

\* 0 - x in unsigned arithmetic
minus(x) == (Modulus - x) % Modulus

representation_add(rep, x) == [rep_weights EXCEPT ![rep] = (@ + x) % Modulus]

representation_add_dual(rep_1, x_1, rep_2, x_2) ==
    IF rep_1 # rep_2
    THEN [rep_weights EXCEPT ![rep_1] = (@ + x_1) % Modulus, ![rep_2] = (@ + x_2) % Modulus]
    ELSE representation_add(rep_1, (x_1 + x_2) % Modulus)

update_account(a, old, new) ==
    /\ account' = [account EXCEPT ![a] = IF new.head # Zero THEN new ELSE account_info]
    /\ account_count' = IF new.head = Zero THEN account_count - 1
                        ELSE IF old.head = Zero /\ new.open_block = new.head THEN account_count + 1
                        ELSE account_count

idle == calls = <<>> /\ prune_hash = Zero

-----------------------------------------------------------------------------
(***************************************************************************)
(* ledger_processor: the verdict on a block, one operator per visitor      *)
(* function.  The signature checks the code skips for a block the caller   *)
(* has already verified are the same checks, so `verified' does not appear.*)
(***************************************************************************)

legacy_work(h) == content[h].work >= threshold(0, FALSE, FALSE)

\* What send_block, change_block and receive_block check first
legacy_position_code(h) ==
    IF block_or_pruned_exists(h) THEN "old"
    ELSE IF ~exists(content[h].previous) THEN "gap_previous"
    ELSE IF ~is_legacy(content[h].previous) THEN "block_position"
    ELSE IF frontier[content[h].previous] = Zero THEN "fork"
    ELSE IF ~signed_by(h, frontier[content[h].previous]) THEN "bad_signature"
    ELSE "progress"

change_code(h) ==
    IF legacy_position_code(h) # "progress" THEN legacy_position_code(h)
    ELSE IF ~legacy_work(h) THEN "insufficient_work"
    ELSE "progress"

send_code(h) ==
    IF legacy_position_code(h) # "progress" THEN legacy_position_code(h)
    ELSE IF ~legacy_work(h) THEN "insufficient_work"
    ELSE IF account[frontier[content[h].previous]].balance < content[h].balance THEN "negative_spend"
    ELSE "progress"

receive_code(h) ==
    LET a == frontier[content[h].previous]
        key == <<a, content[h].link>>
    IN  IF legacy_position_code(h) # "progress" THEN legacy_position_code(h)
        ELSE IF ~block_or_pruned_exists(content[h].link) THEN "gap_source"
        ELSE IF account[a].head # content[h].previous THEN "gap_previous"
        ELSE IF ~pending_exists(key) THEN "unreceivable"
        ELSE IF pending[key].epoch # 0 THEN "unreceivable"
        ELSE IF ~legacy_work(h) THEN "insufficient_work"
        ELSE "progress"

open_code(h) ==
    LET a == content[h].account
        key == <<a, content[h].link>>
    IN  IF block_or_pruned_exists(h) THEN "old"
        ELSE IF ~signed_by(h, a) THEN "bad_signature"
        ELSE IF ~block_or_pruned_exists(content[h].link) THEN "gap_source"
        ELSE IF latest(a) # Zero THEN "fork"
        ELSE IF ~pending_exists(key) THEN "unreceivable"
        ELSE IF a = Zero THEN "opened_burn_account"
        ELSE IF pending[key].epoch # 0 THEN "unreceivable"
        ELSE IF ~legacy_work(h) THEN "insufficient_work"
        ELSE "progress"

\* What state_block_impl works out about a block whose account is in the ledger or not
state_is_send(h) == opened(content[h].account) /\ content[h].balance < account[content[h].account].balance

state_is_receive(h) ==
    opened(content[h].account) => ~state_is_send(h) /\ content[h].link # Zero

state_amount(h) ==
    LET had == account[content[h].account].balance
    IN  IF state_is_send(h) THEN had - content[h].balance ELSE content[h].balance - had

\* Mutant of state_source_epoch: the epoch of the source is not recorded.
state_source_epoch_zero(h) == 0

state_source_epoch(h) ==
    IF ~state_is_send(h) /\ content[h].link # Zero
    THEN pending[<<content[h].account, content[h].link>>].epoch ELSE 0

state_epoch(h) ==
    LET e == account[content[h].account].epoch
    IN  IF e < state_source_epoch(h) THEN state_source_epoch(h) ELSE e

state_position_code(h) ==
    LET info == account[content[h].account]
        previous == content[h].previous
    IN  IF opened(content[h].account)
        THEN IF previous = Zero THEN "fork"
             ELSE IF ~exists(previous) THEN "gap_previous"
             ELSE IF previous # info.head THEN "fork"
             ELSE "progress"
        ELSE IF previous # Zero THEN "gap_previous"
             ELSE IF content[h].link = Zero THEN "gap_source"
             ELSE "progress"

state_amount_code(h) ==
    LET key == <<content[h].account, content[h].link>>
    IN  IF state_is_send(h) THEN "progress"
        ELSE IF content[h].link = Zero
        THEN IF state_amount(h) # 0 THEN "balance_mismatch" ELSE "progress"
        ELSE IF ~block_or_pruned_exists(content[h].link) THEN "gap_source"
        ELSE IF ~pending_exists(key) THEN "unreceivable"
        ELSE IF state_amount(h) # pending[key].amount THEN "balance_mismatch"
        ELSE "progress"

state_impl_code(h) ==
    IF block_or_pruned_exists(h) THEN "old"
    ELSE IF ~signed_by(h, content[h].account) THEN "bad_signature"
    ELSE IF content[h].account = Zero THEN "opened_burn_account"
    ELSE IF state_position_code(h) # "progress" THEN state_position_code(h)
    ELSE IF state_amount_code(h) # "progress" THEN state_amount_code(h)
    ELSE IF content[h].work < threshold(state_epoch(h), state_is_receive(h), FALSE)
    THEN "insufficient_work"
    ELSE "progress"

epoch_position_code(h) ==
    LET info == account[content[h].account]
        epoch == epoch_of_link(content[h].link)
    IN  IF opened(content[h].account)
        THEN IF content[h].previous = Zero THEN "fork"
             ELSE IF content[h].previous # info.head THEN "fork"
             ELSE IF content[h].representative # info.representative THEN "representative_mismatch"
             ELSE IF epoch # info.epoch + 1 THEN "block_position"
             ELSE "progress"
        ELSE IF content[h].representative # Zero THEN "representative_mismatch"
             ELSE IF \A s \in Hash : ~pending_exists(<<content[h].account, s>>)
             THEN "gap_epoch_open_pending"
             ELSE "progress"

epoch_impl_code(h) ==
    IF block_or_pruned_exists(h) THEN "old"
    ELSE IF ~signed_by(h, EpochSigner) THEN "bad_signature"
    ELSE IF content[h].account = Zero THEN "opened_burn_account"
    ELSE IF epoch_position_code(h) # "progress" THEN epoch_position_code(h)
    ELSE IF content[h].balance # account[content[h].account].balance THEN "balance_mismatch"
    ELSE IF content[h].work < threshold(epoch_of_link(content[h].link), FALSE, TRUE)
    THEN "insufficient_work"
    ELSE "progress"

validate_epoch_code(h) ==
    IF content[h].previous = Zero \/ exists(content[h].previous) THEN "progress"
    ELSE IF signed_by(h, content[h].account) \/ signed_by(h, EpochSigner) THEN "gap_previous"
    ELSE "bad_signature"

is_epoch_block(h) ==
    is_epoch_link(content[h].link) /\ content[h].balance = balance(content[h].previous)

state_code(h) ==
    IF is_epoch_link(content[h].link) /\ validate_epoch_code(h) # "progress"
    THEN validate_epoch_code(h)
    ELSE IF is_epoch_block(h) THEN epoch_impl_code(h) ELSE state_impl_code(h)

process_code(h) ==
    CASE content[h].type = "send" -> send_code(h)
      [] content[h].type = "receive" -> receive_code(h)
      [] content[h].type = "open" -> open_code(h)
      [] content[h].type = "change" -> change_code(h)
      [] content[h].type = "state" -> state_code(h)

-----------------------------------------------------------------------------
(* ledger::process: what a block the ledger accepts does                   *)

legacy_sideband(a, amount_a, height) ==
    [successor |-> Zero, account |-> a, height |-> height, balance |-> amount_a, epoch |-> 0,
     is_send |-> FALSE, is_receive |-> FALSE, is_epoch |-> FALSE, source_epoch |-> 0]

process_accepted(h) ==
    /\ idle
    /\ process_code(h) = "progress"
    /\ block_count' = block_count + 1
    /\ UNCHANGED <<confirmation_height, pruned, cemented_count, pruned_count, calls, list, prune_hash>>

process_send(h) ==
    LET a == frontier[content[h].previous]
        info == account[a]
        sent == info.balance - content[h].balance
    IN  /\ content[h].type = "send"
        /\ process_accepted(h)
        /\ block' = block_put(h, legacy_sideband(a, content[h].balance, info.block_count + 1))
        /\ rep_weights' = representation_add(info.representative, minus(sent))
        /\ update_account(a, info, new_account_info(h, info.representative, info.open_block,
                                                    content[h].balance, info.block_count + 1, 0))
        /\ pending' = [pending EXCEPT ![<<content[h].link, h>>] =
                          [source |-> a, amount |-> sent, epoch |-> 0]]
        /\ frontier' = [frontier EXCEPT ![content[h].previous] = Zero, ![h] = a]

process_receive(h) ==
    LET a == frontier[content[h].previous]
        info == account[a]
        key == <<a, content[h].link>>
        new_balance == (info.balance + pending[key].amount) % Modulus
    IN  /\ content[h].type = "receive"
        /\ process_accepted(h)
        /\ block' = block_put(h, legacy_sideband(a, new_balance, info.block_count + 1))
        /\ rep_weights' = representation_add(info.representative, pending[key].amount)
        /\ update_account(a, info, new_account_info(h, info.representative, info.open_block,
                                                    new_balance, info.block_count + 1, 0))
        /\ pending' = [pending EXCEPT ![key] = None]
        /\ frontier' = [frontier EXCEPT ![content[h].previous] = Zero, ![h] = a]

process_open(h) ==
    LET a == content[h].account
        key == <<a, content[h].link>>
    IN  /\ content[h].type = "open"
        /\ process_accepted(h)
        /\ block' = block_put(h, legacy_sideband(a, pending[key].amount, 1))
        /\ rep_weights' = representation_add(content[h].representative, pending[key].amount)
        /\ update_account(a, account[a], new_account_info(h, content[h].representative, h,
                                                          pending[key].amount, 1, 0))
        /\ pending' = [pending EXCEPT ![key] = None]
        /\ frontier' = [frontier EXCEPT ![h] = a]

process_change(h) ==
    LET a == frontier[content[h].previous]
        info == account[a]
        moved == balance(content[h].previous)
    IN  /\ content[h].type = "change"
        /\ process_accepted(h)
        /\ block' = block_put(h, legacy_sideband(a, info.balance, info.block_count + 1))
        /\ rep_weights' = representation_add_dual(content[h].representative, moved,
                                                  info.representative, minus(moved))
        /\ update_account(a, info, new_account_info(h, content[h].representative, info.open_block,
                                                    info.balance, info.block_count + 1, 0))
        /\ frontier' = [frontier EXCEPT ![content[h].previous] = Zero, ![h] = a]
        /\ UNCHANGED pending

\* The account after the state block h, which leaves it in the given epoch
state_info(h, epoch) ==
    LET info == account[content[h].account]
    IN  new_account_info(h, content[h].representative,
                         IF info.open_block = Zero THEN h ELSE info.open_block,
                         content[h].balance, info.block_count + 1, epoch)

\* A legacy chain that a state block extends is no longer a legacy chain.
frontier_del(head) == IF head = Zero THEN frontier ELSE [frontier EXCEPT ![head] = Zero]

process_state(h) ==
    LET a == content[h].account
        info == account[a]
    IN  /\ content[h].type = "state" /\ ~is_epoch_block(h)
        /\ process_accepted(h)
        /\ block' = block_put(h,
              [successor |-> Zero, account |-> a, height |-> info.block_count + 1, balance |-> 0,
               epoch |-> state_epoch(h), is_send |-> state_is_send(h),
               is_receive |-> state_is_receive(h), is_epoch |-> FALSE,
               source_epoch |-> state_source_epoch(h)])
        /\ rep_weights' =
              IF opened(a)
              THEN representation_add_dual(info.representative, minus(info.balance),
                                           content[h].representative, content[h].balance)
              ELSE representation_add(content[h].representative, content[h].balance)
        /\ pending' =
              IF state_is_send(h)
              THEN [pending EXCEPT ![<<content[h].link, h>>] =
                       [source |-> a, amount |-> state_amount(h), epoch |-> state_epoch(h)]]
              ELSE IF content[h].link # Zero
              THEN [pending EXCEPT ![<<a, content[h].link>>] = None]
              ELSE pending
        /\ update_account(a, info, state_info(h, state_epoch(h)))
        /\ frontier' = frontier_del(info.head)

process_epoch(h) ==
    LET a == content[h].account
        info == account[a]
        epoch == epoch_of_link(content[h].link)
    IN  /\ content[h].type = "state" /\ is_epoch_block(h)
        /\ process_accepted(h)
        /\ block' = block_put(h,
              [successor |-> Zero, account |-> a, height |-> info.block_count + 1, balance |-> 0,
               epoch |-> epoch, is_send |-> FALSE, is_receive |-> FALSE, is_epoch |-> TRUE,
               source_epoch |-> 0])
        /\ update_account(a, info, state_info(h, epoch))
        /\ frontier' = frontier_del(info.head)
        /\ UNCHANGED <<pending, rep_weights>>

\* A block with any other verdict changes nothing in the ledger.
process(h) ==
    \/ process_send(h) \/ process_receive(h) \/ process_open(h)
    \/ process_change(h) \/ process_state(h) \/ process_epoch(h)

-----------------------------------------------------------------------------
(***************************************************************************)
(* ledger::rollback.  The loop undoes the head of the account until the    *)
(* target is gone; undoing a send whose amount was received first rolls    *)
(* back the receiving account, one nested call per block.                  *)
(***************************************************************************)

top == calls[Len(calls)]

rest == SubSeq(calls, 1, Len(calls) - 1)

call(h) == [target |-> h, account |-> account_of(h), height |-> height_of(h), visiting |-> Zero,
            info |-> account_info, new_info |-> account_info, error |-> FALSE]

rollback_begin(h) ==
    /\ idle
    /\ exists(h)
    /\ calls' = <<call(h)>>
    /\ list' = <<>>
    /\ UNCHANGED <<store, cache, prune_hash>>

\* The call ends; the visitor that made it sees whether it failed.  The caller of the
\* outermost call takes the list.
rollback_return ==
    /\ calls # <<>>
    /\ top.visiting = Zero
    /\ top.error \/ ~exists(top.target)
    /\ calls' = [i \in DOMAIN rest |->
                    IF i = Len(rest) THEN [rest[i] EXCEPT !.error = top.error] ELSE rest[i]]
    /\ list' = IF rest = <<>> THEN <<>> ELSE list
    /\ UNCHANGED <<store, cache, prune_hash>>

looping ==
    /\ calls # <<>>
    /\ top.visiting = Zero
    /\ ~top.error
    /\ exists(top.target)

\* Mutant of rollback_refuse: the loop tries again.
rollback_refuse_retry ==
    /\ looping
    /\ top.height <= confirmation_height[top.account].height
    /\ UNCHANGED vars

rollback_refuse ==
    /\ looping
    /\ top.height <= confirmation_height[top.account].height
    /\ calls' = [calls EXCEPT ![Len(calls)].error = TRUE]
    /\ UNCHANGED <<store, cache, list, prune_hash>>

visited == account[top.account].head

\* Mutant of visit: the confirmation height does not protect the block.
visit_any_height(type) ==
    /\ looping
    /\ exists(visited)
    /\ content[visited].type = type
    /\ list' = Append(list, visited)
    /\ UNCHANGED <<confirmation_height, pruned, cemented_count, pruned_count, prune_hash>>

\* The loop visits the head of the account, a block of the given type.
visit(type) ==
    /\ looping
    /\ top.height > confirmation_height[top.account].height
    /\ exists(visited)
    /\ content[visited].type = type
    /\ list' = Append(list, visited)
    /\ UNCHANGED <<confirmation_height, pruned, cemented_count, pruned_count, prune_hash>>

rollback_receive ==
    LET h == visited
        previous == content[h].previous
        a == account_of(h)
        info == account[a]
    IN  /\ visit("receive")
        /\ rep_weights' = representation_add(info.representative, minus(amount(h)))
        /\ update_account(a, info, new_account_info(previous, info.representative, info.open_block,
                                                    balance(previous), info.block_count - 1, 0))
        /\ block' = block_del(h)
        /\ pending' = [pending EXCEPT ![<<a, content[h].link>>] =
                          [source |-> account_safe(content[h].link), amount |-> amount(h), epoch |-> 0]]
        /\ frontier' = [frontier EXCEPT ![h] = Zero, ![previous] = a]
        /\ block_count' = block_count - 1
        /\ UNCHANGED calls

rollback_open ==
    LET h == visited
        a == account_of(h)
    IN  /\ visit("open")
        /\ rep_weights' = representation_add(content[h].representative, minus(amount(h)))
        /\ update_account(a, account_info, account_info)
        /\ block' = block_del(h)
        /\ pending' = [pending EXCEPT ![<<a, content[h].link>>] =
                          [source |-> account_safe(content[h].link), amount |-> amount(h), epoch |-> 0]]
        /\ frontier' = [frontier EXCEPT ![h] = Zero]
        /\ block_count' = block_count - 1
        /\ UNCHANGED calls

\* The lookup of the representative stops the program when it finds no block.
rollback_change ==
    LET h == visited
        previous == content[h].previous
        a == account_of(previous)
        info == account[a]
        rep_block == representative_visitor[previous]
        representative == content[rep_block].representative
        moved == balance(previous)
    IN  /\ visit("change")
        /\ exists(rep_block)
        /\ rep_weights' = representation_add_dual(content[h].representative, minus(moved),
                                                  representative, moved)
        /\ update_account(a, info, new_account_info(previous, representative, info.open_block,
                                                    info.balance, info.block_count - 1, 0))
        /\ block' = block_del(h)
        /\ frontier' = [frontier EXCEPT ![h] = Zero, ![previous] = a]
        /\ block_count' = block_count - 1
        /\ UNCHANGED <<pending, calls>>

\* state_block up to the point where it knows what kind of block it undoes
rollback_state_representative(h) ==
    LET previous == content[h].previous
        rep_block == representative_visitor[previous]
    IN  IF previous # Zero
        THEN /\ exists(rep_block)
             /\ rep_weights' = representation_add_dual(content[rep_block].representative, balance(previous),
                                                       content[h].representative, minus(content[h].balance))
        ELSE rep_weights' = representation_add(content[h].representative, minus(content[h].balance))

\* The account without its head h, a state block; its epoch is read again at the end.
state_previous_info(h, info) ==
    LET previous == content[h].previous
    IN  new_account_info(previous,
                         IF previous = Zero THEN Zero
                         ELSE content[representative_visitor[previous]].representative,
                         info.open_block, balance(previous), info.block_count - 1, 0)

\* The writes that end state_block
rollback_state_end(h, info, new_info) ==
    LET previous == content[h].previous
    IN  /\ update_account(content[h].account, info, [new_info EXCEPT !.epoch = version(previous)])
        /\ frontier' = IF exists(previous) /\ is_legacy(previous)
                       THEN [frontier EXCEPT ![previous] = content[h].account] ELSE frontier
        /\ block' = block_del(h)
        /\ block_count' = block_count - 1

rollback_state ==
    LET h == visited
        a == content[h].account
        link == content[h].link
    IN  /\ visit("state")
        /\ content[h].balance >= balance(content[h].previous)
        /\ rollback_state_representative(h)
        /\ pending' = IF link # Zero /\ ~is_epoch_link(link)
                      THEN [pending EXCEPT ![<<a, link>>] =
                               [source |-> account_safe(link),
                                amount |-> content[h].balance - balance(content[h].previous),
                                epoch |-> block[h].source_epoch]]
                      ELSE pending
        /\ rollback_state_end(h, account[a], state_previous_info(h, account[a]))
        /\ UNCHANGED calls

\* A send is not undone at once: the visitor first makes sure its amount is pending.
rollback_send_visit ==
    /\ visit("send")
    /\ calls' = [calls EXCEPT ![Len(calls)].visiting = visited]
    /\ UNCHANGED <<block, account, pending, frontier, rep_weights, block_count, account_count>>

\* Mutant of state_send_call: the account is not read before the nested rollbacks.
state_send_call_unread(h) ==
    [top EXCEPT !.visiting = h,
                !.new_info = state_previous_info(h, account[content[h].account])]

state_send_call(h) ==
    [top EXCEPT !.visiting = h, !.info = account[content[h].account],
                !.new_info = state_previous_info(h, account[content[h].account])]

rollback_state_send_visit ==
    LET h == visited
    IN  /\ visit("state")
        /\ content[h].balance < balance(content[h].previous)
        /\ rollback_state_representative(h)
        /\ calls' = [calls EXCEPT ![Len(calls)] = state_send_call(h)]
        /\ UNCHANGED <<block, account, pending, frontier, block_count, account_count>>

visiting_key == <<content[top.visiting].link, top.visiting>>

\* The amount was received: undo the head of the receiving account.
rollback_nested ==
    /\ calls # <<>>
    /\ top.visiting # Zero
    /\ ~top.error
    /\ ~pending_exists(visiting_key)
    /\ exists(latest(visiting_key[1]))
    /\ calls' = Append(calls, call(latest(visiting_key[1])))
    /\ UNCHANGED <<store, cache, list, prune_hash>>

\* A send that could not be made pending again is left alone and ends the call.
rollback_send_finish ==
    LET h == top.visiting
        previous == content[h].previous
        a == pending[visiting_key].source
        info == account[a]
    IN  /\ calls # <<>>
        /\ h # Zero
        /\ content[h].type = "send"
        /\ top.error \/ pending_exists(visiting_key)
        /\ IF top.error
           THEN UNCHANGED <<block, account, pending, frontier, rep_weights, block_count, account_count>>
           ELSE /\ pending' = [pending EXCEPT ![visiting_key] = None]
                /\ rep_weights' = representation_add(info.representative, pending[visiting_key].amount)
                /\ update_account(a, info, new_account_info(previous, info.representative, info.open_block,
                                                            balance(previous), info.block_count - 1, 0))
                /\ block' = block_del(h)
                /\ frontier' = [frontier EXCEPT ![h] = Zero, ![previous] = a]
                /\ block_count' = block_count - 1
        /\ calls' = [calls EXCEPT ![Len(calls)].visiting = Zero]
        /\ UNCHANGED <<confirmation_height, pruned, cemented_count, pruned_count, list, prune_hash>>

\* state_block forgets the failure of a nested rollback: its `error' hides the visitor's.
rollback_state_send_finish ==
    LET h == top.visiting
    IN  /\ calls # <<>>
        /\ h # Zero
        /\ content[h].type = "state"
        /\ top.error \/ pending_exists(visiting_key)
        /\ pending' = [pending EXCEPT ![visiting_key] = None]
        /\ rollback_state_end(h, top.info, top.new_info)
        /\ calls' = [calls EXCEPT ![Len(calls)].visiting = Zero, ![Len(calls)].error = FALSE]
        /\ UNCHANGED <<rep_weights, confirmation_height, pruned, cemented_count, pruned_count, list, prune_hash>>

rollback_step ==
    \/ rollback_return \/ rollback_refuse \/ rollback_receive \/ rollback_open
    \/ rollback_change \/ rollback_state \/ rollback_send_visit \/ rollback_state_send_visit
    \/ rollback_nested \/ rollback_send_finish \/ rollback_state_send_finish

-----------------------------------------------------------------------------
(* The other writers of the ledger                                         *)

\* What the confirmation height processor promises: an account's confirmation height
\* moves up to a block whose dependencies are all cemented.
cement(h) ==
    LET a == account_of(h)
    IN  /\ idle
        /\ exists(h)
        /\ height_of(h) = confirmation_height[a].height + 1
        /\ dependents_confirmed(h)
        /\ confirmation_height' = [confirmation_height EXCEPT ![a] =
                                      [height |-> height_of(h), frontier |-> h]]
        /\ cemented_count' = cemented_count + 1
        /\ UNCHANGED <<block, account, pending, frontier, pruned, rep_weights, block_count,
                       account_count, pruned_count, calls, list, prune_hash>>

\* Mutant of pruning_begin: the confirmed frontier itself may be pruned.
pruning_begin_frontier(h) ==
    /\ pruning
    /\ idle
    /\ exists(h) /\ h # genesis
    /\ height_of(h) <= confirmation_height[account_of(h)].height
    /\ prune_hash' = h
    /\ UNCHANGED <<store, cache, calls, list>>

\* node::ledger_pruning picks a block below the confirmed frontier of an account.
pruning_begin(h) ==
    /\ pruning
    /\ idle
    /\ exists(h) /\ h # genesis
    /\ height_of(h) < confirmation_height[account_of(h)].height
    /\ prune_hash' = h
    /\ UNCHANGED <<store, cache, calls, list>>

\* One round of the loop of pruning_action, which may commit after each block.
pruning_action ==
    LET h == prune_hash
    IN  /\ h # Zero
        /\ IF h # genesis /\ exists(h)
           THEN /\ block' = [block EXCEPT ![h] = None]
                /\ pruned' = pruned \cup {h}
                /\ pruned_count' = pruned_count + 1
                /\ prune_hash' = content[h].previous
           ELSE /\ h = genesis \/ h \in pruned
                /\ prune_hash' = Zero
                /\ UNCHANGED <<block, pruned, pruned_count>>
        /\ UNCHANGED <<account, pending, frontier, confirmation_height, rep_weights, block_count,
                       account_count, cemented_count, calls, list>>

\* ledger::initialize: the cache as a node rebuilds it from the store
initialize ==
    LET accounts == {a \in Account : opened(a)}
    IN  [rep_weights |-> [r \in Account \cup {Zero} |->
                             MapThenSumSet(LAMBDA a : account[a].balance,
                                           {a \in accounts : account[a].representative = r}) % Modulus],
         block_count |-> MapThenSumSet(LAMBDA a : account[a].block_count, accounts),
         account_count |-> Cardinality(accounts),
         cemented_count |-> MapThenSumSet(LAMBDA a : confirmation_height[a].height, Account),
         pruned_count |-> Cardinality(pruned)]

\* The node stops and starts again.  An open write transaction is lost, except that
\* pruning has committed the blocks it pruned so far.
restart ==
    /\ calls = <<>>
    /\ rep_weights' = initialize.rep_weights
    /\ block_count' = initialize.block_count
    /\ account_count' = initialize.account_count
    /\ cemented_count' = initialize.cemented_count
    /\ pruned_count' = initialize.pruned_count
    /\ prune_hash' = Zero
    /\ list' = <<>>
    /\ UNCHANGED <<store, calls>>

-----------------------------------------------------------------------------

\* store_partial::initialize: an empty store receives the genesis block.
Init ==
    LET a == content[genesis].account
    IN  /\ block = [h \in Hash |-> IF h = genesis THEN legacy_sideband(a, UInt128Max, 1) ELSE None]
        /\ account = [x \in Account |->
                         IF x = a THEN [head |-> genesis, representative |-> a, open_block |-> genesis,
                                        balance |-> UInt128Max, block_count |-> 1, epoch |-> 0]
                         ELSE account_info]
        /\ pending = [key \in Word \X Hash |-> None]
        /\ frontier = [h \in Hash |-> IF h = genesis THEN a ELSE Zero]
        /\ confirmation_height = [x \in Account |->
                                     IF x = a THEN [height |-> 1, frontier |-> genesis]
                                     ELSE [height |-> 0, frontier |-> Zero]]
        /\ pruned = {}
        /\ rep_weights = [r \in Account \cup {Zero} |-> IF r = a THEN UInt128Max ELSE 0]
        /\ block_count = 1 /\ account_count = 1 /\ cemented_count = 1 /\ pruned_count = 0
        /\ calls = <<>> /\ list = <<>> /\ prune_hash = Zero

Next ==
    \/ \E h \in Hash : process(h) \/ rollback_begin(h) \/ cement(h) \/ pruning_begin(h)
    \/ rollback_step
    \/ pruning_action
    \/ restart

Spec == Init /\ [][Next]_vars /\ WF_vars(rollback_step) /\ WF_vars(pruning_action)

-----------------------------------------------------------------------------
(* Properties                                                              *)

\* The tables and the activations of rollback hold values of the types the code gives them.
TypeOK ==
    /\ block \in [Hash -> Sideband \cup {None}]
    /\ account \in [Account -> AccountInfo]
    /\ pending \in [Word \X Hash -> PendingInfo \cup {None}]
    /\ frontier \in [Hash -> Account \cup {Zero}]
    /\ confirmation_height \in [Account -> ConfirmationHeightInfo]
    /\ pruned \subseteq Hash
    /\ calls \in Seq(Call)
    /\ list \in Seq(Hash)
    /\ prune_hash \in Hash \cup {Zero}

\* No amount is created or destroyed: in every state, also in the middle of a rollback,
\* the balances of all accounts and everything sent but not received add up to the
\* amount the genesis block issued.
SupplyConserved ==
    MapThenSumSet(LAMBDA a : account[a].balance, Account)
    + MapThenSumSet(LAMBDA key : pending[key].amount, {key \in DOMAIN pending : pending_exists(key)})
    = UInt128Max

\* The cache the processor and the rollback visitor maintain by deltas is what
\* ledger::initialize would compute from the tables at the next start.
CacheMatchesInitialize ==
    calls = <<>> =>
        initialize = [rep_weights |-> rep_weights, block_count |-> block_count,
                      account_count |-> account_count, cemented_count |-> cemented_count,
                      pruned_count |-> pruned_count]

\* Blocks of the ledger whose block h takes the amount of the send s
receives(h, s) == exists(h) /\ source_of(h) = s

\* An amount is pending if and only if its send is in the ledger (or pruned) and no block
\* of the destination has received it.  The entry of a send that is still in the store
\* names the sender, the amount sent and the epoch: undoing a receive puts back exactly
\* what the send had put.
PendingExact ==
    \A key \in DOMAIN pending :
        LET s == key[2]
            was_sent == exists(s) /\ content[s].link = key[1] /\ is_send(s)
        IN  /\ pending_exists(key) /\ s \notin pruned => was_sent
            /\ was_sent => (pending_exists(key) <=>
                              ~\E h \in Hash : \/ receives(h, s)
                                               \/ h \in pruned /\ content[h].link = s)
            /\ was_sent /\ pending_exists(key) =>
                  pending[key] = [source |-> account_of(s),
                                  amount |-> pending[key].amount,
                                  epoch |-> version(s)]
            /\ was_sent /\ pending_exists(key) /\ exists(content[s].previous) =>
                  pending[key].amount = amount(s)

\* No amount is received twice: a block that receives a send is in the chain of the
\* destination, the send is in the ledger (or pruned) and not pending any more, and no
\* other block of the ledger receives it.
ReceivedOnce ==
    \A h, s \in Hash : receives(h, s) =>
        /\ account_of(h) = content[s].link
        /\ block_or_pruned_exists(s)
        /\ exists(s) => is_send(s)
        /\ ~pending_exists(<<content[s].link, s>>)
        /\ \A k \in Hash : receives(k, s) => k = h

\* What an account's entry says is what its head block says, so process and rollback
\* are inverse to each other: representative, balance and epoch are those a walk down
\* the chain would find.
AccountInfoDerived ==
    \A a \in Account : opened(a) =>
        LET info == account[a]
            rep_block == representative_visitor[info.head]
        IN  /\ exists(info.head) /\ account_of(info.head) = a
            /\ info.balance = balance(info.head)
            /\ info.epoch = version(info.head)
            /\ rep_block # Zero => info.representative = content[rep_block].representative

\* The frontier table lists exactly the accounts whose head is a legacy block, under
\* that head: legacy blocks find their account only there.
FrontierMatchesHead ==
    \A h \in Hash : \A a \in Account :
        frontier[h] = a <=> account[a].head = h /\ is_legacy(h)

\* A rollback a send needs on the receiving account always finds a head to undo, and one
\* above the confirmation height, so it cannot fail: the error that state_block of the
\* rollback visitor drops, and the half done undo it would leave, never happen.
NestedRollbackSafe ==
    /\ \A i \in 2..Len(calls) : ~calls[i].error
    /\ calls # <<>> /\ top.visiting # Zero /\ ~pending_exists(visiting_key) =>
          LET head == latest(visiting_key[1])
          IN  exists(head) /\ height_of(head) > confirmation_height[visiting_key[1]].height

\* While a nested rollback runs, nothing changes the account whose send waits for it:
\* the account the visitor read before the nested calls is still the one in the table.
CapturedInfoFresh ==
    \A i \in DOMAIN calls :
        LET h == calls[i].visiting
        IN  h # Zero => /\ exists(h) /\ account[calls[i].account].head = h
                        /\ content[h].type = "state" => calls[i].info = account[calls[i].account]

\* Cemented blocks stay: a step that takes a block out of the store either rolls back a
\* block above the confirmation height and reports it in the list, or prunes a
\* cemented one and remembers its hash.
RemovedBlocksAccountedFor ==
    [][\A h \in Hash : exists(h) /\ ~exists(h)' =>
          IF block_confirmed(h) THEN h \in pruned' ELSE h \in {list'[i] : i \in DOMAIN list'}]_vars

\* Confirmation heights only grow and stay within the chain.
ConfirmationHeightMonotonic ==
    [][\A a \in Account : /\ confirmation_height[a].height <= confirmation_height'[a].height
                          /\ confirmation_height'[a].height <= account'[a].block_count]_vars

\* A cemented block rests on cemented blocks only: its predecessor and the send it
\* receives are cemented too (or pruned).
CementedClosed ==
    \A h \in Hash : exists(h) /\ block_confirmed(h) => dependents_confirmed(h)

\* A rollback comes to an end, however long the chains of sends and receives it undoes.
RollbackTerminates == []<>(calls = <<>>)

=============================================================================
