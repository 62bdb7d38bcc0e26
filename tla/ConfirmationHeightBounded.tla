--------------------- MODULE ConfirmationHeightBounded ---------------------
(***************************************************************************)
(* The bounded cementing algorithm (node/confirmation_height_bounded.cpp). *)
(* From a confirmed block it walks towards genesis, one receive at a time, *)
(* in containers of at most max_items entries; what it may cement is put   *)
(* in pending_writes, lowest first, and written to the confirmation height *)
(* table when the database write queue lets it, in transactions that are   *)
(* committed and reopened when they hold more than batch_write_size.       *)
(*                                                                         *)
(* One action is one turn of the loop in process (), or one block of the   *)
(* loop in cement_blocks (), where the open transaction is cement.table.   *)
(***************************************************************************)
EXTENDS CementedLedger

CONSTANTS
    max_items,      \* also pending_writes_max_size
    BatchSizes      \* the values batch_write_size takes as it adapts to the time writes take

VARIABLES
    pending_writes,             \* sequence of write_details
    accounts_confirmed_info,    \* account -> confirmed_info
    batch_write_size,
    process,                    \* the locals of process ()
    cement                      \* the locals of cement_blocks ()

vars == <<shared, pending_writes, accounts_confirmed_info, batch_write_size, process, cement>>

Idle == [state |-> "idle", owned |-> FALSE]

Init ==
    /\ SharedInit
    /\ pending_writes = <<>>
    /\ accounts_confirmed_info = <<>>
    /\ batch_write_size \in BatchSizes
    /\ process = Idle
    /\ cement = Idle

(***************************************************************************)
(* process (): the next block to look at, and the part of its chain that   *)
(* can be cemented before another receive has to be followed.              *)
(***************************************************************************)
\* circular_buffer::push_back: a full buffer loses its oldest entry.
push_back(buffer, x) ==
    Append(IF Len(buffer) = max_items THEN Tail(buffer) ELSE buffer, x)

pop_back(buffer) == IF buffer = <<>> THEN buffer ELSE Front(buffer)

erase(buffer, x) == SelectSeq(buffer, LAMBDA y : y # x)

get_next_block(p) ==
    CASE p.next_in_receive_chain # None ->
             [p.next_in_receive_chain EXCEPT !.receive_details = None]
      [] p.next_in_receive_chain = None /\ p.receive_source_pairs # <<>> ->
             LET pair == Last(p.receive_source_pairs) IN
             [top |-> pair.source_hash, next |-> pair.receive_details.next,
              next_height |-> pair.receive_details.height + 1,
              receive_details |-> pair.receive_details]
      [] OTHER ->
             [top |-> IF p.checkpoints # <<>> THEN Last(p.checkpoints) ELSE p.original,
              next |-> None, next_height |-> 0, receive_details |-> None]

\* The account was met before and its changes are not written yet, or its entry in the table.
confirmation_height_info(a) ==
    IF a \in DOMAIN accounts_confirmed_info
    THEN [height |-> accounts_confirmed_info[a].confirmed_height,
          frontier |-> accounts_confirmed_info[a].iterated_frontier]
    ELSE confirmation_height[a]

get_least_unconfirmed_hash_from_top_level(b, info) ==
    IF info.height # 0 THEN successor(info.frontier) ELSE open_block(account(b))

\* Mutant: a gap of two blocks is taken for one.
bottom_skipped(next, info, in_receive_chain) ==
    LET gap == height(next.top) - info.height IN
    CASE gap <= 2 -> next.top
      [] gap > 2 /\ ~in_receive_chain ->
             get_least_unconfirmed_hash_from_top_level(next.top, info)
      [] OTHER -> next.next

\* The lowest block of the chain of next.top that is not cemented, as the code finds it.
bottom(next, info, in_receive_chain) ==
    LET gap == height(next.top) - info.height IN
    CASE gap <= 1 -> next.top
      [] gap = 2 -> previous(next.top)
      [] gap > 2 /\ ~in_receive_chain ->
             get_least_unconfirmed_hash_from_top_level(next.top, info)
      [] OTHER -> next.next

\* Upwards from the bottom until the top level block or a receive is met.
iterate(p, bottom_hash, top_level) ==
    LET a == account(bottom_hash)
        above == {b \in Block : account(b) = a /\ height(b) >= height(bottom_hash)}
        reached == CHOOSE b \in above :
                       /\ receives(b) \/ b = top_level \/ successor(b) = None
                       /\ \A c \in above : height(c) < height(b) =>
                              ~receives(c) /\ c # top_level
        next == successor(reached)
        pairs == push_back(p.receive_source_pairs,
                     [source_hash |-> ledger.source[reached],
                      receive_details |->
                          [account |-> a, height |-> height(reached), hash |-> reached,
                           top_level |-> top_level,
                           next |-> IF next = top_level THEN None ELSE next,
                           bottom_height |-> height(bottom_hash), bottom_most |-> bottom_hash]])
    IN IF receives(reached)
       THEN [hit_receive |-> TRUE,
             top_most |-> IF reached = bottom_hash THEN bottom_hash ELSE previous(reached),
             pairs |-> pairs,
             checkpoints |-> IF Len(pairs) % max_items = 0
                             THEN push_back(p.checkpoints, top_level) ELSE p.checkpoints]
       ELSE [hit_receive |-> FALSE, top_most |-> reached,
             pairs |-> p.receive_source_pairs, checkpoints |-> p.checkpoints]

write_details(a, bottom_hash, top_hash) ==
    [account |-> a, bottom_height |-> height(bottom_hash), bottom_hash |-> bottom_hash,
     top_height |-> height(top_hash), top_hash |-> top_hash]

confirmed(b) == account(b) :> [confirmed_height |-> height(b), iterated_frontier |-> b]

\* Mutant: the receive is written before the blocks it depends on.
prepare_receive_first(info, bottom_hash, top_most, cemented_before, details, checkpoints) ==
    LET add_blocks == ~cemented_before /\ height(top_most) > info.height
        d == details
    IN [pending |-> pending_writes
            \o (IF d # None THEN <<write_details(d.account, d.bottom_most, d.hash)>> ELSE <<>>)
            \o (IF add_blocks THEN <<write_details(account(top_most), bottom_hash, top_most)>> ELSE <<>>),
        accounts |-> (IF d # None THEN confirmed(d.hash) ELSE <<>>)
            @@ (IF add_blocks THEN confirmed(top_most) ELSE <<>>)
            @@ accounts_confirmed_info,
        checkpoints |->
            LET c == IF add_blocks THEN erase(checkpoints, top_most) ELSE checkpoints
            IN IF d # None /\ d.next = None THEN erase(c, d.hash) ELSE c,
        next_in_receive_chain |->
            IF d # None /\ d.next # None
            THEN [top |-> d.top_level, next |-> d.next, next_height |-> d.height + 1,
                  receive_details |-> None]
            ELSE None]

\* The non-receive blocks iterated over, then the receive they allow to be cemented.
prepare_iterated_blocks_for_cementing(info, bottom_hash, top_most, cemented_before, details, checkpoints) ==
    LET add_blocks == ~cemented_before /\ height(top_most) > info.height
        d == details
    IN [pending |-> pending_writes
            \o (IF add_blocks THEN <<write_details(account(top_most), bottom_hash, top_most)>> ELSE <<>>)
            \o (IF d # None THEN <<write_details(d.account, d.bottom_most, d.hash)>> ELSE <<>>),
        accounts |-> (IF d # None THEN confirmed(d.hash) ELSE <<>>)
            @@ (IF add_blocks THEN confirmed(top_most) ELSE <<>>)
            @@ accounts_confirmed_info,
        checkpoints |->
            LET c == IF add_blocks THEN erase(checkpoints, top_most) ELSE checkpoints
            IN IF d # None /\ d.next = None THEN erase(c, d.hash) ELSE c,
        next_in_receive_chain |->
            IF d # None /\ d.next # None
            THEN [top |-> d.top_level, next |-> d.next, next_height |-> d.height + 1,
                  receive_details |-> None]
            ELSE None]

(***************************************************************************)
(* The actions of process ().                                              *)
(***************************************************************************)
\* The processor takes the next confirmed block; a clean slate when nothing is pending.
process_begin ==
    /\ ~stopped
    /\ process.state \in {"idle", "finished"}
    /\ cement = Idle
    /\ awaiting_processing # <<>>
    /\ awaiting_processing' = Tail(awaiting_processing)
    /\ accounts_confirmed_info' = IF pending_writes = <<>> THEN <<>> ELSE accounts_confirmed_info
    /\ process' = [state |-> "iterate", original |-> Head(awaiting_processing),
                   current |-> Head(awaiting_processing), next_in_receive_chain |-> None,
                   checkpoints |-> <<>>, receive_source_pairs |-> <<>>, first_iter |-> TRUE]
    /\ UNCHANGED <<ledger, pruned, confirmation_height, cemented_count, requested, announced,
                   already_cemented, stopped, restarts, pending_writes, batch_write_size, cement>>

\* The loop's condition, after a turn that left the locals p.
loop(p) ==
    IF p.receive_source_pairs # <<>> \/ p.current # p.original
    THEN [p EXCEPT !.state = "iterate"] ELSE [p EXCEPT !.state = "finished"]

begin_cementing == [state |-> "entry", table |-> confirmation_height, blocks |-> <<>>, owned |-> TRUE]

\* Whether this turn writes: the batch is full, the work is done, or the containers are full;
\* write_database_queue.process () may refuse, and only full containers wait for the queue.
write_or_continue(p) ==
    \E min_time_exceeded, queue_free \in BOOLEAN :
        LET size == SumOver([i \in DOMAIN pending_writes' |->
                        pending_writes'[i].top_height - pending_writes'[i].bottom_height + 1],
                        DOMAIN pending_writes')
            should_output == /\ p.current = p.original
                             /\ awaiting_processing = <<>> \/ min_time_exceeded
            force_write == \/ Len(pending_writes') >= max_items
                           \/ Cardinality(DOMAIN accounts_confirmed_info') >= max_items
            write == /\ size >= batch_write_size \/ should_output \/ force_write
                     /\ pending_writes' # <<>>
                     /\ queue_free \/ force_write
        IN IF write
           THEN process' = [p EXCEPT !.state = "cement"] /\ cement' = begin_cementing
           ELSE process' = loop(p) /\ UNCHANGED cement

\* What one turn of the loop finds out about the block it looks at.
turn(p) ==
    LET next == get_next_block(p)
        info == confirmation_height_info(account(next.top))
        cemented_before == info.height >= height(next.top)
        low == IF cemented_before THEN next.top
               ELSE bottom(next, info, p.next_in_receive_chain # None)
        walk == IF cemented_before
                THEN [hit_receive |-> FALSE, top_most |-> low,
                      pairs |-> p.receive_source_pairs, checkpoints |-> p.checkpoints]
                ELSE iterate(p, low, next.top)
    IN [top |-> next.top, info |-> info, cemented_before |-> cemented_before, low |-> low,
        walk |-> walk, receive_details |-> next.receive_details]

process_iteration ==
    /\ process.state = "iterate"
    /\ \E t \in {turn(process)} :
          LET prepared == prepare_iterated_blocks_for_cementing(t.info, t.low, t.walk.top_most,
                              t.cemented_before, t.receive_details, t.walk.checkpoints)
              after == [process EXCEPT !.current = t.low, !.first_iter = FALSE,
                            !.next_in_receive_chain = None,
                            !.receive_source_pairs = t.walk.pairs,
                            !.checkpoints = t.walk.checkpoints]
          IN
          /\ process.first_iter \/ stored(t.top)
          /\ already_cemented' =
                 IF /\ process.first_iter
                    /\ t.cemented_before
                    /\ account(t.top) \notin DOMAIN accounts_confirmed_info
                 THEN already_cemented \cup {process.original} ELSE already_cemented
          /\ CASE stopped ->
                    /\ process' = Idle
                    /\ UNCHANGED <<pending_writes, accounts_confirmed_info, cement>>
               [] ~stopped /\ (\/ ~t.walk.hit_receive
                               \/ Len(t.walk.pairs) = 1 /\ t.walk.top_most # t.low) ->
                    /\ pending_writes' = prepared.pending
                    /\ accounts_confirmed_info' = prepared.accounts
                    /\ write_or_continue([after EXCEPT
                           !.checkpoints = prepared.checkpoints,
                           !.next_in_receive_chain = prepared.next_in_receive_chain,
                           !.receive_source_pairs = IF process.next_in_receive_chain = None
                                                    THEN pop_back(@) ELSE @])
               [] OTHER ->
                    /\ process' = loop(after)
                    /\ UNCHANGED <<pending_writes, accounts_confirmed_info, cement>>
    /\ UNCHANGED <<ledger, pruned, confirmation_height, cemented_count, awaiting_processing,
                   requested, announced, stopped, restarts, batch_write_size>>

\* The send was pruned since the receive was met: its pair is dropped.
process_pruned ==
    /\ process.state = "iterate"
    /\ ~process.first_iter
    /\ LET top == get_next_block(process).top
       IN /\ top \in pruned
          /\ process' = IF stopped THEN Idle
                        ELSE loop([process EXCEPT !.current = top,
                                                  !.receive_source_pairs = pop_back(@)])
    /\ UNCHANGED <<shared, pending_writes, accounts_confirmed_info, batch_write_size, cement>>

(***************************************************************************)
(* cement_blocks ().                                                       *)
(***************************************************************************)
\* Mutant: only a full container is flushed.
flush_full ==
    /\ ~stopped
    /\ process.state \in {"idle", "finished"}
    /\ cement = Idle
    /\ awaiting_processing = <<>>
    /\ Len(pending_writes) >= max_items
    /\ cement' = begin_cementing
    /\ UNCHANGED <<shared, pending_writes, accounts_confirmed_info, batch_write_size, process>>

\* The processor's thread has nothing left to process and flushes what is pending.
flush_pending ==
    /\ ~stopped
    /\ process.state \in {"idle", "finished"}
    /\ cement = Idle
    /\ awaiting_processing = <<>>
    /\ pending_writes # <<>>
    /\ cement' = begin_cementing
    /\ UNCHANGED <<shared, pending_writes, accounts_confirmed_info, batch_write_size, process>>

pending == Head(pending_writes)

last_iteration(c) == c.num_blocks_confirmed - c.num_blocks_iterated = 1

written(c, h) == [c.table EXCEPT ![pending.account] = [height |-> h, frontier |-> c.frontier]]

\* The entry at the front is done.
pop_front(c) ==
    /\ cement' = [state |-> "entry", table |-> c.table, blocks |-> c.blocks, owned |-> c.owned]
    /\ pending_writes' = Tail(pending_writes)
    /\ accounts_confirmed_info' =
           [a \in {b \in DOMAIN accounts_confirmed_info :
                       \/ b # pending.account
                       \/ accounts_confirmed_info[b].confirmed_height # pending.top_height}
                |-> accounts_confirmed_info[a]]

\* Mutant: blocks written by an earlier commit are counted again.
advance_recounted(c) ==
    IF last_iteration(c)
    THEN LET num == c.num_blocks_confirmed - c.total_blocks_cemented
         IN /\ pop_front(IF num > 0 THEN [c EXCEPT !.table = written(c, pending.top_height)] ELSE c)
            /\ cemented_count' = cemented_count + c.num_blocks_confirmed
    ELSE /\ cement' = [c EXCEPT !.state = "block", !.frontier = successor(@),
                                !.num_blocks_iterated = @ + 1]
         /\ UNCHANGED <<pending_writes, accounts_confirmed_info, cemented_count>>

\* To the next block of the chain, or, after the last one, the height is put in the table.
advance(c) ==
    IF last_iteration(c)
    THEN LET num == c.num_blocks_confirmed - c.total_blocks_cemented
         IN /\ pop_front(IF num > 0 THEN [c EXCEPT !.table = written(c, pending.top_height)] ELSE c)
            /\ cemented_count' = cemented_count + num
    ELSE /\ cement' = [c EXCEPT !.state = "block", !.frontier = successor(@),
                                !.num_blocks_iterated = @ + 1]
         /\ UNCHANGED <<pending_writes, accounts_confirmed_info, cemented_count>>

cement_entry ==
    /\ cement.state = "entry"
    /\ pending_writes # <<>>
    /\ LET info == cement.table[pending.account]
           above == pending.bottom_height > info.height
       IN IF pending.top_height > info.height
          THEN /\ cement' = [state |-> "block", table |-> cement.table, blocks |-> cement.blocks,
                      owned |-> cement.owned,
                      frontier |-> IF above THEN pending.bottom_hash ELSE successor(info.frontier),
                      num_blocks_confirmed |-> IF above
                          THEN pending.top_height - pending.bottom_height + 1
                          ELSE pending.top_height - info.height,
                      start_height |-> IF above THEN pending.bottom_height ELSE info.height + 1,
                      num_blocks_iterated |-> 0, total_blocks_cemented |-> 0]
               /\ UNCHANGED <<pending_writes, accounts_confirmed_info>>
          ELSE pop_front(cement)
    /\ UNCHANGED <<shared, batch_write_size, process>>

\* A full batch is written and committed, and the write guard released, mid-entry.
cement_block ==
    /\ cement.state = "block"
    /\ LET c == [cement EXCEPT !.blocks = Append(@, cement.frontier)]
           num == c.num_blocks_iterated - c.total_blocks_cemented + 1
           total == c.total_blocks_cemented + num
           table == written(c, c.start_height + total - 1)
       IN IF Len(c.blocks) > batch_write_size + (batch_write_size \div 10)
          THEN /\ cement' = [c EXCEPT !.state = "notify", !.table = table, !.owned = FALSE,
                                      !.total_blocks_cemented = total]
               /\ confirmation_height' = table
               /\ cemented_count' = cemented_count + num
               /\ batch_write_size' \in BatchSizes
               /\ UNCHANGED <<pending_writes, accounts_confirmed_info>>
          ELSE /\ advance(c)
               /\ UNCHANGED <<confirmation_height, batch_write_size>>
    /\ UNCHANGED <<ledger, pruned, awaiting_processing, requested, announced, already_cemented,
                   stopped, restarts, process>>

cement_notify ==
    /\ cement.state = "notify"
    /\ announced' = announced \o cement.blocks
    /\ LET c == [cement EXCEPT !.blocks = <<>>]
       IN IF last_iteration(c) /\ Len(pending_writes) = 1
          THEN advance(c)
          ELSE /\ cement' = [c EXCEPT !.state = "wait"]
               /\ UNCHANGED <<pending_writes, accounts_confirmed_info, cemented_count>>
    /\ UNCHANGED <<ledger, pruned, confirmation_height, awaiting_processing, requested,
                   already_cemented, stopped, restarts, batch_write_size, process>>

\* write_database_queue.wait () returns and the transaction is renewed.
cement_renew ==
    /\ cement.state = "wait"
    /\ advance([cement EXCEPT !.table = confirmation_height, !.owned = TRUE])
    /\ UNCHANGED <<ledger, pruned, confirmation_height, awaiting_processing, requested, announced,
                   already_cemented, stopped, restarts, batch_write_size, process>>

\* cement_blocks () returns into process (), or into the processor's thread, which cleans up.
cement_return ==
    /\ cement' = Idle
    /\ IF process.state = "cement"
       THEN /\ process' = IF stopped THEN Idle ELSE loop(process)
            /\ UNCHANGED accounts_confirmed_info
       ELSE accounts_confirmed_info' = <<>> /\ UNCHANGED process

cement_commit ==
    /\ cement.state = "entry"
    /\ pending_writes = <<>>
    /\ confirmation_height' = cement.table
    /\ IF cement.owned /\ cement.blocks # <<>>
       THEN /\ cement' = [cement EXCEPT !.state = "committed", !.owned = FALSE]
            /\ UNCHANGED <<process, accounts_confirmed_info>>
       ELSE cement_return
    /\ UNCHANGED <<ledger, pruned, cemented_count, awaiting_processing, requested, announced,
                   already_cemented, stopped, restarts, pending_writes, batch_write_size>>

cement_announce ==
    /\ cement.state = "committed"
    /\ announced' = announced \o cement.blocks
    /\ cement_return
    /\ UNCHANGED <<ledger, pruned, confirmation_height, cemented_count, awaiting_processing,
                   requested, already_cemented, stopped, restarts, pending_writes, batch_write_size>>

restart ==
    /\ SharedRestart
    /\ pending_writes' = <<>>
    /\ accounts_confirmed_info' = <<>>
    /\ batch_write_size' \in BatchSizes
    /\ process' = Idle
    /\ cement' = Idle

local == <<pending_writes, accounts_confirmed_info, batch_write_size, process, cement>>

Work ==
    \/ process_begin \/ process_iteration \/ process_pruned \/ flush_pending
    \/ cement_entry \/ cement_block \/ cement_notify \/ cement_renew \/ cement_commit
    \/ cement_announce

Next ==
    \/ Work
    \/ \E b \in Block : add(b) /\ UNCHANGED local
    \/ stop /\ UNCHANGED local
    \/ ~cement.owned /\ (\E b \in Block : prune(b)) /\ UNCHANGED local
    \/ restart

Spec == Init /\ [][Next]_vars /\ WF_vars(Work)
-----------------------------------------------------------------------------
(***************************************************************************)
(* Properties.                                                             *)
(***************************************************************************)
Abstract == INSTANCE Cementing
    WITH dependencies <- dependencies, requested <- requested,
         cemented <- cemented, announced <- announced

\* Cementing through this algorithm is cementing as Cementing.tla describes it: at every
\* commit, also the ones in the middle of a chain, and so after a crash at any point, the
\* table holds a block only with all it depends on; nothing is cemented that no confirmed
\* block depends on; observers are called after the commit, dependencies first, once a block.
ImplementsCementing == Abstract!Spec

\* The assertions of the code: an entry that starts above the cemented frontier starts one
\* block above it, each block of an entry is in the block table, the last one is the entry's
\* top (cement_blocks ()); and every checkpoint was used when process () ends, although the
\* circular buffers dropped entries on the way.
AssertionsHold ==
    /\ cement.state = "entry" /\ pending_writes # <<>> =>
           LET info == cement.table[pending.account]
           IN pending.bottom_height > info.height => pending.bottom_height = info.height + 1
    /\ cement.state = "block" =>
           /\ stored(cement.frontier)
           /\ last_iteration(cement) => cement.frontier = pending.top_hash
    /\ process.state = "finished" => process.checkpoints = <<>>

\* The frontier in the table is the block at the height in the table, the cached count of
\* cemented blocks is what the heights add up to, and whenever no write is going on the
\* observers were called with every block cemented since the node started (a crash between a
\* commit and the calls may lose them): through commits in the middle of an entry, entries
\* that overlap what is already cemented, and restarts.
CementedAccountedFor ==
    LET table == IF cement = Idle THEN confirmation_height ELSE cement.table
    IN /\ \A a \in Account : table[a].height > 0 =>
              table[a].frontier = <<a, table[a].height>>
       /\ cemented_count = blocks_cemented(table)
       /\ cement = Idle /\ restarts = 0 => Range(announced) = cemented \ {open_block(genesis)}

\* The confirmed blocks that were added are eventually all cemented, unless the node stops:
\* what the write queue refused is flushed later, and nothing dropped from the bounded
\* containers is forgotten.  (Finitely many blocks are added.)
RequestsCemented ==
    ~(requested \subseteq cemented) ~> requested \subseteq cemented \/ stopped
=============================================================================
