-------------------- MODULE ConfirmationHeightUnbounded --------------------
(***************************************************************************)
(* The unbounded cementing algorithm (confirmation_height_unbounded.cpp).  *)
(* From a confirmed block it walks down the chain to what was iterated     *)
(* over before, stacking every receive met with the send it receives, then *)
(* does the same from each of these sends.  What the observers are to be   *)
(* called with is gathered on the way, in lists that hang from the receive *)
(* above or below the blocks; a receive's record is shared between the     *)
(* stack and a map of weak pointers.                                       *)
(*                                                                         *)
(* Records live in process.details and are pointed to by their index, 0    *)
(* being a null or expired pointer.  One action is one turn of the loop in *)
(* process (), or the transaction of cement_blocks ().                     *)
(***************************************************************************)
EXTENDS CementedLedger

CONSTANTS
    unbounded_cutoff,
    batch_write_size

VARIABLES
    pending_writes,                     \* sequence of conf_height_details
    confirmed_iterated_pairs,           \* account -> confirmed_iterated_pair
    implicit_receive_cemented_mapping,  \* block -> weak pointer
    block_cache,                        \* the blocks read since the last clean slate
    process,                            \* the locals of process ()
    cement,                             \* the locals of cement_blocks ()
    invalid_access                      \* an expired pointer or an iterator out of range was used

vars == <<shared, pending_writes, confirmed_iterated_pairs, implicit_receive_cemented_mapping,
          block_cache, process, cement, invalid_access>>

Idle == [state |-> "idle"]

Init ==
    /\ SharedInit
    /\ pending_writes = <<>>
    /\ confirmed_iterated_pairs = <<>>
    /\ implicit_receive_cemented_mapping = <<>>
    /\ block_cache = {}
    /\ process = Idle
    /\ cement = Idle
    /\ invalid_access = FALSE

(***************************************************************************)
(* process (): one turn of the loop.                                       *)
(***************************************************************************)
conf_height_details(a, hash, num, data) ==
    [account |-> a, hash |-> hash, height |-> height(hash), num_blocks_confirmed |-> num,
     block_callback_data |-> data, source_block_callback_data |-> <<>>]

\* The locals with the block this turn looks at: the send of the receive on top of the stack,
\* or, once the stack is empty, the original block again.
select(p) ==
    CASE p.receive_source_pairs # <<>> ->
             [p EXCEPT !.receive_details = Last(p.receive_source_pairs).receive_details,
                       !.current = Last(p.receive_source_pairs).source_hash]
      [] p.receive_source_pairs = <<>> /\ p.receive_details # 0 ->
             [p EXCEPT !.receive_details = 0, !.current = p.original]
      [] OTHER -> p

get_block_and_sideband(b) == b \in block_cache \/ stored(b)

\* Mutant: the blocks below a receive are not counted with it.
collect_uncounted(w, b) ==
    LET top == IF w.pairs = <<>> THEN 0 ELSE Last(w.pairs).receive_details
        hung == IF ~w.hit_receive /\ w.data # <<>>
                THEN [w.details EXCEPT ![top].source_block_callback_data = w.data]
                ELSE w.details
    IN CASE receives(b) ->
                [w EXCEPT !.details = Append(hung, conf_height_details(account(b), b, 1, <<b>>)),
                          !.pairs = Append(@, [receive_details |-> Len(hung) + 1,
                                               source_hash |-> ledger.source[b]]),
                          !.data = IF w.hit_receive THEN @ ELSE <<>>,
                          !.is_original_block = FALSE,
                          !.hit_receive = TRUE]
         [] ~receives(b) /\ w.is_original_block -> [w EXCEPT !.orig = Append(@, b)]
         [] ~receives(b) /\ ~w.is_original_block /\ ~w.hit_receive ->
                [w EXCEPT !.data = Append(@, b)]
         [] OTHER ->
                [w EXCEPT !.details[top].block_callback_data = Append(@, b),
                          !.mapping = (b :> top) @@ @]

\* One block of the walk down the chain; w holds the lists as they were after the block above.
collect_block(w, b) ==
    LET top == IF w.pairs = <<>> THEN 0 ELSE Last(w.pairs).receive_details
        hung == IF ~w.hit_receive /\ w.data # <<>>
                THEN [w.details EXCEPT ![top].source_block_callback_data = w.data]
                ELSE w.details
    IN CASE receives(b) ->
                [w EXCEPT !.details = Append(hung, conf_height_details(account(b), b, 1, <<b>>)),
                          !.pairs = Append(@, [receive_details |-> Len(hung) + 1,
                                               source_hash |-> ledger.source[b]]),
                          !.data = IF w.hit_receive THEN @ ELSE <<>>,
                          !.is_original_block = FALSE,
                          !.hit_receive = TRUE]
         [] ~receives(b) /\ w.is_original_block -> [w EXCEPT !.orig = Append(@, b)]
         [] ~receives(b) /\ ~w.is_original_block /\ ~w.hit_receive ->
                [w EXCEPT !.data = Append(@, b)]
         [] OTHER ->
                [w EXCEPT !.details[top].num_blocks_confirmed = @ + 1,
                          !.details[top].block_callback_data = Append(@, b),
                          !.mapping = (b :> top) @@ @]

collect_unconfirmed_receive_and_sources_for_account(p, iterated_height) ==
    FoldLeft(collect_block,
        [pairs |-> p.receive_source_pairs, details |-> p.details, data |-> <<>>,
         orig |-> p.orig_block_callback_data, mapping |-> implicit_receive_cemented_mapping,
         hit_receive |-> FALSE, is_original_block |-> p.current = p.original],
        [i \in 1..(IF height(p.current) > iterated_height
                   THEN height(p.current) - iterated_height ELSE 0) |->
             <<account(p.current), height(p.current) - i + 1>>])

\* A copy of elements m to n of a list; outside the list the access is invalid, and whoever
\* copies says so.
slice(s, m, n) == IF 1 <= m /\ n <= Len(s) THEN SubSeq(s, m, n) ELSE <<>>

first(s, n) == slice(s, 1, n)

\* A weak pointer can be locked while the record is on the stack or in use.
alive(i, p) ==
    \/ i # 0 /\ i = p.receive_details
    \/ \E k \in DOMAIN p.receive_source_pairs : p.receive_source_pairs[k].receive_details = i

\* The blocks to announce with the blocks up to p.current, and whether the lists held them.
\* p: the locals after the walk w, which added nothing to the stack.
callback_data(p, w, confirmation, traversed) ==
    LET num == height(p.current) - confirmation
        details == w.details[p.receive_details]
        i == IF p.current \in DOMAIN w.mapping THEN w.mapping[p.current] ELSE 0
        above == w.details[i]
        already == above.num_blocks_confirmed - (above.height - confirmation)
        end == Len(above.block_callback_data) - already
        implicit == traversed /\ details.source_block_callback_data = <<>>
        data == IF implicit THEN slice(above.block_callback_data, end - num + 1, end)
                ELSE details.source_block_callback_data
    IN CASE w.data # <<>> -> [data |-> w.data, valid |-> TRUE]
         [] w.data = <<>> /\ p.receive_details = 0 -> [data |-> w.orig, valid |-> TRUE]
         [] w.data = <<>> /\ p.receive_details # 0 /\ implicit /\ ~alive(i, p) ->
                [data |-> <<>>, valid |-> FALSE]
         [] w.data = <<>> /\ p.receive_details # 0 /\ implicit /\ alive(i, p) ->
                [data |-> first(data, num),
                 valid |-> /\ already >= 0
                           /\ 0 <= end - num
                           /\ end <= Len(above.block_callback_data)]
         [] OTHER -> [data |-> first(data, num), valid |-> Len(data) >= num]

\* The blocks of this chain and then the receive they allow to be cemented, as pending writes.
prepare_iterated_blocks_for_cementing(p, w, confirmation, iterated, traversed) ==
    LET a == account(p.current)
        h == height(p.current)
        add_blocks == h > confirmation
        called == callback_data(p, w, confirmation, traversed)
        pairs1 == IF ~add_blocks THEN confirmed_iterated_pairs
                  ELSE (a :> [confirmed_height |-> h,
                              iterated_height |-> IF h > iterated THEN h ELSE iterated])
                       @@ confirmed_iterated_pairs
        cleared == IF p.receive_details # 0 /\ add_blocks /\ w.data = <<>>
                   THEN [w.details EXCEPT ![p.receive_details].source_block_callback_data = <<>>]
                   ELSE w.details
        d == cleared[p.receive_details]
        known == d.account \in DOMAIN pairs1
        num == d.height - pairs1[d.account].confirmed_height
        remove == d.num_blocks_confirmed - num
        d1 == IF ~known THEN d
              ELSE [d EXCEPT !.num_blocks_confirmed = num,
                             !.block_callback_data = first(@, Len(@) - remove)]
        blocks == IF add_blocks
                  THEN <<conf_height_details(a, p.current, h - confirmation, called.data)>>
                  ELSE <<>>
    IN IF p.receive_details = 0
       THEN [pending |-> pending_writes \o blocks, pairs |-> pairs1, details |-> cleared,
             valid |-> ~add_blocks \/ called.valid]
       ELSE [pending |-> pending_writes \o blocks \o <<d1>>,
             pairs |-> (d.account :> [confirmed_height |-> d.height,
                           iterated_height |-> IF known THEN pairs1[d.account].iterated_height
                                               ELSE d.height])
                       @@ pairs1,
             details |-> [cleared EXCEPT ![p.receive_details] = d1],
             valid |-> /\ ~add_blocks \/ called.valid
                       /\ known => 0 <= remove /\ remove <= Len(d.block_callback_data)
                                   /\ Len(d1.block_callback_data) = num]

\* What one turn finds: the locals with the block chosen, its heights, and the walk down.
turn(p0) ==
    LET p == select(p0)
        a == account(p.current)
        met == a \in DOMAIN confirmed_iterated_pairs
        confirmation == IF met THEN confirmed_iterated_pairs[a].confirmed_height
                        ELSE confirmation_height[a].height
        iterated == IF met /\ confirmed_iterated_pairs[a].iterated_height > confirmation
                    THEN confirmed_iterated_pairs[a].iterated_height ELSE confirmation
    IN [p |-> p, met |-> met, confirmation |-> confirmation, iterated |-> iterated,
        walk |-> collect_unconfirmed_receive_and_sources_for_account(p, iterated)]

(***************************************************************************)
(* The actions.                                                            *)
(***************************************************************************)
expired(mapping) == [b \in DOMAIN mapping |-> 0]

process_begin ==
    /\ ~stopped
    /\ process.state = "idle"
    /\ cement = Idle
    /\ awaiting_processing # <<>>
    /\ awaiting_processing' = Tail(awaiting_processing)
    /\ IF pending_writes = <<>>
       THEN /\ confirmed_iterated_pairs' = <<>>
            /\ implicit_receive_cemented_mapping' = <<>>
            /\ block_cache' = {Head(awaiting_processing)}
       ELSE /\ implicit_receive_cemented_mapping' = expired(implicit_receive_cemented_mapping)
            /\ block_cache' = block_cache \cup {Head(awaiting_processing)}
            /\ UNCHANGED confirmed_iterated_pairs
    /\ process' = [state |-> "iterate", original |-> Head(awaiting_processing),
                   current |-> Head(awaiting_processing), receive_details |-> 0,
                   receive_source_pairs |-> <<>>, orig_block_callback_data |-> <<>>,
                   details |-> <<>>, first_iter |-> TRUE]
    /\ UNCHANGED <<ledger, pruned, confirmation_height, cemented_count, requested, announced,
                   already_cemented, stopped, restarts, pending_writes, cement, invalid_access>>

\* The loop's condition, after a turn that left the locals p.
loop(p) ==
    IF p.receive_source_pairs # <<>> \/ p.current # p.original
    THEN [p EXCEPT !.state = "iterate"] ELSE Idle

begin_cementing == [state |-> "write", blocks |-> <<>>]

\* Whether this turn writes; the queue may refuse, and only a full batch waits for it.
write_or_continue(p) ==
    \E min_time_exceeded, queue_free \in BOOLEAN :
        LET should_output == /\ p.receive_source_pairs = <<>>
                             /\ awaiting_processing = <<>> \/ min_time_exceeded
            force_write == SumOver([i \in DOMAIN pending_writes' |->
                                        pending_writes'[i].num_blocks_confirmed],
                                   DOMAIN pending_writes') > batch_write_size
            write == /\ \/ Len(pending_writes') >= unbounded_cutoff
                        \/ should_output
                        \/ force_write
                     /\ pending_writes' # <<>>
                     /\ queue_free \/ force_write
        IN IF write
           THEN process' = [p EXCEPT !.state = "cement"] /\ cement' = begin_cementing
           ELSE process' = loop(p) /\ UNCHANGED cement

\* No turn is possible when the block is gone: release_assert (block) ends the process.
process_iteration ==
    /\ process.state = "iterate"
    /\ \E t \in {turn(process)} :
          LET traversed == t.iterated >= height(t.p.current)
              prepared == prepare_iterated_blocks_for_cementing(t.p, t.walk, t.confirmation,
                              t.iterated, traversed)
              after == [t.p EXCEPT !.first_iter = FALSE, !.details = t.walk.details,
                            !.orig_block_callback_data = t.walk.orig,
                            !.receive_source_pairs = t.walk.pairs]
          IN
          /\ get_block_and_sideband(t.p.current)
          /\ already_cemented' =
                 IF process.first_iter /\ ~t.met /\ t.confirmation >= height(t.p.current)
                 THEN already_cemented \cup {process.original} ELSE already_cemented
          /\ block_cache' = block_cache \cup {t.p.current} \cup
                 {<<account(t.p.current), h>> : h \in (t.iterated + 1)..height(t.p.current)}
          /\ implicit_receive_cemented_mapping' = t.walk.mapping
          /\ CASE stopped ->
                    /\ process' = Idle
                    /\ UNCHANGED <<pending_writes, confirmed_iterated_pairs, cement, invalid_access>>
               [] ~stopped /\ Len(t.walk.pairs) = Len(t.p.receive_source_pairs) ->
                    /\ pending_writes' = prepared.pending
                    /\ confirmed_iterated_pairs' = prepared.pairs
                    /\ invalid_access' = (invalid_access \/ ~prepared.valid)
                    /\ write_or_continue([after EXCEPT
                           !.details = prepared.details,
                           !.receive_source_pairs = IF @ = <<>> THEN @ ELSE Front(@)])
               [] OTHER ->
                    /\ confirmed_iterated_pairs' =
                           (account(t.p.current) :>
                               [confirmed_height |-> t.confirmation,
                                iterated_height |-> height(t.p.current)])
                           @@ confirmed_iterated_pairs
                    /\ UNCHANGED <<pending_writes, invalid_access>>
                    /\ write_or_continue(after)
    /\ UNCHANGED <<ledger, pruned, confirmation_height, cemented_count, awaiting_processing,
                   requested, announced, stopped, restarts>>

\* Mutant: only a full list is flushed.
flush_full ==
    /\ ~stopped
    /\ process.state = "idle"
    /\ cement = Idle
    /\ awaiting_processing = <<>>
    /\ Len(pending_writes) >= unbounded_cutoff
    /\ cement' = begin_cementing
    /\ UNCHANGED <<shared, pending_writes, confirmed_iterated_pairs,
                   implicit_receive_cemented_mapping, block_cache, process, invalid_access>>

\* The processor's thread has nothing left to process and flushes what is pending.
flush_pending ==
    /\ ~stopped
    /\ process.state = "idle"
    /\ cement = Idle
    /\ awaiting_processing = <<>>
    /\ pending_writes # <<>>
    /\ cement' = begin_cementing
    /\ UNCHANGED <<shared, pending_writes, confirmed_iterated_pairs,
                   implicit_receive_cemented_mapping, block_cache, process, invalid_access>>

\* Mutant: the blocks are announced in the order they were walked down.
cement_pending_down(t, pending) ==
    IF pending.height > t.table[pending.account].height /\ stored(pending.hash)
    THEN [table |-> [t.table EXCEPT ![pending.account] =
                        [height |-> pending.height, frontier |-> pending.hash]],
          count |-> t.count + pending.num_blocks_confirmed,
          blocks |-> t.blocks \o pending.block_callback_data]
    ELSE t

\* One pending write in the transaction t; a top block that was cemented and pruned since is
\* skipped.
cement_pending(t, pending) ==
    IF pending.height > t.table[pending.account].height /\ stored(pending.hash)
    THEN [table |-> [t.table EXCEPT ![pending.account] =
                        [height |-> pending.height, frontier |-> pending.hash]],
          count |-> t.count + pending.num_blocks_confirmed,
          blocks |-> t.blocks \o Reverse(pending.block_callback_data)]
    ELSE t

cement_blocks ==
    /\ cement.state = "write"
    /\ LET t == FoldLeft(cement_pending, [table |-> confirmation_height, count |-> cemented_count,
                                          blocks |-> <<>>], pending_writes)
       IN /\ confirmation_height' = t.table
          /\ cemented_count' = t.count
          /\ cement' = [state |-> "notify", blocks |-> t.blocks]
    /\ pending_writes' = <<>>
    /\ UNCHANGED <<ledger, pruned, awaiting_processing, requested, announced, already_cemented,
                   stopped, restarts, confirmed_iterated_pairs,
                   implicit_receive_cemented_mapping, block_cache, process, invalid_access>>

\* The guard is released, the observers are called, and cement_blocks () returns into
\* process (), or into the processor's thread, which cleans up.
cement_notify ==
    /\ cement.state = "notify"
    /\ announced' = announced \o cement.blocks
    /\ cement' = Idle
    /\ IF process.state = "cement"
       THEN /\ process' = IF stopped THEN Idle ELSE loop(process)
            /\ UNCHANGED <<confirmed_iterated_pairs, implicit_receive_cemented_mapping, block_cache>>
       ELSE /\ confirmed_iterated_pairs' = <<>>
            /\ implicit_receive_cemented_mapping' = <<>>
            /\ block_cache' = {}
            /\ UNCHANGED process
    /\ UNCHANGED <<ledger, pruned, confirmation_height, cemented_count, awaiting_processing,
                   requested, already_cemented, stopped, restarts, pending_writes, invalid_access>>

restart ==
    /\ SharedRestart
    /\ pending_writes' = <<>>
    /\ confirmed_iterated_pairs' = <<>>
    /\ implicit_receive_cemented_mapping' = <<>>
    /\ block_cache' = {}
    /\ process' = Idle
    /\ cement' = Idle
    /\ UNCHANGED invalid_access

local == <<pending_writes, confirmed_iterated_pairs, implicit_receive_cemented_mapping,
           block_cache, process, cement, invalid_access>>

Work == process_begin \/ process_iteration \/ flush_pending \/ cement_blocks \/ cement_notify

Next ==
    \/ Work
    \/ \E b \in Block : add(b) /\ UNCHANGED local
    \/ stop /\ UNCHANGED local
    \/ cement.state # "write" /\ (\E b \in Block : prune(b)) /\ UNCHANGED local
    \/ restart

Spec == Init /\ [][Next]_vars /\ WF_vars(Work)
-----------------------------------------------------------------------------
(***************************************************************************)
(* Properties.                                                             *)
(***************************************************************************)
Abstract == INSTANCE Cementing
    WITH dependencies <- dependencies, requested <- requested,
         cemented <- cemented, announced <- announced

\* Cementing through this algorithm is cementing as Cementing.tla describes it: the table
\* holds a block only with all it depends on, nothing is cemented that no confirmed block
\* depends on, and the lists gathered for the observers hold cemented blocks only,
\* dependencies first, once a block.
ImplementsCementing == Abstract!Spec

\* No expired weak pointer is locked and no iterator into a list of callbacks is out of its
\* range when the blocks of an already traversed chain are looked up.
NoInvalidAccess == ~invalid_access

\* The assertion in process (): the block to look at is found in the cache or the store.
BlockFound ==
    process.state = "iterate" => get_block_and_sideband(select(process).current)

\* The confirmed blocks that were added are eventually all cemented, unless the node stops
\* or ends at that assertion.  (Finitely many blocks are added.)
RequestsCemented ==
    ~(requested \subseteq cemented) ~> requested \subseteq cemented \/ stopped \/ ~BlockFound
=============================================================================
