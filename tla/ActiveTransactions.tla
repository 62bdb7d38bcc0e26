------------------------- MODULE ActiveTransactions -------------------------
(***************************************************************************)
(* From an uncemented block to the election about it and back: the         *)
(* election scheduler with its priority buckets                            *)
(* (node/election_scheduler.cpp, node/prioritization.cpp), the container   *)
(* of elections (node/active_transactions.cpp), the vote thread that       *)
(* confirms elections, the request loop that ends them, the scan for       *)
(* uncemented blocks (node::populate_backlog) and the cementing thread     *)
(* with its observers, which start the next elections.                     *)
(*                                                                         *)
(* A block is <<account, height>>, and a root has one block: forks are the *)
(* subject of Election.  An election is ongoing or confirmed, and confirms *)
(* when its votes reach the quorum.  The cementing thread keeps the        *)
(* promise of Cementing.                                                   *)
(***************************************************************************)
EXTENDS Integers, Sequences, FiniteSets, SequencesExt, FiniteSetsExt

CONSTANTS
    Account,
    length,         \* [Account -> the height of its last block]
    source,         \* [Block -> the send it receives, or None]
    cemented_first, \* [Account -> the confirmation height at the start]
    bucket,         \* [Block -> the bucket of its balance]
    modified,       \* [Block -> its place in the order of a bucket]
    bucket_count,
    bucket_maximum, \* blocks in a bucket
    active_elections_size,
    recently_confirmed_size,
    MaxEvents,      \* bound: elections asked for by hand, hinted by votes, or expired
    None

Block == UNION {{<<a, h>> : h \in 1..length[a]} : a \in Account}

ASSUME ActiveTransactionsAssumption ==
    /\ length \in [Account -> Nat] /\ cemented_first \in [Account -> Nat]
    /\ \A a \in Account : cemented_first[a] <= length[a]
    /\ source \in [Block -> Block \cup {None}]
    /\ bucket_count \in Nat \ {0} /\ bucket_maximum \in Nat \ {0}
    /\ bucket \in [Block -> 0..(bucket_count - 1)]
    /\ modified \in [Block -> Nat] /\ \A b, c \in Block : modified[b] = modified[c] => b = c
    /\ active_elections_size \in Nat \ {0} /\ recently_confirmed_size \in Nat \ {0}
    /\ MaxEvents \in Nat

VARIABLES
    confirmation_height,    \* the table
    manual_queue,
    priority,               \* the buckets, each a set of blocks
    current,                \* the bucket that is served next
    scheduler,              \* where the scheduler's thread is, and the block it took
    roots,                  \* the elections, the oldest first
    confirmed,              \* those of them that are confirmed
    recently_confirmed,
    election_winner_details,
    voter,                  \* the vote thread: where it is, the election it found and its fate
    backlog,                \* the block populate_backlog is about to activate
    awaiting_processing,    \* of the confirmation height processor
    original_hashes_pending,
    pending_writes,         \* blocks to be cemented
    callbacks,              \* cemented blocks whose observers are still to be called
    callback,               \* how far the observers of the first of them are
    unreported,             \* requests for cemented blocks that no observer hears of
    notified,               \* calls of node.observers.blocks
    events

schedulerVars == <<manual_queue, priority, current, scheduler>>
activeVars == <<roots, confirmed, recently_confirmed, election_winner_details>>
cementVars == <<confirmation_height, awaiting_processing, original_hashes_pending,
                pending_writes, callbacks, callback, unreported, notified>>
vars == <<schedulerVars, activeVars, cementVars, voter, backlog, events>>

Idle == [at |-> "idle", block |-> None, election |-> None]

Init ==
    /\ confirmation_height = cemented_first
    /\ manual_queue = <<>> /\ priority = [i \in 0..(bucket_count - 1) |-> {}] /\ current = 0
    /\ scheduler = [at |-> "check", block |-> None]
    /\ roots = <<>> /\ confirmed = {} /\ recently_confirmed = <<>>
    /\ election_winner_details = {}
    /\ voter = Idle /\ backlog = None
    /\ awaiting_processing = <<>> /\ original_hashes_pending = {} /\ pending_writes = {}
    /\ callbacks = <<>> /\ callback = "idle" /\ unreported = {} /\ notified = [b \in Block |-> 0]
    /\ events = 0

-----------------------------------------------------------------------------
(* The ledger                                                              *)

cemented == {b \in Block : b[2] <= confirmation_height[b[1]]}

needs(b) == {c \in Block : c = source[b] \/ (c[1] = b[1] /\ c[2] = b[2] - 1)}

dependents_confirmed(b) == needs(b) \subseteq cemented

\* What is cemented with b: all it depends on that is not cemented yet
uncemented(b) ==
    LET closed(S) == \A c \in S : needs(c) \subseteq S \cup cemented
    IN CHOOSE S \in SUBSET (Block \ cemented) :
           /\ b \in S /\ closed(S)
           /\ \A T \in SUBSET S : b \in T /\ closed(T) => T = S

\* The first uncemented block of an account, if an election about it may start
startable(a) ==
    {b \in Block : b[1] = a /\ b[2] = confirmation_height[a] + 1 /\ dependents_confirmed(b)}

destination(b) == {c[1] : c \in {c \in Block : source[c] = b}} \ {b[1]}

-----------------------------------------------------------------------------
(* The priority buckets                                                    *)

empty(p) == \A i \in DOMAIN p : p[i] = {}

\* The next bucket in turn that is not empty; the one after the current if all are
seek(p, i) ==
    LET after(k) == (i + k) % bucket_count
    IN IF empty(p) THEN after(1)
       ELSE after(Min({k \in 1..bucket_count : p[after(k)] # {}}))

\* The block that comes first (last) in a bucket
front(S) == CHOOSE b \in S : \A c \in S : modified[b] <= modified[c]
back(S) == CHOOSE b \in S : \A c \in S : modified[b] >= modified[c]

push(b) ==
    LET full == priority[bucket[b]] \cup {b}
        kept == IF Cardinality(full) > bucket_maximum THEN full \ {back(full)} ELSE full
    IN /\ priority' = [priority EXCEPT ![bucket[b]] = kept]
       /\ current' = IF empty(priority) THEN seek(priority', current) ELSE current

pop ==
    /\ priority' = [priority EXCEPT ![current] = @ \ {front(@)}]
    /\ current' = seek(priority', current)

-----------------------------------------------------------------------------
(* The scheduler: it holds its mutex from the test of its condition until  *)
(* it sleeps or has taken a block.  The number of elections belongs to     *)
(* another mutex, and whoever changes it notifies without the scheduler's. *)
(* The thread tests its conditions again after the wait and comes back to  *)
(* it when none holds any more, so one test stands for both.               *)

vacancy == active_elections_size - Len(roots)

mutex_free == scheduler.at # "sleep"

woken == IF scheduler.at = "asleep" THEN [scheduler EXCEPT !.at = "check"] ELSE scheduler

\* Mutant: the thread is not notified.
ActivatedQuietly(b) ==
    /\ mutex_free
    /\ push(b)
    /\ UNCHANGED <<scheduler, manual_queue>>

\* election_scheduler::activate, once the block is read
activate(b) ==
    /\ mutex_free
    /\ push(b)
    /\ scheduler' = woken
    /\ UNCHANGED manual_queue

manual(b) ==
    /\ mutex_free
    /\ events < MaxEvents /\ events' = events + 1
    /\ b \in Block \ cemented
    /\ b \notin original_hashes_pending \cup ToSet(awaiting_processing)
    /\ manual_queue' = Append(manual_queue, b)
    /\ scheduler' = woken
    /\ UNCHANGED <<priority, current, activeVars, cementVars, voter, backlog>>

\* The condition does not hold.  A vacancy that opens before the thread is asleep goes
\* unnoticed.
run_wait ==
    /\ scheduler.at = "check"
    /\ vacancy >= 0 /\ manual_queue = <<>> /\ (vacancy = 0 \/ empty(priority))
    /\ scheduler' = [scheduler EXCEPT !.at = "sleep"]
    /\ UNCHANGED <<manual_queue, priority, current, activeVars, cementVars, voter, backlog,
                   events>>

run_sleep ==
    /\ scheduler.at = "sleep"
    /\ scheduler' = [scheduler EXCEPT !.at = "asleep"]
    /\ UNCHANGED <<manual_queue, priority, current, activeVars, cementVars, voter, backlog,
                   events>>

run_overfill ==
    /\ scheduler.at = "check" /\ vacancy < 0
    /\ scheduler' = [scheduler EXCEPT !.at = "erase_oldest"]
    /\ UNCHANGED <<manual_queue, priority, current, activeVars, cementVars, voter, backlog,
                   events>>

run_manual ==
    /\ scheduler.at = "check" /\ vacancy >= 0 /\ manual_queue # <<>>
    /\ scheduler' = [at |-> "insert", block |-> Head(manual_queue)]
    /\ manual_queue' = Tail(manual_queue)
    /\ UNCHANGED <<priority, current, activeVars, cementVars, voter, backlog, events>>

run_priority ==
    /\ scheduler.at = "check" /\ vacancy > 0 /\ manual_queue = <<>> /\ ~empty(priority)
    /\ scheduler' = [at |-> "insert", block |-> front(priority[current])]
    /\ pop
    /\ UNCHANGED <<manual_queue, activeVars, cementVars, voter, backlog, events>>

-----------------------------------------------------------------------------
(* The container of elections                                              *)

\* insert_impl: an election starts unless its root has one or was confirmed lately.
insert_impl(b) ==
    roots' = IF b \in ToSet(roots) \cup ToSet(recently_confirmed) THEN roots
             ELSE Append(roots, b)

\* cleanup_election; a vote thread that has found the election keeps it.
cleanup_election(b) ==
    /\ roots' = Remove(roots, b)
    /\ confirmed' = confirmed \ {b}
    /\ voter' = IF voter.election = "active" /\ voter.block = b
                THEN [voter EXCEPT !.election = IF b \in confirmed THEN "finished" ELSE "dropped"]
                ELSE voter

run_insert ==
    /\ scheduler.at = "insert"
    /\ insert_impl(scheduler.block)
    /\ scheduler' = [at |-> "check", block |-> None]
    /\ UNCHANGED <<manual_queue, priority, current, confirmed, recently_confirmed,
                   election_winner_details, cementVars, voter, backlog, events>>

erase_oldest ==
    /\ scheduler.at = "erase_oldest"
    /\ IF roots = <<>> THEN UNCHANGED <<roots, confirmed, voter>>
       ELSE cleanup_election(Head(roots))
    /\ scheduler' = [at |-> "check", block |-> None]
    /\ UNCHANGED <<manual_queue, priority, current, recently_confirmed,
                   election_winner_details, cementVars, backlog, events>>

\* The request loop: an election without a quorum expires, a confirmed one is kept a while.
expire(b) ==
    /\ b \in ToSet(roots) \ confirmed
    /\ events < MaxEvents /\ events' = events + 1
    /\ cleanup_election(b)
    /\ scheduler' = woken
    /\ UNCHANGED <<manual_queue, priority, current, recently_confirmed,
                   election_winner_details, cementVars, backlog>>

finish(b) ==
    /\ b \in confirmed
    /\ cleanup_election(b)
    /\ scheduler' = woken
    /\ UNCHANGED <<manual_queue, priority, current, recently_confirmed,
                   election_winner_details, cementVars, backlog, events>>

-----------------------------------------------------------------------------
(* Votes                                                                   *)

\* active_transactions::vote finds the election, or takes the votes for a hint that the
\* block should have one.
vote_find(b) ==
    /\ voter = Idle
    /\ b \in ToSet(roots) \ confirmed
    /\ voter' = [at |-> "vote", block |-> b, election |-> "active"]
    /\ UNCHANGED <<schedulerVars, activeVars, cementVars, backlog, events>>

vote_hint(b) ==
    /\ voter = Idle
    /\ events < MaxEvents /\ events' = events + 1
    /\ b \in Block \ (ToSet(roots) \cup ToSet(recently_confirmed) \cup cemented)
    /\ b \notin original_hashes_pending \cup ToSet(awaiting_processing)
    /\ voter' = [at |-> "hint", block |-> b, election |-> None]
    /\ UNCHANGED <<schedulerVars, activeVars, cementVars, backlog>>

hint_insert ==
    /\ voter.at = "hint"
    /\ insert_impl(voter.block)
    /\ voter' = Idle
    /\ scheduler' = IF roots' = roots THEN scheduler ELSE woken
    /\ UNCHANGED <<manual_queue, priority, current, confirmed, recently_confirmed,
                   election_winner_details, cementVars, backlog, events>>

\* election::confirm_once: whoever registers the winner goes on to process_confirmed.
vote_confirm ==
    LET b == voter.block
        done == voter.election = "finished" \/ (voter.election = "active" /\ b \in confirmed)
    IN /\ voter.at = "vote"
       /\ IF done THEN UNCHANGED <<confirmed, election_winner_details>>
          ELSE /\ confirmed' = IF voter.election = "active" THEN confirmed \cup {b} ELSE confirmed
               /\ election_winner_details' = election_winner_details \cup {b}
       /\ voter' = IF done \/ b \in election_winner_details THEN Idle
                   ELSE [at |-> "recent", block |-> b, election |-> None]
       /\ UNCHANGED <<schedulerVars, roots, recently_confirmed, cementVars, backlog, events>>

\* node::process_confirmed
add_recently_confirmed(b) ==
    LET more == IF b \in ToSet(recently_confirmed) THEN recently_confirmed
                ELSE Append(recently_confirmed, b)
    IN recently_confirmed' = IF Len(more) > recently_confirmed_size THEN Tail(more) ELSE more

add(b) ==
    awaiting_processing' = IF b \in ToSet(awaiting_processing) THEN awaiting_processing
                           ELSE Append(awaiting_processing, b)

vote_recent ==
    /\ voter.at = "recent"
    /\ add_recently_confirmed(voter.block)
    /\ voter' = [voter EXCEPT !.at = "add"]
    /\ UNCHANGED <<schedulerVars, roots, confirmed, election_winner_details, cementVars, backlog, events>>

vote_add ==
    /\ voter.at = "add"
    /\ add(voter.block)
    /\ voter' = Idle
    /\ UNCHANGED <<schedulerVars, activeVars, confirmation_height, original_hashes_pending,
                   pending_writes, callbacks, callback, unreported, notified, backlog, events>>

-----------------------------------------------------------------------------
(* The scan for uncemented blocks.  It reads through a transaction that    *)
(* may be older than what the scheduler then does with the block.          *)

populate_backlog(a) ==
    /\ backlog = None
    /\ \E b \in startable(a) : backlog' = b
    /\ UNCHANGED <<schedulerVars, activeVars, cementVars, voter, events>>

backlog_activate ==
    /\ backlog # None
    /\ activate(backlog)
    /\ backlog' = None
    /\ UNCHANGED <<activeVars, cementVars, voter, events>>

-----------------------------------------------------------------------------
(* The cementing thread                                                    *)

\* Mutant: a block is forgotten when its processing begins.
ProcessingOnlyAwaiting(b) == b \in ToSet(awaiting_processing)

is_processing_added_block(b) == b \in original_hashes_pending \cup ToSet(awaiting_processing)

\* A request for a block that is cemented already is reported, unless the account has
\* heights that are not written.
process ==
    LET b == Head(awaiting_processing)
        reported == \A c \in pending_writes : c[1] # b[1]
    IN /\ awaiting_processing # <<>> /\ callbacks = <<>>
       /\ awaiting_processing' = Tail(awaiting_processing)
       /\ original_hashes_pending' =
              {b} \cup IF pending_writes = {} THEN {} ELSE original_hashes_pending
       /\ IF b \in cemented
          THEN /\ election_winner_details' =
                      IF reported THEN election_winner_details \ {b} ELSE election_winner_details
               /\ unreported' = IF reported THEN unreported ELSE unreported \cup {b}
               /\ UNCHANGED pending_writes
          ELSE /\ pending_writes' = pending_writes \cup uncemented(b)
               /\ UNCHANGED <<election_winner_details, unreported>>
       /\ UNCHANGED <<schedulerVars, roots, confirmed, recently_confirmed, confirmation_height,
                      callbacks, callback, notified, voter, backlog, events>>

\* A commit, which may leave some blocks for the next one
cement_blocks ==
    /\ callbacks = <<>>
    /\ \E S \in SUBSET pending_writes \ {{}} :
           /\ \A c \in S : needs(c) \subseteq S \cup cemented
           /\ confirmation_height' = [a \in Account |->
                  Max({confirmation_height[a]} \cup {c[2] : c \in {c \in S : c[1] = a}})]
           /\ pending_writes' = pending_writes \ S
           /\ \E order \in SetToSeqs(S) :
                  /\ \A i, j \in 1..Len(order) : order[j] \in needs(order[i]) => j < i
                  /\ callbacks' = order
    /\ callback' = "begin"
    /\ UNCHANGED <<schedulerVars, activeVars, awaiting_processing, original_hashes_pending,
                   unreported, notified, voter, backlog, events>>

\* Nothing is left to write: the hashes are forgotten.
cement_idle ==
    /\ pending_writes = {} /\ callbacks = <<>>
    /\ original_hashes_pending # {}
    /\ original_hashes_pending' = {}
    /\ UNCHANGED <<schedulerVars, activeVars, confirmation_height, awaiting_processing,
                   pending_writes, callbacks, callback, unreported, notified, voter, backlog, events>>

(* block_cemented_callback *)

\* Was the block added itself, or cemented below one that was?
callback_begin ==
    /\ callback = "begin"
    /\ callback' = IF is_processing_added_block(Head(callbacks)) THEN "details" ELSE "confirm"
    /\ UNCHANGED <<schedulerVars, activeVars, confirmation_height, awaiting_processing,
                   original_hashes_pending, pending_writes, callbacks, unreported, notified,
                   voter, backlog, events>>

\* The observers of the block have been called; those of the next one are.
callback_done ==
    /\ callbacks' = Tail(callbacks)
    /\ callback' = IF Len(callbacks) = 1 THEN "idle" ELSE "begin"


\* confirm_block, for a block that was not added: its election is confirmed by this.
confirm_block ==
    LET b == Head(callbacks)
    IN /\ callback = "confirm"
       /\ \/ /\ b \notin ToSet(roots)
             /\ notified' = [notified EXCEPT ![b] = @ + 1]
             /\ callback_done
             /\ UNCHANGED <<confirmed, election_winner_details>>
          \/ /\ b \in confirmed
             /\ callback' = "details"
             /\ UNCHANGED <<confirmed, election_winner_details, notified, callbacks>>
          \/ /\ b \in ToSet(roots) \ confirmed
             /\ confirmed' = confirmed \cup {b}
             /\ election_winner_details' = election_winner_details \cup {b}
             /\ callback' = IF b \in election_winner_details THEN "details" ELSE "recent"
             /\ UNCHANGED <<notified, callbacks>>
       /\ UNCHANGED <<schedulerVars, roots, recently_confirmed, confirmation_height,
                      awaiting_processing, original_hashes_pending, pending_writes,
                      unreported, voter, backlog, events>>

callback_recent ==
    /\ callback = "recent"
    /\ add_recently_confirmed(Head(callbacks))
    /\ callback' = "add"
    /\ UNCHANGED <<schedulerVars, roots, confirmed, election_winner_details, confirmation_height,
                   awaiting_processing, original_hashes_pending, pending_writes, callbacks,
                   unreported, notified, voter, backlog, events>>

callback_add ==
    /\ callback = "add"
    /\ add(Head(callbacks))
    /\ callback' = "details"
    /\ UNCHANGED <<schedulerVars, activeVars, confirmation_height, original_hashes_pending,
                   pending_writes, callbacks, unreported, notified, voter, backlog, events>>

\* The registered winner leaves, and the observers of the node hear of the block.
callback_details ==
    LET b == Head(callbacks)
    IN /\ callback = "details"
       /\ election_winner_details' = election_winner_details \ {b}
       /\ notified' = IF b \in election_winner_details THEN [notified EXCEPT ![b] = @ + 1] ELSE notified
       /\ callback' = "account"
       /\ UNCHANGED <<schedulerVars, roots, confirmed, recently_confirmed, confirmation_height,
                      awaiting_processing, original_hashes_pending, pending_writes, callbacks,
                      unreported, voter, backlog, events>>

\* The next block of the account, and of the account that is paid, may have an election.
activate_first(accounts) ==
    LET next == UNION {startable(a) : a \in accounts}
    IN IF next = {} THEN UNCHANGED schedulerVars ELSE \E b \in next : activate(b)

callback_account ==
    /\ callback = "account"
    /\ activate_first({Head(callbacks)[1]})
    /\ callback' = "destination"
    /\ UNCHANGED <<activeVars, confirmation_height, awaiting_processing, original_hashes_pending,
                   pending_writes, callbacks, unreported, notified, voter, backlog, events>>

callback_destination ==
    /\ callback = "destination"
    /\ activate_first(destination(Head(callbacks)))
    /\ callback_done
    /\ UNCHANGED <<activeVars, confirmation_height, awaiting_processing, original_hashes_pending,
                   pending_writes, unreported, notified, voter, backlog, events>>

-----------------------------------------------------------------------------
SchedulerStep ==
    run_wait \/ run_sleep \/ run_overfill \/ run_manual \/ run_priority \/ run_insert \/ erase_oldest

VoterStep == (\E b \in Block : vote_find(b)) \/ hint_insert \/ vote_confirm \/ vote_recent \/ vote_add

CallbackStep ==
    \/ callback_begin \/ confirm_block \/ callback_recent \/ callback_add \/ callback_details
    \/ callback_account \/ callback_destination

CementStep == process \/ cement_blocks \/ cement_idle \/ CallbackStep

Next ==
    \/ SchedulerStep \/ VoterStep \/ CementStep \/ backlog_activate
    \/ \E a \in Account : populate_backlog(a)
    \/ \E b \in Block : manual(b) \/ vote_hint(b) \/ expire(b) \/ finish(b)

\* Threads go on, the scan comes to every account again and again, the scheduler's mutex
\* is given to whoever waits for it, votes for an election arrive, and confirmed elections
\* come to their end.
Fairness ==
    /\ WF_vars(SchedulerStep) /\ WF_vars(VoterStep) /\ SF_vars(CementStep)
    /\ WF_vars(backlog_activate) /\ \A a \in Account : SF_vars(populate_backlog(a))
    /\ WF_vars(\E b \in Block : finish(b))

Spec == Init /\ [][Next]_vars /\ Fairness

-----------------------------------------------------------------------------
\* The observers of the block are called already.
announced(b) == b = Head(callbacks) /\ callback \in {"account", "destination"}


\* No winner stays registered for ever: again and again block_cemented_callback and
\* block_already_cemented_callback have taken them all out, but for the requests that the
\* processor reports to nobody (see process).
WinnerDetailsReleased == []<>(election_winner_details \subseteq unreported)

\* Every block of the ledger is cemented in the end.
BlocksCemented == <>(cemented = Block)
=============================================================================
