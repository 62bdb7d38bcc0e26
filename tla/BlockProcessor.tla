--------------------------- MODULE BlockProcessor ---------------------------
(***************************************************************************)
(* How a block travels from the threads that receive it into the ledger:   *)
(* the batch verification of signatures                                    *)
(* (node/state_block_signature_verification.cpp), the queues and the       *)
(* thread of node/blockprocessor.cpp, the blocks that wait for a missing   *)
(* one (node/unchecked_map.cpp) and the gap cache.                         *)
(*                                                                         *)
(* Five threads take part: the verification thread, the processing thread, *)
(* the thread of the unchecked map, one that calls process_local and the   *)
(* legacy bootstrap attempt, which calls flush.  Each method that holds a  *)
(* mutex throughout is one step; flush holds the processor's mutex while   *)
(* it asks the verification two questions, so that mutex is a variable.    *)
(* A notification that follows a critical section is part of its step: the *)
(* notified thread looks at the queues again under the mutex anyway.       *)
(*                                                                         *)
(* The ledger is the set of blocks in it; Ledger models its rules.         *)
(***************************************************************************)
EXTENDS Integers, Sequences, FiniteSets, SequencesExt

CONSTANTS
    Block,
    content,    \* what the processing depends on, per block
    Account,
    max_adds,   \* bound: how often a block may be brought, by the network, by force or locally
    max_verification_batch,
    block_processor_batch_size,
    max_block_write_batch_num,  \* of the store
    max_gaps,   \* of the gap cache
    disable_delete,     \* of satisfied unchecked blocks
    forces,     \* the blocks an election or an RPC may force
    locals,     \* the blocks process_local may be called with
    max_flushes,
    stops,      \* the instance includes node::stop
    None

\* root is the previous block or, for the first block of an account, the
\* account; source the block that is received.  Blocks of type state, and with
\* them open blocks, are verified in batches; legacy blocks are not.  pays is
\* the account a send of an epoch before the last one pays.
Content == [root : Block \cup Account, source : Block \cup {None},
            type : {"state", "legacy"}, epoch_link : BOOLEAN,
            signer : {"account", "epoch", "other"}, pays : Account \cup {None}]

ASSUME BlockProcessorAssumption ==
    /\ content \in [Block -> Content]
    /\ None \notin Block \cup Account /\ Block \cap Account = {}
    /\ max_adds \in Nat /\ max_flushes \in Nat
    /\ max_verification_batch \in Nat \ {0}
    /\ block_processor_batch_size \in Nat
    /\ max_block_write_batch_num \in Nat \ {0}
    /\ max_gaps \in Nat \ {0}
    /\ disable_delete \in BOOLEAN /\ stops \in BOOLEAN
    /\ forces \subseteq Block /\ locals \subseteq Block

VARIABLES
    adds,           \* [Block -> Nat], the arrivals so far
    state_blocks,   \* the queue of the signature verification
    items,          \* the batch it is verifying
    verifier,       \* where its thread is
    mutex,          \* TRUE while flush holds the processor's mutex
    blocks,         \* the processor's queue
    forced,
    processor,      \* where the processing thread is
    active,
    awaiting_write,
    number_of_blocks_processed,
    info,           \* the entry the processing thread has popped
    events,         \* [thread -> the post events of its transaction]
    flushing,
    flusher,        \* where the thread that calls flush is
    flushes,        \* how often it has called it
    undone,         \* the entries queued before that call and not yet processed
    local,          \* the block of process_local and where its thread is
    writer,         \* the thread that has the write transaction
    ledger,
    confirmed,      \* the cemented part of the ledger
    unchecked,      \* the table, a set of <<dependency, info>>
    buffer,         \* of the unchecked map
    back_buffer,
    mapper,         \* where the thread of the unchecked map is
    gap_cache,      \* hashes, the first arrival first
    stopping        \* how far node::stop has come

verifierVars == <<state_blocks, items, verifier>>
processorVars == <<mutex, blocks, forced, processor, active, awaiting_write,
                   number_of_blocks_processed, info>>
flushVars == <<flushing, flusher, flushes, undone>>
storeVars == <<ledger, confirmed, unchecked>>
mapVars == <<buffer, back_buffer, mapper>>
vars == <<adds, verifierVars, processorVars, events, flushVars, local, writer,
          storeVars, mapVars, gap_cache, stopping>>

-----------------------------------------------------------------------------
(* node::stop stops the unchecked map, then the processor, then the        *)
(* verification, whose thread it joins.                                    *)

map_stopped == stopping \in {"map", "processor", "all"}
stopped == stopping \in {"processor", "all"}
verification_stopped == stopping = "all"

Info == [block : Block, verified : {"unknown", "valid"}]


\* Every variable has its type.
TypeOK ==
    /\ adds \in [Block -> 0..max_adds]
    /\ state_blocks \in Seq(Info) /\ items \in Seq(Info)
    /\ verifier \in {"loop", "wait", "verify", "next", "inactive", "done"}
    /\ mutex \in BOOLEAN
    /\ blocks \in Seq(Info) /\ forced \in Seq(Block)
    /\ processor \in {"loop", "wait", "begin", "batch", "one", "events", "done"}
    /\ active \in BOOLEAN /\ awaiting_write \in BOOLEAN
    /\ number_of_blocks_processed \in 0..max_block_write_batch_num
    /\ info = None \/ info \in [block : Block, verified : {"unknown", "valid"}, force : BOOLEAN]
    /\ events \in [{"processor", "local"} -> Seq(Block)]
    /\ flushing \in BOOLEAN
    /\ flusher \in {"idle", "lock", "size", "active", "wait"}
    /\ flushes \in 0..max_flushes
    /\ undone \subseteq Block
    /\ local \in [block : Block \cup {None}, at : {"idle", "begin", "events", "done"}]
    /\ writer \in {None, "processor", "mapper"}
    /\ confirmed \subseteq ledger /\ ledger \subseteq Block
    /\ unchecked \subseteq (Block \cup Account) \X Info
    /\ buffer \in Seq([insert : BOOLEAN, dependency : Block \cup Account, info : Info \cup {None}])
    /\ back_buffer \in Seq([insert : BOOLEAN, dependency : Block \cup Account, info : Info \cup {None}])
    /\ mapper \in {"loop", "wait", "begin", "write", "done"}
    /\ gap_cache \in Seq(Block)
    /\ stopping \in {"no", "map", "processor", "all"}

Init ==
    /\ adds = [b \in Block |-> 0]
    /\ state_blocks = << >> /\ items = << >> /\ verifier = "loop"
    /\ mutex = FALSE
    /\ blocks = << >> /\ forced = << >> /\ processor = "loop"
    /\ active = FALSE /\ awaiting_write = FALSE
    /\ number_of_blocks_processed = 0 /\ info = None
    /\ events = [t \in {"processor", "local"} |-> << >>]
    /\ flushing = FALSE /\ flusher = "idle" /\ flushes = 0 /\ undone = {}
    /\ local = [block |-> None, at |-> "idle"]
    /\ writer = None
    /\ ledger = {} /\ confirmed = {} /\ unchecked = {}
    /\ buffer = << >> /\ back_buffer = << >> /\ mapper = "loop"
    /\ gap_cache = << >>
    /\ stopping = "no"

-----------------------------------------------------------------------------
(* What the ledger answers                                                 *)

block_missing(b, base) == b \in Block /\ b \notin base

\* The signature the ledger looks for itself when the entry is not verified
signed(b) ==
    \/ content[b].signer = "account"
    \/ content[b].signer = "epoch" /\ content[b].epoch_link

epoch_open(b) ==
    content[b].root \in Account /\ content[b].epoch_link /\ content[b].signer = "epoch"

\* ledger.successor of the root, unless it is the block itself
competitors(b, base) == {c \in base : c # b /\ content[c].root = content[b].root}

\* ledger.process on the blocks in base.  State blocks have their signature
\* checked first, legacy blocks once their predecessor is known.
process_result(i, base) ==
    LET b == i.block
        bad == i.verified = "unknown" /\ ~signed(b)
    IN IF b \in base THEN "old"
       ELSE IF bad /\ content[b].type = "state" THEN "bad_signature"
       ELSE IF block_missing(content[b].root, base) THEN "gap_previous"
       ELSE IF competitors(b, base) # {} THEN "fork"
       ELSE IF bad THEN "bad_signature"
       ELSE IF block_missing(content[b].source, base) THEN "gap_source"
       ELSE IF epoch_open(b) /\ \A p \in base : content[p].pays # content[b].root
         THEN "gap_epoch_open_pending"
       ELSE "progress"

\* process_return.verified
result_verified(i, code) ==
    IF code = "gap_previous" /\ content[i.block].type = "legacy" THEN i.verified ELSE "valid"

\* Blocks of base that build on U, directly
builds_on(c, U) == content[c].root \in U \/ content[c].source \in U

\* The blocks that go when s is rolled back: s and all that builds on it
dependents(s, base) ==
    {c \in base : \A U \in SUBSET base :
        s \in U /\ (\A d \in base : builds_on(d, U) => d \in U) => c \in U}

\* What ledger.rollback removes: all or, if s is confirmed, nothing.  That no
\* block above an unconfirmed one is confirmed is Ledger's CementedClosed.
rollback(s, base) == IF s \in confirmed THEN {} ELSE dependents(s, base)

-----------------------------------------------------------------------------
(* Queues and notifications                                                *)

woken(at) == IF at = "wait" THEN "loop" ELSE at

\* condition.notify_all of the processor
notify_all ==
    /\ processor' = woken(processor)
    /\ flusher' = IF flusher = "wait" THEN "lock" ELSE flusher

\* block_processor::add
add(i) ==
    IF i.verified = "unknown" /\ content[i.block].type = "state"
      THEN /\ state_blocks' = Append(state_blocks, i)
           /\ verifier' = woken(verifier)
           /\ UNCHANGED <<blocks, processor, flusher>>
      ELSE /\ ~mutex
           /\ blocks' = Append(blocks, i)
           /\ notify_all
           /\ UNCHANGED <<state_blocks, verifier>>

Unverified(b) == [block |-> b, verified |-> "unknown"]

Insert(dependency, i) == [insert |-> TRUE, dependency |-> dependency, info |-> i]

Query(dependency) == [insert |-> FALSE, dependency |-> dependency, info |-> None]

\* Mutant: the thread of the map is not notified.
buffered_asleep(calls) ==
    /\ buffer' = buffer \o calls
    /\ UNCHANGED mapper

\* unchecked_map::put and trigger, for a sequence of calls
buffered(calls) ==
    /\ buffer' = buffer \o calls
    /\ mapper' = IF calls = << >> THEN mapper ELSE woken(mapper)

\* gap_cache::add: a known gap arrives anew, a new one may push out the oldest
gap_added(b) ==
    LET later == Append(Remove(gap_cache, b), b)
    IN IF Len(later) > max_gaps THEN Tail(later) ELSE later

-----------------------------------------------------------------------------
(* process_one, by the processing thread or by process_local               *)

\* Mutant: progress does not trigger the account a send pays.
unchecked_calls_hash(i, code) ==
    LET b == i.block
        kept == [i EXCEPT !.verified = result_verified(i, code)]
    IN CASE code = "progress" -> <<Query(b)>>
         [] code \in {"gap_previous", "gap_epoch_open_pending"} -> <<Insert(content[b].root, kept)>>
         [] code = "gap_source" -> <<Insert(content[b].source, kept)>>
         [] OTHER -> << >>

\* What a result hands to the unchecked map
unchecked_calls(i, code) ==
    LET b == i.block
        kept == [i EXCEPT !.verified = result_verified(i, code)]
    IN CASE code = "progress" ->
              <<Query(b)>> \o (IF content[b].pays = None THEN << >> ELSE <<Query(content[b].pays)>>)
         [] code \in {"gap_previous", "gap_epoch_open_pending"} -> <<Insert(content[b].root, kept)>>
         [] code = "gap_source" -> <<Insert(content[b].source, kept)>>
         [] OTHER -> << >>

\* The post event of a result.  The events of progress, a fork or a bad signature
\* call elections, the network and the bootstrap, and change nothing here.
post_event(b, code) == IF code \in {"gap_previous", "gap_source"} THEN <<b>> ELSE << >>

process_one(thread, i, base) ==
    LET code == process_result(i, base) IN
    /\ ledger' = IF code = "progress" THEN base \cup {i.block} ELSE base
    /\ buffered(unchecked_calls(i, code))
    /\ gap_cache' = IF code = "progress" THEN Remove(gap_cache, i.block) ELSE gap_cache
    /\ events' = [events EXCEPT ![thread] = @ \o post_event(i.block, code)]
    /\ undone' = undone \ {i.block}
    /\ UNCHANGED <<confirmed, unchecked, back_buffer>>

\* One of the post events, in order, after the transaction
post_events(thread) ==
    /\ events[thread] # << >>
    /\ events' = [events EXCEPT ![thread] = Tail(@)]
    /\ gap_cache' = gap_added(Head(events[thread]))

-----------------------------------------------------------------------------
(* The threads that bring blocks                                           *)

\* node::process_active, bootstrap
Arrive(b) ==
    /\ adds[b] < max_adds
    /\ adds' = [adds EXCEPT ![b] = @ + 1]
    /\ add(Unverified(b))
    /\ UNCHANGED <<items, mutex, forced, active, awaiting_write, number_of_blocks_processed,
                   info, events, flushing, flushes, undone, local, writer, storeVars, mapVars,
                   gap_cache, stopping>>

\* block_processor::force, called by an election for its winner
Force(b) ==
    /\ b \in forces /\ ~mutex
    /\ adds[b] < max_adds
    /\ adds' = [adds EXCEPT ![b] = @ + 1]
    /\ forced' = Append(forced, b)
    /\ notify_all
    /\ UNCHANGED <<verifierVars, mutex, blocks, active, awaiting_write,
                   number_of_blocks_processed, info, events, flushing, flushes, undone, local,
                   writer, storeVars, mapVars, gap_cache, stopping>>

\* node::process_local: wait_write, then the write transaction
LocalWaitWrite(b) ==
    /\ b \in locals /\ local.at = "idle" /\ ~mutex
    /\ adds[b] < max_adds
    /\ adds' = [adds EXCEPT ![b] = @ + 1]
    /\ awaiting_write' = TRUE
    /\ local' = [block |-> b, at |-> "begin"]
    /\ UNCHANGED <<verifierVars, mutex, blocks, forced, processor, active,
                   number_of_blocks_processed, info, events, flushVars, writer, storeVars,
                   mapVars, gap_cache, stopping>>

LocalProcess ==
    /\ local.at = "begin" /\ writer = None
    /\ process_one("local", Unverified(local.block), ledger)
    /\ local' = [local EXCEPT !.at = "events"]
    /\ UNCHANGED <<adds, verifierVars, processorVars, flushing, flusher, flushes, writer, stopping>>

LocalPostEvents ==
    /\ local.at = "events"
    /\ \/ /\ post_events("local")
          /\ local' = local
       \/ /\ events["local"] = << >>
          /\ local' = [local EXCEPT !.at = "done"]
          /\ UNCHANGED <<events, gap_cache>>
    /\ UNCHANGED <<adds, verifierVars, processorVars, flushVars, writer, storeVars, mapVars, stopping>>

\* The confirmation height processor cements a block of the ledger.
Cement(b) ==
    /\ forces # {} \* only a rollback looks at confirmed blocks
    /\ writer = None
    /\ b \in ledger \ confirmed
    /\ ~\E c \in ledger \ confirmed : builds_on(b, {c})
    /\ confirmed' = confirmed \cup {b}
    /\ UNCHANGED <<adds, verifierVars, processorVars, events, flushVars, local, writer, ledger,
                   unchecked, mapVars, gap_cache, stopping>>

-----------------------------------------------------------------------------
(* The signature verification thread                                       *)

\* The start of the loop of run: sleep, leave or take a first batch
setup_items ==
    LET n == IF Len(state_blocks) <= max_verification_batch
               THEN Len(state_blocks) ELSE max_verification_batch
    IN /\ items' = SubSeq(state_blocks, 1, n)
       /\ state_blocks' = SubSeq(state_blocks, n + 1, Len(state_blocks))
       /\ verifier' = "verify"

VerifierLoop ==
    /\ \/ /\ verifier = "loop" /\ ~verification_stopped /\ state_blocks # << >>
          /\ setup_items
       \/ /\ verifier = "loop" /\ ~verification_stopped /\ state_blocks = << >>
          /\ verifier' = "wait"
          /\ UNCHANGED <<state_blocks, items>>
       \/ /\ verifier = "loop" /\ verification_stopped
          /\ verifier' = "done"
          /\ UNCHANGED <<state_blocks, items>>
       \/ /\ verifier = "next" /\ ~verification_stopped /\ state_blocks # << >>
          /\ setup_items
       \/ /\ verifier = "next" /\ (verification_stopped \/ state_blocks = << >>)
          /\ verifier' = "inactive"
          /\ UNCHANGED <<state_blocks, items>>
    /\ UNCHANGED <<adds, processorVars, events, flushVars, local, writer, storeVars, mapVars,
                   gap_cache, stopping>>

is_active == verifier \in {"verify", "next"}


\* The entries process_verified_state_blocks queues for a batch.  A block with
\* an epoch link that the epoch signer did not sign may be an ordinary send.
verified_items ==
    LET kept(i) == content[i.block].epoch_link \/ content[i.block].signer = "account"
        marked(i) ==
            LET c == content[i.block]
            IN [i EXCEPT !.verified = IF c.epoch_link /\ c.signer # "epoch" THEN "unknown" ELSE "valid"]
    IN [n \in 1..Len(SelectSeq(items, kept)) |-> marked(SelectSeq(items, kept)[n])]

\* The end of verify_state_blocks: the callback, process_verified_state_blocks
Verified ==
    /\ verifier = "verify" /\ ~mutex
    /\ blocks' = blocks \o verified_items
    /\ undone' = undone \ {b \in Block : \E n \in 1..Len(items) : items[n].block = b
                                       /\ \A m \in 1..Len(verified_items) : verified_items[m].block # b}
    /\ items' = << >>
    /\ verifier' = "next"
    /\ notify_all
    /\ UNCHANGED <<adds, state_blocks, mutex, forced, active, awaiting_write,
                   number_of_blocks_processed, info, events, flushing, flushes, local, writer,
                   storeVars, mapVars, gap_cache, stopping>>

\* Mutant: the callback forgets the thread that flushes.
TransitionInactive_quiet ==
    /\ verifier = "inactive"
    /\ verifier' = "loop"
    /\ UNCHANGED <<adds, state_blocks, items, processorVars, events, flushVars, local, writer,
                   storeVars, mapVars, gap_cache, stopping>>

\* transition_inactive_callback
TransitionInactive ==
    /\ verifier = "inactive"
    /\ IF flushing THEN ~mutex /\ notify_all ELSE UNCHANGED <<processor, flusher>>
    /\ verifier' = "loop"
    /\ UNCHANGED <<adds, state_blocks, items, mutex, blocks, forced, active, awaiting_write,
                   number_of_blocks_processed, info, events, flushing, flushes, undone, local,
                   writer, storeVars, mapVars, gap_cache, stopping>>

-----------------------------------------------------------------------------
(* The processing thread                                                   *)

have_blocks_ready == blocks # << >> \/ forced # << >>

\* The loop of process_blocks
ProcessBlocks ==
    /\ processor = "loop" /\ ~mutex
    /\ \/ /\ ~stopped /\ have_blocks_ready
          /\ active' = TRUE /\ processor' = "begin"
          /\ UNCHANGED flusher
       \/ /\ ~stopped /\ ~have_blocks_ready
          /\ processor' = "wait"
          /\ flusher' = IF flusher = "wait" THEN "lock" ELSE flusher \* notify_one
          /\ UNCHANGED active
       \/ /\ stopped
          /\ processor' = "done"
          /\ UNCHANGED <<active, flusher>>
    /\ UNCHANGED <<adds, verifierVars, mutex, blocks, forced, awaiting_write,
                   number_of_blocks_processed, info, events, flushing, flushes, undone, local,
                   writer, storeVars, mapVars, gap_cache, stopping>>

\* process_batch gets the write guard and the write transaction.
BatchBegin ==
    /\ processor = "begin" /\ writer = None
    /\ writer' = "processor"
    /\ number_of_blocks_processed' = 0
    /\ processor' = "batch"
    /\ UNCHANGED <<adds, verifierVars, mutex, blocks, forced, active, awaiting_write, info, events,
                   flushVars, local, storeVars, mapVars, gap_cache, stopping>>

\* The condition of the loop of process_batch
batch_goes_on(deadline_reached) ==
    /\ have_blocks_ready
    /\ ~deadline_reached \/ number_of_blocks_processed < block_processor_batch_size
    /\ ~awaiting_write
    /\ number_of_blocks_processed < max_block_write_batch_num

\* Forced blocks go first.
BatchPop ==
    /\ processor = "batch" /\ ~mutex
    /\ \E deadline_reached \in BOOLEAN : batch_goes_on(deadline_reached)
    /\ IF forced = << >>
         THEN /\ info' = Head(blocks) @@ [force |-> FALSE]
              /\ blocks' = Tail(blocks)
              /\ UNCHANGED forced
         ELSE /\ info' = Unverified(Head(forced)) @@ [force |-> TRUE]
              /\ forced' = Tail(forced)
              /\ UNCHANGED blocks
    /\ processor' = "one"
    /\ UNCHANGED <<adds, verifierVars, mutex, active, awaiting_write, number_of_blocks_processed,
                   events, flushVars, local, writer, storeVars, mapVars, gap_cache, stopping>>

\* The ledger a forced block finds once its competitor is rolled back
forced_base(b) == ledger \ UNION {rollback(s, ledger) : s \in competitors(b, ledger)}

BatchProcessOne ==
    /\ processor = "one"
    /\ process_one("processor", [block |-> info.block, verified |-> info.verified],
                   IF info.force THEN forced_base(info.block) ELSE ledger)
    /\ number_of_blocks_processed' = number_of_blocks_processed + 1
    /\ info' = None
    /\ processor' = "batch"
    /\ UNCHANGED <<adds, verifierVars, mutex, blocks, forced, active, awaiting_write, flushing,
                   flusher, flushes, local, writer, stopping>>

\* The loop ends; the transaction is committed before the post events run.
BatchEnd ==
    /\ processor = "batch" /\ ~mutex
    /\ \E deadline_reached \in BOOLEAN : ~batch_goes_on(deadline_reached)
    /\ awaiting_write' = FALSE
    /\ writer' = None
    /\ processor' = "events"
    /\ UNCHANGED <<adds, verifierVars, mutex, blocks, forced, active, number_of_blocks_processed,
                   info, events, flushVars, local, storeVars, mapVars, gap_cache, stopping>>

BatchPostEvents ==
    /\ processor = "events"
    /\ \/ /\ post_events("processor")
          /\ UNCHANGED <<processor, active>>
       \/ /\ events["processor"] = << >> /\ ~mutex
          /\ active' = FALSE /\ processor' = "loop"
          /\ UNCHANGED <<events, gap_cache>>
    /\ UNCHANGED <<adds, verifierVars, mutex, blocks, forced, awaiting_write,
                   number_of_blocks_processed, info, flushVars, local, writer, storeVars, mapVars,
                   stopping>>

-----------------------------------------------------------------------------
(* flush, called by the legacy bootstrap attempt, of which there is one    *)

queued_blocks ==
    {i.block : i \in ToSet(state_blocks) \cup ToSet(items) \cup ToSet(blocks)}
    \cup ToSet(forced) \cup (IF info = None THEN {} ELSE {info.block})

Flush ==
    /\ flusher = "idle" /\ flushes < max_flushes
    /\ flushes' = flushes + 1
    /\ flushing' = TRUE
    /\ undone' = queued_blocks
    /\ flusher' = "lock"
    /\ UNCHANGED <<adds, verifierVars, processorVars, events, local, writer, storeVars, mapVars,
                   gap_cache, stopping>>

FlushWait ==
    /\ flusher' = "wait" /\ mutex' = FALSE
    /\ UNCHANGED <<flushing, undone>>

FlushReturn ==
    /\ flusher' = "idle" /\ mutex' = FALSE
    /\ flushing' = FALSE
    /\ undone' = {}

\* The condition of the loop of flush, first the parts up to the size of the
\* queue of the verification, then the rest
FlushSize ==
    /\ flusher = "lock" /\ ~mutex
    /\ IF stopped THEN FlushReturn
       ELSE IF have_blocks_ready \/ state_blocks # << >> THEN FlushWait
       ELSE flusher' = "active" /\ mutex' = TRUE /\ UNCHANGED <<flushing, undone>>
    /\ UNCHANGED <<adds, verifierVars, blocks, forced, processor, active, awaiting_write,
                   number_of_blocks_processed, info, events, flushes, local, writer, storeVars,
                   mapVars, gap_cache, stopping>>

\* Mutant: only the processor is asked whether it is active.
FlushActive_processor ==
    /\ flusher = "active"
    /\ IF active THEN FlushWait ELSE FlushReturn
    /\ UNCHANGED <<adds, verifierVars, blocks, forced, processor, active, awaiting_write,
                   number_of_blocks_processed, info, events, flushes, local, writer, storeVars,
                   mapVars, gap_cache, stopping>>

FlushActive ==
    /\ flusher = "active"
    /\ IF active \/ is_active THEN FlushWait ELSE FlushReturn
    /\ UNCHANGED <<adds, verifierVars, blocks, forced, processor, active, awaiting_write,
                   number_of_blocks_processed, info, events, flushes, local, writer, storeVars,
                   mapVars, gap_cache, stopping>>

-----------------------------------------------------------------------------
(* The thread of the unchecked map                                         *)

\* The loop of run
MapLoop ==
    /\ mapper = "loop"
    /\ \/ /\ ~map_stopped /\ buffer # << >>
          /\ back_buffer' = buffer /\ buffer' = << >>
          /\ mapper' = "begin"
       \/ /\ ~map_stopped /\ buffer = << >>
          /\ mapper' = "wait"
          /\ UNCHANGED <<buffer, back_buffer>>
       \/ /\ map_stopped
          /\ mapper' = "done"
          /\ UNCHANGED <<buffer, back_buffer>>
    /\ UNCHANGED <<adds, verifierVars, processorVars, events, flushVars, local, writer, storeVars,
                   gap_cache, stopping>>

\* write_buffer: the write transaction
MapBegin ==
    /\ mapper = "begin" /\ writer = None
    /\ writer' = "mapper"
    /\ mapper' = "write"
    /\ UNCHANGED <<adds, verifierVars, processorVars, events, flushVars, local, storeVars, buffer,
                   back_buffer, gap_cache, stopping>>

\* The visitor on an insert
MapInsert ==
    /\ mapper = "write" /\ back_buffer # << >> /\ Head(back_buffer).insert
    /\ unchecked' = LET e == Head(back_buffer)
                    IN {u \in unchecked : <<u[1], u[2].block>> # <<e.dependency, e.info.block>>}
                         \cup {<<e.dependency, e.info>>}
    /\ back_buffer' = Tail(back_buffer)
    /\ UNCHANGED <<adds, verifierVars, processorVars, events, flushVars, local, writer, ledger,
                   confirmed, buffer, mapper, gap_cache, stopping>>

\* The visitor on a query: satisfied, which is block_processor::add, for every
\* block that waits for the dependency, in the order of the table
MapQuery ==
    /\ mapper = "write" /\ back_buffer # << >> /\ ~Head(back_buffer).insert
    /\ LET found == {u \in unchecked : u[1] = Head(back_buffer).dependency}
           infos == [n \in 1..Cardinality(found) |-> SetToSeq(found)[n][2]]
           batched(i) == i.verified = "unknown" /\ content[i.block].type = "state"
           direct(i) == ~batched(i)
       IN /\ unchecked' = IF disable_delete THEN unchecked ELSE unchecked \ found
          /\ state_blocks' = state_blocks \o SelectSeq(infos, batched)
          /\ verifier' = IF state_blocks' = state_blocks THEN verifier ELSE woken(verifier)
          /\ blocks' = blocks \o SelectSeq(infos, direct)
          /\ IF blocks' = blocks THEN UNCHANGED <<processor, flusher>> ELSE ~mutex /\ notify_all
    /\ back_buffer' = Tail(back_buffer)
    /\ UNCHANGED <<adds, items, mutex, forced, active, awaiting_write, number_of_blocks_processed,
                   info, events, flushing, flushes, undone, local, writer, ledger, confirmed, buffer,
                   mapper, gap_cache, stopping>>

\* The transaction is committed.
MapEnd ==
    /\ mapper = "write" /\ back_buffer = << >>
    /\ writer' = None
    /\ mapper' = "loop"
    /\ UNCHANGED <<adds, verifierVars, processorVars, events, flushVars, local, storeVars, buffer,
                   back_buffer, gap_cache, stopping>>

-----------------------------------------------------------------------------
(* node::stop                                                              *)

StopMap ==
    /\ stops /\ stopping = "no"
    /\ stopping' = "map"
    /\ mapper' = woken(mapper)
    /\ UNCHANGED <<adds, verifierVars, processorVars, events, flushVars, local, writer, storeVars,
                   buffer, back_buffer, gap_cache>>

\* Mutant: stop wakes nobody.
StopProcessor_quiet ==
    /\ stopping = "map" /\ ~mutex
    /\ stopping' = "processor"
    /\ UNCHANGED <<adds, verifierVars, processorVars, events, flushVars, local, writer, storeVars,
                   mapVars, gap_cache>>

StopProcessor ==
    /\ stopping = "map" /\ ~mutex
    /\ stopping' = "processor"
    /\ notify_all
    /\ UNCHANGED <<adds, verifierVars, mutex, blocks, forced, active, awaiting_write,
                   number_of_blocks_processed, info, events, flushing, flushes, undone, local,
                   writer, storeVars, mapVars, gap_cache>>

StopVerification ==
    /\ stopping = "processor"
    /\ stopping' = "all"
    /\ verifier' = woken(verifier)
    /\ UNCHANGED <<adds, state_blocks, items, processorVars, events, flushVars, local, writer,
                   storeVars, mapVars, gap_cache>>

-----------------------------------------------------------------------------

VerifierStep == VerifierLoop \/ Verified \/ TransitionInactive

ProcessorStep ==
    ProcessBlocks \/ BatchBegin \/ BatchPop \/ BatchProcessOne \/ BatchEnd \/ BatchPostEvents

MapStep == MapLoop \/ MapBegin \/ MapInsert \/ MapQuery \/ MapEnd

FlushStep == FlushSize \/ FlushActive

LocalStep == LocalProcess \/ LocalPostEvents

Next ==
    \/ \E b \in Block : Arrive(b) \/ Force(b) \/ LocalWaitWrite(b) \/ Cement(b)
    \/ Flush
    \/ VerifierStep \/ ProcessorStep \/ MapStep \/ FlushStep \/ LocalStep
    \/ StopMap \/ StopProcessor \/ StopVerification

Spec == Init /\ [][Next]_vars

\* Every thread runs.  The write transaction goes from hand to hand: a thread
\* that waits for it gets it once the others have nothing left to write.
Fairness ==
    /\ WF_vars(VerifierStep) /\ WF_vars(ProcessorStep) /\ WF_vars(MapStep)
    /\ WF_vars(FlushStep) /\ WF_vars(LocalStep)
    /\ WF_vars(StopProcessor) /\ WF_vars(StopVerification)

FairSpec == Spec /\ Fairness

-----------------------------------------------------------------------------
(* Properties                                                              *)

\* What the unchecked map has still to apply, in order
pending == back_buffer \o buffer

\* The dependency a block waits for has arrived.
satisfied(d) == IF d \in Block THEN d \in ledger ELSE \E p \in ledger : content[p].pays = d

\* A block that waits for a missing block is not forgotten (unchecked_map):
\* whenever its dependency is in the ledger, the query that will hand the block
\* back to the processor comes after it in the map's buffers.
TriggerNotLost ==
    ~disable_delete /\ ~map_stopped =>
        /\ \A u \in unchecked :
             satisfied(u[1]) => \E n \in 1..Len(pending) : pending[n] = Query(u[1])
        /\ \A n \in 1..Len(pending) :
             pending[n].insert /\ satisfied(pending[n].dependency) =>
                 \E m \in n..Len(pending) : pending[m] = Query(pending[n].dependency)


\* When flush returns on a running node, every block that was queued anywhere
\* when it was called has been processed since, or dropped for its signature
\* (block_processor::flush).
FlushDrains == [][flusher # "idle" /\ flusher' = "idle" /\ ~stopped => undone = {}]_vars

\* A call of flush returns, whatever arrives meanwhile and also if the node is
\* stopped: none of the notifications it relies on is lost
\* (block_processor::flush, transition_inactive_callback, process_blocks).
FlushReturns == flusher # "idle" ~> flusher = "idle"

\* A block and all it builds on
ancestry == [b \in Block |-> {c \in Block : b \in dependents(c, Block)}]

\* What b needs: an epoch block that opens an account needs a payment to it.
payments(b) == {p \in Block : epoch_open(b) /\ content[p].pays = content[b].root}
needed(b) == UNION {ancestry[c] : c \in payments(b) \cup {b}}

complete(b) ==
    /\ \A c \in needed(b) : adds[c] > 0 /\ signed(c)
    /\ epoch_open(b) => payments(b) # {}

\* Blocks may arrive in any order: once all that a block needs has arrived, the
\* block reaches the ledger, unless a competitor of it or of a block it needs is
\* there, perhaps by force (block_processor, unchecked_map).
BlocksSettle ==
    \A b \in Block :
        complete(b) ~> b \in ledger \/ \E c \in needed(b) : competitors(c, ledger) # {}

\* node::stop ends the three threads and a waiting flush.
StopEnds ==
    stopping = "map" ~>
        verifier = "done" /\ processor = "done" /\ mapper = "done" /\ flusher = "idle"
=============================================================================
