--------------------- MODULE ConfirmationHeightProcessor ---------------------
(***************************************************************************)
(* The thread of the confirmation height processor, which cements the      *)
(* blocks that elections confirm, and the two threads that share the write *)
(* database queue with it: the block processor and the ledger pruning      *)
(* worker.  Source: node/confirmation_height_processor.cpp, the control of *)
(* process and cement_blocks in confirmation_height_bounded.cpp and        *)
(* confirmation_height_unbounded.cpp, blockprocessor.cpp, node.cpp.        *)
(*                                                                         *)
(* Which blocks an iteration collects is data here: an entry of            *)
(* pending_writes names the added block it cements last, or Dependency     *)
(* for one that cements only blocks below it.  The observers of a block    *)
(* that is cemented already when it is added, and pause, which only tests  *)
(* call, are left out.                                                     *)
(***************************************************************************)
EXTENDS WriteDatabaseQueue

CONSTANTS
    Block,          \* blocks that elections add
    Dependency,     \* the block of an entry that cements no added block
    None,           \* original_block = nullptr
    Mode,           \* confirmation_height_mode
    MaxPending,     \* pending_writes_max_size, batch_write_size
    Loads           \* bounds: how much work there may be, see Load

\* The blocks that are added, the other writers that have something to write, the iterations
\* of the loop of process for one added block, the blocks an entry cements, and whether the
\* node is stopped
Load == [blocks : SUBSET Block, writers : SUBSET Writer, iterations : 1..2, sizes : 1..2,
         stops : BOOLEAN]

ASSUME ProcessorAssumption ==
    /\ Dependency \notin Block
    /\ None \notin Block
    /\ Mode \in {"automatic", "bounded", "unbounded"}
    /\ MaxPending \in Nat \ {0}
    /\ Loads \subseteq Load

VARIABLES
    load,       \* one of Loads
    pc,         \* where each writer's thread is
    stopped,    \* the writers whose component has been told to stop
    awaiting_processing,
    original_hashes_pending,
    original_block,
    current,    \* the processor, bounded or unbounded, that is being used
    left,       \* iterations of process still to do for original_block
    pending_writes,     \* of each of the two processors
    from_process,       \* cement_blocks was called by process, not by run
    min_time_exceeded,  \* the timer of the current processor
    uncommitted,    \* blocks cemented by the open write transaction
    cemented,       \* blocks at or below their confirmation height
    to_notify,      \* cemented_blocks: committed, the observers not yet told
    notified        \* blocks the cemented observers have been told of

procVars == <<awaiting_processing, original_hashes_pending, original_block, current,
              left, pending_writes, from_process, min_time_exceeded>>
cementVars == <<uncommitted, cemented, to_notify, notified>>
vars == <<queueVars, pc, stopped, procVars, cementVars>>

conf == "confirmation_height"
Others == Writer \ {conf}
Processor == {"bounded", "unbounded"}
Entry == [block : Block \cup {Dependency}, size : 1..load.sizes]

\* Where a thread is: at the top of its loop, inside wait, with a guard,
\* between the pop and the notify of a finished guard, gone.  The
\* confirmation thread is also in process, about to call wait, between the
\* two critical sections of an idle run, or blocked on condition.wait.
Location == {"run", "wait", "write", "notify", "done",
             "process", "call_wait", "return", "relock", "idle"}

TypeOK ==
    /\ QueueTypeOK
    /\ pc \in [Writer -> Location]
    /\ stopped \subseteq Writer
    /\ awaiting_processing \in Seq(Block)
    /\ original_hashes_pending \subseteq Block
    /\ original_block \in Block \cup {None}
    /\ current \in Processor
    /\ left \in 0..load.iterations
    /\ pending_writes \in [Processor -> Seq(Entry)]
    /\ from_process \in BOOLEAN
    /\ min_time_exceeded \in BOOLEAN
    /\ uncommitted \subseteq Block
    /\ cemented \subseteq Block
    /\ to_notify \subseteq Block
    /\ notified \subseteq Block

Init ==
    /\ load \in Loads
    /\ QueueInit
    /\ pc = [w \in Writer |-> "run"]
    /\ stopped = {}
    /\ awaiting_processing = << >>
    /\ original_hashes_pending = {}
    /\ original_block = None
    /\ current = "bounded"
    /\ left = 0
    /\ pending_writes = [p \in Processor |-> << >>]
    /\ from_process = FALSE
    /\ min_time_exceeded = FALSE
    /\ uncommitted = {}
    /\ cemented = {}
    /\ to_notify = {}
    /\ notified = {}

goto(writer, location) == pc' = [pc EXCEPT ![writer] = location]
pending_empty(processor) == pending_writes[processor] = << >>

pending_blocks(processor) ==
    {pending_writes[processor][i].block : i \in 1..Len(pending_writes[processor])}
awaits(block) == \E i \in 1..Len(awaiting_processing) : awaiting_processing[i] = block
is_processing_added_block(block) == block \in original_hashes_pending \/ awaits(block)

-----------------------------------------------------------------------------
(* The confirmation height processor's interface                           *)

\* notify_one wakes the thread if it is blocked on the condition variable.
notify_one ==
    pc' = IF pc[conf] = "idle" THEN [pc EXCEPT ![conf] = "run"] ELSE pc

\* An election's winner is added; a block that already awaits is not again.
add(block) ==
    /\ awaiting_processing' = IF awaits(block) THEN awaiting_processing
                              ELSE Append(awaiting_processing, block)
    /\ notify_one
    /\ UNCHANGED <<queueVars, stopped, original_hashes_pending, original_block,
                   current, left, pending_writes, from_process, min_time_exceeded,
                   cementVars>>

\* node::stop tells the pruning loop (node.stopped), then the block processor,
\* then the confirmation height processor.
stop ==
    /\ load.stops
    /\ \/ /\ stopped = {}
          /\ stopped' = {"pruning"}
          /\ UNCHANGED pc
       \/ /\ stopped = {"pruning"}
          /\ stopped' = {"pruning", "process_batch"}
          /\ UNCHANGED pc
       \/ /\ stopped = {"pruning", "process_batch"}
          /\ stopped' = Writer
          /\ notify_one
    /\ UNCHANGED <<queueVars, procVars, cementVars>>

-----------------------------------------------------------------------------
(* run: the loop of the confirmation thread                                *)

force_unbounded == ~pending_empty("unbounded") \/ Mode = "unbounded"

\* Mutant: the writes the bounded processor has pending are not looked at.
choice_mixed(few_uncemented) ==
    IF force_unbounded \/ (Mode = "automatic" /\ few_uncemented)
      THEN "unbounded" ELSE "bounded"

\* The processor run gives the next block to.  Whether the uncemented blocks
\* are few enough for the unbounded one is the ledger's.
choice(few_uncemented) ==
    IF force_unbounded
         \/ (Mode = "automatic" /\ few_uncemented /\ pending_empty("bounded"))
      THEN "unbounded" ELSE "bounded"

\* A block is cemented already, or will be by a pending write.
settled(block, processor) == block \in cemented \cup pending_blocks(processor)

\* Mutant: the hashes are cleared while their writes are pending.
hashes_cleared == {}

\* The hashes that stay when run takes the next block
hashes_kept ==
    IF \A p \in Processor : pending_empty(p) THEN {} ELSE original_hashes_pending

\* set_next_hash, the choice of a processor, and the start of its process
run_process ==
    /\ pc[conf] = "run" /\ conf \notin stopped
    /\ awaiting_processing # << >>
    /\ original_block' = Head(awaiting_processing)
    /\ awaiting_processing' = Tail(awaiting_processing)
    /\ original_hashes_pending' = hashes_kept \cup {original_block'}
    /\ \E few_uncemented \in BOOLEAN : current' = choice(few_uncemented)
    /\ min_time_exceeded' = (min_time_exceeded /\ ~pending_empty(current'))
    /\ left' \in IF settled(original_block', current') THEN {1} ELSE 1..load.iterations
    /\ goto(conf, "process")
    /\ UNCHANGED <<queueVars, stopped, pending_writes, from_process, cementVars>>

\* Nothing awaits: the writes that are still pending are flushed.
run_flush ==
    /\ pc[conf] = "run" /\ conf \notin stopped
    /\ awaiting_processing = << >>
    /\ \E p \in Processor : ~pending_empty(p)
    /\ current' = IF pending_empty("bounded") THEN "unbounded" ELSE "bounded"
    /\ from_process' = FALSE
    /\ goto(conf, "call_wait")
    /\ UNCHANGED <<queueVars, stopped, awaiting_processing, original_hashes_pending,
                   original_block, left, pending_writes, min_time_exceeded, cementVars>>

\* Nothing awaits and nothing is pending: the mutex is let go and taken again.
run_unlock ==
    /\ pc[conf] = "run" /\ conf \notin stopped
    /\ awaiting_processing = << >>
    /\ \A p \in Processor : pending_empty(p)
    /\ goto(conf, "relock")
    /\ UNCHANGED <<queueVars, stopped, procVars, cementVars>>

lock_and_cleanup ==
    /\ original_block' = None
    /\ original_hashes_pending' = {}


\* condition.wait, unless a block was added in between
run_relock ==
    /\ pc[conf] = "relock"
    /\ lock_and_cleanup
    /\ goto(conf, IF awaiting_processing = << >> THEN "idle" ELSE "run")
    /\ UNCHANGED <<queueVars, stopped, awaiting_processing, current, left, pending_writes,
                   from_process, min_time_exceeded, cementVars>>

-----------------------------------------------------------------------------
(* process: the iterations for one added block                             *)

Entries(block) == {[block |-> block, size |-> n] : n \in 1..load.sizes}

\* What one iteration appends to pending_writes: the entry of the account it
\* went over and that of the receive above it.  Only the last iteration gets
\* to the added block itself.
prepared ==
    LET below == Entries(Dependency)
        own   == Entries(original_block)
    IN  IF settled(original_block, current) THEN {<< >>}
        ELSE IF left > 1 THEN {<< >>} \cup {<<d>> : d \in below} \cup (below \X below)
        ELSE {<<o>> : o \in own} \cup (below \X own)

next_iteration ==
    /\ left' = left - 1
    /\ goto(conf, IF left = 1 THEN "run" ELSE "process")

\* finished_iterating, and no reason to let more blocks join the batch
should_output == left = 1 /\ (awaiting_processing = << >> \/ min_time_exceeded)

\* One iteration: collect, and write the pending entries if there are enough
\* of them and no other writer is in front.  It waits for the others only
\* when the pending entries must not grow any more.
process_iteration ==
    /\ pc[conf] = "process" /\ conf \notin stopped
    /\ UNCHANGED current
    /\ \E entries \in prepared, batch_reached \in BOOLEAN, force_write \in BOOLEAN :
         LET pending == pending_writes[current] \o entries
         IN  /\ pending_writes' = [pending_writes EXCEPT ![current] = pending]
             /\ Len(pending) >= MaxPending => force_write
             /\ \/ /\ pending = << >> \/ ~(batch_reached \/ force_write \/ should_output)
                   /\ next_iteration
                   /\ UNCHANGED <<queueVars, from_process>>
                \/ /\ pending # << >> /\ (batch_reached \/ force_write \/ should_output)
                   /\ process(conf)
                   /\ IF conf \in owns'
                        THEN goto(conf, "write") /\ from_process' = TRUE /\ UNCHANGED left
                      ELSE IF force_write
                        THEN goto(conf, "call_wait") /\ from_process' = TRUE /\ UNCHANGED left
                      ELSE next_iteration /\ UNCHANGED from_process
    /\ UNCHANGED <<stopped, awaiting_processing, original_hashes_pending, original_block,
                   min_time_exceeded, cementVars>>

\* A stopped processor leaves the loop.
process_break ==
    /\ pc[conf] = "process" /\ conf \in stopped
    /\ goto(conf, "run")
    /\ UNCHANGED <<queueVars, stopped, procVars, cementVars>>

\* batch_separate_pending_min_time goes by.
time_passes ==
    /\ ~min_time_exceeded
    /\ min_time_exceeded' = TRUE
    /\ UNCHANGED <<queueVars, pc, stopped, awaiting_processing, original_hashes_pending,
                   original_block, current, left, pending_writes, from_process, cementVars>>

-----------------------------------------------------------------------------
(* cement_blocks                                                           *)

\* Blocks, of an entry's last one, and the transaction's so far
commit(blocks) ==
    /\ cemented' = cemented \cup blocks
    /\ to_notify' = blocks
    /\ uncommitted' = {}

\* The lowest block of the first entry is cemented.  The bounded processor
\* may commit there, and let the other writers in, when the batch is full.
cement_block ==
    /\ pc[conf] = "write" /\ ~pending_empty(current)
    /\ LET entry  == Head(pending_writes[current])
           last   == entry.size = 1
           rest   == IF last THEN Tail(pending_writes[current])
                     ELSE [pending_writes[current] EXCEPT ![1].size = @ - 1]
           blocks == uncommitted \cup (IF last THEN {entry.block} \cap Block ELSE {})
       IN  /\ pending_writes' = [pending_writes EXCEPT ![current] = rest]
           /\ \/ /\ uncommitted' = blocks
                 /\ UNCHANGED <<queueVars, pc, cemented, to_notify>>
              \/ /\ current = "bounded"
                 /\ commit(blocks)
                 /\ finish(conf)
                 /\ goto(conf, "notify")
    /\ UNCHANGED <<stopped, awaiting_processing, original_hashes_pending, original_block,
                   current, left, from_process, min_time_exceeded, notified>>

\* All entries are written: the transaction ends and the guard is released.
cement_end ==
    /\ pc[conf] = "write" /\ pending_empty(current)
    /\ commit(uncommitted)
    /\ finish(conf)
    /\ goto(conf, "notify")
    /\ UNCHANGED <<stopped, procVars, notified>>

\* The rest of the release, then the cemented observers; the guard is taken
\* again when entries are left.
notify_observers ==
    /\ pc[conf] = "notify"
    /\ notify_all
    /\ notified' = notified \cup to_notify
    /\ to_notify' = {}
    /\ goto(conf, IF pending_empty(current) THEN "return" ELSE "call_wait")
    /\ UNCHANGED <<stopped, procVars, uncommitted, cemented>>

\* cement_blocks returns to the iteration, or to run.
cement_return ==
    /\ pc[conf] = "return"
    /\ min_time_exceeded' = FALSE
    /\ IF from_process
         THEN next_iteration /\ UNCHANGED <<original_block, original_hashes_pending>>
         ELSE lock_and_cleanup /\ goto(conf, "run") /\ UNCHANGED left
    /\ UNCHANGED <<queueVars, stopped, awaiting_processing, current, pending_writes,
                   from_process, cementVars>>

-----------------------------------------------------------------------------
(* The threads' use of the queue                                           *)

inside_wait(writer) == goto(writer, IF writer \in owns' THEN "write" ELSE "wait")

\* process_batch and ledger_pruning wait for the guard before they write.
begin_write(writer) ==
    /\ IF writer = conf THEN pc[writer] = "call_wait"
       ELSE pc[writer] = "run" /\ writer \notin stopped
    /\ wait(writer)
    /\ inside_wait(writer)
    /\ UNCHANGED <<stopped, procVars, cementVars>>

wake_up(writer) ==
    /\ pc[writer] = "wait"
    /\ wake(writer)
    /\ inside_wait(writer)
    /\ UNCHANGED <<stopped, procVars, cementVars>>

\* The guard of process_batch and of ledger_pruning goes out of scope.
end_write(writer) ==
    /\ pc[writer] = "write"
    /\ finish(writer)
    /\ goto(writer, "notify")
    /\ UNCHANGED <<stopped, procVars, cementVars>>

notify(writer) ==
    /\ pc[writer] = "notify"
    /\ notify_all
    /\ goto(writer, "run")
    /\ UNCHANGED <<stopped, procVars, cementVars>>

\* A thread that sees stopped at the top of its loop ends.
exit(writer) ==
    /\ pc[writer] = "run" /\ writer \in stopped
    /\ goto(writer, "done")
    /\ UNCHANGED <<queueVars, stopped, procVars, cementVars>>

-----------------------------------------------------------------------------

ConfStep ==
    \/ run_process \/ run_flush \/ run_unlock \/ run_relock
    \/ process_iteration \/ process_break
    \/ cement_block \/ cement_end \/ notify_observers \/ cement_return
    \/ begin_write(conf) \/ wake_up(conf) \/ exit(conf)

\* The steps a thread takes without new work to do
OtherStep(writer) ==
    wake_up(writer) \/ end_write(writer) \/ notify(writer) \/ exit(writer)

Next ==
    /\ \/ \E block \in load.blocks : add(block)
       \/ stop
       \/ time_passes
       \/ ConfStep
       \/ \E writer \in Others : OtherStep(writer)
       \/ \E writer \in load.writers : begin_write(writer)
    /\ UNCHANGED load

\* Threads are scheduled and clocks run; elections, batches of blocks and
\* pruning targets may or may not come; a stop that began goes on.
Fairness ==
    /\ WF_vars(ConfStep)
    /\ WF_vars(time_passes)
    /\ \A writer \in Others : WF_vars(OtherStep(writer))
    /\ WF_vars(stopped # {} /\ stop)

Spec == Init /\ [][Next]_<<vars, load>> /\ Fairness

-----------------------------------------------------------------------------
(* Properties                                                              *)

\* original_hashes_pending holds the "hashes which have been added and
\* processed, but have not been cemented": a block that was added counts as
\* being processed until its confirmation height is committed.
ProcessingUntilCemented ==
    \A block \in Block :
        \/ block \in uncommitted
        \/ \E p \in Processor : block \in pending_blocks(p)
        \/ pc[conf] = "process" /\ block = original_block
        => is_processing_added_block(block)

\* The observers hear of a block after its confirmation height is committed,
\* and once: at any time a cemented block has been announced or is about to be.
AnnouncedOnce ==
    /\ cemented = notified \cup to_notify
    /\ notified \cap to_notify = {}


\* A writer that waits gets the guard, unless the node stops.
WaitingWriterServed ==
    \A writer \in Writer : pc[writer] = "wait" ~> (writer \in owns \/ stopped # {})

=============================================================================
