------------------------- MODULE WriteDatabaseQueue -------------------------
(***************************************************************************)
(* The queue that orders the node's database writers                       *)
(* (node/write_database_queue.cpp).  A writer that is at the front of the  *)
(* queue may hold a write_guard; destroying or releasing the guard pops    *)
(* the front, whoever it is.  Every method runs under the queue's mutex,   *)
(* so each is one step, except that a guard's finish callback notifies the *)
(* condition variable after it has let the mutex go.                       *)
(*                                                                         *)
(* The queue of a RocksDB node (use_noops) orders nothing and is left out. *)
(***************************************************************************)
EXTENDS Integers, Sequences

\* enum class writer, without the one that only tests use
Writer == {"confirmation_height", "process_batch", "pruning"}

VARIABLES
    queue,      \* writers, front first
    owns,       \* the writers whose thread holds a guard with owns = true
    sleeping    \* the writers whose thread is blocked in cv.wait

queueVars == <<queue, owns, sleeping>>

QueueTypeOK ==
    /\ queue \in Seq(Writer)
    /\ owns \subseteq Writer
    /\ sleeping \subseteq Writer

QueueInit ==
    /\ queue = << >>
    /\ owns = {}
    /\ sleeping = {}

contains(writer) == \E i \in 1..Len(queue) : queue[i] = writer

\* The queue once the writer is in it, at most once
enlisted(writer) == IF contains(writer) THEN queue ELSE Append(queue, writer)

\* The loop of wait: return a guard from the front, sleep anywhere else
guard_or_sleep(writer) ==
    IF Head(queue') = writer
      THEN owns' = owns \cup {writer} /\ sleeping' = sleeping
      ELSE owns' = owns /\ sleeping' = sleeping \cup {writer}

wait(writer) ==
    /\ queue' = enlisted(writer)
    /\ guard_or_sleep(writer)

\* A notified thread takes the mutex again and looks at the front again.
wake(writer) ==
    /\ writer \notin sleeping
    /\ queue' = queue
    /\ guard_or_sleep(writer)

\* process enlists without waiting.  Its callers pop () a guard when it
\* returns true; when it returns false it notifies the condition variable.
process(writer) ==
    /\ queue' = enlisted(writer)
    /\ IF Head(queue') = writer
         THEN owns' = owns \cup {writer} /\ sleeping' = sleeping
         ELSE owns' = owns /\ sleeping' = {}

\* write_guard::release, or the destructor of a guard that is still owned
finish(writer) ==
    /\ writer \in owns
    /\ owns' = owns \ {writer}
    /\ queue' = Tail(queue)
    /\ UNCHANGED sleeping

\* Mutant: the finish callback does not notify.
notify_nobody == UNCHANGED queueVars

\* The notify_all that follows the pop
notify_all ==
    /\ sleeping' = {}
    /\ UNCHANGED <<queue, owns>>
=============================================================================
