------------------------------- MODULE Voting -------------------------------
(***************************************************************************)
(* The votes this node casts itself: the two vote generators (normal and   *)
(* final), their vote spacing, the shared history of local votes, the      *)
(* durable table of final votes, and the request aggregator that answers   *)
(* confirm_req messages from the history or through the generators.        *)
(* node/voting.cpp, node/request_aggregator.cpp, final_vote store.         *)
(*                                                                         *)
(* The elections, the ledger and the block processor are the environment:  *)
(* they change what is in the ledger, who wins and what is cemented, at    *)
(* any moment between two steps of the three threads modelled here.        *)
(***************************************************************************)
EXTENDS Integers, FiniteSets, Sequences, SequencesExt

CONSTANTS
  Block,                  \* the blocks that are voted on
  Representative,         \* the accounts of wallets.foreach_representative
  None,                   \* no block
  root(_),                \* the root of a block: forks share it
  first,                  \* root -> the block of the root that came first
  confirm_ack_hashes_max, \* hashes in one vote message
  max_cache,              \* local votes kept by clean()
  max_requests,           \* replies queued at one generator
  max_channel_requests,   \* pairs pooled for one channel
  delay,                  \* vote_spacing::delay
  MaxTime, MaxCalls, MaxRestarts  \* bounds: the clock, the votes asked for

ASSUME VotingBounds ==
  /\ {confirm_ack_hashes_max, max_cache, max_requests} \subseteq Nat \ {0}
  /\ {max_channel_requests, delay, MaxTime, MaxCalls, MaxRestarts} \subseteq Nat
  /\ IsFiniteSet(Representative)

VARIABLES
  ledger,      \* root -> the block of that root in the block table, or None
  confirmed,   \* the roots whose ledger block is cemented
  ready,       \* the blocks for which dependents_confirmed answers true
  election,    \* root -> [blocks, winner] of the active election
  quorum,      \* root -> the hash an election thread read before it released
               \* its mutex to call final_generator.add, or None
  final_vote,  \* root -> the hash in the final_votes table, or None (durable)
  history,     \* local_vote_history::history, oldest first
  recent,      \* generator -> root -> vote_spacing entry or None
  candidates,  \* generator -> vote_generator::candidates
  requests,    \* generator -> vote_generator::requests
  thread,      \* generator -> where vote_generator::run is
  pool,        \* the aggregator's channel_pool::hashes_roots
  remaining,   \* what aggregate returned and run has not yet handed over
  now,         \* the clock
  calls, restarts,  \* counters of the bounds
  final_cast,  \* history: [hash, via] of the final votes made, over all lives
  voted,       \* history: generator -> root -> the last vote made in this life
  rolled       \* history: the roots whose recorded final vote was rolled back

ledger_vars == <<ledger, confirmed, ready, rolled>>
election_vars == <<election, quorum>>
generator_vars == <<history, recent, candidates, requests, thread, final_cast, voted>>
aggregator_vars == <<pool, remaining>>
vars == <<ledger_vars, election_vars, generator_vars, aggregator_vars, final_vote, now, calls, restarts>>

Generator == {"normal", "final"}
Root == {root(b) : b \in Block}
timestamp_max == MaxTime + 1
NoElection == [blocks |-> {}, winner |-> None]
Idle == [at |-> "run", rest |-> <<>>, hashes |-> <<>>, votes |-> <<>>]

-----------------------------------------------------------------------------
(* vote_spacing *)

\* Mutant: no spacing.
votable_always(g, b) == TRUE

votable(g, b) ==
  LET e == recent[g][root(b)] IN e = None \/ e.hash = b \/ e.time < now - delay

trim(e) == IF e # None /\ e.time <= now - delay THEN None ELSE e

\* An entry that trim() leaves only has its time renewed: its hash stays.
flag(e, b) == IF trim(e) = None THEN [hash |-> b, time |-> now] ELSE [e EXCEPT !.time = now]

-----------------------------------------------------------------------------
(* local_vote_history *)

clean(h) == SubSeq(h, Len(h) - max_cache + 1, Len(h))

\* Only the entries of the vote's root are touched: those for another hash go,
\* and so does an older vote of the same account; a newer one keeps its place.
history_add(h, b, v) ==
  LET cleaned == IF Len(h) > max_cache THEN clean(h) ELSE h
      stays(e) == \/ root(e.hash) # root(b)
                  \/ e.hash = b /\ (e.vote.account = v.account => e.vote.timestamp > v.timestamp)
      kept == SelectSeq(cleaned, stays)
      newer == \E i \in DOMAIN kept : kept[i].hash = b /\ kept[i].vote.account = v.account
  IN IF newer THEN kept ELSE Append(kept, [hash |-> b, vote |-> v])

history_erase(r) == SelectSeq(history, LAMBDA e : root(e.hash) # r)

votes(b, is_final) ==
  {e.vote : e \in {x \in ToSet(history) : x.hash = b /\ (is_final => x.vote.timestamp = timestamp_max)}}

-----------------------------------------------------------------------------
(* vote_generator *)

cached(g, b) == votes(b, g = "final")

recorded(b) == final_vote[root(b)]

\* final_vote.put: false only when another hash is recorded for the root.
put(b) ==
  /\ recorded(b) \in {None, b}
  /\ final_vote' = [final_vote EXCEPT ![root(b)] = b]

may_vote(g, b) == cached(g, b) = {} /\ ledger[root(b)] = b /\ b \in ready

push(g, b) == candidates' = [candidates EXCEPT ![g] = Append(@, b)]

\* Mutant: the answer of final_vote.put is ignored.
add_unchecked(g, b) ==
  \/ ~may_vote(g, b) /\ UNCHANGED <<candidates, final_vote>>
  \/ may_vote(g, b) /\ g = "normal" /\ push(g, b) /\ UNCHANGED final_vote
  \/ may_vote(g, b) /\ g = "final" /\ push(g, b) /\ put(b)
  \/ may_vote(g, b) /\ g = "final" /\ push(g, b) /\ recorded(b) \notin {None, b} /\ UNCHANGED final_vote

\* vote_generator::add. Cached votes are only sent again. The final generator
\* first makes the hash durable, and votes only when it is the recorded one.
add(g, b) ==
  \/ ~may_vote(g, b) /\ UNCHANGED <<candidates, final_vote>>
  \/ may_vote(g, b) /\ g = "normal" /\ push(g, b) /\ UNCHANGED final_vote
  \/ may_vote(g, b) /\ g = "final" /\ push(g, b) /\ put(b)
  \/ may_vote(g, b) /\ g = "final" /\ recorded(b) \notin {None, b} /\ UNCHANGED <<candidates, final_vote>>

\* The loop of broadcast and of reply: fill one vote message from the queue.
\* A root occurs once in a message, and what is cached is not voted again.
fill(g, queue) ==
  FoldLeft(LAMBDA t, b :
             IF Len(t.hashes) = confirm_ack_hashes_max THEN t
             ELSE [rest |-> Tail(t.rest),
                   hashes |-> IF /\ cached(g, b) = {}
                                 /\ \A i \in DOMAIN t.hashes : root(t.hashes[i]) # root(b)
                                 /\ votable(g, b)
                                THEN Append(t.hashes, b) ELSE t.hashes],
           [rest |-> queue, hashes |-> <<>>], queue)

\* vote(): all the votes are signed before the first is stored.
signed(g, hashes) ==
  IF hashes = <<>> THEN <<>>
  ELSE [i \in 1..Cardinality(Representative) |->
          [account |-> SetToSeq(Representative)[i], timestamp |-> IF g = "final" THEN timestamp_max ELSE now]]

\* Mutant: the timed wait of run() does not lead to a broadcast.
broadcast_full(g) ==
  /\ thread[g].at = "run"
  /\ Len(candidates[g]) >= confirm_ack_hashes_max
  /\ LET t == fill(g, candidates[g])
     IN /\ candidates' = [candidates EXCEPT ![g] = t.rest]
        /\ thread' = [thread EXCEPT ![g] = [at |-> "broadcast", rest |-> <<>>,
                                            hashes |-> t.hashes, votes |-> signed(g, t.hashes)]]
  /\ UNCHANGED <<ledger_vars, election_vars, aggregator_vars, final_vote, now, calls, restarts,
                 history, recent, requests, final_cast, voted>>

\* run() broadcasts a full message at once, and fewer candidates when no
\* request is queued and its wait for vote_generator_delay is over.
broadcast(g) ==
  /\ thread[g].at = "run"
  /\ \/ Len(candidates[g]) >= confirm_ack_hashes_max
     \/ candidates[g] # <<>> /\ requests[g] = <<>>
  /\ LET t == fill(g, candidates[g])
     IN /\ candidates' = [candidates EXCEPT ![g] = t.rest]
        /\ thread' = [thread EXCEPT ![g] = [at |-> "broadcast", rest |-> <<>>,
                                            hashes |-> t.hashes, votes |-> signed(g, t.hashes)]]
  /\ UNCHANGED <<ledger_vars, election_vars, aggregator_vars, final_vote, now, calls, restarts,
                 history, recent, requests, final_cast, voted>>

\* run() takes the oldest request while the candidates do not fill a message.
reply(g) ==
  /\ thread[g].at = "run"
  /\ Len(candidates[g]) < confirm_ack_hashes_max /\ requests[g] # <<>>
  /\ requests' = [requests EXCEPT ![g] = Tail(@)]
  /\ thread' = [thread EXCEPT ![g] = [Idle EXCEPT !.at = "reply", !.rest = Head(requests[g])]]
  /\ UNCHANGED <<ledger_vars, election_vars, aggregator_vars, final_vote, now, calls, restarts,
                 history, recent, candidates, final_cast, voted>>

\* One round of reply's outer loop, up to its call of vote().
reply_fill(g) ==
  /\ thread[g].at = "reply" /\ thread[g].votes = <<>> /\ thread[g].rest # <<>>
  /\ LET t == fill(g, thread[g].rest)
     IN thread' = [thread EXCEPT ![g] = [at |-> "reply", rest |-> t.rest, hashes |-> t.hashes,
                                         votes |-> signed(g, t.hashes)]]
  /\ UNCHANGED <<ledger_vars, election_vars, aggregator_vars, final_vote, now, calls, restarts,
                 history, recent, candidates, requests, final_cast, voted>>

\* vote(): store, space and send the vote of one representative. The mutex is
\* not held, so the other generator and the elections run in between.
vote(g) ==
  /\ thread[g].votes # <<>>
  /\ LET v == Head(thread[g].votes)
         hashes == thread[g].hashes
         of(r) == {b \in ToSet(hashes) : root(b) = r}
     IN /\ history' = FoldLeft(LAMBDA h, b : history_add(h, b, v), history, hashes)
        /\ recent' = [recent EXCEPT ![g] = [r \in Root |->
                        IF of(r) = {} THEN trim(@[r]) ELSE flag(@[r], CHOOSE b \in of(r) : TRUE)]]
        /\ voted' = [voted EXCEPT ![g] = [r \in Root |->
                        IF of(r) = {} THEN @[r] ELSE [hash |-> CHOOSE b \in of(r) : TRUE, time |-> now]]]
        /\ final_cast' = IF g = "normal" THEN final_cast
                         ELSE final_cast \cup {[hash |-> b, via |-> thread[g].at] : b \in ToSet(hashes)}
        /\ thread' = [thread EXCEPT ![g].votes = Tail(@),
                                    ![g].hashes = IF Len(thread[g].votes) = 1 THEN <<>> ELSE @]
  /\ UNCHANGED <<ledger_vars, election_vars, aggregator_vars, final_vote, now, calls, restarts, candidates, requests>>

\* broadcast or reply returns to the loop of run().
return(g) ==
  /\ thread[g].at # "run" /\ thread[g].votes = <<>> /\ thread[g].rest = <<>>
  /\ thread' = [thread EXCEPT ![g] = Idle]
  /\ UNCHANGED <<ledger_vars, election_vars, aggregator_vars, final_vote, now, calls, restarts,
                 history, recent, candidates, requests, final_cast, voted>>

\* generate(): keep the blocks whose dependencies are confirmed, queue them as
\* one request, and drop the oldest request of a queue that is too long.
generate(queue, blocks) ==
  LET longer == Append(queue, SelectSeq(blocks, LAMBDA b : b \in ready))
  IN IF Len(longer) > max_requests THEN Tail(longer) ELSE longer

-----------------------------------------------------------------------------
(* request_aggregator *)

\* A confirm_req for one hash: rejected when the pool is full, or when the
\* oldest pool is far past its deadline.
aggregator_add(b) ==
  /\ calls < MaxCalls
  /\ calls' = calls + 1
  /\ \/ /\ Len(pool) + 1 <= max_channel_requests
        /\ pool' = <<b>> \o pool
     \/ /\ pool # <<>>
        /\ UNCHANGED pool
  /\ UNCHANGED <<restarts, ledger_vars, election_vars, generator_vars, remaining, final_vote, now>>

\* What aggregate does for one hash that has no cached vote: which block it
\* votes for, in the order final vote table, election winner, ledger by hash,
\* ledger by root; and whether the vote is final.
from_table(b) == recorded(b) # None /\ ledger[root(b)] = recorded(b)
from_election(b) == b \in election[root(b)].blocks


\* The flag `final` set because the table has the root survives when the
\* recorded block has left the ledger and the election's winner is taken.
answer(b) ==
  CASE from_table(b) -> [block |-> recorded(b), final |-> TRUE, generate |-> TRUE]
    [] ~from_table(b) /\ from_election(b) ->
         [block |-> election[root(b)].winner, final |-> recorded(b) # None, generate |-> TRUE]
    [] OTHER ->
         [block |-> ledger[root(b)], final |-> root(b) \in confirmed,
          generate |-> ledger[root(b)] \in {None, b} \/ votes(ledger[root(b)], FALSE) = {}]

\* One turn of run(): take the pool, drop the duplicates, answer from the
\* caches, and keep what the generators have to vote on.
aggregate ==
  /\ pool # <<>> /\ remaining = {}
  /\ pool' = <<>>
  /\ LET open == {b \in ToSet(pool) : votes(b, FALSE) = {}}
         generated == {a \in {answer(b) : b \in open} : a.block # None /\ a.generate}
     IN remaining' = {<<g, SetToSeq({a.block : a \in {x \in generated : x.final = (g = "final")}})>> :
                        g \in {IF a.final THEN "final" ELSE "normal" : a \in generated}}
  /\ UNCHANGED <<ledger_vars, election_vars, generator_vars, final_vote, now, calls, restarts>>

\* run() hands the blocks over, to the normal generator first.
aggregator_generate(g) ==
  \E job \in remaining :
    /\ job[1] = g /\ (g = "final" => \A other \in remaining : other[1] = "final")
    /\ remaining' = remaining \ {job}
    /\ requests' = [requests EXCEPT ![g] = generate(@, job[2])]
    /\ UNCHANGED <<ledger_vars, election_vars, pool, final_vote, now, calls, restarts,
                   history, recent, candidates, thread, final_cast, voted>>

-----------------------------------------------------------------------------
(* The environment: block processor, elections, cementing, the clock *)

\* An election starts for the ledger's block.
start_election(r) ==
  /\ election[r] = NoElection /\ ledger[r] # None /\ r \notin confirmed
  /\ election' = [election EXCEPT ![r] = [blocks |-> {ledger[r]}, winner |-> ledger[r]]]
  /\ UNCHANGED <<ledger_vars, quorum, generator_vars, aggregator_vars, final_vote, now, calls, restarts>>

\* A fork enters the election and wins: election::confirm_if_quorum, whose
\* remove_votes erases the root from the history.
change_winner(b) ==
  LET r == root(b)
  IN /\ election[r] # NoElection /\ election[r].winner # b /\ r \notin confirmed
     /\ election' = [election EXCEPT ![r] = [blocks |-> @.blocks \cup {b}, winner |-> b]]
     /\ history' = history_erase(r)
     /\ UNCHANGED <<ledger_vars, quorum, recent, candidates, requests, thread, final_cast, voted,
                    aggregator_vars, final_vote, now, calls, restarts>>

\* The block processor replaces the ledger's block by the forced winner: the
\* rollback erases the root from the history.
force(r) ==
  /\ election[r] # NoElection /\ ledger[r] # election[r].winner /\ r \notin confirmed
  /\ ledger' = [ledger EXCEPT ![r] = election[r].winner]
  /\ rolled' = IF final_vote[r] = ledger[r] THEN rolled \cup {r} ELSE rolled
  /\ history' = history_erase(r)
  /\ UNCHANGED <<confirmed, ready, election_vars, recent, candidates, requests, thread, final_cast, voted,
                 aggregator_vars, final_vote, now, calls, restarts>>

\* The network's final votes cement the winner; the election may linger.
cement(r) ==
  /\ election[r] # NoElection /\ ledger[r] = election[r].winner
  /\ ledger[r] \in ready /\ r \notin confirmed
  /\ confirmed' = confirmed \cup {r}
  /\ election' \in {election, [election EXCEPT ![r] = NoElection]}
  /\ UNCHANGED <<ledger, ready, rolled, quorum, generator_vars, aggregator_vars, final_vote, now, calls, restarts>>

\* election::generate_votes and broadcast_vote without a quorum.
generate_vote(r) ==
  /\ election[r] # NoElection /\ calls < MaxCalls
  /\ calls' = calls + 1
  /\ add("normal", election[r].winner)
  /\ UNCHANGED <<restarts, ledger_vars, election, quorum, aggregator_vars, now,
                 history, recent, requests, thread, final_cast, voted>>

\* With a quorum the winner's hash is read and the mutex released ...
reach_quorum(r) ==
  /\ election[r] # NoElection /\ quorum[r] = None /\ calls < MaxCalls
  /\ calls' = calls + 1
  /\ quorum' = [quorum EXCEPT ![r] = election[r].winner]
  /\ UNCHANGED <<restarts, ledger_vars, election, generator_vars, aggregator_vars, final_vote, now>>

\* ... before final_generator.add is called with that hash.
generate_final_vote(r) ==
  /\ quorum[r] # None
  /\ quorum' = [quorum EXCEPT ![r] = None]
  /\ add("final", quorum[r])
  /\ UNCHANGED <<ledger_vars, election, aggregator_vars, now, calls, restarts,
                 history, recent, requests, thread, final_cast, voted>>

\* Only the distance from an earlier vote matters, so the clock starts with it.
tick ==
  /\ now < MaxTime /\ \E g \in Generator, r \in Root : voted[g][r] # None
  /\ now' = now + 1
  /\ UNCHANGED <<ledger_vars, election_vars, generator_vars, aggregator_vars, final_vote, calls, restarts>>

NoneOf(S) == [x \in S |-> None]
Queues == [g \in Generator |-> <<>>]

\* A crash or a restart: the tables stay, everything in memory is lost.
restart ==
  /\ restarts < MaxRestarts
  /\ restarts' = restarts + 1
  /\ election' = [r \in Root |-> NoElection] /\ quorum' = NoneOf(Root)
  /\ history' = <<>> /\ candidates' = Queues /\ requests' = Queues
  /\ recent' = [g \in Generator |-> NoneOf(Root)] /\ voted' = [g \in Generator |-> NoneOf(Root)]
  /\ thread' = [g \in Generator |-> Idle]
  /\ pool' = <<>> /\ remaining' = {}
  /\ UNCHANGED <<ledger_vars, final_cast, final_vote, now, calls>>

-----------------------------------------------------------------------------
Init ==
  /\ ledger \in {NoneOf(Root), first} /\ confirmed = {} /\ ready \in {{first[r] : r \in Root}, Block} /\ rolled = {}
  /\ election = [r \in Root |-> NoElection] /\ quorum = NoneOf(Root)
  /\ final_vote = NoneOf(Root)
  /\ history = <<>> /\ candidates = Queues /\ requests = Queues
  /\ recent = [g \in Generator |-> NoneOf(Root)] /\ voted = [g \in Generator |-> NoneOf(Root)]
  /\ thread = [g \in Generator |-> Idle]
  /\ pool = <<>> /\ remaining = {}
  /\ now = 0 /\ calls = 0 /\ restarts = 0
  /\ final_cast = {}

generator_run(g) == broadcast(g) \/ reply(g) \/ reply_fill(g) \/ vote(g) \/ return(g)

Elections ==
  \E r \in Root : \/ start_election(r) \/ force(r) \/ cement(r)
                  \/ generate_vote(r) \/ reach_quorum(r) \/ generate_final_vote(r)

Next ==
  \/ \E g \in Generator : generator_run(g) \/ aggregator_generate(g)
  \/ aggregate
  \/ \E b \in Block : aggregator_add(b) \/ change_winner(b)
  \/ Elections
  \/ tick
  \/ restart

Spec ==
  /\ Init /\ [][Next]_vars
  /\ WF_vars(aggregate)
  /\ \A g \in Generator : WF_vars(generator_run(g)) /\ WF_vars(aggregator_generate(g))

-----------------------------------------------------------------------------
Entry == [hash : Block, time : 0..MaxTime] \cup {None}
Vote == [account : Representative, timestamp : 0..timestamp_max]

\* The types, and what the containers may hold: clean() runs before an entry
\* is added, so the history has at most max_cache + 1 entries; a generator has
\* at most max_requests replies queued (voting.cpp:102, :247).
TypeOK ==
  /\ ledger \in [Root -> Block \cup {None}] /\ final_vote \in [Root -> Block \cup {None}]
  /\ confirmed \subseteq Root /\ ready \subseteq Block /\ rolled \subseteq Root
  /\ quorum \in [Root -> Block \cup {None}]
  /\ \A r \in Root : election[r].blocks \subseteq Block /\ election[r].winner \in election[r].blocks \cup {None}
  /\ Len(history) <= max_cache + 1
  /\ \A e \in ToSet(history) : e.hash \in Block /\ e.vote \in Vote
  /\ recent \in [Generator -> [Root -> Entry]] /\ voted \in [Generator -> [Root -> Entry]]
  /\ \A g \in Generator : /\ ToSet(candidates[g]) \subseteq Block
                          /\ Len(requests[g]) <= max_requests
                          /\ Len(thread[g].hashes) <= confirm_ack_hashes_max
  /\ Len(pool) <= max_channel_requests

\* A final vote that is made to be broadcast is for the hash recorded in the
\* final_votes table, in whichever life of the node it was recorded: the table
\* is written before the candidate is queued, so neither a stale winner, nor a
\* rollback, nor a restart lets the node broadcast a second one
\* (vote_generator::add).
BroadcastRecorded ==
  \A c \in final_cast : c.via = "broadcast" => final_vote[root(c.hash)] = c.hash


\* Two votes a generator makes for different blocks of a root are at least
\* `delay` apart, although spacing is checked before the vote is signed and
\* recorded after it, cached votes are evicted, and the entry of a root keeps
\* its hash (vote_spacing::votable, flag).
VotesSpaced ==
  [][\A g \in Generator, r \in Root :
       LET old == voted[g][r]
           new == voted'[g][r]
       IN new \notin {old, None} /\ old # None /\ new.hash # old.hash
            => new.time - old.time >= delay]_vars

\* The candidates of a generator are taken up even when they never fill a
\* message, once the requests stop coming (vote_generator::run).
CandidatesTaken ==
  \A g \in Generator : candidates[g] # <<>> ~> candidates[g] = <<>>

=============================================================================
