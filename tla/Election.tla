------------------------------ MODULE Election ------------------------------
(***************************************************************************)
(* One election (node/election.cpp): the votes of the representatives on   *)
(* the competing blocks of one root, the tally, the change of the winner   *)
(* and its confirmation.  Its methods run under the election's mutex, but  *)
(* confirm_if_quorum lets the mutex go to queue the node's final vote and  *)
(* replace_by_weight to choose a block to drop; both go on with what they  *)
(* read before.  Three threads call the election: the vote processor, the  *)
(* block processor (competing blocks) and the election scheduler (which    *)
(* starts it and asks for votes); the request loop lets it expire and the  *)
(* confirmation height processor announces that the winner is cemented.    *)
(*                                                                         *)
(* Weights and the online weight stay as they are during the election.     *)
(***************************************************************************)
EXTENDS Integers, Sequences, FiniteSets, FiniteSetsExt

CONSTANTS
    Block,      \* the hashes of the competing blocks, ordered as numbers
    Initial,    \* the block the election starts with
    Rep,        \* representatives above the minimum principal weight
    LocalRep,   \* those the node votes with
    weight,     \* [Rep -> Nat]
    Delta,      \* online_reps.delta ()
    Timestamps, \* timestamps of votes that are not final
    Final,      \* the timestamp of final votes, the largest
    max_blocks,
    canary,     \* final_votes_confirmation_canary
    full_blocks,    \* votes may carry whole blocks, not only their hashes
    drops,      \* the instance lets elections expire and be dropped
    Null,       \* account 0, which casts the election's own first vote
    None

ASSUME ElectionAssumption ==
    /\ Block \subseteq Nat /\ Initial \in Block
    /\ LocalRep \subseteq Rep /\ Null \notin Rep
    /\ weight \in [Rep -> Nat \ {0}]
    /\ Delta \in Nat \ {0}
    /\ Timestamps \subseteq Nat \ {0} /\ Final \in Nat
    /\ \A ts \in Timestamps : ts < Final
    /\ max_blocks \in Nat \ {0}
    /\ canary \in BOOLEAN /\ full_blocks \in BOOLEAN /\ drops \in BOOLEAN
    /\ None \notin Block

VARIABLES
    state_m,
    last_votes,     \* [Rep and Null -> vote_info or None]
    last_blocks,
    winner,         \* status.winner
    final_weight,
    last_tally,     \* the weights of the last tally, a function on the hashes voted for
    is_quorum,
    active,         \* active_transactions has the election in roots
    active_blocks,  \* the hashes active_transactions finds the election by
    pc,             \* where each thread is
    voting_for,     \* the hash the vote processor found the election by
    replacing,      \* what the block processor holds on to in publish
    processed,      \* the blocks handed to process_confirmed, in order
    election_winner_details,    \* the winners waiting for the cemented callback
    queued,         \* the hashes handed to the two vote generators
    final_vote,     \* the final_votes entry of the root
    history,        \* the hashes the node's own votes are remembered for
    cast,           \* the votes of the node's own representatives
    forced,         \* the winners handed to block_processor.force
    tally_empty     \* a tally without an entry was read

electionVars == <<state_m, last_votes, last_blocks, winner, final_weight, last_tally,
                  is_quorum>>
localVars == <<voting_for, replacing>>
confirmVars == <<processed, election_winner_details, forced, tally_empty>>
ownVars == <<queued, final_vote, history, cast>>
activeVars == <<active, active_blocks>>
vars == <<electionVars, activeVars, pc, localVars, confirmVars, ownVars>>

Timestamp == Timestamps \cup {Final}
Voter == Rep \cup {Null}
VoteInfo == [timestamp : Timestamp \cup {0}, hash : Block]
Thread == {"vote_processing", "block_processing", "scheduler"}
\* ongoing: passive, or active, when the loop also asks for confirmations
State == {"ongoing", "confirmed", "expired_confirmed", "expired_unconfirmed"}

\* A thread is outside the election, between the unlock and the lock of
\* confirm_if_quorum, before or after the choice of replace_by_weight, between
\* the insertion of a block, its announcement in active_transactions and that
\* of its cached votes, about to ask for votes, or has found the election by a
\* hash it is about to vote for.
Location == {"outside", "final_add", "replace", "replaced", "emplace", "cache", "generate",
             "vote"}

TypeOK ==
    /\ state_m \in State
    /\ last_votes \in [Voter -> VoteInfo \cup {None}]
    /\ last_blocks \subseteq Block
    /\ winner \in Block
    /\ final_weight \in Nat
    /\ DOMAIN last_tally \subseteq Block /\ \A b \in DOMAIN last_tally : last_tally[b] \in Nat
    /\ is_quorum \in BOOLEAN
    /\ active \in BOOLEAN /\ active_blocks \subseteq Block
    /\ pc \in [Thread -> Location]
    /\ voting_for \in Block \cup {None}
    /\ \/ replacing = None
       \/ /\ replacing.block \in Block /\ replacing.winner \in Block
          /\ DOMAIN replacing.sorted \subseteq Block
          /\ replacing.replaced \in Block \cup {None}
    /\ processed \in Seq(Block)
    /\ election_winner_details \subseteq Block
    /\ queued \subseteq [hash : Block, final : BOOLEAN]
    /\ final_vote \in Block \cup {None}
    /\ history \subseteq Block
    /\ cast \subseteq [timestamp : Timestamp, hash : Block]
    /\ forced \subseteq Block
    /\ tally_empty \in BOOLEAN

-----------------------------------------------------------------------------
(* The tally                                                               *)

weight_of(voter) == IF voter = Null THEN 0 ELSE weight[voter]

voters(votes, hash) == {v \in Voter : votes[v] # None /\ votes[v].hash = hash}

block_weights(votes) ==
    [hash \in {votes[v].hash : v \in {u \in Voter : votes[u] # None}} |->
        MapThenSumSet(weight_of, voters(votes, hash))]

final_voters(votes, hash) == {v \in voters(votes, hash) : votes[v].timestamp = Final}

final_weights(votes, hash) == MapThenSumSet(weight_of, final_voters(votes, hash))

\* The blocks of the election that somebody voted for
tallied(votes, blocks) == DOMAIN block_weights(votes) \cap blocks

\* tally_t maps an amount to one block: blocks of equal weight share an entry.
amounts(votes, blocks) == {block_weights(votes)[b] : b \in tallied(votes, blocks)}

\* The blocks the first entry of the tally may name
leaders(votes, blocks) ==
    {b \in tallied(votes, blocks) : block_weights(votes)[b] = Max(amounts(votes, blocks))}

margin(votes, blocks) ==
    LET first == Max(amounts(votes, blocks))
        lower == amounts(votes, blocks) \ {first}
    IN  first - (IF lower = {} THEN 0 ELSE Max(lower))

have_quorum(votes, blocks) == margin(votes, blocks) >= Delta

\* The sum of final votes is taken over for a leader that has any.
new_final_weight(votes, leader) ==
    IF final_voters(votes, leader) # {} THEN final_weights(votes, leader) ELSE final_weight

confirmed == state_m \in {"confirmed", "expired_confirmed"}
voting == LocalRep # {}

Init ==
    /\ state_m = "ongoing"
    /\ last_votes = [v \in Voter |-> IF v = Null THEN [timestamp |-> 0, hash |-> Initial] ELSE None]
    /\ last_blocks = {Initial}
    /\ winner = Initial
    /\ final_weight = 0
    /\ last_tally = << >>
    /\ is_quorum = FALSE
    /\ active = TRUE /\ active_blocks = {Initial}
    /\ pc = [t \in Thread |-> IF t = "scheduler" THEN "cache" ELSE "outside"]
    /\ voting_for = None
    /\ replacing = None
    /\ processed = << >>
    /\ election_winner_details = {}
    /\ queued = IF voting THEN {[hash |-> Initial, final |-> FALSE]} ELSE {}
    /\ final_vote = None
    /\ history = {}
    /\ cast = {}
    /\ forced = {}
    /\ tally_empty = FALSE

goto(thread, location) == pc' = [pc EXCEPT ![thread] = location]

\* insert_impl asks for votes once the cached votes are in
leave(thread) == goto(thread, IF thread = "scheduler" /\ voting THEN "generate" ELSE "outside")

-----------------------------------------------------------------------------
(* Confirmation                                                            *)

\* Mutant: the status handed over was copied when the election began.
confirm_once_stale(hash) ==
    /\ state_m' = "confirmed"
    /\ IF state_m # "confirmed" /\ hash \notin election_winner_details
         THEN /\ election_winner_details' = election_winner_details \cup {hash}
              /\ processed' = Append(processed, Initial)
         ELSE UNCHANGED <<election_winner_details, processed>>

\* The state becomes confirmed whatever it was; the block is processed only
\* the first time, and only if no election waits for the same block.
confirm_once(hash) ==
    /\ state_m' = "confirmed"
    /\ IF state_m # "confirmed" /\ hash \notin election_winner_details
         THEN /\ election_winner_details' = election_winner_details \cup {hash}
              /\ processed' = Append(processed, hash)
         ELSE UNCHANGED <<election_winner_details, processed>>

not_confirmed == UNCHANGED <<state_m, election_winner_details, processed>>

\* The votes the node cast for a block are taken back.
remove_votes(votes, hash) ==
    [v \in Voter |-> IF v \in LocalRep /\ hash \in history THEN None ELSE votes[v]]

\* final_vote.put accepts one hash for a root.
may_cast_final(hash) == final_vote \in {None, hash}

\* final_generator.add: the vote is refused also if the ledger does not have the
\* block or its dependencies are not confirmed.
final_add(hash) ==
    \/ /\ may_cast_final(hash)
       /\ final_vote' = hash
       /\ queued' = queued \cup {[hash |-> hash, final |-> TRUE]}
    \/ UNCHANGED <<final_vote, queued>>

\* Mutant: a quorum of any votes is enough.
confirm_if_final_any(weight_a, hash) == confirm_once(hash)

\* The rest of confirm_if_quorum, once the final vote is queued
confirm_if_final(weight_a, hash) ==
    IF ~canary \/ weight_a >= Delta THEN confirm_once(hash) ELSE not_confirmed

\* With the given votes and blocks: take the tally, let its leader win if
\* enough weight has voted, and confirm the winner if its margin over the
\* second is a quorum.  The first time, the mutex is let go for a final vote.
confirm_if_quorum(thread, votes, blocks) ==
    \E leader \in leaders(votes, blocks) :
        LET weight_l == new_final_weight(votes, leader)
            change   == SumSet(amounts(votes, blocks)) >= Delta /\ leader # winner
        IN  /\ final_weight' = weight_l
            /\ last_tally' = block_weights(votes)
            /\ winner' = IF change THEN leader ELSE winner
            /\ forced' = IF change THEN forced \cup {leader} ELSE forced
            /\ last_votes' = IF change THEN remove_votes(votes, winner) ELSE votes
            /\ history' = IF change /\ voting THEN {} ELSE history
            /\ IF have_quorum(votes, blocks)
                 THEN /\ is_quorum' = (is_quorum \/ canary)
                      /\ IF canary /\ ~is_quorum /\ voting
                           THEN /\ final_add(winner')
                                /\ goto(thread, "final_add")
                                /\ not_confirmed
                           ELSE /\ leave(thread)
                                /\ confirm_if_final(weight_l, winner')
                                /\ UNCHANGED <<queued, final_vote>>
                 ELSE /\ leave(thread)
                      /\ not_confirmed
                      /\ UNCHANGED <<is_quorum, queued, final_vote>>
            /\ UNCHANGED <<cast, tally_empty>>

\* begin () of an empty tally is read
confirm_if_tally_empty(thread, votes, blocks) ==
    /\ tallied(votes, blocks) = {}
    /\ tally_empty' = TRUE
    /\ last_votes' = votes
    /\ leave(thread)
    /\ UNCHANGED <<state_m, winner, final_weight, last_tally, is_quorum,
                   processed, election_winner_details, forced, ownVars>>

\* No confirmation is tried.
only_votes(thread, votes) ==
    /\ last_votes' = votes
    /\ leave(thread)
    /\ UNCHANGED <<state_m, winner, final_weight, last_tally, is_quorum,
                   confirmVars, ownVars>>

\* Mutant: also a confirmed election is tallied.
check_always(thread, votes, blocks) ==
    confirm_if_quorum(thread, votes, blocks) \/ confirm_if_tally_empty(thread, votes, blocks)

\* An election that is not confirmed yet takes the tally of its new votes.
check(thread, votes, blocks) ==
    IF confirmed THEN only_votes(thread, votes)
    ELSE confirm_if_quorum(thread, votes, blocks) \/ confirm_if_tally_empty(thread, votes, blocks)

\* The mutex is taken again: the tally and the margin are those of before, the
\* final weight and the winner those of now.
confirm_resume(thread) ==
    /\ pc[thread] = "final_add"
    /\ confirm_if_final(final_weight, winner)
    /\ leave(thread)
    /\ UNCHANGED <<last_votes, last_blocks, winner, final_weight, last_tally, is_quorum,
                   activeVars, localVars, forced, tally_empty, ownVars>>

-----------------------------------------------------------------------------
(* The vote processor                                                      *)

\* A later vote replaces an earlier one, at the same time the larger hash does
supersedes(last, timestamp, hash) ==
    \/ last.timestamp < timestamp
    \/ last.timestamp = timestamp /\ last.hash < hash

should_process(last, timestamp, hash, past_cooldown) ==
    \/ last = None
    \/ /\ supersedes(last, timestamp, hash)
       /\ past_cooldown \/ (timestamp = Final /\ last.timestamp < timestamp)

\* active_transactions finds the election by the hash, or by the root of a
\* whole block, under its own mutex.
find(hash) ==
    /\ pc["vote_processing"] = "outside"
    /\ (full_blocks /\ active) \/ hash \in active_blocks
    /\ voting_for' = hash
    /\ goto("vote_processing", "vote")
    /\ UNCHANGED <<electionVars, activeVars, replacing, confirmVars, ownVars>>

\* The election takes the vote; the node's own votes are those it has cast.
vote(rep, timestamp) ==
    /\ pc["vote_processing"] = "vote"
    /\ rep \in LocalRep => [timestamp |-> timestamp, hash |-> voting_for] \in cast
    /\ \E past_cooldown \in BOOLEAN :
          IF should_process(last_votes[rep], timestamp, voting_for, past_cooldown)
            THEN check("vote_processing",
                       [last_votes EXCEPT ![rep] = [timestamp |-> timestamp, hash |-> voting_for]],
                       last_blocks)
            ELSE only_votes("vote_processing", last_votes)
    /\ voting_for' = None
    /\ UNCHANGED <<last_blocks, activeVars, replacing>>

-----------------------------------------------------------------------------
(* The block processor                                                     *)

\* A competing block is inserted if there is room for it.
publish(block) ==
    /\ active
    /\ pc["block_processing"] = "outside"
    /\ ~confirmed
    /\ block \notin last_blocks
    /\ IF Cardinality(last_blocks) >= max_blocks
         THEN /\ goto("block_processing", "replace")
              /\ UNCHANGED last_blocks
         ELSE /\ goto("block_processing", "emplace")
              /\ last_blocks' = last_blocks \cup {block}
    /\ replacing' = [block |-> block, sorted |-> last_tally, winner |-> winner, replaced |-> None]
    /\ UNCHANGED <<state_m, last_votes, winner, final_weight, last_tally, is_quorum,
                   activeVars, voting_for, confirmVars, ownVars>>

\* The entries of the copied tally, the lowest first
lowest(sorted) == {b \in DOMAIN sorted : \A c \in DOMAIN sorted : sorted[b] <= sorted[c]}

\* The blocks that a block with the given weight of cached votes may replace
replaceable(inactive_tally) ==
    LET sorted == replacing.sorted
        untallied == (last_blocks \ DOMAIN sorted) \ {replacing.winner}
        beaten(b) == inactive_tally > sorted[b]
    IN  IF inactive_tally = 0 THEN {}
        ELSE IF Cardinality(DOMAIN sorted) < max_blocks THEN untallied
        ELSE {b \in DOMAIN sorted \ {replacing.winner} :
                \/ b \in lowest(sorted) /\ beaten(b)
                \/ /\ replacing.winner \in lowest(sorted) /\ beaten(replacing.winner)
                   /\ b \in lowest([c \in DOMAIN sorted \ {replacing.winner} |-> sorted[c]])
                   /\ beaten(b)}

\* Without the mutex: the block to replace is chosen by the copied tally, and
\* active_transactions forgets it.
replace_by_weight ==
    /\ pc["block_processing"] = "replace"
    /\ \E inactive_tally \in 0..MapThenSumSet(weight_of, Rep) :
          LET choice == replaceable(inactive_tally)
          IN  \/ /\ choice = {}
                 /\ goto("block_processing", "outside")
                 /\ replacing' = None
                 /\ UNCHANGED active_blocks
              \/ /\ goto("block_processing", "replaced")
                 /\ \E b \in choice : /\ replacing' = [replacing EXCEPT !.replaced = b]
                                      /\ active_blocks' = active_blocks \ {b}
    /\ UNCHANGED <<electionVars, active, voting_for, confirmVars, ownVars>>

\* Mutant: the winner of before is spared.
removable_stale(hash) == hash # replacing.winner /\ hash \in last_blocks

removable(hash) == hash # winner /\ hash \in last_blocks

\* remove_block, unless the block has won meanwhile, and the insertion
replace_finish ==
    /\ pc["block_processing"] = "replaced"
    /\ LET removed == replacing.replaced
           removes == removable(removed)
       IN  /\ last_votes' = IF removes
                            THEN [v \in Voter |-> IF v \in voters(last_votes, removed) THEN None
                                                  ELSE last_votes[v]]
                            ELSE last_votes
           /\ last_blocks' = (IF removes THEN last_blocks \ {removed} ELSE last_blocks)
                               \cup {replacing.block}
    /\ goto("block_processing", "emplace")
    /\ UNCHANGED <<state_m, winner, final_weight, last_tally, is_quorum,
                   activeVars, localVars, confirmVars, ownVars>>


\* active_transactions learns the hash of the inserted block.
emplace ==
    /\ pc["block_processing"] = "emplace"
    /\ active_blocks' = active_blocks \cup {replacing.block}
    /\ goto("block_processing", "cache")
    /\ UNCHANGED <<electionVars, active, localVars, confirmVars, ownVars>>

\* The votes that arrived before the block are inserted where the voter has
\* none yet; a vote of the node itself is not among them.
insert_inactive_votes_cache(thread) ==
    /\ pc[thread] = "cache"
    /\ LET hash == IF thread = "scheduler" THEN Initial ELSE replacing.block
       IN  \E cached \in [Rep \ LocalRep -> Timestamp \cup {0}] :
             LET votes == [v \in Voter |-> IF /\ last_votes[v] = None /\ v \in DOMAIN cached
                                              /\ cached[v] # 0
                                           THEN [timestamp |-> cached[v], hash |-> hash]
                                           ELSE last_votes[v]]
             IN  IF Cardinality({v \in Voter : votes[v] # None}) > 1
                   THEN check(thread, votes, last_blocks)
                   ELSE only_votes(thread, votes)
    /\ replacing' = IF thread = "scheduler" THEN replacing ELSE None
    /\ UNCHANGED <<last_blocks, activeVars, voting_for>>

-----------------------------------------------------------------------------
(* Votes of the node itself                                                *)

\* The root is new or met again: a vote for the winner is queued, final if the
\* election is confirmed or the tally shows a quorum.
generate_votes ==
    /\ pc["scheduler"] = "generate" \/ (pc["scheduler"] = "outside" /\ active)
    /\ voting
    /\ goto("scheduler", "outside")
    /\ IF confirmed
         THEN final_add(winner) /\ UNCHANGED <<final_weight, last_tally, tally_empty>>
         ELSE IF tallied(last_votes, last_blocks) = {}
         THEN tally_empty' = TRUE /\ UNCHANGED <<final_weight, last_tally, queued, final_vote>>
         ELSE /\ \E leader \in leaders(last_votes, last_blocks) :
                    final_weight' = new_final_weight(last_votes, leader)
              /\ last_tally' = block_weights(last_votes)
              /\ IF have_quorum(last_votes, last_blocks)
                   THEN final_add(winner)
                   ELSE /\ queued' = queued \cup {[hash |-> winner, final |-> FALSE]}
                        /\ UNCHANGED final_vote
              /\ UNCHANGED tally_empty
    /\ UNCHANGED <<state_m, last_votes, last_blocks, winner, is_quorum,
                   activeVars, localVars, processed, election_winner_details, forced,
                   history, cast>>

\* A vote generator takes a candidate, votes for it and remembers the vote.
broadcast ==
    /\ \E request \in queued, ts \in Timestamp :
         /\ request.final <=> ts = Final
         /\ queued' = queued \ {request}
         /\ cast' = cast \cup {[timestamp |-> ts, hash |-> request.hash]}
         /\ history' = history \cup {request.hash}
    /\ UNCHANGED <<electionVars, activeVars, pc, localVars, confirmVars, final_vote>>

-----------------------------------------------------------------------------
(* The request loop and the confirmation height processor                  *)

\* The changes of state that state_change makes
valid_change == {<<"ongoing", "confirmed">>, <<"ongoing", "expired_unconfirmed">>,
                 <<"confirmed", "expired_confirmed">>}

\* An election whose time is over is marked expired.
transition_time ==
    /\ drops /\ active
    /\ state_m' \in {"expired_confirmed", "expired_unconfirmed"}
    /\ <<state_m, state_m'>> \in valid_change
    /\ UNCHANGED <<last_votes, last_blocks, winner, final_weight, last_tally, is_quorum,
                   activeVars, pc, localVars, confirmVars, ownVars>>

\* active_transactions drops the election: an expired one, the oldest when there
\* are too many, or one whose block was rolled back.  A thread that has found
\* the election still goes on with it.
cleanup_election ==
    /\ drops /\ active
    /\ active' = FALSE
    /\ active_blocks' = active_blocks \ last_blocks
    /\ UNCHANGED <<electionVars, pc, localVars, confirmVars, ownVars>>

\* The cemented callback, or process_confirmed after its last attempt, removes
\* the details of a block that was handed to it.
remove_election_winner_details(hash) ==
    /\ hash \in election_winner_details
    /\ election_winner_details' = election_winner_details \ {hash}
    /\ UNCHANGED <<electionVars, activeVars, pc, localVars, processed, forced,
                   tally_empty, ownVars>>

\* The winner is cemented as a dependency of another block.
confirm_block(hash) ==
    /\ hash \in active_blocks /\ winner = hash /\ ~confirmed
    /\ confirm_once(hash)
    /\ UNCHANGED <<last_votes, last_blocks, winner, final_weight, last_tally, is_quorum,
                   activeVars, pc, localVars, forced, tally_empty, ownVars>>

Next ==
    \/ \E hash \in Block : find(hash)
    \/ \E rep \in Rep, timestamp \in Timestamp : vote(rep, timestamp)
    \/ \E block \in Block : publish(block)
    \/ replace_by_weight
    \/ replace_finish
    \/ emplace
    \/ \E thread \in Thread : insert_inactive_votes_cache(thread)
    \/ \E thread \in Thread : confirm_resume(thread)
    \/ generate_votes
    \/ broadcast
    \/ transition_time
    \/ cleanup_election
    \/ \E hash \in Block : remove_election_winner_details(hash)
    \/ \E hash \in Block : confirm_block(hash)

Spec == Init /\ [][Next]_vars

-----------------------------------------------------------------------------
(* Properties                                                              *)

\* The winner is a block of the election: remove_block looks at the winner
\* again after replace_by_weight has let the mutex go.
WinnerInElection == winner \in last_blocks

\* A confirmed election keeps its winner, whatever votes, cached votes or blocks
\* arrive and whichever thread comes back late from queueing a final vote.
WinnerFixed == [][confirmed => winner' = winner]_vars

\* With the canary, a winner confirmed by the tally has final votes of a quorum,
\* also when the thread that saw the quorum let the mutex go in between.  A
\* final vote the node has cast and then taken out of the election counts.
ConfirmedByFinalVotes ==
    [][/\ canary /\ processed = << >> /\ processed' # << >>
       /\ ~(\E hash \in Block : confirm_block(hash))
       => LET own == {r \in LocalRep : [timestamp |-> Final, hash |-> winner'] \in cast}
          IN  MapThenSumSet(weight_of, final_voters(last_votes', winner') \cup own) >= Delta]_vars

\* The block handed to process_confirmed is the winner, and a winner other than
\* the first block was handed to block_processor.force, which puts it in the ledger.
ProcessedWinnerForced ==
    \A i \in DOMAIN processed : processed[i] = winner /\ winner \in forced \cup {Initial}

=============================================================================
