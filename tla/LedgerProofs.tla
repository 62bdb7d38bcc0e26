----------------------------- MODULE LedgerProofs -----------------------------
(***************************************************************************)
(* The inductive invariant of the ledger and the theorems that rest on it. *)
(***************************************************************************)
EXTENDS LedgerProcess, LedgerRollback, LedgerRollbackStack

LEMMA NextInv ==
    ASSUME IInv, [Next]_vars
    PROVE  IInv'
  <1>1. ASSUME NEW h \in Hash, process(h) PROVE IInv'
    BY Zenon, <1>1, ProcessSend, ProcessReceive, ProcessOpen, ProcessChange, ProcessState,
       ProcessEpoch DEF process
  <1>2. ASSUME NEW h \in Hash, rollback_begin(h) PROVE IInv'
    BY <1>2, RollbackBegin
  <1>3. ASSUME NEW h \in Hash, cement(h) PROVE IInv'
    BY <1>3, Cement
  <1>4. ASSUME NEW h \in Hash, pruning_begin(h) PROVE IInv'
    BY <1>4, PruningBegin
  <1>5. CASE rollback_step
    BY Zenon, <1>5, RollbackReturn, RollbackRefuse, RollbackReceive, RollbackOpen, RollbackChange,
       RollbackState, RollbackSendVisit, RollbackStateSendVisit, RollbackNested, RollbackSendFinish,
       RollbackStateSendFinish DEF rollback_step
  <1>6. CASE pruning_action
    BY <1>6, PruningAction
  <1>7. CASE restart
    BY <1>7, Restart
  <1>8. CASE UNCHANGED vars
    BY <1>8, Stutter
  <1> QED
    BY Zenon, <1>1, <1>2, <1>3, <1>4, <1>5, <1>6, <1>7, <1>8 DEF Next

\* The conjunction of the table invariants and of the description of the rollback stack is
\* kept by every operation of the ledger: process, rollback (in each of its steps), cementing,
\* pruning and a restart.
THEOREM LedgerInvariant == Spec => []IInv
  <1>1. Init => IInv
    BY InitInv
  <1>2. IInv /\ [Next]_vars => IInv'
    BY NextInv
  <1> QED
    BY <1>1, <1>2, PTL DEF Spec

\* Tables and rollback stack keep the types the code declares: no balance or amount
\* over- or underflows and no height goes below zero.
THEOREM TypeCorrect == Spec => []TypeOK
  <1>1. IInv => TypeOK
    BY DEF IInv
  <1> QED
    BY <1>1, LedgerInvariant, PTL

\* The frontier table is in step with the heads of the accounts (ledger_processor and
\* rollback_visitor maintain it separately).
THEOREM FrontierCorrect == Spec => []FrontierMatchesHead
  <1>1. IInv => FrontierMatchesHead
    BY DEF IInv
  <1> QED
    BY <1>1, LedgerInvariant, PTL

\* No send is received twice, whatever is processed, rolled back and pruned in between.
THEOREM NoDoubleReceive == Spec => []ReceivedOnce
  <1>1. IInv => ReceivedOnce
    <2> SUFFICES ASSUME IInv, NEW h \in Hash, NEW s \in Hash, exists(h), source_of(h) = s
                 PROVE  /\ account_of(h) = content[s].link
                        /\ block_or_pruned_exists(s)
                        /\ exists(s) => is_send(s)
                        /\ ~pending_exists(<<content[s].link, s>>)
                        /\ \A k \in Hash : exists(k) /\ source_of(k) = s => k = h
      BY Zenon DEF ReceivedOnce, receives
    <2>1. account_of(h) = owner[h]
      BY Zenon DEF IInv, StoreInv, BlockInv
    <2>2. /\ content[s].link = owner[h] /\ block_or_pruned_exists(s)
          /\ exists(s) => is_send(s)
          /\ ~pending_exists(<<owner[h], s>>) /\ \A k \in Hash : exists(k) /\ source_of(k) = s => k = h
      BY Zenon DEF IInv, StoreInv, SourceInv
    <2> QED
      BY Zenon, <2>1, <2>2
  <1> QED
    BY <1>1, LedgerInvariant, PTL

\* While rollbacks are nested, nothing touches the accounts whose sends wait: what
\* rollback_visitor::state_block read before the nested rollbacks is still true after them.
THEOREM NestedRollbackKeepsAccounts == Spec => []CapturedInfoFresh
  <1>1. IInv => CapturedInfoFresh
    <2> SUFFICES ASSUME IInv, NEW i \in DOMAIN calls, calls[i].visiting # Zero
                 PROVE  LET h == calls[i].visiting
                        IN  /\ exists(h) /\ account[calls[i].account].head = h
                            /\ content[h].type = "state" => calls[i].info = account[calls[i].account]
      BY Zenon DEF CapturedInfoFresh
    <2>1. PICK h \in Hash : h = calls[i].visiting
      BY CallType DEF IInv
    <2>2. VisitingInv(calls[i])
      BY Zenon DEF IInv, StackInv, CallInv
    <2> QED
      BY Zenon, <2>1, <2>2 DEF VisitingInv
  <1> QED
    BY <1>1, LedgerInvariant, PTL

\* The rollback that a received send asks for on the receiving account finds a head above
\* the confirmation height: it never fails half way.
THEOREM NestedRollbackNeverFails == Spec => []NestedRollbackSafe
  <1>1. ASSUME IInv PROVE NestedRollbackSafe
    <2>1. TypeOK /\ StoreInv /\ StackInv /\ Zero \notin Hash
      BY <1>1, ContentType DEF IInv
    <2>2. ASSUME NEW i \in 2..Len(calls) PROVE ~calls[i].error
      <3>1. calls \in Seq(Call)
        BY <2>1 DEF TypeOK
      <3>2. PICK n \in Nat : n = Len(calls) /\ DOMAIN calls = 1..n
        BY <3>1
      <3>3. i \in DOMAIN calls /\ n # 1
        BY <3>2
      <3> QED
        BY Zenon, <2>1, <3>2, <3>3 DEF StackInv, CallInv
    <2>3. ASSUME calls # <<>>, top.visiting # Zero, ~pending_exists(visiting_key)
          PROVE  LET head == latest(visiting_key[1])
                 IN  exists(head) /\ height_of(head) > confirmation_height[visiting_key[1]].height
      <3>1. PICK s \in Hash, a \in Account : /\ s = top.visiting /\ exists(s) /\ is_send(s) /\ owner[s] = a
                                             /\ height_of(s) > confirmation_height[a].height
        BY Zenon, <1>1, <2>3, WaitingSend
      <3> DEFINE b == content[s].link
      <3>2. visiting_key[1] = b /\ ~pending_exists(<<b, s>>)
        BY <2>3, <3>1 DEF visiting_key
      <3>3. ~block_confirmed(s)
        <4>1. s \notin pruned /\ account_of(s) = a
          BY Zenon, <2>1, <3>1 DEF StoreInv, BlockInv
        <4>2. height_of(s) \in Nat /\ confirmation_height[a].height \in Nat
          BY Zenon, <2>1, <3>1, SidebandType, AccountType DEF height_of
        <4>3. ~(confirmation_height[a].height >= height_of(s))
          BY <3>1, <4>2
        <4> QED
          BY Zenon, <4>1, <4>3 DEF block_confirmed
      <3>4. PICK r \in Hash : exists(r) /\ source_of(r) = s
        BY Zenon, <2>1, <3>1, <3>2, <3>3 DEF StoreInv, ReceivedInv
      <3>5. owner[r] = b /\ ~block_confirmed(r)
        BY Zenon, <2>1, <3>3, <3>4 DEF StoreInv, SourceInv
      <3>6. /\ b \in Account /\ account_of(r) = b /\ r \notin pruned
            /\ 1 <= height_of(r) /\ height_of(r) <= account[b].block_count
        BY Zenon, <2>1, <3>4, <3>5 DEF StoreInv, BlockInv
      <3>7. /\ height_of(r) \in Nat /\ confirmation_height[b].height \in Nat /\ account[b].block_count \in Nat
            /\ account[b].head \in Hash \cup {Zero}
        BY ZenonT(40), <2>1, <3>4, <3>6, SidebandType, AccountType DEF height_of
      <3>8. ~(confirmation_height[b].height >= height_of(r))
        BY <3>4, <3>5, <3>6 DEF block_confirmed
      <3>9. account[b].head \in Hash
        <4> SUFFICES ASSUME account[b].head = Zero PROVE FALSE
          BY <3>7
        <4>1. account[b].block_count = 0
          BY <2>1, <3>6, UnopenedAccount
        <4> QED
          BY SMTT(30), <4>1, <3>6, <3>7
      <3>10. PICK h \in Hash : h = account[b].head
        BY <3>9
      <3>11. exists(h) /\ height_of(h) = account[b].block_count
        BY ZenonT(40), <2>1, <3>6, <3>10 DEF StoreInv, AccountInv
      <3>12. account[b].block_count > confirmation_height[b].height
        BY SMTT(30), <3>6, <3>7, <3>8
      <3>13. latest(visiting_key[1]) = h
        BY Zenon, <3>2, <3>6, <3>10 DEF latest
      <3> QED
        BY SMTT(30), <3>2, <3>11, <3>12, <3>13
    <2> QED
      BY Zenon, <2>2, <2>3 DEF NestedRollbackSafe
  <1> QED
    BY <1>1, LedgerInvariant, PTL

\* What is cemented rests on cemented blocks: the predecessor and the source of a cemented
\* block are cemented as well, whatever is rolled back and pruned afterwards.
THEOREM CementedBlocksClosed == Spec => []CementedClosed
  <1>1. ASSUME IInv PROVE CementedClosed
    <2> SUFFICES ASSUME NEW h \in Hash, exists(h), block_confirmed(h)
                 PROVE  dependents_confirmed(h)
      BY Zenon DEF CementedClosed
    <2>1. TypeOK /\ StoreInv /\ Zero \notin Hash
      BY Zenon, <1>1, ContentType DEF IInv
    <2>2. source_of(h) = Zero \/ block_confirmed(source_of(h))
      BY Zenon, <2>1 DEF StoreInv, SourceInv
    <2> DEFINE previous == content[h].previous
    <2>3. previous \in Hash \cup {Zero}
      BY ContentType
    <2>4. CASE exists(previous)
      <3>1. PICK p \in Hash : p = previous
        BY <2>4 DEF exists
      <3>2. PICK a \in Account : a = owner[h] /\ a = account_of(h)
        BY Zenon, <2>1 DEF StoreInv, BlockInv
      <3>3. /\ owner[p] = a /\ account_of(p) = a /\ height_of(h) = height_of(p) + 1 /\ h \notin pruned
        BY Zenon, <2>1, <2>4, <3>1, <3>2 DEF StoreInv, BlockInv
      <3>4. height_of(p) \in Nat /\ confirmation_height[a].height \in Nat
        BY Zenon, <2>1, <2>4, <3>1, SidebandType, AccountType DEF height_of
      <3>5. confirmation_height[a].height >= height_of(h)
        BY <3>2, <3>3 DEF block_confirmed
      <3>6. confirmation_height[a].height >= height_of(p)
        BY <3>3, <3>4, <3>5
      <3> QED
        BY Zenon, <2>2, <2>4, <3>1, <3>3, <3>6 DEF dependents_confirmed, block_confirmed
    <2>5. CASE ~exists(previous)
      <3>1. previous = Zero \/ previous \in pruned
        BY Zenon, <2>1, <2>5 DEF StoreInv, BlockInv
      <3>2. previous = Zero \/ block_confirmed(previous)
        BY Zenon, <3>1 DEF block_confirmed
      <3> QED
        BY <2>2, <3>2 DEF dependents_confirmed
    <2> QED
      BY Zenon, <2>4, <2>5
  <1> QED
    BY <1>1, LedgerInvariant, PTL

\* A confirmation height never goes down and never exceeds the chain: no operation, and no
\* nesting of rollbacks, removes a cemented block from under it.
THEOREM ConfirmationHeightGrows == Spec => ConfirmationHeightMonotonic
  <1> DEFINE Grows == \A a \in Account : /\ confirmation_height[a].height <= confirmation_height'[a].height
                                         /\ confirmation_height'[a].height <= account'[a].block_count
  <1>1. ASSUME IInv, IInv', [Next]_vars PROVE Grows
    <2> SUFFICES ASSUME NEW a \in Account
                 PROVE  /\ confirmation_height[a].height <= confirmation_height'[a].height
                        /\ confirmation_height'[a].height <= account'[a].block_count
      OBVIOUS
    <2>1. confirmation_height'[a].height <= account'[a].block_count
      BY <1>1 DEF IInv, StoreInv, ConfirmationInv
    <2>2. confirmation_height[a].height \in Nat
      BY <1>1, AccountType DEF IInv
    <2>3. ASSUME UNCHANGED confirmation_height
          PROVE  confirmation_height[a].height <= confirmation_height'[a].height
      BY <2>2, <2>3
    <2>4. ASSUME NEW h \in Hash, cement(h)
          PROVE  confirmation_height[a].height <= confirmation_height'[a].height
      <3>1. PICK b \in Account : b = account_of(h)
        BY ZenonT(40), <1>1, <2>4 DEF cement, IInv, StoreInv, BlockInv
      <3>2. height_of(h) = confirmation_height[b].height + 1
        BY <2>4, <3>1 DEF cement
      <3>3. confirmation_height' = [confirmation_height EXCEPT ![b] = [height |-> height_of(h), frontier |-> h]]
        BY <2>4, <3>1 DEF cement
      <3>4. confirmation_height \in [Account -> ConfirmationHeightInfo]
        BY <1>1 DEF IInv, TypeOK
      <3>5. CASE a = b
        <4>1. confirmation_height'[a].height = confirmation_height[a].height + 1
          BY <3>2, <3>3, <3>4, <3>5
        <4> QED
          BY <2>2, <4>1
      <3>6. CASE a # b
        <4>1. confirmation_height'[a] = confirmation_height[a]
          BY Zenon, <3>3, <3>4, <3>6
        <4> QED
          BY <2>2, <4>1
      <3> QED
        BY Zenon, <3>5, <3>6
    <2>5. ASSUME NEW h \in Hash, process(h) PROVE UNCHANGED confirmation_height
      BY Zenon, <2>5 DEF process, process_send, process_receive, process_open, process_change, process_state,
                  process_epoch, process_accepted
    <2>6. ASSUME NEW h \in Hash, rollback_begin(h) \/ pruning_begin(h) PROVE UNCHANGED confirmation_height
      BY Zenon, <2>6 DEF rollback_begin, pruning_begin, store
    <2>7. ASSUME rollback_step PROVE UNCHANGED confirmation_height
      BY Zenon, <2>7 DEF rollback_step, rollback_return, rollback_refuse, rollback_receive, rollback_open,
                  rollback_change, rollback_state, rollback_state_end, rollback_send_visit, rollback_state_send_visit,
                  rollback_nested, rollback_send_finish, rollback_state_send_finish, visit, store
    <2>8. ASSUME pruning_action \/ restart \/ UNCHANGED vars PROVE UNCHANGED confirmation_height
      BY Zenon, <2>8 DEF pruning_action, restart, store, vars
    <2> QED
      BY Zenon, <1>1, <2>1, <2>3, <2>4, <2>5, <2>6, <2>7, <2>8 DEF Next
  <1>2. Spec => [][Grows]_vars
    BY <1>1, LedgerInvariant, PTL DEF Spec
  <1> QED
    BY <1>2 DEF ConfirmationHeightMonotonic

\* The sends that wait for nested rollbacks are in the list of removed blocks already.
Listed(h) == \E k \in DOMAIN list : list[k] = h

ListInv == \A i \in DOMAIN calls, h \in Hash : calls[i].visiting = h => Listed(h)

LEMMA AppendedList ==
    ASSUME list \in Seq(Hash), NEW x \in Hash, list' = Append(list, x)
    PROVE  Listed(x)' /\ \A h \in Hash : Listed(h) => Listed(h)'
  <1>1. PICK n \in Nat : n = Len(list) /\ DOMAIN list = 1..n
    OBVIOUS
  <1>2. DOMAIN list' = 1..(n + 1) /\ list'[n + 1] = x /\ \A k \in 1..n : list'[k] = list[k]
    BY <1>1
  <1> QED
    BY <1>1, <1>2 DEF Listed

LEMMA ListStep ==
    ASSUME IInv, ListInv, [Next]_vars
    PROVE  ListInv'
  <1>1. TypeOK /\ Zero \notin Hash /\ calls \in Seq(Call) /\ list \in Seq(Hash)
    BY Zenon, ContentType DEF IInv, TypeOK
  <1>2. ASSUME calls' = <<>> PROVE ListInv'
    BY <1>2 DEF ListInv
  <1>3. ASSUME UNCHANGED <<calls, list>> PROVE ListInv'
    BY <1>3 DEF ListInv, Listed
  <1>4. ASSUME NEW h \in Hash, process(h) PROVE UNCHANGED <<calls, list>>
    BY Zenon, <1>4 DEF process, process_send, process_receive, process_open, process_change, process_state,
                process_epoch, process_accepted
  <1>5. ASSUME NEW h \in Hash, cement(h) \/ pruning_begin(h) PROVE UNCHANGED <<calls, list>>
    BY Zenon, <1>5 DEF cement, pruning_begin
  <1>6. ASSUME pruning_action \/ UNCHANGED vars PROVE UNCHANGED <<calls, list>>
    BY Zenon, <1>6 DEF pruning_action, vars
  <1>7. ASSUME restart PROVE ListInv'
    BY <1>7 DEF restart, ListInv
  <1>8. ASSUME NEW h \in Hash, rollback_begin(h) PROVE ListInv'
    <2>1. calls' = <<call(h)>>
      BY <1>8 DEF rollback_begin
    <2>2. \A i \in DOMAIN calls' : calls'[i].visiting = Zero
      BY <2>1 DEF call
    <2> QED
      BY <1>1, <2>2 DEF ListInv
  <1>9. ASSUME NEW type, visit(type), UNCHANGED calls PROVE ListInv'
    <2>1. PICK x \in Hash : x = visited
      BY Zenon, <1>9, VisitedBlock
    <2>2. \A h \in Hash : Listed(h) => Listed(h)'
      BY Zenon, <1>1, <1>9, <2>1, AppendedList DEF visit
    <2> QED
      BY Zenon, <1>9, <2>2 DEF ListInv
  <1>10. ASSUME NEW type, visit(type), NEW c, calls' = [calls EXCEPT ![Len(calls)] = c], c.visiting = visited
         PROVE  ListInv'
    <2>1. PICK x \in Hash : x = visited
      BY Zenon, <1>10, VisitedBlock
    <2>2. Listed(x)' /\ \A h \in Hash : Listed(h) => Listed(h)'
      BY Zenon, <1>1, <1>10, <2>1, AppendedList DEF visit
    <2>3. \A i \in DOMAIN calls' : i \in DOMAIN calls /\ (calls'[i] = c \/ calls'[i] = calls[i])
      BY <1>1, <1>10
    <2> QED
      BY <1>10, <2>1, <2>2, <2>3 DEF ListInv
  <1>11. ASSUME rollback_send_visit PROVE ListInv'
    <2> DEFINE c == [top EXCEPT !.visiting = visited]
    <2>1. visit("send") /\ calls' = [calls EXCEPT ![Len(calls)].visiting = visited]
      BY <1>11 DEF rollback_send_visit
    <2>2. calls # <<>> /\ top \in Call
      BY SMTT(30), <1>1, <2>1, TopType, CallType DEF visit, looping
    <2>3. c.visiting = visited
      BY <2>2 DEF Call
    <2>4. calls' = [calls EXCEPT ![Len(calls)] = c]
      BY <2>1 DEF top
    <2> HIDE DEF c
    <2> QED
      BY Zenon, <1>10, <2>1, <2>3, <2>4
  <1>12. ASSUME rollback_state_send_visit PROVE ListInv'
    <2> DEFINE c == state_send_call(visited)
    <2>1. visit("state") /\ calls' = [calls EXCEPT ![Len(calls)] = c]
      BY <1>12 DEF rollback_state_send_visit
    <2>2. calls # <<>> /\ top \in Call
      BY Zenon, <1>1, <2>1, TopType, CallType DEF visit, looping
    <2>3. c.visiting = visited
      BY <2>2 DEF Call, state_send_call
    <2> HIDE DEF c
    <2> QED
      BY Zenon, <1>10, <2>1, <2>3
  <1>13. ASSUME list' = list,
                \A i \in DOMAIN calls' : \/ calls'[i].visiting = Zero
                                         \/ i \in DOMAIN calls /\ calls'[i].visiting = calls[i].visiting
         PROVE  ListInv'
    BY <1>1, <1>13 DEF ListInv, Listed
  <1>14. ASSUME rollback_nested PROVE ListInv'
    <2>1. PICK c : c = call(latest(visiting_key[1]))
      OBVIOUS
    <2>2. list' = list /\ calls' = Append(calls, c) /\ c.visiting = Zero
      BY <1>14, <2>1 DEF rollback_nested, call
    <2> QED
      BY <1>1, <1>13, <2>2
  <1>15. ASSUME rollback_refuse PROVE ListInv'
    <2>1. list' = list /\ calls' = [calls EXCEPT ![Len(calls)].error = TRUE]
      BY <1>15 DEF rollback_refuse
    <2> QED
      BY SMTT(30), <1>1, <1>13, <2>1 DEF Call
  <1>16. ASSUME rollback_send_finish PROVE ListInv'
    <2>1. list' = list /\ calls' = [calls EXCEPT ![Len(calls)].visiting = Zero]
      BY <1>16 DEF rollback_send_finish
    <2> QED
      BY SMTT(30), <1>13, <2>1 DEF Call
  <1>17. ASSUME rollback_state_send_finish PROVE ListInv'
    <2>1. list' = list /\ calls' = [calls EXCEPT ![Len(calls)].visiting = Zero, ![Len(calls)].error = FALSE]
      BY <1>17 DEF rollback_state_send_finish
    <2> QED
      BY SMTT(30), <1>13, <2>1 DEF Call
  <1>18. ASSUME rollback_return PROVE ListInv'
    <2>1. /\ calls # <<>> /\ rest = SubSeq(calls, 1, Len(calls) - 1)
          /\ calls' = [i \in DOMAIN rest |->
                          IF i = Len(rest) THEN [rest[i] EXCEPT !.error = top.error] ELSE rest[i]]
          /\ list' = IF rest = <<>> THEN <<>> ELSE list
      BY <1>18 DEF rollback_return, rest
    <2>2. rest \in Seq(Call) /\ \A i \in DOMAIN rest : i \in DOMAIN calls /\ rest[i] = calls[i]
      BY <1>1, <2>1
    <2>3. CASE rest = <<>>
      <3>1. DOMAIN calls' = {}
        BY <2>1, <2>3
      <3> QED
        BY <3>1 DEF ListInv
    <2>4. CASE rest # <<>>
      <3>1. \A i \in DOMAIN calls' : i \in DOMAIN calls /\ calls'[i].visiting = calls[i].visiting
        BY <2>1, <2>2 DEF Call
      <3> QED
        BY Zenon, <1>13, <2>1, <2>4, <3>1
    <2> QED
      BY <2>3, <2>4
  <1>19. ASSUME rollback_receive \/ rollback_open \/ rollback_change \/ rollback_state PROVE ListInv'
    <2>1. \E type \in {"receive", "open", "change", "state"} : visit(type) /\ UNCHANGED calls
      BY Zenon, <1>19 DEF rollback_receive, rollback_open, rollback_change, rollback_state
    <2> QED
      BY Zenon, <1>9, <2>1
  <1>20. ASSUME rollback_step PROVE ListInv'
    BY Zenon, <1>11, <1>12, <1>14, <1>15, <1>16, <1>17, <1>18, <1>19, <1>20 DEF rollback_step
  <1> QED
    BY Zenon, <1>3, <1>4, <1>5, <1>6, <1>7, <1>8, <1>20 DEF Next

\* A block leaves the store in one of two ways: an uncemented block is undone by rollback,
\* which tells its caller so in the list, and a cemented one is replaced by its entry in the
\* pruned table.  Nothing else makes a block disappear.
THEOREM RemovedBlocksListed == Spec => RemovedBlocksAccountedFor
  <1> DEFINE Accounted(h) == IF block_confirmed(h) THEN h \in pruned' ELSE h \in {list'[i] : i \in DOMAIN list'}
             Gone == \A h \in Hash : exists(h) /\ ~exists(h)' => Accounted(h)
  <1>1. ASSUME IInv, ListInv, [Next]_vars PROVE Gone
    <2> SUFFICES ASSUME NEW h \in Hash, exists(h), ~exists(h)' PROVE Accounted(h)
      BY Zenon
    <2>1. /\ TypeOK /\ StoreInv /\ Zero \notin Hash /\ list \in Seq(Hash)
          /\ block \in [Hash -> Sideband \cup {None}]
      BY Zenon, <1>1, ContentType DEF IInv, TypeOK
    <2>2. /\ owner[h] \in Account /\ account_of(h) = owner[h] /\ h \notin pruned
          /\ height_of(h) \in Nat /\ confirmation_height[owner[h]].height \in Nat
      BY Zenon, <2>1, SidebandType, AccountType DEF StoreInv, BlockInv, height_of
    <2>3. ASSUME height_of(h) > confirmation_height[owner[h]].height, Listed(h)' PROVE Accounted(h)
      <3>1. ~(confirmation_height[owner[h]].height >= height_of(h))
        BY SMTT(30), <2>2, <2>3
      <3>2. ~block_confirmed(h)
        BY <2>2, <3>1 DEF block_confirmed
      <3> QED
        BY Zenon, <2>3, <3>2 DEF Listed
    <2>4. ASSUME NEW k \in Hash, block' = block_del(k) PROVE h = k
      BY Zenon, <2>1, <2>4, BlockDel
    <2>5. ASSUME NEW type, visit(type), block' = block_del(visited) PROVE Accounted(h)
      <3>1. PICK k \in Hash, a \in Account : /\ k = visited /\ owner[k] = a
                                             /\ height_of(k) > confirmation_height[a].height
        BY Zenon, <1>1, <2>5, VisitedBlock
      <3>2. h = k
        BY Zenon, <2>4, <2>5, <3>1
      <3>3. Listed(k)'
        BY Zenon, <2>1, <2>5, <3>1, AppendedList DEF visit
      <3> QED
        BY Zenon, <2>3, <3>1, <3>2, <3>3
    <2>6. ASSUME calls # <<>>, top.visiting # Zero, block' = block_del(top.visiting), list' = list
          PROVE  Accounted(h)
      <3>1. PICK k \in Hash, a \in Account, n \in Nat :
                /\ k = top.visiting /\ n \in DOMAIN calls /\ top = calls[n]
                /\ owner[k] = a /\ height_of(k) > confirmation_height[a].height
        BY ZenonT(40), <1>1, <2>6, WaitingSend
      <3>2. h = k
        BY Zenon, <2>4, <2>6, <3>1
      <3>3. Listed(k)
        BY <1>1, <3>1 DEF ListInv
      <3>4. Listed(k)'
        BY Zenon, <2>6, <3>3 DEF Listed
      <3> QED
        BY Zenon, <2>3, <3>1, <3>2, <3>4
    <2>7. ASSUME NEW k \in Hash, process(k) PROVE FALSE
      <3>1. PICK sideband : h # k /\ block' = block_put(k, sideband)
        BY Zenon, <2>7, ProcessedBlock
      <3>2. block'[h] = block[h] \/ block'[h] = [block[h] EXCEPT !.successor = k]
        BY <3>1 DEF block_put
      <3>3. block'[h] \in Sideband
        BY Zenon, <2>1, <3>2, KeptBlock
      <3> QED
        BY Zenon, <3>3, ContentType DEF exists
    <2>8. ASSUME UNCHANGED block PROVE FALSE
      BY <2>8 DEF exists
    <2>9. ASSUME pruning_action PROVE Accounted(h)
      <3>1. block' = [block EXCEPT ![prune_hash] = None] /\ pruned' = pruned \cup {prune_hash}
        BY Zenon, <2>8, <2>9 DEF pruning_action
      <3>2. h = prune_hash
        BY Zenon, <2>1, <3>1 DEF exists
      <3>3. height_of(h) < confirmation_height[owner[h]].height
        BY Zenon, <1>1, <3>2 DEF IInv, PruneInv
      <3>4. confirmation_height[owner[h]].height >= height_of(h)
        BY SMTT(30), <2>2, <3>3
      <3>5. block_confirmed(h)
        BY Zenon, <2>2, <3>4 DEF block_confirmed
      <3> QED
        BY Zenon, <3>1, <3>2, <3>5
    <2>10. ASSUME rollback_step PROVE Accounted(h)
      <3>1. ASSUME rollback_receive \/ rollback_open \/ rollback_change \/ rollback_state
            PROVE  \E type \in {"receive", "open", "change", "state"} : visit(type) /\ block' = block_del(visited)
        BY Zenon, <3>1 DEF rollback_receive, rollback_open, rollback_change, rollback_state,
           rollback_state_end
      <3>2. ASSUME rollback_send_visit \/ rollback_state_send_visit \/ rollback_nested \/ rollback_refuse
                   \/ rollback_return
            PROVE  UNCHANGED block
        BY Zenon, <3>2 DEF rollback_send_visit, rollback_state_send_visit, rollback_nested,
           rollback_refuse, rollback_return, store
      <3>3. ASSUME rollback_send_finish \/ rollback_state_send_finish
            PROVE  calls # <<>> /\ top.visiting # Zero /\ block' = block_del(top.visiting) /\ list' = list
        BY Zenon, <2>8, <3>3 DEF rollback_send_finish, rollback_state_send_finish,
           rollback_state_end
      <3> QED
        BY Zenon, <2>5, <2>6, <2>8, <2>10, <3>1, <3>2, <3>3 DEF rollback_step
    <2>11. ASSUME NEW k \in Hash, rollback_begin(k) \/ cement(k) \/ pruning_begin(k) PROVE Accounted(h)
      BY Zenon, <2>8, <2>9, <2>11 DEF rollback_begin, cement, pruning_begin, store
    <2>12. ASSUME restart \/ UNCHANGED vars PROVE FALSE
      BY Zenon, <2>8, <2>12 DEF restart, store, vars
    <2> QED
      BY Zenon, <1>1, <2>7, <2>9, <2>10, <2>11, <2>12 DEF Next
  <1>2. Init => ListInv
    BY DEF Init, ListInv
  <1>3. Spec => [][Gone]_vars
    BY <1>1, <1>2, ListStep, LedgerInvariant, PTL DEF Spec
  <1> QED
    BY Zenon, <1>3 DEF RemovedBlocksAccountedFor

=============================================================================
