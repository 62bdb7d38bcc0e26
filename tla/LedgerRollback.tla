---------------------------- MODULE LedgerRollback ----------------------------
(***************************************************************************)
(* ledger::rollback keeps the invariant in the steps that remove a block:  *)
(* what the head sent, received or changed is undone, after nested         *)
(* rollbacks if the amount it sent was received.                           *)
(***************************************************************************)
EXTENDS LedgerRemoval

\* The block h is removed from the end of the chain of account a
LEMMA BlockRemoved ==
    ASSUME IInv, NEW h \in Hash, NEW a \in Account, NEW old, NEW new \in AccountInfo,
           exists(h), owner[h] = a, account[a].head = h,
           height_of(h) > confirmation_height[a].height,
           block' = block_del(h),
           update_account(a, old, new),
           new.head = content[h].previous,
           content[h].previous # Zero => /\ new.block_count = account[a].block_count - 1
                                         /\ new.balance = balance_of(content[h].previous),
           UNCHANGED <<confirmation_height, pruned, prune_hash>>
    PROVE  /\ Removed(h, a)
           /\ block' \in [Hash -> Sideband \cup {None}]
           /\ account' \in [Account -> AccountInfo]
  <1>1. TypeOK
    BY Zenon DEF IInv
  <1>2. /\ block' \in [Hash -> Sideband \cup {None}]
        /\ \A x \in Hash : exists(x)' <=> exists(x) /\ x # h
        /\ \A x \in Hash : exists(x) /\ x # h => Kept(x)
    BY ZenonT(40), <1>1, BlockDel
  <1>3. /\ account' \in [Account -> AccountInfo]
        /\ new.head # Zero => account'[a] = new
        /\ new.head = Zero => account'[a] = account_info
        /\ \A b \in Account : b # a => account'[b] = account[b]
    BY Zenon, <1>1, UpdateAccount
  <1>4. account'[a].head = content[h].previous
    BY SMTT(30), <1>3 DEF account_info
  <1> QED
    BY Zenon, <1>2, <1>3, <1>4 DEF Removed

\* The amount a removed block had received becomes pending again
LEMMA PendingRestored ==
    ASSUME IInv, NEW h \in Hash, NEW a \in Account, NEW v \in Amount, NEW epoch \in Epoch,
           exists(h), owner[h] = a, ~is_send(h),
           source_of(h) \in {content[h].link, Zero},
           content[h].link \in Hash => source_of(h) = content[h].link,
           pending' = [pending EXCEPT ![<<a, content[h].link>>] =
                          [source |-> account_safe(content[h].link), amount |-> v, epoch |-> epoch]]
    PROVE  /\ pending' \in [Word \X Hash -> PendingInfo \cup {None}]
           /\ ReceiveUndone(h, a) \/ NothingUndone(h)
  <1> DEFINE link == content[h].link
             p == [source |-> account_safe(link), amount |-> v, epoch |-> epoch]
  <1>1. TypeOK /\ Zero \notin Hash /\ a \in Word /\ link \in Word
    BY Zenon, ContentType DEF IInv, Word
  <1>2. CASE link \in Hash
    <2>1. exists(link) => account_safe(link) = owner[link] /\ owner[link] \in Account
      BY Zenon, <1>2 DEF IInv, StoreInv, BlockInv, account_safe
    <2>2. ~exists(link) => account_safe(link) = Zero
      BY Zenon DEF account_safe
    <2>3. p \in PendingInfo /\ p.source = account_safe(link)
      BY Zenon, <2>1, <2>2 DEF PendingInfo
    <2> HIDE DEF p
    <2>4. pending' = [pending EXCEPT ![<<a, link>>] = p]
      BY Zenon DEF p
    <2>5. source_of(h) = link
      BY <1>2
    <2>6. exists(link) => p.source = owner[link]
      BY Zenon, <2>1, <2>3
    <2>7. ReceiveUndone(h, a)
      BY Zenon, <1>2, <2>3, <2>4, <2>5, <2>6 DEF ReceiveUndone
    <2>8. pending' \in [Word \X Hash -> PendingInfo \cup {None}]
      <3>1. PICK q \in PendingInfo : q = p
        BY Zenon, <2>3
      <3>2. PICK w \in Hash : w = link
        BY Zenon, <1>2
      <3>3. pending' = [pending EXCEPT ![<<a, w>>] = q]
        BY Zenon, <2>4, <3>1, <3>2
      <3>4. pending \in [Word \X Hash -> PendingInfo \cup {None}]
        BY Zenon, <1>1 DEF TypeOK
      <3> QED
        BY Zenon, <3>3, <3>4
    <2> QED
      BY Zenon, <2>7, <2>8
  <1>3. CASE link \notin Hash
    <2>1. source_of(h) = Zero
      BY Zenon, <1>3 DEF IInv, StoreInv, SourceInv
    <2>2. pending' = pending
      <3>1. <<a, link>> \notin Word \X Hash
        BY <1>3
      <3> HIDE DEF p
      <3>2. pending' = [pending EXCEPT ![<<a, link>>] = p]
        BY DEF p
      <3> QED
        BY SMTT(30), <3>1, <3>2, <1>1 DEF TypeOK
    <2> QED
      BY Zenon, <2>1, <2>2, <1>1 DEF NothingUndone, TypeOK
  <1> QED
    BY Zenon, <1>2, <1>3

LEMMA RollbackReceive ==
    ASSUME IInv, rollback_receive
    PROVE  IInv'
  <1>1. /\ TypeOK /\ StoreInv /\ StackInv /\ looping
        /\ top.height > confirmation_height[top.account].height
        /\ content[visited].type = "receive"
        /\ UNCHANGED <<confirmation_height, pruned, prune_hash, calls>>
        /\ list' = Append(list, visited)
    BY Zenon DEF IInv, rollback_receive, visit
  <1>2. visited \in Hash /\ top.account \in Account
    BY Zenon, <1>1, VisitedHead, TopType, CallType DEF looping
  <1>3. PICK h \in Hash : h = visited
    BY <1>2
  <1>4. PICK a \in Account : a = top.account
    BY Zenon, <1>2
  <1> DEFINE previous == content[h].previous
             link == content[h].link
             new == new_account_info(previous, account[a].representative, account[a].open_block,
                                     balance(previous), account[a].block_count - 1, 0)
  <1>5. /\ exists(h) /\ owner[h] = a /\ account_of(h) = a /\ account[a].head = h
        /\ height_of(h) > confirmation_height[a].height
        /\ content[h].type = "receive" /\ previous \in Hash /\ exists(previous)
        /\ is_legacy(h) /\ is_legacy(previous) /\ Zero \notin Hash
    <2>1. content[h].type = "receive" /\ previous \in Hash /\ is_legacy(h) /\ Zero \notin Hash
      BY <1>1, <1>3, ContentType, ContentAssumption DEF is_legacy, Legacy
    <2>2. /\ exists(h) /\ owner[h] = a /\ account_of(h) = a
          /\ height_of(h) > confirmation_height[a].height
          /\ previous # Zero => exists(previous)
      BY Zenon, <1>1, <1>3, <1>4, VisitedHead
    <2>3. account[a].head = h
      BY <1>3, <1>4 DEF visited
    <2>4. is_legacy(previous)
      BY Zenon, <2>1, <2>2 DEF IInv, LegacyInv
    <2> QED
      BY ZenonT(40), <2>1, <2>2, <2>3, <2>4
  <1>6. account[a].block_count - 1 \in Nat
    BY SMTT(30), <1>1, <1>5, AccountType, SidebandType DEF StoreInv, AccountInv, BlockInv,
       height_of, exists
  <1>7. /\ new \in AccountInfo /\ new.head = previous /\ new.block_count = account[a].block_count - 1
        /\ new.balance = balance_of(previous)
    <2>1. balance(previous) \in Amount /\ balance(previous) = balance_of(previous)
      BY Zenon, <1>1, <1>5, BalanceType
    <2>2. account[a].representative \in Account \cup {Zero} /\ account[a].open_block \in Hash \cup {Zero}
      BY Zenon, <1>1, AccountType
    <2>3. 0 \in Epoch /\ previous \in Hash \cup {Zero}
      BY <1>5 DEF Epoch
    <2>4. new \in AccountInfo /\ new.head = previous /\ new.block_count = account[a].block_count - 1
          /\ new.balance = balance(previous)
      BY <1>6, <2>1, <2>2, <2>3 DEF new_account_info, AccountInfo
    <2> QED
      BY Zenon, <2>1, <2>4
  <1>8. /\ update_account(a, account[a], new)
        /\ block' = block_del(h)
        /\ pending' = [pending EXCEPT ![<<a, link>>] =
                          [source |-> account_safe(link), amount |-> amount(h), epoch |-> 0]]
        /\ frontier' = [frontier EXCEPT ![h] = Zero, ![previous] = a]
    BY Zenon, <1>3, <1>5 DEF rollback_receive
  <1> HIDE DEF new
  <1>9. /\ Removed(h, a)
        /\ block' \in [Hash -> Sideband \cup {None}]
        /\ account' \in [Account -> AccountInfo]
    BY Zenon, <1>1, <1>5, <1>7, <1>8, BlockRemoved
  <1>10. /\ pending' \in [Word \X Hash -> PendingInfo \cup {None}]
         /\ ReceiveUndone(h, a) \/ NothingUndone(h)
    <2>1. amount(h) \in Amount
      BY Zenon, <1>1, <1>5, AmountMoved
    <2>3. 0 \in Epoch
      BY DEF Epoch
    <2>2. ~is_send(h) /\ source_of(h) = link
      BY Zenon, <1>5 DEF is_send, source_of
    <2> QED
      BY Zenon, <2>1, <2>2, <2>3, <1>5, <1>8, PendingRestored
  <1>11. /\ frontier' \in [Hash -> Account \cup {Zero}] /\ frontier'[h] = Zero /\ frontier'[previous] = a
         /\ \A x \in Hash : x # h /\ x # previous => frontier'[x] = frontier[x]
    <2>1. previous # h
      BY SMTT(30), HashAssumption
    <2> QED
      BY ZenonT(40), <2>1, <1>1, <1>5, <1>8 DEF TypeOK
  <1>12. TypeOK'
    BY SMTT(30), <1>1, <1>2, <1>9, <1>10, <1>11 DEF TypeOK
  <1>13. FrontierMatchesHead'
    BY Zenon, <1>1, <1>5, <1>9, <1>11, RemovedFrontier DEF IInv
  <1> QED
    BY Zenon, <1>1, <1>3, <1>4, <1>9, <1>10, <1>12, <1>13, RemovedVisited

LEMMA RollbackOpen ==
    ASSUME IInv, rollback_open
    PROVE  IInv'
  <1>1. /\ TypeOK /\ StoreInv /\ StackInv /\ looping
        /\ top.height > confirmation_height[top.account].height
        /\ UNCHANGED <<confirmation_height, pruned, prune_hash, calls>>
        /\ list' \in Seq(Hash)
    BY Zenon, VisitedBlock DEF rollback_open
  <1>2. PICK h \in Hash, a \in Account :
            /\ h = visited /\ a = top.account /\ content[h].type = "open"
            /\ exists(h) /\ owner[h] = a /\ account_of(h) = a /\ account[a].head = h
            /\ height_of(h) > confirmation_height[a].height
    BY Zenon, VisitedBlock DEF rollback_open
  <1> DEFINE link == content[h].link
  <1>3. content[h].previous = Zero /\ Zero \notin Hash
    BY Zenon, <1>2, ContentType, ContentAssumption
  <1>4. account_info \in AccountInfo /\ account_info.head = Zero
    BY SMTT(30), AmountType DEF account_info, AccountInfo, Epoch
  <1>5. /\ update_account(a, account_info, account_info)
        /\ block' = block_del(h)
        /\ pending' = [pending EXCEPT ![<<a, link>>] =
                          [source |-> account_safe(link), amount |-> amount(h), epoch |-> 0]]
        /\ frontier' = [frontier EXCEPT ![h] = Zero]
    BY Zenon, <1>2 DEF rollback_open
  <1>6. /\ Removed(h, a)
        /\ block' \in [Hash -> Sideband \cup {None}]
        /\ account' \in [Account -> AccountInfo]
    <2> HIDE DEF link
    <2> QED
      BY Zenon, <1>1, <1>2, <1>3, <1>4, <1>5, BlockRemoved
  <1>7. /\ pending' \in [Word \X Hash -> PendingInfo \cup {None}]
        /\ ReceiveUndone(h, a) \/ NothingUndone(h)
    <2>1. amount(h) \in Amount
      BY Zenon, <1>1, <1>2, <1>3, AmountMoved
    <2>2. ~is_send(h) /\ source_of(h) \in {link, Zero}
      BY <1>2 DEF is_send, source_of
    <2>3. link \in Hash => source_of(h) = link
      <3>1. content[genesis].account \notin Hash
        BY Zenon, ContentType, ContentAssumption, GenesisAssumption
      <3> QED
        BY Zenon, <3>1, <1>2 DEF source_of
    <2>4. 0 \in Epoch
      BY DEF Epoch
    <2> QED
      BY Zenon, <2>1, <2>2, <2>3, <2>4, <1>2, <1>5, PendingRestored
  <1>8. /\ frontier' \in [Hash -> Account \cup {Zero}] /\ frontier'[h] = Zero
        /\ \A x \in Hash : x # h => frontier'[x] = frontier[x]
    BY Zenon, <1>1, <1>5 DEF TypeOK
  <1>9. TypeOK'
    BY Zenon, <1>1, <1>6, <1>7, <1>8 DEF TypeOK
  <1>10. FrontierMatchesHead'
    BY Zenon, <1>1, <1>3, <1>6, <1>8, RemovedFrontier DEF IInv
  <1> QED
    BY Zenon, <1>1, <1>2, <1>6, <1>7, <1>9, <1>10, RemovedVisited

LEMMA RollbackChange ==
    ASSUME IInv, rollback_change
    PROVE  IInv'
  <1>1. /\ TypeOK /\ StoreInv /\ StackInv /\ looping
        /\ top.height > confirmation_height[top.account].height
        /\ UNCHANGED <<confirmation_height, pruned, prune_hash, calls, pending>>
        /\ list' \in Seq(Hash)
    BY Zenon, VisitedBlock DEF rollback_change
  <1>2. PICK h \in Hash, a \in Account :
            /\ h = visited /\ a = top.account /\ content[h].type = "change"
            /\ exists(h) /\ owner[h] = a /\ account_of(h) = a /\ account[a].head = h
            /\ height_of(h) > confirmation_height[a].height
            /\ content[h].previous # h
            /\ content[h].previous # Zero => content[h].previous \in Hash /\ exists(content[h].previous)
            /\ account[a].block_count - 1 \in Nat
    BY ZenonT(40), VisitedBlock DEF rollback_change
  <1> DEFINE previous == content[h].previous
             rep_block == representative_visitor[previous]
             representative == content[rep_block].representative
             new == new_account_info(previous, representative, account[a].open_block,
                                     account[a].balance, account[a].block_count - 1, 0)
  <1>3. /\ previous \in Hash /\ exists(previous) /\ is_legacy(h) /\ Zero \notin Hash
    BY Zenon, <1>2, ContentType, ContentAssumption DEF is_legacy, Legacy
  <1>4. account_of(previous) = a /\ is_legacy(previous) /\ account[a].balance = balance_of(previous)
    <2>1. account_of(previous) = owner[previous] /\ owner[previous] = owner[h]
      BY Zenon, <1>2, <1>3 DEF IInv, StoreInv, BlockInv
    <2>2. is_legacy(previous) /\ balance_of(h) = balance_of(previous)
      BY Zenon, <1>2, <1>3 DEF IInv, LegacyInv
    <2>3. account[a].balance = balance_of(h)
      BY Zenon, <1>2 DEF IInv, StoreInv, AccountInv
    <2> QED
      BY Zenon, <2>1, <2>2, <2>3, <1>2
  <1>5. /\ exists(rep_block)
        /\ update_account(a, account[a], new)
        /\ block' = block_del(h)
        /\ frontier' = [frontier EXCEPT ![h] = Zero, ![previous] = a]
    BY Zenon, <1>2, <1>4 DEF rollback_change
  <1>6. representative \in Account \cup {Zero}
    BY ZenonT(40), <1>5, ContentType DEF exists
  <1> HIDE DEF representative
  <1>7. /\ new \in AccountInfo /\ new.head = previous /\ new.block_count = account[a].block_count - 1
        /\ new.balance = balance_of(previous)
    <2>1. account[a].balance \in Amount /\ account[a].open_block \in Hash \cup {Zero}
      BY Zenon, <1>1, AccountType
    <2>2. 0 \in Epoch /\ previous \in Hash \cup {Zero} /\ account[a].block_count - 1 \in Nat
      BY <1>2, <1>3 DEF Epoch
    <2>3. new \in AccountInfo /\ new.head = previous /\ new.block_count = account[a].block_count - 1
          /\ new.balance = account[a].balance
      BY <1>6, <2>1, <2>2 DEF new_account_info, AccountInfo
    <2> QED
      BY Zenon, <1>4, <2>3
  <1> HIDE DEF new
  <1>8. /\ Removed(h, a)
        /\ block' \in [Hash -> Sideband \cup {None}]
        /\ account' \in [Account -> AccountInfo]
    BY Zenon, <1>1, <1>2, <1>5, <1>7, BlockRemoved
  <1>9. NothingUndone(h)
    BY Zenon, <1>1, <1>2 DEF NothingUndone, is_send, source_of
  <1>10. /\ frontier' \in [Hash -> Account \cup {Zero}] /\ frontier'[h] = Zero /\ frontier'[previous] = a
         /\ \A x \in Hash : x # h /\ x # previous => frontier'[x] = frontier[x]
    BY Zenon, <1>1, <1>2, <1>3, <1>5 DEF TypeOK
  <1>11. TypeOK'
    BY Zenon, <1>1, <1>8, <1>10 DEF TypeOK
  <1>12. FrontierMatchesHead'
    BY Zenon, <1>1, <1>4, <1>8, <1>10, RemovedFrontier DEF IInv
  <1> QED
    BY Zenon, <1>1, <1>2, <1>8, <1>9, <1>11, <1>12, RemovedVisited

\* The writes that end the undoing of a state block
LEMMA StateRemoved ==
    ASSUME IInv, NEW h \in Hash, NEW a \in Account, NEW old, NEW new \in AccountInfo,
           content[h].type = "state", exists(h), owner[h] = a, account[a].head = h,
           height_of(h) > confirmation_height[a].height,
           content[h].previous # h,
           content[h].previous # Zero => content[h].previous \in Hash /\ exists(content[h].previous),
           rollback_state_end(h, old, new),
           new.head = content[h].previous,
           content[h].previous # Zero => /\ new.block_count = account[a].block_count - 1
                                         /\ new.balance = balance_of(content[h].previous),
           UNCHANGED <<confirmation_height, pruned, prune_hash>>
    PROVE  /\ Removed(h, a)
           /\ block' \in [Hash -> Sideband \cup {None}]
           /\ account' \in [Account -> AccountInfo]
           /\ frontier' \in [Hash -> Account \cup {Zero}]
           /\ FrontierMatchesHead'
  <1> DEFINE previous == content[h].previous
             final == [new EXCEPT !.epoch = version(previous)]
  <1>1. TypeOK /\ StoreInv /\ Zero \notin Hash /\ Zero \notin Account /\ content[h].account = a /\ ~is_legacy(h)
    BY Zenon, ContentType, OwnerAssumption DEF IInv, is_legacy, Legacy
  <1>2. version(previous) \in Epoch
    BY SMTT(30), <1>1, SidebandType DEF version, Epoch, exists
  <1>3. /\ final \in AccountInfo /\ final.head = new.head /\ final.block_count = new.block_count
        /\ final.balance = new.balance
    BY <1>2 DEF AccountInfo
  <1>4. /\ update_account(a, old, final)
        /\ block' = block_del(h)
        /\ frontier' = IF exists(previous) /\ is_legacy(previous)
                       THEN [frontier EXCEPT ![previous] = a] ELSE frontier
    BY <1>1 DEF rollback_state_end
  <1> HIDE DEF final
  <1>5. /\ Removed(h, a)
        /\ block' \in [Hash -> Sideband \cup {None}]
        /\ account' \in [Account -> AccountInfo]
    <2>1. final.head = content[h].previous
      BY Zenon, <1>3
    <2>2. content[h].previous # Zero => /\ final.block_count = account[a].block_count - 1
                                        /\ final.balance = balance_of(content[h].previous)
      BY Zenon, <1>3
    <2> HIDE DEF previous
    <2> QED
      BY Zenon, <1>3, <1>4, <2>1, <2>2, BlockRemoved
  <1>6. frontier[h] = Zero
    BY SMTT(30), <1>1 DEF IInv, TypeOK, FrontierMatchesHead
  <1>7. /\ frontier' \in [Hash -> Account \cup {Zero}]
        /\ frontier'[h] = Zero
        /\ \A x \in Hash : x # h /\ x # previous => frontier'[x] = frontier[x]
    <2>1. frontier \in [Hash -> Account \cup {Zero}]
      BY Zenon, <1>1 DEF TypeOK
    <2> QED
      BY Zenon, <2>1, <1>4, <1>6 DEF exists
  <1>8. /\ previous # Zero /\ is_legacy(previous) => frontier'[previous] = a
        /\ previous # Zero /\ ~is_legacy(previous) => frontier'[previous] = frontier[previous]
    BY Zenon, <1>1, <1>4 DEF TypeOK
  <1>9. FrontierMatchesHead'
    BY ZenonT(40), <1>1, <1>5, <1>7, <1>8, RemovedFrontier DEF IInv
  <1> QED
    BY Zenon, <1>5, <1>7, <1>9

LEMMA RollbackState ==
    ASSUME IInv, rollback_state
    PROVE  IInv'
  <1>1. /\ TypeOK /\ StoreInv /\ StackInv /\ looping
        /\ top.height > confirmation_height[top.account].height
        /\ UNCHANGED <<confirmation_height, pruned, prune_hash, calls>>
        /\ list' \in Seq(Hash)
    BY Zenon, VisitedBlock DEF rollback_state
  <1>2. PICK h \in Hash, a \in Account :
            /\ h = visited /\ a = top.account /\ content[h].type = "state"
            /\ exists(h) /\ owner[h] = a /\ account_of(h) = a /\ account[a].head = h
            /\ height_of(h) > confirmation_height[a].height
            /\ content[h].previous \in Hash \cup {Zero}
            /\ content[h].previous # h
            /\ content[h].previous # Zero => content[h].previous \in Hash /\ exists(content[h].previous)
            /\ account[a].block_count - 1 \in Nat
    BY Zenon, VisitedBlock DEF rollback_state
  <1> DEFINE previous == content[h].previous
             link == content[h].link
             new == state_previous_info(h, account[a])
  <1>3. content[h].account = a /\ Zero \notin Hash /\ content[h].balance \in Amount
        /\ balance(content[h].previous) \in Amount
    BY Zenon, <1>1, <1>2, OwnerAssumption, ContentType, AmountMoved
  <1>4. /\ content[h].balance >= balance(previous)
        /\ rollback_state_representative(h)
        /\ rollback_state_end(h, account[a], new)
        /\ pending' = IF link # Zero /\ ~is_epoch_link(link)
                      THEN [pending EXCEPT ![<<a, link>>] =
                               [source |-> account_safe(link),
                                amount |-> content[h].balance - balance(previous),
                                epoch |-> block[h].source_epoch]]
                      ELSE pending
    BY Zenon, <1>2, <1>3 DEF rollback_state
  <1>5. /\ new \in AccountInfo /\ new.head = previous /\ new.block_count = account[a].block_count - 1
        /\ new.balance = balance(previous)
    BY Zenon, <1>2, <1>3, <1>4, StatePreviousInfo
  <1>6. previous # Zero => balance(previous) = balance_of(previous)
    BY Zenon DEF balance
  <1> HIDE DEF new
  <1>7. /\ Removed(h, a)
        /\ block' \in [Hash -> Sideband \cup {None}]
        /\ account' \in [Account -> AccountInfo]
        /\ frontier' \in [Hash -> Account \cup {Zero}]
        /\ FrontierMatchesHead'
    BY Zenon, <1>1, <1>2, <1>4, <1>5, <1>6, StateRemoved
  <1>8. ~is_send(h) /\ ~block[h].is_send
    <2>1. CASE previous = Zero
      BY Zenon, <2>1, <1>1, <1>2 DEF StoreInv, BlockInv, is_send
    <2>2. CASE previous # Zero
      <3>1. content[h].balance \in Nat /\ balance(previous) \in Nat
        BY Zenon, <1>2, <1>3, AmountType
      <3>2. ~(content[h].balance < balance(previous))
        BY SMTT(30), <3>1, <1>4
      <3>3. block[h].is_send <=> content[h].balance < balance_of(previous)
        BY Zenon, <2>2, <1>1, <1>2 DEF StoreInv, BlockInv
      <3> QED
        BY Zenon, <3>2, <3>3, <2>2, <1>2, <1>6 DEF is_send
    <2> QED
      BY Zenon, <2>1, <2>2
  <1>9. /\ pending' \in [Word \X Hash -> PendingInfo \cup {None}]
        /\ ReceiveUndone(h, a) \/ NothingUndone(h)
    <2>1. CASE link # Zero /\ ~is_epoch_link(link)
      <3> DEFINE v == content[h].balance - balance(previous)
      <3>1. v \in Amount
        <4>1. content[h].balance \in Nat /\ balance(previous) \in Nat
          BY Zenon, <1>2, <1>3, AmountType
        <4>2. ~(content[h].balance < balance(previous))
          BY <4>1, <1>4
        <4> QED
          BY Zenon, <4>2, <1>2, <1>3, AmountType
      <3>2. block[h].source_epoch \in Epoch
        BY Zenon, <1>1, <1>2, SidebandType
      <3>3. source_of(h) = link
        BY <2>1, <1>2, <1>8 DEF source_of
      <3>4. pending' = [pending EXCEPT ![<<a, link>>] =
                           [source |-> account_safe(link), amount |-> v, epoch |-> block[h].source_epoch]]
        BY Zenon, <2>1, <1>4
      <3> HIDE DEF v
      <3> QED
        BY Zenon, <3>1, <3>2, <3>3, <3>4, <1>2, <1>8, PendingRestored
    <2>2. CASE ~(link # Zero /\ ~is_epoch_link(link))
      <3>1. pending' = pending
        BY <2>2, <1>4
      <3>2. source_of(h) = Zero
        BY <2>2, <1>2 DEF source_of
      <3> QED
        BY Zenon, <3>1, <3>2, <1>1, <1>8 DEF NothingUndone, TypeOK
    <2> QED
      BY Zenon, <2>1, <2>2
  <1>10. TypeOK'
    BY Zenon, <1>1, <1>7, <1>9 DEF TypeOK
  <1> QED
    BY Zenon, <1>1, <1>2, <1>7, <1>9, <1>10, RemovedVisited

\* The send h that the innermost call is about to undo is the head of its account a
LEMMA WaitingSend ==
    ASSUME IInv, calls # <<>>, top.visiting # Zero
    PROVE  \E h \in Hash, a \in Account, n \in Nat :
              /\ h = top.visiting /\ a = top.account /\ n = Len(calls) /\ n \in DOMAIN calls /\ top = calls[n]
              /\ exists(h) /\ is_send(h) /\ owner[h] = a /\ account[a].head = h
              /\ height_of(h) > confirmation_height[a].height
              /\ content[h].previous \in Hash /\ content[h].previous # h /\ exists(content[h].previous)
              /\ account[a].block_count - 1 \in Nat
              /\ VisitingInv(top)
              /\ top.error = FALSE
              /\ n > 1 => top.target = h
              /\ \A j \in DOMAIN calls : j < n => rank[calls[j].visiting] < rank[h]
  <1>1. TypeOK /\ StoreInv /\ StackInv
    BY DEF IInv
  <1>2. /\ Len(calls) \in DOMAIN calls /\ Len(calls) \in Nat /\ top = calls[Len(calls)]
        /\ DOMAIN calls = 1..Len(calls)
    BY Zenon, <1>1, TopType
  <1>3. PICK n \in Nat : n = Len(calls) /\ n \in DOMAIN calls /\ top = calls[n] /\ DOMAIN calls = 1..n
    BY Zenon, <1>2
  <1>4. PICK h \in Hash, a \in Account : h = top.visiting /\ a = top.account
    BY <1>1, <1>3, CallType
  <1>5. CallInv(top) /\ top.error = FALSE
    <2>1. CallInv(top)
      BY Zenon, <1>1, <1>3 DEF StackInv
    <2>2. top.error \in BOOLEAN /\ (top.error => top.visiting = Zero)
      BY <2>1, <1>1, <1>3, CallType DEF CallInv
    <2> QED
      BY <2>1, <2>2
  <1>6. VisitingInv(top) /\ exists(top.target)
    BY Zenon, <1>5 DEF CallInv
  <1>7. exists(h) /\ is_send(h) /\ account[a].head = h /\ height_of(h) > confirmation_height[a].height
    BY Zenon, <1>4, <1>6 DEF VisitingInv
  <1>8. owner[h] = a
    BY Zenon, <1>1, <1>7 DEF StoreInv, AccountInv
  <1>9. content[h].previous \in Hash /\ content[h].previous # h /\ exists(content[h].previous)
    <2>1. content[h].previous \in Hash \cup {Zero} /\ Zero \notin Hash
      BY ContentType
    <2>2. content[h].previous # Zero
      <3>1. CASE content[h].type = "send"
        BY Zenon, <3>1, <2>1, ContentAssumption
      <3>2. CASE content[h].type = "state"
        BY Zenon, <3>2, <1>1, <1>7 DEF StoreInv, BlockInv, is_send
      <3> QED
        BY Zenon, <3>1, <3>2, <1>7 DEF is_send
    <2>3. content[h].previous # h
      BY SMTT(30), <2>2, HashAssumption
    <2> QED
      BY Zenon, <2>1, <2>2, <2>3, <1>1, <1>7, <1>8 DEF StoreInv, BlockInv
  <1>10. account[a].block_count - 1 \in Nat
    BY SMTT(30), <1>1, <1>7, <1>8, AccountType, SidebandType DEF StoreInv, AccountInv, BlockInv,
       height_of, exists
  <1>11. n > 1 => top.target = h
    <2> SUFFICES ASSUME n > 1 PROVE top.target = h
      BY Zenon
    <2>1. NestedInv(top, calls[n - 1].visiting)
      BY <1>1, <1>3 DEF StackInv
    <2>2. top.target \in Hash
      BY Zenon, <1>1, <1>3, CallType
    <2> QED
      BY Zenon, <2>1, <2>2, <1>4, <1>6, <1>7 DEF NestedInv
  <1>12. \A j \in DOMAIN calls : j < n => rank[calls[j].visiting] < rank[h]
    BY <1>1, <1>3, <1>4 DEF StackInv
  <1> QED
    BY Zenon, <1>3, <1>4, <1>5, <1>6, <1>7, <1>8, <1>9, <1>10, <1>11, <1>12

\* What a step needs that undoes the send the innermost call has waited for
LEMMA RemovedWaiting ==
    ASSUME IInv, NEW h \in Hash, NEW a \in Account, NEW n \in Nat,
           n = Len(calls), n \in DOMAIN calls, calls[n].account = a,
           n > 1 => calls[n].target = h,
           \A j \in DOMAIN calls : j < n => rank[calls[j].visiting] < rank[h],
           Removed(h, a), SendUndone(h),
           calls' \in Seq(Call), Len(calls') = n,
           \A j \in 1..n : j < n => calls'[j] = calls[j],
           calls'[n].target = calls[n].target, calls'[n].account = a, calls'[n].height = calls[n].height,
           calls'[n].visiting = Zero, calls'[n].error = FALSE,
           block' \in [Hash -> Sideband \cup {None}],
           account' \in [Account -> AccountInfo],
           frontier' \in [Hash -> Account \cup {Zero}],
           FrontierMatchesHead',
           list' = list
    PROVE  IInv'
  <1>1. TypeOK
    BY Zenon DEF IInv
  <1>2. pending' \in [Word \X Hash -> PendingInfo \cup {None}]
    <2>1. content[h].link \in Word
      BY Zenon, ContentType
    <2> QED
      BY Zenon, <1>1, <2>1, PendingUpdate DEF SendUndone
  <1>3. TypeOK'
    BY Zenon, <1>1, <1>2 DEF TypeOK, Removed
  <1> QED
    BY Zenon, <1>3, RemovedInv

LEMMA RollbackSendFinish ==
    ASSUME IInv, rollback_send_finish
    PROVE  IInv'
  <1>0. /\ calls # <<>> /\ top.visiting # Zero
        /\ UNCHANGED <<confirmation_height, pruned, list, prune_hash>>
    BY Zenon DEF rollback_send_finish
  <1>1. PICK h \in Hash, a \in Account, n \in Nat :
            /\ h = top.visiting /\ a = top.account /\ n = Len(calls) /\ n \in DOMAIN calls /\ top = calls[n]
            /\ exists(h) /\ is_send(h) /\ owner[h] = a /\ account[a].head = h
            /\ height_of(h) > confirmation_height[a].height
            /\ content[h].previous \in Hash /\ content[h].previous # h /\ exists(content[h].previous)
            /\ account[a].block_count - 1 \in Nat
            /\ top.error = FALSE
            /\ n > 1 => top.target = h
            /\ \A j \in DOMAIN calls : j < n => rank[calls[j].visiting] < rank[h]
    BY ZenonT(40), <1>0, WaitingSend
  <1> DEFINE previous == content[h].previous
             key == <<content[h].link, h>>
             new == new_account_info(previous, account[a].representative, account[a].open_block,
                                     balance(previous), account[a].block_count - 1, 0)
             c == [calls[n] EXCEPT !.visiting = Zero]
  <1>2. TypeOK /\ Zero \notin Hash /\ content[h].type = "send" /\ visiting_key = key /\ content[h].link \in Word
    BY Zenon, <1>1, ContentType DEF IInv, rollback_send_finish, visiting_key
  <1>3. pending_exists(key)
    BY Zenon, <1>1, <1>2 DEF rollback_send_finish
  <1>4. pending[key].source = a
    BY Zenon, <1>1, <1>2, <1>3 DEF IInv, StoreInv, PendingInv
  <1>5. /\ pending' = [pending EXCEPT ![key] = None]
        /\ update_account(a, account[a], new)
        /\ block' = block_del(h)
        /\ frontier' = [frontier EXCEPT ![h] = Zero, ![previous] = a]
    BY Zenon, <1>1, <1>2, <1>4 DEF rollback_send_finish
  <1>6. calls' = [calls EXCEPT ![n] = c]
    BY Zenon, <1>1 DEF rollback_send_finish
  <1>7. /\ new \in AccountInfo /\ new.head = previous /\ new.block_count = account[a].block_count - 1
        /\ new.balance = balance_of(previous)
    <2>1. balance(previous) \in Amount /\ balance(previous) = balance_of(previous)
      BY ZenonT(40), <1>1, <1>2, BalanceType
    <2>2. account[a].representative \in Account \cup {Zero} /\ account[a].open_block \in Hash \cup {Zero}
      BY Zenon, <1>2, AccountType
    <2>3. 0 \in Epoch /\ previous \in Hash \cup {Zero} /\ account[a].block_count - 1 \in Nat
      BY <1>1 DEF Epoch
    <2>4. new \in AccountInfo /\ new.head = previous /\ new.block_count = account[a].block_count - 1
          /\ new.balance = balance(previous)
      BY <2>1, <2>2, <2>3 DEF new_account_info, AccountInfo
    <2> QED
      BY Zenon, <2>1, <2>4
  <1> HIDE DEF new
  <1>8. /\ Removed(h, a)
        /\ block' \in [Hash -> Sideband \cup {None}]
        /\ account' \in [Account -> AccountInfo]
    BY Zenon, <1>0, <1>1, <1>5, <1>7, BlockRemoved
  <1>9. SendUndone(h)
    BY Zenon, <1>1, <1>3, <1>5 DEF SendUndone
  <1>10. /\ frontier' \in [Hash -> Account \cup {Zero}] /\ frontier'[h] = Zero /\ frontier'[previous] = a
         /\ \A x \in Hash : x # h /\ x # previous => frontier'[x] = frontier[x]
    BY Zenon, <1>1, <1>2, <1>5 DEF TypeOK
  <1>11. FrontierMatchesHead'
    <2>1. is_legacy(previous)
      <3>1. is_legacy(h)
        BY <1>2 DEF is_legacy, Legacy
      <3> QED
        BY ZenonT(40), <3>1, <1>1, <1>2 DEF IInv, LegacyInv
    <2> QED
      BY SMTT(30), <2>1, <1>2, <1>8, <1>10, RemovedFrontier DEF IInv
  <1>12. /\ c \in Call /\ c.target = top.target /\ c.account = top.account /\ c.height = top.height
         /\ c.visiting = Zero /\ c.error = FALSE
    BY <1>1, <1>2, CallType DEF Call
  <1> HIDE DEF c
  <1>13. /\ calls' \in Seq(Call) /\ Len(calls') = n /\ calls'[n] = c
         /\ \A j \in 1..n : j < n => calls'[j] = calls[j]
    BY Zenon, <1>1, <1>2, <1>6, <1>12, TopReplaced
  <1>14. /\ calls'[n].target = calls[n].target /\ calls'[n].account = a /\ calls'[n].height = calls[n].height
         /\ calls'[n].visiting = Zero /\ calls'[n].error = FALSE
         /\ calls[n].account = a
         /\ n > 1 => calls[n].target = h
    BY Zenon, <1>1, <1>12, <1>13
  <1> QED
    BY Zenon, <1>0, <1>1, <1>8, <1>9, <1>10, <1>11, <1>13, <1>14, RemovedWaiting

LEMMA RollbackStateSendFinish ==
    ASSUME IInv, rollback_state_send_finish
    PROVE  IInv'
  <1>0. /\ calls # <<>> /\ top.visiting # Zero
        /\ UNCHANGED <<confirmation_height, pruned, list, prune_hash>>
    BY Zenon DEF rollback_state_send_finish
  <1>1. PICK h \in Hash, a \in Account, n \in Nat :
            /\ h = top.visiting /\ a = top.account /\ n = Len(calls) /\ n \in DOMAIN calls /\ top = calls[n]
            /\ exists(h) /\ is_send(h) /\ owner[h] = a /\ account[a].head = h
            /\ height_of(h) > confirmation_height[a].height
            /\ content[h].previous \in Hash /\ content[h].previous # h /\ exists(content[h].previous)
            /\ VisitingInv(top)
            /\ top.error = FALSE
            /\ n > 1 => top.target = h
            /\ \A j \in DOMAIN calls : j < n => rank[calls[j].visiting] < rank[h]
    BY ZenonT(40), <1>0, WaitingSend
  <1> DEFINE previous == content[h].previous
             key == <<content[h].link, h>>
             c == [calls[n] EXCEPT !.visiting = Zero, !.error = FALSE]
  <1>2. TypeOK /\ Zero \notin Hash /\ content[h].type = "state" /\ visiting_key = key
    BY <1>1, ContentType DEF IInv, rollback_state_send_finish, visiting_key
  <1>3. /\ pending_exists(key)
        /\ pending' = [pending EXCEPT ![key] = None]
        /\ rollback_state_end(h, top.info, top.new_info)
    BY <1>1, <1>2 DEF rollback_state_send_finish
  <1>4. calls' = [calls EXCEPT ![n] = c]
    BY Zenon, <1>1 DEF rollback_state_send_finish
  <1>5. /\ top.new_info \in AccountInfo
        /\ top.new_info.head = previous
        /\ top.new_info.balance = balance_of(previous)
        /\ top.new_info.block_count = account[a].block_count - 1
    <2>1. balance(previous) = balance_of(previous)
      BY <1>1, <1>2 DEF balance
    <2> QED
      BY ZenonT(40), <2>1, <1>1, <1>2, CallType DEF VisitingInv
  <1>6. PICK new \in AccountInfo : new = top.new_info
    BY Zenon, <1>5
  <1>7. /\ Removed(h, a)
        /\ block' \in [Hash -> Sideband \cup {None}]
        /\ account' \in [Account -> AccountInfo]
        /\ frontier' \in [Hash -> Account \cup {Zero}]
        /\ FrontierMatchesHead'
    BY Zenon, <1>0, <1>1, <1>2, <1>3, <1>5, <1>6, StateRemoved
  <1>8. SendUndone(h)
    BY Zenon, <1>1, <1>3 DEF SendUndone
  <1>9. /\ c \in Call /\ c.target = top.target /\ c.account = top.account /\ c.height = top.height
        /\ c.visiting = Zero /\ c.error = FALSE
    BY Zenon, <1>1, <1>2, CallType DEF Call
  <1> HIDE DEF c
  <1>10. /\ calls' \in Seq(Call) /\ Len(calls') = n /\ calls'[n] = c
         /\ \A j \in 1..n : j < n => calls'[j] = calls[j]
    BY Zenon, <1>1, <1>2, <1>4, <1>9, TopReplaced
  <1>11. /\ calls'[n].target = calls[n].target /\ calls'[n].account = a /\ calls'[n].height = calls[n].height
         /\ calls'[n].visiting = Zero /\ calls'[n].error = FALSE
         /\ calls[n].account = a
         /\ n > 1 => calls[n].target = h
    BY Zenon, <1>1, <1>9, <1>10
  <1> QED
    BY Zenon, <1>0, <1>1, <1>7, <1>8, <1>10, <1>11, RemovedWaiting

=============================================================================
