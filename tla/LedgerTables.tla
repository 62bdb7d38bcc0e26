----------------------------- MODULE LedgerTables -----------------------------
(***************************************************************************)
(* Proofs about the tables: the types of their entries, what adding and    *)
(* removing a block keeps, and that the operations which touch one table   *)
(* (cementing, pruning), a restart and the initial state keep IInv.        *)
(***************************************************************************)
EXTENDS LedgerInvariants, TLAPS

-----------------------------------------------------------------------------
(* Types                                                                   *)

LEMMA ContentType ==
    ASSUME NEW h \in Hash
    PROVE  /\ content[h].type \in Legacy \cup {"state"}
           /\ content[h].previous \in Hash \cup {Zero}
           /\ content[h].account \in Account \cup {Zero}
           /\ content[h].link \in Word
           /\ content[h].representative \in Account \cup {Zero}
           /\ content[h].balance \in Amount
           /\ Zero \notin Account /\ Zero \notin Hash /\ None \notin Sideband /\ None \notin PendingInfo
           /\ content[h].type \in {"send", "receive", "change"} =>
                 content[h].account = Zero /\ content[h].previous \in Hash
           /\ content[h].type = "open" => content[h].previous = Zero
  BY ContentAssumption DEF Content

LEMMA SidebandType ==
    ASSUME TypeOK, NEW h \in Hash, exists(h)
    PROVE  /\ block[h] \in Sideband
           /\ block[h].height \in Nat
           /\ block[h].account \in Account \cup {Zero}
           /\ block[h].balance \in Amount
           /\ block[h].epoch \in Epoch
           /\ block[h].source_epoch \in Epoch
           /\ block[h].is_send \in BOOLEAN
  BY DEF TypeOK, exists, Sideband

LEMMA AccountType ==
    ASSUME TypeOK, NEW a \in Account
    PROVE  /\ account[a] \in AccountInfo
           /\ account[a].head \in Hash \cup {Zero}
           /\ account[a].representative \in Account \cup {Zero}
           /\ account[a].open_block \in Hash \cup {Zero}
           /\ account[a].balance \in Amount
           /\ account[a].block_count \in Nat
           /\ account[a].epoch \in Epoch
           /\ confirmation_height[a].height \in Nat
  BY DEF TypeOK, AccountInfo, ConfirmationHeightInfo

LEMMA AmountType ==
    /\ UInt128Max \in Nat
    /\ Modulus \in Nat \ {0}
    /\ \A x \in Int : x % Modulus \in Amount
    /\ \A x, y \in Amount : ~(x < y) => x - y \in Amount
    /\ \A x, y \in Amount : (x + y) % Modulus \in Amount
    /\ Amount \subseteq Nat
    /\ 0 \in Amount
  BY ContentAssumption DEF Amount, Modulus

\* The sideband of a legacy block
LEMMA LegacySideband ==
    ASSUME NEW a \in Account, NEW n \in Nat, NEW v \in Amount
    PROVE  /\ legacy_sideband(a, v, n) \in Sideband
           /\ legacy_sideband(a, v, n).height = n
           /\ legacy_sideband(a, v, n).account = a
           /\ legacy_sideband(a, v, n).balance = v
  BY DEF legacy_sideband, Sideband, Epoch

LEMMA BalanceType ==
    ASSUME TypeOK, NEW h \in Hash, exists(h)
    PROVE  balance_of(h) \in Amount /\ balance(h) = balance_of(h)
  BY Zenon, ContentType, SidebandType DEF balance_of, balance

-----------------------------------------------------------------------------
(* The block table                                                         *)

\* Block x stays in the store as it is, but for its successor.
Kept(x) ==
    /\ exists(x)'
    /\ height_of(x)' = height_of(x)
    /\ account_of(x)' = account_of(x)
    /\ balance_of(x)' = balance_of(x)
    /\ is_send(x)' = is_send(x)
    /\ source_of(x)' = source_of(x)
    /\ block'[x].is_send = block[x].is_send

LEMMA KeptBlock ==
    ASSUME TypeOK, NEW x \in Hash, exists(x),
           NEW s \in Hash \cup {Zero},
           block'[x] = block[x] \/ block'[x] = [block[x] EXCEPT !.successor = s]
    PROVE  Kept(x) /\ block'[x] \in Sideband
  <1>1. block[x] \in Sideband
    BY Zenon, SidebandType
  <1>2. /\ block'[x] \in Sideband
        /\ block'[x].height = block[x].height
        /\ block'[x].account = block[x].account
        /\ block'[x].balance = block[x].balance
        /\ block'[x].is_send = block[x].is_send
    BY <1>1 DEF Sideband
  <1>3. exists(x)'
    BY <1>2, ContentType DEF exists
  <1>4. height_of(x)' = height_of(x) /\ account_of(x)' = account_of(x) /\ balance_of(x)' = balance_of(x)
    BY <1>2 DEF height_of, account_of, balance_of
  <1>5. is_send(x)' = is_send(x) /\ source_of(x)' = source_of(x)
    BY <1>2 DEF is_send, source_of, is_epoch_link
  <1> QED
    BY <1>2, <1>3, <1>4, <1>5 DEF Kept

LEMMA BlockPut ==
    ASSUME TypeOK, NEW h \in Hash, ~exists(h), NEW sideband \in Sideband,
           content[h].previous = Zero \/ exists(content[h].previous),
           block' = block_put(h, sideband)
    PROVE  /\ block' \in [Hash -> Sideband \cup {None}]
           /\ block'[h] = sideband
           /\ exists(h)'
           /\ \A x \in Hash : exists(x)' <=> exists(x) \/ x = h
           /\ \A x \in Hash : exists(x) => Kept(x)
  <1>1. content[h].previous # h /\ h \in Hash \cup {Zero}
    BY HashAssumption, ContentType
  <1>2. block'[h] = sideband /\ sideband # None
    BY ContentType DEF block_put
  <1>3. ASSUME NEW x \in Hash, exists(x) PROVE Kept(x) /\ block'[x] \in Sideband
    <2>1. x # h
      BY Zenon, <1>3
    <2>2. block'[x] = block[x] \/ block'[x] = [block[x] EXCEPT !.successor = h]
      BY <2>1 DEF block_put
    <2> QED
      BY Zenon, <2>2, <1>3, KeptBlock
  <1>4. ASSUME NEW x \in Hash, ~exists(x), x # h PROVE block'[x] = None
    BY <1>4, ContentType DEF block_put, exists
  <1>5. \A x \in Hash : exists(x)' <=> exists(x) \/ x = h
    BY <1>2, <1>3, <1>4 DEF exists, Kept
  <1>6. block' \in [Hash -> Sideband \cup {None}]
    <2>1. block' = [x \in Hash |-> block'[x]]
      BY DEF block_put
    <2> QED
      BY Zenon, <2>1, <1>2, <1>3, <1>4
  <1> QED
    BY Zenon, <1>2, <1>3, <1>5, <1>6

LEMMA BlockDel ==
    ASSUME TypeOK, NEW h \in Hash,
           block' = block_del(h)
    PROVE  /\ block' \in [Hash -> Sideband \cup {None}]
           /\ \A x \in Hash : exists(x)' <=> exists(x) /\ x # h
           /\ \A x \in Hash : exists(x) /\ x # h => Kept(x)
  <1>1. block'[h] = None
    BY DEF block_del
  <1>2. ASSUME NEW x \in Hash, exists(x), x # h PROVE Kept(x) /\ block'[x] \in Sideband
    <2>1. block'[x] = block[x] \/ block'[x] = [block[x] EXCEPT !.successor = Zero]
      BY <1>2 DEF block_del
    <2> QED
      BY Zenon, <2>1, <1>2, KeptBlock
  <1>3. ASSUME NEW x \in Hash, ~exists(x) PROVE block'[x] = None
    BY <1>3 DEF block_del, exists
  <1>4. \A x \in Hash : exists(x)' <=> exists(x) /\ x # h
    BY <1>1, <1>2, <1>3 DEF exists, Kept
  <1>5. block' \in [Hash -> Sideband \cup {None}]
    <2>1. block' = [x \in Hash |-> block'[x]]
      BY DEF block_del
    <2> QED
      BY Zenon, <2>1, <1>1, <1>2, <1>3
  <1> QED
    BY Zenon, <1>2, <1>4, <1>5

LEMMA KeptConfirmed ==
    ASSUME NEW x \in Hash, exists(x) => Kept(x), exists(x)' => exists(x),
           UNCHANGED <<confirmation_height, pruned>>
    PROVE  block_confirmed(x)' <=> block_confirmed(x)
  BY Zenon DEF Kept, block_confirmed

LEMMA SendHasNoSource ==
    ASSUME NEW h \in Hash, is_send(h)
    PROVE  source_of(h) = Zero
  BY DEF is_send, source_of

LEMMA SourceRank ==
    ASSUME NEW h \in Hash, source_of(h) \in Hash
    PROVE  source_of(h) = content[h].link /\ rank[source_of(h)] < rank[h]
  <1>1. source_of(h) # Zero
    BY ContentAssumption
  <1>2. source_of(h) = content[h].link
    BY <1>1 DEF source_of
  <1> QED
    BY <1>2, HashAssumption

LEMMA PendingUpdate ==
    ASSUME TypeOK, NEW w0 \in Word, NEW s0 \in Hash, NEW p \in PendingInfo \cup {None},
           pending' = [pending EXCEPT ![<<w0, s0>>] = p]
    PROVE  /\ pending' \in [Word \X Hash -> PendingInfo \cup {None}]
           /\ pending'[<<w0, s0>>] = p
           /\ \A w \in Word, s \in Hash : w # w0 \/ s # s0 => pending'[<<w, s>>] = pending[<<w, s>>]
  BY DEF TypeOK

-----------------------------------------------------------------------------
(* The stack of rollbacks and the accounts                                 *)

LEMMA CallType ==
    ASSUME TypeOK, NEW i \in DOMAIN calls
    PROVE  /\ Len(calls) \in Nat /\ i \in 1..Len(calls)
           /\ \A j \in 1..Len(calls) : j \in DOMAIN calls
           /\ calls[i] \in Call
           /\ calls[i].target \in Hash
           /\ calls[i].account \in Account
           /\ calls[i].height \in Nat
           /\ calls[i].visiting \in Hash \cup {Zero}
           /\ calls[i].info \in AccountInfo /\ calls[i].new_info \in AccountInfo
           /\ calls[i].error \in BOOLEAN
  <1>1. calls \in Seq(Call)
    BY DEF TypeOK
  <1>2. calls[i] \in Call
    BY <1>1
  <1>3. Len(calls) \in Nat /\ i \in 1..Len(calls) /\ \A j \in 1..Len(calls) : j \in DOMAIN calls
    BY <1>1
  <1>4. /\ calls[i].target \in Hash
        /\ calls[i].account \in Account
        /\ calls[i].height \in Nat
        /\ calls[i].visiting \in Hash \cup {Zero}
        /\ calls[i].info \in AccountInfo /\ calls[i].new_info \in AccountInfo
        /\ calls[i].error \in BOOLEAN
    BY <1>2 DEF Call
  <1> QED
    BY <1>2, <1>3, <1>4

LEMMA TopType ==
    ASSUME TypeOK, calls # <<>>
    PROVE  /\ Len(calls) \in DOMAIN calls /\ Len(calls) \in Nat /\ Len(calls) >= 1
           /\ DOMAIN calls = 1..Len(calls)
           /\ top = calls[Len(calls)]
  BY DEF TypeOK, top

LEMMA UpdateAccount ==
    ASSUME TypeOK, NEW a \in Account, NEW old, NEW new \in AccountInfo, update_account(a, old, new)
    PROVE  /\ account' \in [Account -> AccountInfo]
           /\ new.head # Zero => account'[a] = new
           /\ new.head = Zero => account'[a] = account_info
           /\ \A b \in Account : b # a => account'[b] = account[b]
  <1>1. account_info \in AccountInfo
    BY AmountType DEF account_info, AccountInfo, Epoch
  <1>2. account \in [Account -> AccountInfo]
    BY DEF TypeOK
  <1> QED
    BY <1>1, <1>2 DEF update_account

LEMMA UnopenedAccount ==
    ASSUME StoreInv, NEW a \in Account, account[a].head = Zero
    PROVE  account[a].block_count = 0 /\ account[a].balance = 0
  <1>1. account[a] = account_info
    BY Zenon DEF StoreInv, AccountInv
  <1> QED
    BY <1>1 DEF account_info

LEMMA UnchangedStore ==
    ASSUME IInv, UNCHANGED <<block, account, pending, frontier, confirmation_height, pruned>>,
           TypeOK', PruneInv', StackInv'
    PROVE  IInv'
  <1>1. AccountInv' /\ BlockInv' /\ OrderInv' /\ ConfirmationInv'
    BY SMTT(30) DEF IInv, StoreInv, AccountInv, BlockInv, OrderInv, ConfirmationInv, exists, height_of, account_of,
           balance_of
  <1>2. PendingInv' /\ SourceInv' /\ ReceivedInv'
    BY SMTT(30) DEF IInv, StoreInv, PendingInv, SourceInv, ReceivedInv, exists, height_of, account_of, is_send,
           source_of, pending_exists, block_confirmed, block_or_pruned_exists
  <1>3. LegacyInv' /\ FrontierMatchesHead'
    BY DEF IInv, LegacyInv, FrontierMatchesHead, exists, is_legacy, balance_of
  <1> QED
    BY Zenon, <1>1, <1>2, <1>3 DEF IInv, StoreInv

LEMMA UnchangedCall ==
    ASSUME UNCHANGED <<block, account, pending, frontier, confirmation_height, pruned>>, NEW c \in Call
    PROVE  /\ VisitingInv(c)' <=> VisitingInv(c)
           /\ \A s \in Hash : NestedInv(c, s)' <=> NestedInv(c, s)
           /\ \A x \in Hash : (exists(x)' <=> exists(x)) /\ height_of(x)' = height_of(x)
  BY DEF VisitingInv, NestedInv, exists, height_of, is_send, balance, balance_of, pending_exists

\* While a rollback runs nothing is pruned
LEMMA NoPruning ==
    ASSUME IInv, calls # <<>>, prune_hash' = prune_hash
    PROVE  PruneInv' /\ prune_hash = Zero
  <1>1. prune_hash = Zero /\ Zero \notin Hash
    BY ContentType DEF IInv, PruneInv
  <1> QED
    BY <1>1 DEF PruneInv

-----------------------------------------------------------------------------
(* The operations on one table, a restart and the initial state            *)

LEMMA Cement ==
    ASSUME IInv, NEW h \in Hash, cement(h)
    PROVE  IInv'
  <1>1. /\ TypeOK /\ StoreInv /\ Zero \notin Hash
        /\ calls = <<>> /\ prune_hash = Zero /\ exists(h) /\ dependents_confirmed(h)
        /\ height_of(h) = confirmation_height[account_of(h)].height + 1
        /\ confirmation_height' = [confirmation_height EXCEPT ![account_of(h)] =
                                      [height |-> height_of(h), frontier |-> h]]
        /\ UNCHANGED <<block, account, pending, frontier, pruned, calls, list, prune_hash>>
    BY ContentType DEF cement, idle, IInv
  <1>2. PICK a \in Account : a = account_of(h) /\ a = owner[h]
    BY Zenon, <1>1 DEF StoreInv, BlockInv
  <1>3. /\ height_of(h) \in Nat /\ height_of(h) <= account[a].block_count
        /\ \A b \in Account : confirmation_height[b].height \in Nat /\ account[b].block_count \in Nat
        /\ height_of(h) = confirmation_height[a].height + 1
    BY Zenon, <1>1, <1>2, SidebandType, AccountType DEF StoreInv, BlockInv, height_of
  <1>4. /\ confirmation_height' \in [Account -> ConfirmationHeightInfo]
        /\ confirmation_height'[a].height = height_of(h)
        /\ \A b \in Account : b # a => confirmation_height'[b] = confirmation_height[b]
    <2>1. confirmation_height \in [Account -> ConfirmationHeightInfo]
      BY <1>1 DEF TypeOK
    <2>2. [height |-> height_of(h), frontier |-> h] \in ConfirmationHeightInfo
      BY <1>3 DEF ConfirmationHeightInfo
    <2> QED
      BY <2>1, <2>2, <1>1, <1>2
  <1>5. \A b \in Account : /\ confirmation_height[b].height <= confirmation_height'[b].height
                           /\ confirmation_height'[b].height \in Nat
    BY <1>3, <1>4
  <1>6. \A x \in Hash : /\ exists(x)' <=> exists(x)
                        /\ height_of(x)' = height_of(x) /\ account_of(x)' = account_of(x)
                        /\ balance_of(x)' = balance_of(x) /\ is_send(x)' = is_send(x)
                        /\ source_of(x)' = source_of(x)
    BY <1>1 DEF exists, height_of, account_of, balance_of, is_send, source_of
  <1>7. \A x \in Hash : exists(x) => account_of(x) \in Account /\ height_of(x) \in Nat
    BY Zenon, <1>1, SidebandType DEF StoreInv, BlockInv, height_of
  <1>8. \A x \in Hash : block_confirmed(x) => block_confirmed(x)'
    <2> SUFFICES ASSUME NEW x \in Hash, block_confirmed(x) PROVE block_confirmed(x)'
      OBVIOUS
    <2>1. CASE x \in pruned
      BY <2>1, <1>1 DEF block_confirmed
    <2>2. CASE exists(x) /\ confirmation_height[account_of(x)].height >= height_of(x)
      <3>1. confirmation_height'[account_of(x)].height >= height_of(x)
        <4>1. PICK b \in Account, k \in Nat : b = account_of(x) /\ k = height_of(x)
          BY Zenon, <2>2, <1>7
        <4>2. confirmation_height[b].height >= k
          BY <4>1, <2>2
        <4>3. confirmation_height'[b].height >= k
          BY <4>2, <1>3, <1>5
        <4> QED
          BY <4>1, <4>3
      <3> QED
        BY Zenon, <3>1, <2>2, <1>6 DEF block_confirmed
    <2> QED
      BY Zenon, <2>1, <2>2 DEF block_confirmed
  <1>9. ASSUME NEW x \in Hash, exists(x), block_confirmed(x)', ~block_confirmed(x) PROVE x = h
    <2>1. x \notin pruned /\ ~(confirmation_height[account_of(x)].height >= height_of(x))
      BY <1>9 DEF block_confirmed
    <2>2. confirmation_height'[account_of(x)].height >= height_of(x)
      BY Zenon, <2>1, <1>1, <1>6, <1>9 DEF block_confirmed
    <2>3. account_of(x) = a
      BY Zenon, <2>1, <2>2, <1>4, <1>7, <1>9
    <2>4. height_of(x) = height_of(h)
      <3>1. ~(confirmation_height[a].height >= height_of(x)) /\ height_of(h) >= height_of(x)
        BY <2>1, <2>2, <2>3, <1>4
      <3>2. height_of(x) \in Nat
        BY Zenon, <1>7, <1>9
      <3> QED
        BY <3>1, <3>2, <1>3
    <2>5. owner[x] = owner[h]
      BY Zenon, <2>3, <1>1, <1>2, <1>9 DEF StoreInv, BlockInv
    <2> SUFFICES ASSUME x # h PROVE FALSE
      OBVIOUS
    <2>6. height_of(x) <= height_of(h) /\ height_of(h) <= height_of(x)
      BY <2>4, <1>3
    <2>7. rank[x] < rank[h] /\ rank[h] < rank[x]
      BY Zenon, <2>5, <2>6, <1>1, <1>9 DEF StoreInv, OrderInv
    <2>8. rank[x] \in Nat /\ rank[h] \in Nat
      BY HashAssumption
    <2> QED
      BY <2>7, <2>8
  <1>10. AccountInv' /\ OrderInv' /\ ConfirmationInv' /\ PendingInv' /\ LegacyInv' /\ FrontierMatchesHead'
    <2>1. AccountInv'
      BY <1>1 DEF StoreInv, AccountInv, exists, height_of, balance_of
    <2>2. OrderInv'
      BY Zenon, <1>1, <1>6 DEF StoreInv, OrderInv
    <2>3. ConfirmationInv'
      BY <1>1, <1>3, <1>4 DEF StoreInv, ConfirmationInv
    <2>4. PendingInv'
      BY ZenonT(40), <1>1, <1>6 DEF StoreInv, PendingInv, pending_exists, block_or_pruned_exists
    <2>5. LegacyInv' /\ FrontierMatchesHead'
      BY <1>1 DEF IInv, LegacyInv, FrontierMatchesHead, is_legacy, exists, balance_of
    <2> QED
      BY Zenon, <2>1, <2>2, <2>3, <2>4, <2>5
  <1>11. BlockInv'
    <2> SUFFICES ASSUME NEW x \in Hash, exists(x), content[x].previous # Zero,
                        height_of(x) > confirmation_height'[owner[x]].height
                 PROVE  exists(content[x].previous)
      BY ZenonT(40), <1>1 DEF StoreInv, BlockInv, exists, height_of, account_of, balance_of
    <2>1. owner[x] \in Account
      BY Zenon, <1>1 DEF StoreInv, BlockInv
    <2>2. height_of(x) > confirmation_height[owner[x]].height
      <3>1. PICK b \in Account, k \in Nat : b = owner[x] /\ k = height_of(x)
        BY Zenon, <2>1, <1>7
      <3>2. k > confirmation_height[b].height
        BY <3>1, <1>3, <1>5
      <3> QED
        BY <3>1, <3>2
    <2> QED
      BY Zenon, <2>2, <1>1 DEF StoreInv, BlockInv
  <1>12. SourceInv'
    <2> SUFFICES ASSUME NEW x \in Hash, exists(x), NEW s \in Hash, source_of(x) = s, block_confirmed(x)'
                 PROVE  block_confirmed(s)'
      BY ZenonT(40), <1>1, <1>6 DEF StoreInv, SourceInv, pending_exists, block_or_pruned_exists
    <2>1. CASE block_confirmed(x)
      BY Zenon, <2>1, <1>1, <1>8 DEF StoreInv, SourceInv
    <2>2. CASE ~block_confirmed(x)
      <3>1. x = h
        BY Zenon, <2>2, <1>9
      <3>2. block_confirmed(s)
        BY <3>1, <1>1 DEF dependents_confirmed
      <3> QED
        BY <3>2, <1>8
    <2> QED
      BY <2>1, <2>2
  <1>13. ReceivedInv'
    BY Zenon, <1>1, <1>6, <1>8 DEF StoreInv, ReceivedInv, pending_exists
  <1>14. TypeOK' /\ PruneInv' /\ StackInv'
    BY SMTT(30), <1>1, <1>4 DEF TypeOK, PruneInv, StackInv
  <1> QED
    BY <1>10, <1>11, <1>12, <1>13, <1>14 DEF IInv, StoreInv

LEMMA PruningBegin ==
    ASSUME IInv, NEW h \in Hash, pruning_begin(h)
    PROVE  IInv'
  <1>1. /\ calls = <<>> /\ exists(h) /\ height_of(h) < confirmation_height[account_of(h)].height
        /\ prune_hash' = h
        /\ UNCHANGED <<block, account, pending, frontier, confirmation_height, pruned, calls, list>>
    BY DEF pruning_begin, idle, store
  <1>2. account_of(h) = owner[h]
    BY Zenon, <1>1 DEF IInv, StoreInv, BlockInv
  <1>3. PruneInv'
    BY <1>1, <1>2 DEF PruneInv, height_of
  <1>4. TypeOK' /\ StackInv'
    BY <1>1 DEF IInv, TypeOK, StackInv
  <1> QED
    BY Zenon, <1>1, <1>3, <1>4, UnchangedStore

\* A block below the confirmed frontier of its account is pruned.
LEMMA PrunedBlock ==
    ASSUME IInv, NEW h \in Hash, exists(h), prune_hash = h,
           block' = [block EXCEPT ![h] = None], pruned' = pruned \cup {h}, prune_hash' = content[h].previous,
           UNCHANGED <<account, pending, frontier, confirmation_height, calls, list>>
    PROVE  IInv'
  <1> USE DEF exists
  <1>1. TypeOK /\ StoreInv /\ Zero \notin Hash /\ calls = <<>>
        /\ height_of(h) < confirmation_height[owner[h]].height
    BY Zenon, ContentType DEF IInv, PruneInv
  <1>2. PICK a \in Account : a = owner[h] /\ account_of(h) = a
    BY <1>1 DEF StoreInv, BlockInv
  <1>3. /\ height_of(h) \in Nat /\ confirmation_height[a].height \in Nat /\ account[a].block_count \in Nat
        /\ confirmation_height[a].height <= account[a].block_count
    BY <1>1, <1>2, SidebandType, AccountType DEF StoreInv, ConfirmationInv, height_of
  <1>4. /\ block' \in [Hash -> Sideband \cup {None}]
        /\ \A x \in Hash : exists(x)' <=> exists(x) /\ x # h
        /\ \A x \in Hash : exists(x) /\ x # h => block'[x] = block[x]
    BY <1>1 DEF TypeOK
  <1>5. \A x \in Hash : exists(x) /\ x # h => Kept(x)
    BY ZenonT(40), <1>1, <1>4, ContentType, KeptBlock
  <1>6. \A x \in Hash : exists(x) => account_of(x) \in Account /\ height_of(x) \in Nat
    BY <1>1, SidebandType DEF StoreInv, BlockInv, height_of
  <1>7. AccountInv'
    <2> SUFFICES ASSUME NEW b \in Account, NEW x \in Hash, account[b].head = x
                 PROVE  /\ exists(x)' /\ owner[x] = b
                        /\ height_of(x)' = account[b].block_count /\ account[b].balance = balance_of(x)'
      BY SMTT(30), <1>1 DEF StoreInv, AccountInv
    <2>1. exists(x) /\ owner[x] = b /\ height_of(x) = account[b].block_count /\ account[b].balance = balance_of(x)
      BY <1>1 DEF StoreInv, AccountInv
    <2>2. x # h
      <3> SUFFICES ASSUME x = h PROVE FALSE
        OBVIOUS
      <3>1. b = a /\ height_of(h) = account[a].block_count
        BY <2>1, <1>2
      <3> QED
        BY <3>1, <1>1, <1>2, <1>3
    <2>3. Kept(x)
      BY <2>1, <2>2, <1>5
    <2> QED
      BY ZenonT(40), <2>1, <2>3 DEF Kept
  <1>8. BlockInv'
    <2> SUFFICES ASSUME NEW x \in Hash, exists(x), x # h
                 PROVE  LET previous == content[x].previous
                        IN  /\ x \notin pruned'
                            /\ owner[x] \in Account /\ account_of(x)' = owner[x]
                            /\ 1 <= height_of(x)' /\ height_of(x)' <= account'[owner[x]].block_count
                            /\ height_of(x)' = 1 <=> previous = Zero
                            /\ previous # Zero => exists(previous)' \/ previous \in pruned'
                            /\ previous # Zero /\ height_of(x)' > confirmation_height'[owner[x]].height =>
                                  exists(previous)'
                            /\ exists(previous)' =>
                                  owner[previous] = owner[x] /\ height_of(x)' = height_of(previous)' + 1
                            /\ content[x].type = "state" /\ exists(previous)' =>
                                  (block'[x].is_send <=> content[x].balance < balance_of(previous)')
                            /\ content[x].type = "state" /\ previous = Zero => ~block'[x].is_send
      BY ZenonT(40), <1>4 DEF BlockInv
    <2> DEFINE previous == content[x].previous
    <2>1. /\ x \notin pruned /\ owner[x] \in Account /\ account_of(x) = owner[x]
          /\ 1 <= height_of(x) /\ height_of(x) <= account[owner[x]].block_count
          /\ height_of(x) = 1 <=> previous = Zero
          /\ previous # Zero => exists(previous) \/ previous \in pruned
          /\ previous # Zero /\ height_of(x) > confirmation_height[owner[x]].height => exists(previous)
          /\ exists(previous) => owner[previous] = owner[x] /\ height_of(x) = height_of(previous) + 1
          /\ content[x].type = "state" /\ exists(previous) =>
                (block[x].is_send <=> content[x].balance < balance_of(previous))
          /\ content[x].type = "state" /\ previous = Zero => ~block[x].is_send
      BY Zenon, <1>1 DEF StoreInv, BlockInv
    <2>2. height_of(x)' = height_of(x) /\ account_of(x)' = account_of(x) /\ block'[x].is_send = block[x].is_send
      BY <1>5 DEF Kept
    <2>3. previous \in Hash \cup {Zero}
      BY Zenon, ContentType
    <2>4. exists(previous)' => /\ exists(previous) /\ height_of(previous)' = height_of(previous)
                               /\ balance_of(previous)' = balance_of(previous)
      BY Zenon, <1>4, <1>5 DEF Kept
    <2>5. previous # Zero => exists(previous)' \/ previous \in pruned'
      BY Zenon, <2>1, <2>3, <1>4
    <2>6. previous # Zero /\ height_of(x) > confirmation_height[owner[x]].height => exists(previous)'
      <3> SUFFICES ASSUME previous # Zero, height_of(x) > confirmation_height[owner[x]].height
                   PROVE  exists(previous)'
        BY Zenon
      <3>1. exists(previous) /\ owner[previous] = owner[x] /\ height_of(x) = height_of(previous) + 1
        BY <2>1
      <3>2. previous # h
        <4> SUFFICES ASSUME previous = h PROVE FALSE
          OBVIOUS
        <4>1. height_of(x) > confirmation_height[a].height /\ height_of(x) = height_of(h) + 1
              /\ height_of(h) < confirmation_height[a].height
          BY Zenon, <3>1, <1>1, <1>2
        <4> QED
          BY <4>1, <1>3
      <3> QED
        BY Zenon, <3>1, <3>2, <1>4, <2>3
    <2> QED
      BY Zenon, <2>1, <2>2, <2>4, <2>5, <2>6
  <1>9. OrderInv' /\ ConfirmationInv' /\ LegacyInv' /\ FrontierMatchesHead'
    <2>1. OrderInv'
      BY <1>1, <1>4, <1>5 DEF StoreInv, OrderInv, Kept
    <2>2. ConfirmationInv' /\ FrontierMatchesHead'
      BY Zenon, <1>1 DEF StoreInv, ConfirmationInv, IInv, FrontierMatchesHead, is_legacy
    <2>3. LegacyInv'
      BY <1>4 DEF IInv, LegacyInv, is_legacy, balance_of
    <2> QED
      BY Zenon, <2>1, <2>2, <2>3
  <1>10. \A x \in Hash : block_confirmed(x) => block_confirmed(x)'
    <2> SUFFICES ASSUME NEW x \in Hash, block_confirmed(x) PROVE block_confirmed(x)'
      OBVIOUS
    <2>1. CASE x = h \/ x \in pruned
      BY Zenon, <2>1 DEF block_confirmed
    <2>2. CASE x # h /\ x \notin pruned
      BY <2>2, <1>5 DEF block_confirmed, Kept
    <2> QED
      BY <2>1, <2>2
  <1>11. block_confirmed(h)
    BY <1>1, <1>2, <1>3 DEF block_confirmed
  <1>12. ASSUME NEW x \in Hash, exists(x), x # h, block_confirmed(x)' PROVE block_confirmed(x)
    BY Zenon, <1>12, <1>1, <1>5 DEF block_confirmed, Kept, StoreInv, BlockInv
  <1>13. \A x \in Hash : block_or_pruned_exists(x) => block_or_pruned_exists(x)'
    BY Zenon, <1>4 DEF block_or_pruned_exists
  <1>14. PendingInv'
    <2> SUFFICES ASSUME NEW w \in Word, NEW s \in Hash, pending[<<w, s>>] # None
                 PROVE  /\ content[s].link = w
                        /\ block_or_pruned_exists(s)'
                        /\ exists(s)' => is_send(s)' /\ pending[<<w, s>>].source = owner[s]
      BY Zenon DEF PendingInv, pending_exists
    <2>1. /\ content[s].link = w
          /\ block_or_pruned_exists(s)
          /\ exists(s) => is_send(s) /\ pending[<<w, s>>].source = owner[s]
      BY Zenon, <1>1 DEF StoreInv, PendingInv, pending_exists
    <2>2. exists(s)' => exists(s) /\ is_send(s)' = is_send(s)
      BY Zenon, <1>4, <1>5 DEF Kept
    <2> QED
      BY Zenon, <2>1, <2>2, <1>13
  <1>15. SourceInv'
    <2>1. \A x \in Hash : exists(x)' =>
             exists(x) /\ x # h /\ source_of(x)' = source_of(x) /\ is_send(x)' = is_send(x)
      BY Zenon, <1>4, <1>5 DEF Kept
    <2> SUFFICES ASSUME NEW x \in Hash, exists(x)'
                 PROVE  /\ source_of(x) \in Hash \cup {Zero}
                        /\ \A s \in Hash : source_of(x) = s =>
                              /\ content[s].link = owner[x]
                              /\ block_or_pruned_exists(s)'
                              /\ exists(s)' => is_send(s)'
                              /\ ~pending_exists(<<owner[x], s>>)
                              /\ \A k \in Hash : exists(k)' /\ source_of(k)' = s => k = x
                              /\ block_confirmed(x)' => block_confirmed(s)'
      BY ZenonT(40), <2>1 DEF SourceInv, pending_exists
    <2>2. /\ source_of(x) \in Hash \cup {Zero}
          /\ \A s \in Hash : source_of(x) = s =>
                /\ content[s].link = owner[x]
                /\ block_or_pruned_exists(s)
                /\ exists(s) => is_send(s)
                /\ ~pending_exists(<<owner[x], s>>)
                /\ \A k \in Hash : exists(k) /\ source_of(k) = s => k = x
                /\ block_confirmed(x) => block_confirmed(s)
      BY ZenonT(40), <2>1, <1>1 DEF StoreInv, SourceInv
    <2>3. block_confirmed(x)' => block_confirmed(x)
      BY Zenon, <2>1, <1>12
    <2> QED
      BY ZenonT(40), <2>1, <2>2, <2>3, <1>10, <1>13
  <1>16. ReceivedInv'
    <2> SUFFICES ASSUME NEW s \in Hash, exists(s), s # h, is_send(s), ~pending_exists(<<content[s].link, s>>)
                 PROVE  block_confirmed(s)' \/ \E r \in Hash : exists(r)' /\ source_of(r)' = s
      BY Zenon, <1>4, <1>5 DEF ReceivedInv, pending_exists, Kept
    <2>1. CASE block_confirmed(s)
      BY Zenon, <2>1, <1>10
    <2>2. CASE ~block_confirmed(s)
      <3>1. PICK r \in Hash : exists(r) /\ source_of(r) = s
        BY <2>2, <1>1 DEF StoreInv, ReceivedInv
      <3>2. r # h
        BY ZenonT(40), <3>1, <2>2, <1>1, <1>11 DEF StoreInv, SourceInv
      <3> QED
        BY Zenon, <3>1, <3>2, <1>5 DEF Kept
    <2> QED
      BY <2>1, <2>2
  <1>17. PruneInv'
    <2> SUFFICES ASSUME NEW x \in Hash, x = content[h].previous, exists(x)'
                 PROVE  height_of(x)' < confirmation_height[owner[x]].height
      BY Zenon, <1>1 DEF PruneInv
    <2>1. exists(x) /\ height_of(x)' = height_of(x)
      BY Zenon, <1>4, <1>5 DEF Kept
    <2>2. owner[x] = a /\ height_of(h) = height_of(x) + 1
      BY Zenon, <2>1, <1>1, <1>2 DEF StoreInv, BlockInv
    <2>3. height_of(x) \in Nat
      BY Zenon, <2>1, <1>6
    <2> QED
      BY SMTT(30), <2>1, <2>2, <2>3, <1>1, <1>2, <1>3
  <1>18. TypeOK' /\ StackInv'
    BY <1>1, <1>4, ContentType DEF TypeOK, StackInv
  <1> QED
    BY <1>7, <1>8, <1>9, <1>14, <1>15, <1>16, <1>17, <1>18 DEF IInv, StoreInv

LEMMA PruningAction ==
    ASSUME IInv, pruning_action
    PROVE  IInv'
  <1>1. PICK h \in Hash : h = prune_hash
    BY DEF IInv, TypeOK, pruning_action
  <1>2. CASE h # genesis /\ exists(h)
    BY Zenon, <1>1, <1>2, PrunedBlock DEF pruning_action
  <1>3. CASE ~(h # genesis /\ exists(h))
    <2>1. prune_hash' = Zero
          /\ UNCHANGED <<block, account, pending, frontier, confirmation_height, pruned, calls, list>>
      BY Zenon, <1>1, <1>3 DEF pruning_action
    <2>2. TypeOK' /\ PruneInv'
      BY Zenon, <2>1, ContentType DEF IInv, TypeOK, PruneInv
    <2>3. StackInv'
      <3>1. calls = <<>>
        BY <1>1, ContentType DEF IInv, PruneInv
      <3> QED
        BY <2>1, <3>1 DEF StackInv
    <2> QED
      BY <2>1, <2>2, <2>3, UnchangedStore
  <1> QED
    BY ZenonT(40), <1>2, <1>3

LEMMA Restart ==
    ASSUME IInv, restart
    PROVE  IInv'
  <1>1. /\ calls = <<>> /\ prune_hash' = Zero /\ list' = <<>>
        /\ UNCHANGED <<block, account, pending, frontier, confirmation_height, pruned, calls>>
    BY DEF restart, store
  <1>2. TypeOK'
    BY <1>1 DEF IInv, TypeOK
  <1>3. Zero \notin Hash
    BY ContentType
  <1>4. PruneInv' /\ StackInv'
    BY <1>1, <1>3 DEF PruneInv, StackInv
  <1> QED
    BY <1>1, <1>2, <1>4, UnchangedStore

LEMMA Stutter ==
    ASSUME IInv, UNCHANGED vars
    PROVE  IInv'
  <1>1. /\ UNCHANGED <<block, account, pending, frontier, confirmation_height, pruned, calls, list, prune_hash>>
    BY Zenon DEF vars, store
  <1>2. TypeOK' /\ PruneInv'
    BY Zenon, <1>1 DEF IInv, TypeOK, PruneInv, exists, height_of
  <1>3. StackInv'
    <2>1. StackInv /\ calls \in Seq(Call)
      BY DEF IInv, TypeOK
    <2>2. \A i \in DOMAIN calls : CallInv(calls[i])'
      <3>1. SUFFICES ASSUME NEW i \in DOMAIN calls
                     PROVE  CallInv(calls[i])'
        OBVIOUS
      <3>2. PICK c \in Call : c = calls[i]
        BY <2>1, <3>1
      <3>3. CallInv(c) /\ c = calls'[i]
        BY Zenon, <2>1, <3>1, <3>2, <1>1 DEF StackInv
      <3>4. /\ VisitingInv(c)' <=> VisitingInv(c)
            /\ \A x \in Hash : (exists(x)' <=> exists(x)) /\ height_of(x)' = height_of(x)
        BY Zenon, <3>2, <1>1, UnchangedCall
      <3>5. c.target \in Hash
        BY <3>2 DEF Call
      <3>6. CallInv(c)'
        BY Zenon, <3>3, <3>4, <3>5, <1>1 DEF CallInv
      <3> QED
        BY Zenon, <3>3, <3>6, <1>1
    <2>3. \A i \in DOMAIN calls : i > 1 => NestedInv(calls[i], calls[i - 1].visiting)'
      <3>1. SUFFICES ASSUME NEW i \in DOMAIN calls, i > 1
                     PROVE  NestedInv(calls[i], calls[i - 1].visiting)'
        OBVIOUS
      <3>2. NestedInv(calls[i], calls[i - 1].visiting)
        BY Zenon, <2>1, <3>1 DEF StackInv
      <3> QED
        BY Zenon, <3>2, <1>1 DEF NestedInv, exists, pending_exists
    <2> QED
      BY Zenon, <2>1, <2>2, <2>3, <1>1 DEF StackInv
  <1> QED
    BY <1>1, <1>2, <1>3, UnchangedStore

LEMMA InitInv ==
    ASSUME Init
    PROVE  IInv
  <1> DEFINE a == content[genesis].account
             sb == legacy_sideband(a, UInt128Max, 1)
             info == [head |-> genesis, representative |-> a, open_block |-> genesis,
                      balance |-> UInt128Max, block_count |-> 1, epoch |-> 0]
  <1>1. /\ genesis \in Hash /\ a \in Account /\ content[genesis].type = "open" /\ owner[genesis] = a
        /\ content[genesis].previous = Zero /\ content[genesis].link = a
        /\ Zero \notin Hash /\ Zero \notin Account /\ UInt128Max \in Amount
        /\ is_legacy(genesis)
    <2>1. /\ genesis \in Hash /\ a \in Account /\ content[genesis].type = "open" /\ content[genesis].link = a
      BY GenesisAssumption
    <2>2. owner[genesis] = a
      BY <2>1, OwnerAssumption
    <2>3. content[genesis].previous = Zero /\ Zero \notin Hash /\ Zero \notin Account
      BY <2>1, ContentAssumption
    <2>4. UInt128Max \in Amount
      BY AmountType DEF Amount
    <2>5. is_legacy(genesis)
      BY Zenon, <2>1 DEF is_legacy, Legacy
    <2> QED
      BY Zenon, <2>1, <2>2, <2>3, <2>4, <2>5
  <1>2. sb \in Sideband /\ sb.height = 1 /\ sb.account = a /\ sb.balance = UInt128Max
    BY SMTT(30), <1>1 DEF legacy_sideband, Sideband, Epoch
  <1>3. info \in AccountInfo /\ account_info \in AccountInfo /\ account_info.block_count = 0 /\ account_info.head = Zero
    <2> HIDE DEF a
    <2>1. 0 \in Amount
      BY Zenon, AmountType
    <2> QED
      BY <1>1, <2>1 DEF AccountInfo, account_info, Epoch
  <1>4. /\ block = [h \in Hash |-> IF h = genesis THEN sb ELSE None]
        /\ account = [x \in Account |-> IF x = a THEN info ELSE account_info]
        /\ pending = [key \in Word \X Hash |-> None]
        /\ frontier = [h \in Hash |-> IF h = genesis THEN a ELSE Zero]
        /\ confirmation_height = [x \in Account |->
                                     IF x = a THEN [height |-> 1, frontier |-> genesis]
                                     ELSE [height |-> 0, frontier |-> Zero]]
        /\ pruned = {} /\ calls = <<>> /\ list = <<>> /\ prune_hash = Zero
    BY DEF Init
  <1>5. info.head = genesis /\ info.block_count = 1 /\ info.balance = UInt128Max
    BY Zenon
  <1> HIDE DEF sb, info
  <1>6. \A h \in Hash : exists(h) <=> h = genesis
    BY <1>2, <1>4, ContentAssumption DEF exists
  <1>7. /\ block[genesis] = sb /\ account[a] = info
        /\ \A x \in Account : x # a => account[x] = account_info
        /\ confirmation_height[a].height = 1
        /\ \A x \in Account : x # a => confirmation_height[x].height = 0
        /\ \A w \in Word, s \in Hash : ~pending_exists(<<w, s>>)
    BY Zenon, <1>1, <1>4 DEF pending_exists
  <1>8. /\ height_of(genesis) = 1 /\ account_of(genesis) = a /\ balance_of(genesis) = UInt128Max
        /\ source_of(genesis) = Zero /\ ~is_send(genesis)
    BY Zenon, <1>1, <1>2, <1>7 DEF height_of, account_of, balance_of, source_of, is_send
  <1>9. TypeOK
    <2>1. block \in [Hash -> Sideband \cup {None}] /\ account \in [Account -> AccountInfo]
      BY Zenon, <1>2, <1>3, <1>4
    <2>2. pending \in [Word \X Hash -> PendingInfo \cup {None}] /\ frontier \in [Hash -> Account \cup {Zero}]
      BY Zenon, <1>1, <1>4
    <2>3. confirmation_height \in [Account -> ConfirmationHeightInfo]
      BY <1>1, <1>4 DEF ConfirmationHeightInfo
    <2> QED
      BY SMTT(30), <2>1, <2>2, <2>3, <1>4 DEF TypeOK
  <1>10. AccountInv
    BY ZenonT(40), <1>1, <1>3, <1>5, <1>6, <1>7, <1>8 DEF AccountInv
  <1>11. BlockInv
    <2>1. ~exists(content[genesis].previous)
      BY <1>1 DEF exists
    <2>2. account[owner[genesis]].block_count = 1
      BY Zenon, <1>1, <1>5, <1>7
    <2>3. genesis \notin pruned
      BY Zenon, <1>4
    <2>4. /\ height_of(genesis) = 1 /\ account_of(genesis) = owner[genesis] /\ owner[genesis] \in Account
          /\ content[genesis].previous = Zero /\ content[genesis].type # "state"
      BY <1>1, <1>8
    <2> HIDE DEF a
    <2> SUFFICES ASSUME NEW h \in Hash, h = genesis
                 PROVE  LET previous == content[h].previous
                        IN  /\ h \notin pruned
                            /\ owner[h] \in Account /\ account_of(h) = owner[h]
                            /\ 1 <= height_of(h) /\ height_of(h) <= account[owner[h]].block_count
                            /\ height_of(h) = 1 /\ previous = Zero /\ ~exists(previous)
                            /\ content[h].type # "state"
      BY Zenon, <1>6 DEF BlockInv
    <2>5. /\ h \notin pruned /\ owner[h] \in Account /\ account_of(h) = owner[h]
          /\ height_of(h) = 1 /\ content[h].previous = Zero /\ content[h].type # "state"
      BY <2>3, <2>4
    <2>6. ~exists(content[h].previous)
      BY Zenon, <2>1
    <2>7. height_of(h) <= account[owner[h]].block_count /\ 1 <= height_of(h)
      <3>1. account[owner[h]].block_count = 1
        BY Zenon, <2>2
      <3> QED
        BY <3>1, <2>5
    <2> QED
      BY Zenon, <2>5, <2>6, <2>7
  <1>12. OrderInv /\ LegacyInv
    BY <1>1, <1>6 DEF OrderInv, LegacyInv, exists
  <1>13. ConfirmationInv
    BY <1>3, <1>5, <1>7 DEF ConfirmationInv
  <1>14. PendingInv /\ SourceInv /\ ReceivedInv
    BY Zenon, <1>1, <1>6, <1>7, <1>8 DEF PendingInv, SourceInv, ReceivedInv
  <1>15. FrontierMatchesHead
    BY ZenonT(40), <1>1, <1>3, <1>4, <1>5, <1>7 DEF FrontierMatchesHead
  <1>16. PruneInv
    BY Zenon, <1>1, <1>4 DEF PruneInv
  <1>17. StackInv
    BY <1>4 DEF StackInv
  <1> QED
    BY <1>9, <1>10, <1>11, <1>12, <1>13, <1>14, <1>15, <1>16, <1>17 DEF IInv, StoreInv

\* The constructor of account_info yields an account_info with those fields
LEMMA NewAccountInfo ==
    ASSUME NEW h \in Hash \cup {Zero}, NEW r \in Account \cup {Zero}, NEW o \in Hash \cup {Zero},
           NEW v \in Amount, NEW n \in Nat, NEW epoch \in Epoch
    PROVE  /\ new_account_info(h, r, o, v, n, epoch) \in AccountInfo
           /\ new_account_info(h, r, o, v, n, epoch).head = h
           /\ new_account_info(h, r, o, v, n, epoch).balance = v
           /\ new_account_info(h, r, o, v, n, epoch).block_count = n
  BY DEF new_account_info, AccountInfo

=============================================================================
