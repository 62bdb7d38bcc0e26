------------------------- MODULE LedgerRollbackStack --------------------------
(***************************************************************************)
(* ledger::rollback keeps the invariant in the steps that only move the    *)
(* stack of calls: begin, visit, nested call, return and refusal.          *)
(***************************************************************************)
EXTENDS LedgerRemoval

LEMMA RollbackBegin ==
    ASSUME IInv, NEW h \in Hash, rollback_begin(h)
    PROVE  IInv'
  <1>1. /\ calls = <<>> /\ prune_hash = Zero /\ exists(h) /\ calls' = <<call(h)>> /\ list' = <<>>
        /\ UNCHANGED <<block, account, pending, frontier, confirmation_height, pruned>>
        /\ prune_hash' = prune_hash
    BY Zenon DEF rollback_begin, idle, store
  <1>2. TypeOK /\ Zero \notin Hash /\ account_of(h) = owner[h] /\ owner[h] \in Account
    BY ZenonT(40), <1>1, ContentType DEF IInv, StoreInv, BlockInv
  <1>3. account_info \in AccountInfo
    BY SMTT(30), AmountType DEF account_info, AccountInfo, Epoch
  <1>4. PICK c \in Call : /\ c = call(h) /\ c.target = h /\ c.account = owner[h] /\ c.height = height_of(h)
                          /\ c.visiting = Zero /\ c.error = FALSE
    <2>1. height_of(h) \in Nat
      BY ZenonT(40), <1>1, <1>2, SidebandType DEF height_of
    <2>2. /\ call(h) \in Call
          /\ call(h).target = h /\ call(h).account = account_of(h) /\ call(h).height = height_of(h)
          /\ call(h).visiting = Zero /\ call(h).error = FALSE
      BY Zenon, <2>1, <1>2, <1>3 DEF call, Call
    <2> QED
      BY Zenon, <2>2, <1>2
  <1>5. calls' \in Seq(Call) /\ Len(calls') = 1 /\ DOMAIN calls' = 1..1 /\ calls'[1] = c
    BY <1>1, <1>4
  <1>6. CallInv(c)'
    BY Zenon, <1>1, <1>2, <1>4, <1>5 DEF CallInv, VisitingInv, height_of
  <1>7. StackInv'
    <2>1. \A i \in DOMAIN calls' : i = 1 /\ calls'[i] = c
      BY SMTT(30), <1>5
    <2> QED
      BY SMTT(30), <2>1, <1>5, <1>6 DEF StackInv
  <1>8. PruneInv' /\ TypeOK'
    BY SMTT(30), <1>1, <1>2, <1>5 DEF PruneInv, TypeOK
  <1> QED
    BY Zenon, <1>1, <1>7, <1>8, UnchangedStore

LEMMA RollbackReturn ==
    ASSUME IInv, rollback_return
    PROVE  IInv'
  <1>1. /\ calls # <<>> /\ TypeOK /\ StackInv /\ calls \in Seq(Call)
        /\ UNCHANGED <<block, account, pending, frontier, confirmation_height, pruned>>
        /\ prune_hash' = prune_hash
        /\ Zero \notin Hash
    BY Zenon, ContentType DEF rollback_return, store, IInv, TypeOK
  <1>2. PICK n \in Nat : n = Len(calls) /\ n >= 1 /\ DOMAIN calls = 1..n /\ top = calls[n]
    BY Zenon, <1>1, TopType
  <1>3. PICK m \in Nat : m = n - 1
    BY <1>2
  <1>4. /\ rest \in Seq(Call) /\ Len(rest) = m /\ DOMAIN rest = 1..m
        /\ \A i \in 1..m : rest[i] = calls[i]
    BY <1>1, <1>2, <1>3 DEF rest
  <1>5. \A i \in 1..m : i \in DOMAIN calls /\ i < Len(calls)
    BY SMTT(30), <1>2, <1>3
  <1>6. ASSUME NEW i \in 1..m
        PROVE  calls[i] \in Call /\ calls[i].visiting # Zero /\ calls[i].error = FALSE /\ CallInv(calls[i])
    <2>1. calls[i].visiting # Zero /\ CallInv(calls[i]) /\ calls[i] \in Call /\ calls[i].error \in BOOLEAN
      BY Zenon, <1>1, <1>5, CallType DEF StackInv
    <2> QED
      BY Zenon, <2>1 DEF CallInv
  <1>7. \A i \in 1..m : top.error = FALSE
    <2> SUFFICES ASSUME NEW i \in 1..m PROVE top.error = FALSE
      BY Zenon
    <2>1. n \in DOMAIN calls /\ n # 1
      BY SMTT(30), <1>2, <1>3
    <2>2. CallInv(calls[n]) /\ calls[n].error \in BOOLEAN
      BY <2>1, <1>1, CallType DEF StackInv
    <2> QED
      BY <2>1, <2>2, <1>2 DEF CallInv
  <1>8. calls' = [i \in 1..m |-> calls[i]]
    <2>1. calls' = [i \in 1..m |-> IF i = m THEN [calls[i] EXCEPT !.error = top.error] ELSE calls[i]]
      BY <1>4 DEF rollback_return
    <2>2. ASSUME NEW i \in 1..m PROVE [calls[i] EXCEPT !.error = top.error] = calls[i]
      BY Zenon, <2>2, <1>6, <1>7 DEF Call
    <2> QED
      BY Zenon, <2>1, <2>2
  <1>9. calls' \in Seq(Call) /\ Len(calls') = m /\ DOMAIN calls' = 1..m /\ \A i \in 1..m : calls'[i] = calls[i]
    <2>1. \A i \in 1..m : calls[i] \in Call
      BY Zenon, <1>6
    <2> QED
      BY <2>1, <1>8
  <1>10. \A i \in 1..m : CallInv(calls[i])' /\ calls'[i].visiting \in Hash
    <2> SUFFICES ASSUME NEW i \in 1..m PROVE CallInv(calls[i])' /\ calls'[i].visiting \in Hash
      OBVIOUS
    <2>1. PICK c \in Call : c = calls[i] /\ CallInv(c) /\ c.error = FALSE /\ c.visiting # Zero
      BY Zenon, <1>6
    <2>2. c.visiting \in Hash
      BY Zenon, <2>1 DEF Call
    <2>3. CallInv(c)'
      BY Zenon, <2>1, <1>1, UnchangedCall DEF CallInv, exists, height_of
    <2>4. c = calls'[i]
      BY Zenon, <2>1, <1>9
    <2> QED
      BY SMTT(30), <2>2, <2>3, <2>4 DEF CallInv, VisitingInv, exists, height_of, is_send, balance,
         balance_of
  <1>11. \A i \in 1..m : i > 1 => NestedInv(calls[i], calls[i - 1].visiting)'
    <2> SUFFICES ASSUME NEW i \in 1..m, i > 1 PROVE NestedInv(calls[i], calls[i - 1].visiting)'
      OBVIOUS
    <2>1. PICK c \in Call : c = calls[i]
      BY Zenon, <1>6
    <2>2. i - 1 \in 1..m
      OBVIOUS
    <2>3. PICK s \in Hash : s = calls[i - 1].visiting
      BY Zenon, <2>2, <1>9, <1>10
    <2>4. NestedInv(c, s)
      BY SMTT(30), <2>1, <2>3, <1>1, <1>5 DEF StackInv
    <2>5. NestedInv(c, s)'
      BY Zenon, <2>4, <1>1, UnchangedCall
    <2>6. c = calls'[i] /\ s = calls'[i - 1].visiting
      BY Zenon, <2>1, <2>2, <2>3, <1>9
    <2> QED
      BY Zenon, <2>5, <2>6 DEF NestedInv, exists, pending_exists
  <1>12. \A i, j \in 1..m : i < j /\ calls'[j].visiting # Zero =>
             rank[calls'[i].visiting] < rank[calls'[j].visiting]
    BY SMTT(30), <1>1, <1>5, <1>9 DEF StackInv
  <1>13. StackInv'
    BY Zenon, <1>1, <1>9, <1>10, <1>11, <1>12 DEF StackInv
  <1>14. list' \in Seq(Hash)
    BY SMTT(30), <1>1 DEF rollback_return, TypeOK
  <1>15. PruneInv' /\ TypeOK'
    BY Zenon, <1>1, <1>9, <1>14, NoPruning DEF TypeOK
  <1> QED
    BY <1>1, <1>13, <1>15, UnchangedStore

\* The innermost call is replaced by one for the same target
LEMMA ReplacedStack ==
    ASSUME IInv, UNCHANGED <<block, account, pending, frontier, confirmation_height, pruned>>,
           NEW n \in Nat, n = Len(calls), n \in DOMAIN calls,
           calls[n].visiting = Zero,
           NEW c \in Call, calls' = [calls EXCEPT ![n] = c],
           c.target = calls[n].target, c.account = calls[n].account, c.height = calls[n].height,
           c.visiting # Zero => exists(c.target),
           VisitingInv(c),
           c.error => n = 1 /\ c.visiting = Zero,
           c.visiting # Zero => \A j \in DOMAIN calls : j < n => rank[calls[j].visiting] < rank[c.visiting]
    PROVE  StackInv' /\ calls' \in Seq(Call)
  <1>1. TypeOK /\ StackInv /\ Zero \notin Hash
    BY Zenon, ContentType DEF IInv
  <1>2. /\ calls' \in Seq(Call) /\ Len(calls') = n /\ calls'[n] = c
        /\ \A j \in 1..n : j < n => calls'[j] = calls[j]
    BY Zenon, <1>1, TopReplaced
  <1>3. DOMAIN calls' = 1..n /\ DOMAIN calls = 1..n
    <2>1. calls \in Seq(Call)
      BY Zenon, <1>1 DEF TypeOK
    <2> QED
      BY SMTT(30), <2>1, <1>2
  <1>4. \A j \in 1..n : calls[j] \in Call /\ CallInv(calls[j]) /\ (j < n => calls[j].visiting \in Hash)
    BY Zenon, <1>1, <1>3, CallType DEF StackInv
  <1>5. ASSUME NEW j \in 1..n
        PROVE  CallInv(calls[j])' /\ (j < n => calls'[j].visiting # Zero)
    <2>1. CASE j = n
      <3>1. owner[c.target] = c.account /\ \A x \in Hash : c.target = x /\ exists(x) => height_of(x) = c.height
        BY Zenon, <1>4, <2>1 DEF CallInv
      <3>2. CallInv(c)'
        BY Zenon, <3>1, <1>2, UnchangedCall DEF CallInv, exists, height_of
      <3> QED
        BY SMTT(30), <2>1, <3>2, <1>2 DEF CallInv, VisitingInv, exists, height_of, is_send, balance,
           balance_of
    <2>2. CASE j # n
      <3>1. PICK d \in Call : d = calls[j] /\ CallInv(d) /\ d.visiting \in Hash
        BY SMTT(30), <2>2, <1>4
      <3>2. CallInv(d)'
        BY Zenon, <3>1, <1>1, <1>2, UnchangedCall DEF CallInv, exists, height_of
      <3>3. d = calls'[j]
        BY SMTT(30), <2>2, <3>1, <1>2
      <3>4. calls'[j].visiting # Zero
        BY ZenonT(60), <3>1, <3>3, <1>1
      <3>5. CallInv(calls[j])'
        BY SMTT(30), <3>2, <3>3 DEF CallInv, VisitingInv, exists, height_of, is_send, balance,
           balance_of
      <3> QED
        BY Zenon, <3>4, <3>5
    <2> QED
      BY Zenon, <2>1, <2>2
  <1>6. ASSUME NEW j \in 1..n, j > 1
        PROVE  NestedInv(calls[j], calls[j - 1].visiting)'
    <2>1. j - 1 \in 1..n /\ j - 1 < n
      BY SMTT(30), <1>6
    <2>2. PICK s \in Hash : s = calls[j - 1].visiting
      BY Zenon, <2>1, <1>4
    <2>3. PICK d \in Call : d = calls'[j] /\ d.target = calls[j].target /\ d.account = calls[j].account
      BY SMTT(30), <1>2, <1>4
    <2>4. NestedInv(calls[j], s)
      BY Zenon, <2>2, <1>1, <1>3, <1>6 DEF StackInv
    <2>5. NestedInv(d, s)
      BY Zenon, <2>3, <2>4 DEF NestedInv
    <2>6. NestedInv(d, s)'
      BY Zenon, <2>5, UnchangedCall
    <2>7. s = calls'[j - 1].visiting
      BY Zenon, <2>1, <2>2, <1>2
    <2> QED
      BY Zenon, <2>3, <2>6, <2>7 DEF NestedInv, exists, pending_exists
  <1>7. ASSUME NEW i \in 1..n, NEW j \in 1..n, i < j, calls'[j].visiting # Zero
        PROVE  rank[calls'[i].visiting] < rank[calls'[j].visiting]
    BY SMTT(30), <1>1, <1>2, <1>3, <1>7 DEF StackInv
  <1>8. (\A i \in DOMAIN calls : CallInv(calls[i]))'
    BY Zenon, <1>3, <1>5
  <1>9. (\A i \in DOMAIN calls : i < Len(calls) => calls[i].visiting # Zero)'
    BY Zenon, <1>2, <1>3, <1>5
  <1>10. (\A i \in DOMAIN calls : i > 1 => NestedInv(calls[i], calls[i - 1].visiting))'
    BY Zenon, <1>3, <1>6
  <1>11. (\A i, j \in DOMAIN calls : i < j /\ calls[j].visiting # Zero =>
             rank[calls[i].visiting] < rank[calls[j].visiting])'
    BY SMTT(30), <1>7
  <1> QED
    BY Zenon, <1>2, <1>8, <1>9, <1>10, <1>11 DEF StackInv

\* The confirmation height protects only the block the caller of rollback asked for.
LEMMA RollbackRefuse ==
    ASSUME IInv, rollback_refuse
    PROVE  IInv'
  <1>1. /\ TypeOK /\ StoreInv /\ StackInv /\ Zero \notin Hash
        /\ calls # <<>> /\ top.visiting = Zero /\ exists(top.target)
        /\ top.height <= confirmation_height[top.account].height
        /\ calls' = [calls EXCEPT ![Len(calls)].error = TRUE]
        /\ UNCHANGED <<block, account, pending, frontier, confirmation_height, pruned, list, prune_hash>>
    BY ContentType DEF rollback_refuse, looping, store, IInv
  <1>2. PICK n \in Nat : n = Len(calls) /\ n \in DOMAIN calls /\ top = calls[n]
    BY <1>1, TopType
  <1>3. PICK t \in Hash : t = calls[n].target
    BY <1>1, <1>2, CallType
  <1>4. n = 1
    <2> SUFFICES ASSUME n # 1 PROVE FALSE
      OBVIOUS
    <2>1. n > 1
      BY <1>1, <1>2, TopType
    <2>2. height_of(t) > confirmation_height[calls[n].account].height
      BY Zenon, <2>1, <1>1, <1>2, <1>3, NestedTarget
    <2>3. CallInv(calls[n])
      BY <1>1, <1>2 DEF StackInv
    <2>4. height_of(t) = calls[n].height
      BY Zenon, <2>3, <1>1, <1>2, <1>3 DEF CallInv
    <2>5. height_of(t) \in Nat /\ confirmation_height[calls[n].account].height \in Nat
      <3>1. calls[n].account \in Account
        BY <1>1, <1>2, CallType
      <3> QED
        BY Zenon, <3>1, <1>1, <1>2, <1>3, SidebandType, AccountType DEF height_of
    <2> QED
      BY <2>2, <2>4, <2>5, <1>1, <1>2
  <1> DEFINE c == [calls[n] EXCEPT !.error = TRUE]
  <1>5. calls' = [calls EXCEPT ![n] = c]
    BY <1>1, <1>2
  <1>6. /\ c \in Call /\ c.target = calls[n].target /\ c.account = calls[n].account
        /\ c.height = calls[n].height /\ c.visiting = Zero
    BY Zenon, <1>1, <1>2, CallType DEF Call
  <1> HIDE DEF c
  <1>7. StackInv' /\ calls' \in Seq(Call)
    <2>1. VisitingInv(c)
      BY <1>1, <1>6 DEF VisitingInv
    <2> QED
      BY Zenon, <2>1, <1>1, <1>2, <1>4, <1>5, <1>6, ReplacedStack
  <1>8. PruneInv' /\ TypeOK'
    BY Zenon, <1>1, <1>7, NoPruning DEF TypeOK
  <1> QED
    BY <1>1, <1>7, <1>8, UnchangedStore

\* The innermost call starts to wait for the send h it visits
LEMMA VisitSend ==
    ASSUME IInv, UNCHANGED <<block, account, pending, frontier>>, NEW type, visit(type),
           NEW c \in Call, calls' = [calls EXCEPT ![Len(calls)] = c],
           c.target = top.target, c.account = top.account, c.height = top.height,
           c.visiting = visited, c.error = FALSE, VisitingInv(c)
    PROVE  IInv'
  <1>1. /\ TypeOK /\ StoreInv /\ StackInv /\ looping
        /\ top.height > confirmation_height[top.account].height
        /\ UNCHANGED <<confirmation_height, pruned, prune_hash>>
        /\ list' \in Seq(Hash)
    BY Zenon, VisitedBlock
  <1>2. calls # <<>> /\ top.visiting = Zero /\ exists(top.target)
    BY Zenon, <1>1 DEF looping
  <1>3. PICK n \in Nat : n = Len(calls) /\ n \in DOMAIN calls /\ top = calls[n]
    BY Zenon, <1>1, <1>2, TopType
  <1>4. \A j \in DOMAIN calls : j < n => rank[calls[j].visiting] < rank[c.visiting]
    BY Zenon, <1>1, <1>3, VisitedHead
  <1>5. StackInv' /\ calls' \in Seq(Call)
    <2>1. /\ UNCHANGED <<block, account, pending, frontier, confirmation_height, pruned>>
          /\ calls[n].visiting = Zero /\ calls' = [calls EXCEPT ![n] = c]
          /\ c.target = calls[n].target /\ c.account = calls[n].account /\ c.height = calls[n].height
          /\ exists(c.target)
      BY Zenon, <1>1, <1>2, <1>3
    <2> QED
      BY Zenon, <2>1, <1>3, <1>4, ReplacedStack
  <1>6. PruneInv' /\ TypeOK'
    BY Zenon, <1>1, <1>2, <1>5, NoPruning DEF TypeOK
  <1> QED
    BY Zenon, <1>1, <1>5, <1>6, UnchangedStore

LEMMA RollbackSendVisit ==
    ASSUME IInv, rollback_send_visit
    PROVE  IInv'
  <1>1. /\ visit("send")
        /\ calls' = [calls EXCEPT ![Len(calls)].visiting = visited]
        /\ UNCHANGED <<block, account, pending, frontier>>
    BY DEF rollback_send_visit
  <1>2. PICK h \in Hash, a \in Account :
            /\ h = visited /\ a = top.account /\ content[h].type = "send"
            /\ exists(h) /\ account[a].head = h
            /\ height_of(h) > confirmation_height[a].height
    BY Zenon, <1>1, VisitedBlock
  <1>3. TypeOK /\ calls # <<>> /\ ~top.error
    BY <1>1 DEF IInv, visit, looping
  <1>4. PICK n \in Nat : n = Len(calls) /\ n \in DOMAIN calls /\ top = calls[n]
    BY Zenon, <1>3, TopType
  <1> DEFINE c == [calls[n] EXCEPT !.visiting = h]
  <1>5. /\ c \in Call /\ c.target = top.target /\ c.account = top.account /\ c.height = top.height
        /\ c.visiting = h /\ c.error = FALSE
    BY <1>3, <1>4, CallType DEF Call
  <1>6. calls' = [calls EXCEPT ![Len(calls)] = c]
    BY Zenon, <1>1, <1>2, <1>4
  <1> HIDE DEF c
  <1>7. VisitingInv(c)
    BY Zenon, <1>2, <1>5 DEF VisitingInv, is_send
  <1> QED
    BY Zenon, <1>1, <1>2, <1>5, <1>6, <1>7, VisitSend

LEMMA RollbackStateSendVisit ==
    ASSUME IInv, rollback_state_send_visit
    PROVE  IInv'
  <1>1. /\ visit("state")
        /\ content[visited].balance < balance(content[visited].previous)
        /\ rollback_state_representative(visited)
        /\ calls' = [calls EXCEPT ![Len(calls)] = state_send_call(visited)]
        /\ UNCHANGED <<block, account, pending, frontier>>
    BY Zenon DEF rollback_state_send_visit
  <1>2. PICK h \in Hash, a \in Account :
            /\ h = visited /\ a = top.account /\ content[h].type = "state"
            /\ exists(h) /\ owner[h] = a /\ account[a].head = h
            /\ height_of(h) > confirmation_height[a].height
            /\ content[h].previous \in Hash \cup {Zero}
            /\ content[h].previous # Zero => content[h].previous \in Hash /\ exists(content[h].previous)
            /\ account[a].block_count - 1 \in Nat
    BY ZenonT(40), <1>1, VisitedBlock
  <1> DEFINE previous == content[h].previous
  <1>3. TypeOK /\ calls # <<>> /\ ~top.error /\ content[h].account = a /\ content[h].balance \in Nat
        /\ account[a] \in AccountInfo
    BY Zenon, <1>1, <1>2, OwnerAssumption, AmountType, ContentType, AccountType DEF IInv, visit, looping
  <1>4. PICK n \in Nat : n = Len(calls) /\ n \in DOMAIN calls /\ top = calls[n]
    BY Zenon, <1>3, TopType
  <1>5. previous # Zero
    <2>1. content[h].balance < balance(previous)
      BY Zenon, <1>1, <1>2
    <2> QED
      BY SMTT(30), <2>1, <1>3 DEF balance
  <1>6. is_send(h)
    <2>1. content[h].balance < balance_of(previous)
      BY Zenon, <1>1, <1>2, <1>5 DEF balance
    <2> QED
      BY Zenon, <2>1, <1>2, <1>5 DEF IInv, StoreInv, BlockInv, is_send
  <1> DEFINE new == state_previous_info(h, account[a])
             c == [calls[n] EXCEPT !.visiting = h, !.info = account[a], !.new_info = new]
  <1>7. /\ new \in AccountInfo /\ new.head = previous /\ new.block_count = account[a].block_count - 1
        /\ new.balance = balance(previous)
    BY Zenon, <1>1, <1>2, <1>3, AmountMoved, StatePreviousInfo
  <1> HIDE DEF new
  <1>8. /\ c \in Call /\ c.target = top.target /\ c.account = top.account /\ c.height = top.height
        /\ c.visiting = h /\ c.info = account[a] /\ c.new_info = new /\ c.error = FALSE
    BY Zenon, <1>3, <1>4, <1>7, CallType DEF Call
  <1>9. calls' = [calls EXCEPT ![Len(calls)] = c]
    BY <1>1, <1>2, <1>3, <1>4 DEF state_send_call, new
  <1> HIDE DEF c
  <1>10. VisitingInv(c)
    BY Zenon, <1>2, <1>6, <1>7, <1>8 DEF VisitingInv
  <1> QED
    BY Zenon, <1>1, <1>2, <1>8, <1>9, <1>10, VisitSend

LEMMA RollbackNested ==
    ASSUME IInv, rollback_nested
    PROVE  IInv'
  <1>1. /\ TypeOK /\ StoreInv /\ StackInv /\ Zero \notin Hash
        /\ calls # <<>> /\ top.visiting # Zero /\ ~pending_exists(visiting_key)
        /\ exists(latest(visiting_key[1]))
        /\ calls' = Append(calls, call(latest(visiting_key[1])))
        /\ UNCHANGED <<block, account, pending, frontier, confirmation_height, pruned, list, prune_hash>>
    BY Zenon, ContentType DEF rollback_nested, store, IInv
  <1>2. PICK n \in Nat : n = Len(calls) /\ n \in DOMAIN calls /\ top = calls[n] /\ DOMAIN calls = 1..n
    BY Zenon, <1>1, TopType
  <1>3. PICK s \in Hash : s = calls[n].visiting
    BY Zenon, <1>1, <1>2, CallType
  <1> DEFINE b == content[s].link
  <1>4. visiting_key = <<b, s>> /\ visiting_key[1] = b
    BY Zenon, <1>2, <1>3 DEF visiting_key
  <1>5. PICK h \in Hash : h = latest(b)
    BY Zenon, <1>1, <1>4 DEF exists
  <1>6. b \in Account /\ account[b].head = h /\ exists(h) /\ owner[h] = b /\ account_of(h) = b
    <2>1. b \in Account /\ account[b].head = h
      BY Zenon, <1>1, <1>5 DEF latest
    <2>2. exists(h)
      BY Zenon, <1>1, <1>4, <1>5
    <2>3. owner[h] = b
      BY Zenon, <2>1, <1>1 DEF StoreInv, AccountInv
    <2> QED
      BY Zenon, <2>1, <2>2, <2>3, <1>1 DEF StoreInv, BlockInv
  <1>7. PICK c \in Call : /\ c = call(h) /\ c.target = h /\ c.account = b /\ c.height = height_of(h)
                          /\ c.visiting = Zero /\ c.error = FALSE
    <2>1. height_of(h) \in Nat
      BY Zenon, <1>1, <1>6, SidebandType DEF height_of
    <2>2. account_info \in AccountInfo
      BY SMTT(30), AmountType DEF account_info, AccountInfo, Epoch
    <2>3. /\ call(h) \in Call
          /\ call(h).target = h /\ call(h).account = account_of(h) /\ call(h).height = height_of(h)
          /\ call(h).visiting = Zero /\ call(h).error = FALSE
      BY Zenon, <2>1, <2>2, <1>6 DEF call, Call
    <2> QED
      BY Zenon, <2>3, <1>6
  <1>8. /\ calls' \in Seq(Call) /\ Len(calls') = n + 1 /\ DOMAIN calls' = 1..(n + 1)
        /\ calls'[n + 1] = c
        /\ \A j \in 1..n : calls'[j] = calls[j]
    <2>1. calls \in Seq(Call) /\ calls' = Append(calls, c)
      BY Zenon, <1>1, <1>4, <1>5, <1>7 DEF TypeOK
    <2> QED
      BY SMTT(30), <2>1, <1>2
  <1>9. \A j \in 1..n : calls[j] \in Call /\ CallInv(calls[j]) /\ calls[j].visiting \in Hash /\ ~calls[j].error
    <2> SUFFICES ASSUME NEW j \in 1..n
                 PROVE  calls[j] \in Call /\ CallInv(calls[j]) /\ calls[j].visiting \in Hash /\ ~calls[j].error
      BY Zenon
    <2>1. CallInv(calls[j]) /\ calls[j] \in Call
      BY Zenon, <1>1, <1>2, CallType DEF StackInv
    <2>2. calls[j].visiting \in Hash
      <3>1. CASE j = n
        BY Zenon, <3>1, <1>3
      <3>2. CASE j # n
        <4>1. calls[j].visiting # Zero
          BY SMTT(30), <1>1, <1>2 DEF StackInv
        <4> QED
          BY Zenon, <4>1, <2>1 DEF Call
      <3> QED
        BY <3>1, <3>2
    <2> QED
      BY Zenon, <2>1, <2>2, <1>1 DEF CallInv
  <1>10. ASSUME NEW j \in 1..(n + 1)
         PROVE  CallInv(calls[j])' /\ (j < n + 1 => calls'[j].visiting # Zero)
    <2>1. CASE j = n + 1
      <3>1. CallInv(c)'
        BY Zenon, <1>1, <1>6, <1>7, <1>8 DEF CallInv, VisitingInv, height_of
      <3> QED
        BY SMTT(30), <2>1, <3>1, <1>8 DEF CallInv, VisitingInv, exists, height_of, is_send, balance,
           balance_of
    <2>2. CASE j # n + 1
      <3>1. j \in 1..n
        BY <2>2
      <3>2. PICK d \in Call : d = calls[j] /\ CallInv(d) /\ d.visiting \in Hash /\ ~d.error
        BY Zenon, <3>1, <1>9
      <3>3. CallInv(d)'
        BY Zenon, <3>2, <1>1, UnchangedCall DEF CallInv, exists, height_of
      <3>4. d = calls'[j]
        BY Zenon, <3>1, <3>2, <1>8
      <3>5. calls'[j].visiting # Zero
        BY ZenonT(60), <3>2, <3>4, <1>1
      <3>6. CallInv(calls[j])'
        BY SMTT(30), <3>3, <3>4 DEF CallInv, VisitingInv, exists, height_of, is_send, balance,
           balance_of
      <3> QED
        BY <3>5, <3>6
    <2> QED
      BY Zenon, <2>1, <2>2
  <1>11. ASSUME NEW j \in 1..(n + 1), j > 1
         PROVE  NestedInv(calls[j], calls[j - 1].visiting)'
    <2>1. j - 1 \in 1..n
      BY <1>11
    <2>2. PICK r \in Hash : r = calls[j - 1].visiting /\ r = calls'[j - 1].visiting
      BY Zenon, <2>1, <1>8, <1>9
    <2>3. PICK d \in Call : d = calls'[j]
      BY SMTT(30), <1>8
    <2>4. NestedInv(d, r)
      <3>1. CASE j = n + 1
        <4>0. j - 1 = n
          BY <3>1
        <4>1. r = s /\ d = c
          BY ZenonT(40), <3>1, <4>0, <2>2, <2>3, <1>3, <1>8
        <4>2. ~pending_exists(<<b, s>>)
          BY Zenon, <1>1, <1>4
        <4> QED
          BY Zenon, <4>1, <4>2, <1>6, <1>7 DEF NestedInv
      <3>2. CASE j # n + 1
        <4>1. j \in 1..n
          BY SMTT(30), <3>2
        <4> QED
          BY ZenonT(40), <4>1, <2>2, <2>3, <1>1, <1>2, <1>8, <1>11 DEF StackInv
      <3> QED
        BY Zenon, <3>1, <3>2
    <2>5. NestedInv(d, r)'
      BY Zenon, <2>4, <1>1, UnchangedCall
    <2> QED
      BY Zenon, <2>2, <2>3, <2>5 DEF NestedInv, exists, pending_exists
  <1>12. ASSUME NEW i \in 1..(n + 1), NEW j \in 1..(n + 1), i < j, calls'[j].visiting # Zero
         PROVE  rank[calls'[i].visiting] < rank[calls'[j].visiting]
    <2>1. j \in 1..n /\ i \in 1..n
      BY SMTT(30), <1>7, <1>8, <1>12
    <2> QED
      BY Zenon, <2>1, <1>1, <1>2, <1>8, <1>12 DEF StackInv
  <1>13. StackInv'
    BY Zenon, <1>8, <1>10, <1>11, <1>12 DEF StackInv
  <1>14. PruneInv' /\ TypeOK'
    BY Zenon, <1>1, <1>8, NoPruning DEF TypeOK
  <1> QED
    BY Zenon, <1>1, <1>13, <1>14, UnchangedStore

=============================================================================
