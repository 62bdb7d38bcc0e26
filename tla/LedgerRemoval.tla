---------------------------- MODULE LedgerRemoval -----------------------------
(***************************************************************************)
(* What the invariant keeps when ledger::rollback removes the head of an   *)
(* account (Removed): the chains, the receivable table, the frontiers and  *)
(* the stack of nested rollbacks.                                          *)
(***************************************************************************)
EXTENDS LedgerTables

Removed(h, a) ==
    /\ a \in Account /\ exists(h) /\ owner[h] = a /\ account[a].head = h
    /\ height_of(h) > confirmation_height[a].height
    /\ \A x \in Hash : exists(x)' <=> exists(x) /\ x # h
    /\ \A x \in Hash : exists(x) /\ x # h => Kept(x)
    /\ \A b \in Account : b # a => account'[b] = account[b]
    /\ account'[a].head = content[h].previous
    /\ content[h].previous = Zero => account'[a] = account_info
    /\ content[h].previous # Zero =>
          /\ account'[a].block_count = account[a].block_count - 1
          /\ account'[a].balance = balance_of(content[h].previous)
    /\ UNCHANGED <<confirmation_height, pruned, prune_hash>>

SendUndone(h) ==
    /\ is_send(h)
    /\ pending_exists(<<content[h].link, h>>)
    /\ pending' = [pending EXCEPT ![<<content[h].link, h>>] = None]

ReceiveUndone(h, a) ==
    /\ ~is_send(h) /\ source_of(h) = content[h].link /\ content[h].link \in Hash
    /\ \E p \in PendingInfo : /\ exists(content[h].link) => p.source = owner[content[h].link]
                              /\ pending' = [pending EXCEPT ![<<a, content[h].link>>] = p]

NothingUndone(h) ==
    ~is_send(h) /\ source_of(h) = Zero /\ pending' = pending

LEMMA RemovedChains ==
    ASSUME TypeOK, StoreInv, NEW h \in Hash, NEW a \in Account, Removed(h, a)
    PROVE  AccountInv' /\ BlockInv' /\ OrderInv' /\ ConfirmationInv'
  <1> USE DEF exists
  <1> DEFINE p == content[h].previous
  <1>0. /\ Zero \notin Hash /\ p \in Hash \cup {Zero}
        /\ account[a].block_count \in Nat
        /\ confirmation_height[a].height \in Nat
        /\ confirmation_height' = confirmation_height /\ pruned' = pruned
    BY AccountType, ContentType DEF Removed
  <1>1. /\ exists(h) /\ owner[h] = a /\ height_of(h) = account[a].block_count /\ h \notin pruned
        /\ height_of(h) > confirmation_height[a].height /\ 1 <= height_of(h)
        /\ height_of(h) = 1 <=> p = Zero
        /\ p # Zero => p # h /\ exists(p) /\ owner[p] = a /\ height_of(h) = height_of(p) + 1
    <2>1. p # h
      BY <1>0, HashAssumption
    <2> QED
      BY <2>1 DEF Removed, StoreInv, AccountInv, BlockInv
  <1>2. \A x \in Hash : exists(x) /\ owner[x] = a /\ x # h =>
            1 <= height_of(x) /\ height_of(x) < account[a].block_count /\ height_of(x) \in Nat
    <2> SUFFICES ASSUME NEW x \in Hash, exists(x), owner[x] = a, x # h
                 PROVE  1 <= height_of(x) /\ height_of(x) < account[a].block_count /\ height_of(x) \in Nat
      OBVIOUS
    <2>1. 1 <= height_of(x) /\ height_of(x) <= account[a].block_count /\ height_of(x) \in Nat
      BY SidebandType DEF StoreInv, BlockInv, height_of
    <2>2. height_of(x) # account[a].block_count
      <3> SUFFICES ASSUME height_of(x) = account[a].block_count PROVE FALSE
        OBVIOUS
      <3>1. height_of(x) <= height_of(h) /\ height_of(h) <= height_of(x)
        BY <1>0, <1>1
      <3>2. rank[x] < rank[h] /\ rank[h] < rank[x]
        BY <3>1, <1>1 DEF StoreInv, OrderInv
      <3> QED
        BY <3>2, HashAssumption
    <2> QED
      BY <2>1, <2>2, <1>0
  <1>3. account'[a].block_count = account[a].block_count - 1
    <2>1. CASE p = Zero
      BY <2>1, <1>1 DEF Removed, account_info
    <2>2. CASE p # Zero
      BY <2>2 DEF Removed
    <2> QED
      BY <2>1, <2>2
  <1>4. AccountInv'
    <2>1. ASSUME NEW b \in Account, account'[b].head = Zero PROVE account'[b] = account_info
      BY <2>1, <1>0 DEF Removed, StoreInv, AccountInv
    <2>2. ASSUME NEW b \in Account, NEW k \in Hash, account'[b].head = k
          PROVE  /\ exists(k)' /\ owner[k] = b
                 /\ height_of(k)' = account'[b].block_count
                 /\ account'[b].balance = balance_of(k)'
      <3>1. CASE b = a
        <4>1. k = p /\ p # Zero
          BY <2>2, <3>1, <1>0 DEF Removed
        <4>2. Kept(k)
          BY <4>1, <1>1 DEF Removed
        <4>3. height_of(k) \in Nat
          BY <4>1, <1>1, SidebandType DEF height_of
        <4> QED
          BY SMTT(30), <3>1, <4>1, <4>2, <4>3, <1>1, <1>3 DEF Kept, Removed
      <3>2. CASE b # a
        <4>1. account'[b] = account[b]
          BY <3>2 DEF Removed
        <4>2. /\ exists(k) /\ owner[k] = b
              /\ height_of(k) = account[b].block_count
              /\ account[b].balance = balance_of(k)
          BY <2>2, <4>1 DEF StoreInv, AccountInv
        <4>3. Kept(k)
          BY Zenon, <4>2, <3>2, <1>1 DEF Removed
        <4> QED
          BY Zenon, <4>1, <4>2, <4>3 DEF Kept
      <3> QED
        BY Zenon, <3>1, <3>2
    <2> QED
      BY Zenon, <2>1, <2>2 DEF AccountInv
  <1>5. BlockInv'
    <2> SUFFICES ASSUME NEW x \in Hash, exists(x)'
                 PROVE LET previous == content[x].previous
                       IN  /\ x \notin pruned
                           /\ owner[x] \in Account /\ account_of(x)' = owner[x]
                           /\ 1 <= height_of(x)' /\ height_of(x)' <= account'[owner[x]].block_count
                           /\ height_of(x)' = 1 <=> previous = Zero
                           /\ previous # Zero => exists(previous)' \/ previous \in pruned
                           /\ previous # Zero /\ height_of(x)' > confirmation_height[owner[x]].height => exists(previous)'
                           /\ exists(previous)' => owner[previous] = owner[x] /\ height_of(x)' = height_of(previous)' + 1
                           /\ content[x].type = "state" /\ exists(previous)' =>
                                 (block'[x].is_send <=> content[x].balance < balance_of(previous)')
                           /\ content[x].type = "state" /\ previous = Zero => ~block'[x].is_send
      BY <1>0 DEF BlockInv
    <2> DEFINE previous == content[x].previous
    <2>0. previous \in Hash \cup {Zero}
      BY ContentType
    <2>1. x # h /\ exists(x) /\ Kept(x)
      BY DEF Removed
    <2>2. previous # h
      <3> SUFFICES ASSUME previous = h PROVE FALSE
        OBVIOUS
      <3>1. owner[h] = owner[x] /\ height_of(x) = height_of(h) + 1
        BY <2>1, <1>1 DEF StoreInv, BlockInv
      <3>2. height_of(x) < account[a].block_count /\ height_of(h) = account[a].block_count
        BY Zenon, <3>1, <2>1, <1>1, <1>2
      <3> QED
        BY <3>1, <3>2, <1>0
    <2>3. exists(previous)' <=> exists(previous)
      BY <2>2, <2>0, <1>0 DEF Removed
    <2>4. exists(previous) => Kept(previous)
      BY <2>0, <2>2 DEF Removed
    <2>5. owner[x] \in Account /\ height_of(x) <= account[owner[x]].block_count /\ height_of(x)' = height_of(x)
      BY <2>1 DEF StoreInv, BlockInv, Kept
    <2>6. height_of(x)' <= account'[owner[x]].block_count
      <3>1. CASE owner[x] = a
        BY SMTT(30), <3>1, <2>1, <2>5, <1>0, <1>2, <1>3
      <3>2. CASE owner[x] # a
        BY Zenon, <3>2, <2>5 DEF Removed
      <3> QED
        BY <3>1, <3>2
    <2> QED
      BY Zenon, <2>1, <2>3, <2>4, <2>5, <2>6 DEF Kept, StoreInv, BlockInv
  <1>6. OrderInv'
    BY DEF Removed, Kept, StoreInv, OrderInv
  <1>7. ConfirmationInv'
    <2> SUFFICES ASSUME NEW b \in Account PROVE confirmation_height[b].height <= account'[b].block_count
      BY SMTT(30), <1>0 DEF ConfirmationInv
    <2>1. CASE b = a
      BY <2>1, <1>0, <1>1, <1>3
    <2>2. CASE b # a
      BY <2>2 DEF Removed, StoreInv, ConfirmationInv
    <2> QED
      BY <2>1, <2>2
  <1> QED
    BY Zenon, <1>4, <1>5, <1>6, <1>7

LEMMA RemovedPending ==
    ASSUME TypeOK, StoreInv, NEW h \in Hash, NEW a \in Account, Removed(h, a),
           SendUndone(h) \/ ReceiveUndone(h, a) \/ NothingUndone(h)
    PROVE  PendingInv' /\ SourceInv' /\ ReceivedInv'
  <1> DEFINE link == content[h].link
  <1>0. /\ Zero \notin Hash /\ None \notin PendingInfo /\ link \in Word /\ a \in Word
        /\ pruned' = pruned /\ confirmation_height' = confirmation_height
        /\ exists(h) /\ owner[h] = a /\ ~exists(h)'
        /\ link \in Hash => link # h
    <2>1. link \in Hash => link # h
      BY HashAssumption
    <2> QED
      BY Zenon, <2>1, ContentType DEF Removed, Word
  <1>1. \A x \in Hash : x # h => (exists(x)' <=> exists(x)) /\ (exists(x) => Kept(x))
                                 /\ (block_confirmed(x)' <=> block_confirmed(x))
                                 /\ (block_or_pruned_exists(x)' <=> block_or_pruned_exists(x))
    BY Zenon, KeptConfirmed DEF Removed, block_or_pruned_exists
  <1>2. ASSUME NEW x \in Hash, exists(x), source_of(x) = h PROVE FALSE
    <2>1. is_send(h) /\ ~pending_exists(<<link, h>>)
      BY Zenon, <1>2, <1>0 DEF StoreInv, SourceInv
    <2> QED
      BY <2>1 DEF SendUndone, ReceiveUndone, NothingUndone
  <1>3. \A w \in Word : pending_exists(<<w, h>>) => w = link /\ is_send(h)
    BY Zenon, <1>0 DEF StoreInv, PendingInv
  <1>4. /\ \A w \in Word, s \in Hash : pending_exists(<<w, s>>)' =>
              /\ s # h
              /\ \/ pending_exists(<<w, s>>) /\ pending'[<<w, s>>] = pending[<<w, s>>]
                 \/ w = a /\ source_of(h) = s /\ (exists(s) => pending'[<<w, s>>].source = owner[s])
        /\ \A w \in Word, s \in Hash : s # h /\ pending_exists(<<w, s>>) => pending_exists(<<w, s>>)'
        /\ \A s \in Hash : source_of(h) = s => pending_exists(<<a, s>>)'
    <2>1. CASE SendUndone(h)
      <3>1. /\ is_send(h) /\ pending' = [pending EXCEPT ![<<link, h>>] = None]
        BY <2>1 DEF SendUndone
      <3>2. source_of(h) = Zero
        BY <3>1, SendHasNoSource
      <3>3. /\ pending'[<<link, h>>] = None
            /\ \A w \in Word, s \in Hash : w # link \/ s # h => pending'[<<w, s>>] = pending[<<w, s>>]
        BY Zenon, <3>1, <1>0, PendingUpdate
      <3> HIDE DEF link
      <3> QED
        BY Zenon, <3>2, <3>3, <1>0, <1>3 DEF pending_exists
    <2>2. CASE ReceiveUndone(h, a)
      <3>1. ~is_send(h) /\ source_of(h) = link /\ link \in Hash
        BY <2>2 DEF ReceiveUndone
      <3>2. PICK q \in PendingInfo : /\ exists(link) => q.source = owner[link]
                                     /\ pending' = [pending EXCEPT ![<<a, link>>] = q]
        BY Zenon, <2>2 DEF ReceiveUndone
      <3>3. /\ pending'[<<a, link>>] = q
            /\ \A w \in Word, s \in Hash : w # a \/ s # link => pending'[<<w, s>>] = pending[<<w, s>>]
        BY Zenon, <3>1, <3>2, <1>0, PendingUpdate
      <3> HIDE DEF link
      <3>4. pending_exists(<<a, link>>)' /\ link # h
        BY <3>1, <3>3, <1>0 DEF pending_exists
      <3>5. \A w \in Word, s \in Hash : w # a \/ s # link =>
                (pending_exists(<<w, s>>)' <=> pending_exists(<<w, s>>))
        BY <3>3 DEF pending_exists
      <3> QED
        BY Zenon, <3>1, <3>2, <3>3, <3>4, <3>5, <1>0, <1>3
    <2>3. CASE NothingUndone(h)
      BY Zenon, <2>3, <1>0, <1>3 DEF NothingUndone, pending_exists
    <2> QED
      BY Zenon, <2>1, <2>2, <2>3
  <1>5. PendingInv'
    <2> SUFFICES ASSUME NEW w \in Word, NEW s \in Hash, pending_exists(<<w, s>>)'
                 PROVE  /\ content[s].link = w
                        /\ block_or_pruned_exists(s)'
                        /\ exists(s)' => is_send(s)' /\ pending'[<<w, s>>].source = owner[s]
      BY DEF PendingInv
    <2>1. s # h
      BY Zenon, <1>4
    <2>2. /\ content[s].link = w
          /\ block_or_pruned_exists(s)
          /\ exists(s) => is_send(s) /\ pending'[<<w, s>>].source = owner[s]
      <3>1. CASE pending_exists(<<w, s>>) /\ pending'[<<w, s>>] = pending[<<w, s>>]
        <4>1. /\ content[s].link = w
              /\ block_or_pruned_exists(s)
              /\ exists(s) => is_send(s) /\ pending[<<w, s>>].source = owner[s]
          BY Zenon, <3>1 DEF StoreInv, PendingInv
        <4> QED
          BY Zenon, <3>1, <4>1
      <3>2. CASE w = a /\ source_of(h) = s /\ (exists(s) => pending'[<<w, s>>].source = owner[s])
        BY Zenon, <3>2, <1>0 DEF StoreInv, SourceInv
      <3> QED
        BY Zenon, <3>1, <3>2, <1>4
    <2>3. exists(s)' => exists(s) /\ is_send(s)' = is_send(s)
      BY Zenon, <2>1, <1>1 DEF Kept
    <2> QED
      BY Zenon, <2>1, <2>2, <2>3, <1>1
  <1>6. SourceInv'
    <2> SUFFICES ASSUME NEW x \in Hash, exists(x)'
                 PROVE  /\ source_of(x)' \in Hash \cup {Zero}
                        /\ \A s \in Hash : source_of(x)' = s =>
                              /\ content[s].link = owner[x]
                              /\ block_or_pruned_exists(s)'
                              /\ exists(s)' => is_send(s)'
                              /\ ~pending_exists(<<owner[x], s>>)'
                              /\ \A k \in Hash : exists(k)' /\ source_of(k)' = s => k = x
                              /\ block_confirmed(x)' => block_confirmed(s)'
      BY DEF SourceInv
    <2>1. x # h /\ exists(x) /\ source_of(x)' = source_of(x) /\ owner[x] \in Word
      BY Zenon, <1>0, <1>1 DEF Kept, StoreInv, BlockInv, Word
    <2>2. ASSUME NEW s \in Hash, source_of(x)' = s
          PROVE  /\ content[s].link = owner[x]
                 /\ block_or_pruned_exists(s)
                 /\ exists(s) => is_send(s)
                 /\ ~pending_exists(<<owner[x], s>>)
                 /\ \A k \in Hash : exists(k) /\ source_of(k) = s => k = x
                 /\ block_confirmed(x) => block_confirmed(s)
                 /\ s # h
      BY Zenon, <2>1, <2>2, <1>2 DEF StoreInv, SourceInv
    <2>3. ASSUME NEW s \in Hash, source_of(x)' = s
          PROVE  /\ block_or_pruned_exists(s)'
                 /\ exists(s)' => is_send(s)'
                 /\ block_confirmed(x)' => block_confirmed(s)'
      BY Zenon, <2>1, <2>2, <2>3, <1>1 DEF Kept
    <2>4. ASSUME NEW s \in Hash, source_of(x)' = s PROVE ~pending_exists(<<owner[x], s>>)'
      BY Zenon, <2>1, <2>2, <2>4, <1>0, <1>4
    <2>5. ASSUME NEW s \in Hash, source_of(x)' = s, NEW k \in Hash, exists(k)', source_of(k)' = s PROVE k = x
      BY Zenon, <2>2, <2>5, <1>0, <1>1 DEF Kept
    <2>6. source_of(x)' \in Hash \cup {Zero}
      BY Zenon, <2>1 DEF StoreInv, SourceInv
    <2> QED
      BY Zenon, <2>2, <2>3, <2>4, <2>5, <2>6
  <1>7. ReceivedInv'
    <2> SUFFICES ASSUME NEW s \in Hash, exists(s)', is_send(s)', ~pending_exists(<<content[s].link, s>>)'
                 PROVE  block_confirmed(s)' \/ \E r \in Hash : exists(r)' /\ source_of(r)' = s
      BY DEF ReceivedInv
    <2>1. s # h /\ exists(s) /\ is_send(s) /\ content[s].link \in Word
      BY Zenon, <1>0, <1>1, ContentType DEF Kept
    <2>2. ~pending_exists(<<content[s].link, s>>)
      BY <2>1, <1>4
    <2>3. CASE block_confirmed(s)
      BY Zenon, <2>1, <2>3, <1>1
    <2>4. ASSUME NEW r \in Hash, exists(r), source_of(r) = s PROVE exists(r)' /\ source_of(r)' = s
      <3>1. r # h
        <4> SUFFICES ASSUME r = h PROVE FALSE
          BY Zenon
        <4>1. content[s].link = a
          BY Zenon, <2>4, <1>0 DEF StoreInv, SourceInv
        <4> QED
          BY <4>1, <2>4, <1>4
      <3> QED
        BY Zenon, <3>1, <2>4, <1>1 DEF Kept
    <2> QED
      BY Zenon, <2>1, <2>2, <2>3, <2>4 DEF StoreInv, ReceivedInv
  <1> QED
    BY Zenon, <1>5, <1>6, <1>7

\* A nested call that still has to undo its target finds it above the confirmation height,
\* and younger than the send that waits for the call.
LEMMA NestedTarget ==
    ASSUME TypeOK, StoreInv, StackInv,
           NEW i \in DOMAIN calls, i > 1, NEW t \in Hash, calls[i].target = t, exists(t)
    PROVE  /\ account[calls[i].account].head = t
           /\ height_of(t) > confirmation_height[calls[i].account].height
           /\ \A j \in DOMAIN calls : j < i => calls[j].visiting \in Hash /\ rank[calls[j].visiting] < rank[t]
  <1> DEFINE a == calls[i].account
             b == calls[i - 1].account
  <1>1. i - 1 \in DOMAIN calls /\ i - 1 < Len(calls) /\ i \in 1..Len(calls) /\ Len(calls) \in Nat
    BY CallType
  <1>2. \A j \in DOMAIN calls : j < i => calls[j].visiting \in Hash
    BY SMTT(30), <1>1, CallType DEF StackInv
  <1>3. PICK s \in Hash : s = calls[i - 1].visiting
    BY SMTT(30), <1>1, <1>2
  <1>4. /\ exists(s) /\ is_send(s)
        /\ account[b].head = s
        /\ height_of(s) > confirmation_height[b].height
        /\ a \in Account /\ b \in Account
    BY ZenonT(40), <1>1, <1>3, CallType DEF StackInv, CallInv, VisitingInv
  <1>5. content[s].link = a /\ account[a].head = t /\ ~pending_exists(<<a, s>>)
    BY Zenon, <1>3 DEF StackInv, NestedInv
  <1>6. ~block_confirmed(s)
    <2>1. owner[s] = b /\ account_of(s) = b /\ s \notin pruned /\ height_of(s) \in Nat /\ confirmation_height[b].height \in Nat
      <3>1. owner[s] = b
        BY Zenon, <1>4 DEF StoreInv, AccountInv
      <3>2. account_of(s) = owner[s] /\ s \notin pruned
        BY Zenon, <1>4 DEF StoreInv, BlockInv
      <3>3. height_of(s) \in Nat /\ confirmation_height[b].height \in Nat
        BY Zenon, <1>4, SidebandType, AccountType DEF height_of
      <3> QED
        BY Zenon, <3>1, <3>2, <3>3
    <2> QED
      BY <2>1, <1>4 DEF block_confirmed
  <1>7. PICK r \in Hash : exists(r) /\ source_of(r) = s
    BY Zenon, <1>4, <1>5, <1>6 DEF StoreInv, ReceivedInv
  <1>8. owner[r] = a /\ ~block_confirmed(r) /\ account_of(r) = a /\ height_of(r) <= account[a].block_count
    <2>1. content[s].link = owner[r] /\ (block_confirmed(r) => block_confirmed(s))
      BY Zenon, <1>7 DEF StoreInv, SourceInv
    <2>2. account_of(r) = owner[r] /\ height_of(r) <= account[owner[r]].block_count
      BY Zenon, <1>7 DEF StoreInv, BlockInv
    <2> QED
      BY <2>1, <2>2, <1>5, <1>6
  <1>9. rank[s] < rank[r]
    BY <1>7, SourceRank
  <1>10. height_of(t) = account[a].block_count /\ owner[t] = a /\ height_of(t) \in Nat /\ height_of(r) \in Nat
         /\ confirmation_height[a].height \in Nat
    BY Zenon, <1>4, <1>5, <1>7, SidebandType, AccountType DEF StoreInv, AccountInv, height_of
  <1>11. height_of(t) > confirmation_height[a].height
    BY <1>7, <1>8, <1>10 DEF block_confirmed
  <1>12. r = t \/ rank[r] < rank[t]
    BY Zenon, <1>7, <1>8, <1>10 DEF StoreInv, OrderInv
  <1>13. rank[s] < rank[t] /\ rank[s] \in Nat /\ rank[t] \in Nat
    BY <1>9, <1>12, HashAssumption
  <1>14. ASSUME NEW j \in DOMAIN calls, j < i PROVE rank[calls[j].visiting] < rank[t]
    <2>1. CASE j = i - 1
      BY <2>1, <1>3, <1>13
    <2>2. CASE j # i - 1
      <3>1. j < i - 1 /\ calls[i - 1].visiting # Zero
        BY SMTT(30), <2>2, <1>1, <1>14, CallType DEF StackInv
      <3>2. rank[calls[j].visiting] < rank[s]
        BY Zenon, <3>1, <1>1, <1>3 DEF StackInv
      <3>3. rank[calls[j].visiting] \in Nat
        BY Zenon, <1>2, <1>14, HashAssumption
      <3> QED
        BY SMTT(30), <3>2, <3>3, <1>13
    <2> QED
      BY <2>1, <2>2
  <1> QED
    BY <1>2, <1>5, <1>11, <1>14

\* What the loop of ledger::rollback visits
LEMMA VisitedHead ==
    ASSUME TypeOK, StoreInv, StackInv, looping,
           top.height > confirmation_height[top.account].height
    PROVE  /\ visited \in Hash
           /\ \A h \in Hash : h = visited =>
                 /\ exists(h) /\ owner[h] = top.account /\ account_of(h) = top.account
                 /\ height_of(h) > confirmation_height[top.account].height
                 /\ \A j \in DOMAIN calls : j < Len(calls) => rank[calls[j].visiting] < rank[h]
                 /\ Len(calls) > 1 => top.target = h
                 /\ content[h].previous # Zero => exists(content[h].previous)
  <1>n. PICK n \in Nat : n = Len(calls) /\ n >= 1 /\ n \in DOMAIN calls /\ top = calls[n]
    BY Zenon, TopType DEF looping
  <1>a. PICK a \in Account : a = calls[n].account
    BY <1>n, CallType
  <1>1. /\ n \in DOMAIN calls /\ n >= 1 /\ top = calls[n] /\ calls[n].account = a
        /\ calls[n].target \in Hash /\ calls[n].height \in Nat
    BY <1>n, <1>a, CallType
  <1>2. PICK t \in Hash : t = calls[n].target
    BY <1>1
  <1>3. exists(t) /\ owner[t] = a /\ height_of(t) = calls[n].height
    BY Zenon, <1>1, <1>2 DEF looping, StackInv, CallInv
  <1>4. height_of(t) <= account[a].block_count /\ 1 <= height_of(t) /\ height_of(t) > confirmation_height[a].height
        /\ account[a].block_count \in Nat /\ height_of(t) \in Nat /\ confirmation_height[a].height \in Nat
    BY Zenon, <1>1, <1>3, SidebandType, AccountType DEF StoreInv, BlockInv, height_of
  <1>5. account[a].head \in Hash
    <2>1. account[a].head = Zero => account[a].block_count = 0
      BY DEF StoreInv, AccountInv, account_info, exists
    <2> QED
      BY <2>1, <1>1, <1>4, AccountType
  <1>6. visited = account[a].head
    BY Zenon, <1>1 DEF visited
  <1>7. ASSUME NEW h \in Hash, h = visited
        PROVE  /\ exists(h) /\ owner[h] = a /\ account_of(h) = a
               /\ height_of(h) > confirmation_height[a].height
               /\ \A j \in DOMAIN calls : j < n => rank[calls[j].visiting] < rank[h]
               /\ n > 1 => calls[n].target = h
               /\ content[h].previous # Zero => exists(content[h].previous)
    <2> USE DEF exists
    <2>1. exists(h) /\ owner[h] = a /\ height_of(h) = account[a].block_count
      BY <1>1, <1>6, <1>7 DEF StoreInv, AccountInv
    <2>2. height_of(h) > confirmation_height[a].height
      BY SMTT(30), <2>1, <1>4
    <2>3. account_of(h) = a /\ (content[h].previous # Zero => exists(content[h].previous))
      BY Zenon, <2>1, <2>2 DEF StoreInv, BlockInv
    <2>4. CASE n > 1
      <3>1. account[a].head = t /\ \A j \in DOMAIN calls : j < n => rank[calls[j].visiting] < rank[t]
        BY <2>4, <1>1, <1>2, <1>3, NestedTarget
      <3>2. h = t
        BY Zenon, <3>1, <1>6, <1>7
      <3> QED
        BY Zenon, <2>1, <2>2, <2>3, <3>1, <3>2, <1>2
    <2>5. CASE n = 1
      <3>1. \A j \in DOMAIN calls : ~(j < n)
        BY <2>5, <1>n, CallType
      <3> QED
        BY SMTT(30), <2>1, <2>2, <2>3, <2>5, <3>1
    <2>6. n > 1 \/ n = 1
      BY SMTT(30), <1>1
    <2> QED
      BY Zenon, <2>4, <2>5, <2>6
  <1> QED
    BY Zenon, <1>n, <1>1, <1>5, <1>6, <1>7

\* A waiting call is untouched by the removal of a block other than the one it waits with.
LEMMA RemovedVisiting ==
    ASSUME TypeOK, StoreInv, NEW h \in Hash, NEW a \in Account, Removed(h, a),
           NEW c \in Call, VisitingInv(c), c.visiting # h, c.visiting # Zero
    PROVE  VisitingInv(c)' /\ c.account # a
  <1>1. c.visiting \in Hash /\ c.account \in Account /\ Zero \notin Hash
    BY ContentType DEF Call
  <1>2. PICK v \in Hash : v = c.visiting
    BY Zenon, <1>1
  <1>3. /\ exists(v) /\ is_send(v)
        /\ account[c.account].head = v
        /\ height_of(v) > confirmation_height[c.account].height
        /\ content[v].type = "state" =>
              /\ c.info = account[c.account]
              /\ c.new_info.head = content[v].previous
              /\ c.new_info.balance = balance(content[v].previous)
              /\ c.new_info.block_count = c.info.block_count - 1
    BY Zenon, <1>2 DEF VisitingInv
  <1>4. c.account # a
    BY ZenonT(40), <1>2, <1>3 DEF Removed
  <1>5. account'[c.account] = account[c.account] /\ confirmation_height' = confirmation_height
    BY Zenon, <1>1, <1>4 DEF Removed
  <1>6. Kept(v)
    BY Zenon, <1>2, <1>3 DEF Removed
  <1>7. balance(content[v].previous)' = balance(content[v].previous)
    <2> DEFINE previous == content[v].previous
    <2>1. previous \in Hash \cup {Zero}
      BY ContentType
    <2>2. owner[v] = c.account
      BY Zenon, <1>1, <1>3 DEF StoreInv, AccountInv
    <2>3. CASE previous = Zero
      BY Zenon, <2>3 DEF balance
    <2>4. CASE previous # Zero
      <3>1. exists(previous) /\ owner[previous] = owner[v]
        BY Zenon, <2>2, <2>4, <1>3 DEF StoreInv, BlockInv
      <3>2. previous # h
        BY Zenon, <3>1, <2>2, <1>4 DEF Removed
      <3>3. Kept(previous)
        BY Zenon, <2>1, <2>4, <3>1, <3>2 DEF Removed
      <3> QED
        BY <3>3 DEF Kept, balance
    <2> QED
      BY SMTT(30), <2>3, <2>4
  <1>8. ASSUME NEW x \in Hash, c.visiting = x
        PROVE  /\ exists(x)' /\ is_send(x)'
               /\ account'[c.account].head = x
               /\ height_of(x)' > confirmation_height'[c.account].height
               /\ content[x].type = "state" =>
                     /\ c.info = account'[c.account]
                     /\ c.new_info.head = content[x].previous
                     /\ c.new_info.balance = balance(content[x].previous)'
                     /\ c.new_info.block_count = c.info.block_count - 1
    <2>1. x = v
      BY Zenon, <1>8, <1>2
    <2> QED
      BY Zenon, <2>1, <1>3, <1>5, <1>6, <1>7 DEF Kept
  <1> QED
    BY Zenon, <1>4, <1>8 DEF VisitingInv

\* The stack after a removal that ends the visit of the innermost call
LEMMA RemovedStack ==
    ASSUME TypeOK, StoreInv, StackInv, NEW h \in Hash, NEW a \in Account, Removed(h, a),
           SendUndone(h) \/ ReceiveUndone(h, a) \/ NothingUndone(h),
           NEW n \in Nat, n \in DOMAIN calls, n = Len(calls), calls[n].account = a,
           n > 1 => calls[n].target = h,
           \A j \in DOMAIN calls : j < n => rank[calls[j].visiting] < rank[h],
           calls' \in Seq(Call), Len(calls') = n,
           \A j \in 1..n : j < n => calls'[j] = calls[j],
           calls'[n].target = calls[n].target, calls'[n].account = a, calls'[n].height = calls[n].height,
           calls'[n].visiting = Zero, calls'[n].error = FALSE
    PROVE  StackInv'
  <1>1. /\ DOMAIN calls = 1..n /\ DOMAIN calls' = 1..n
        /\ \A j \in 1..n : calls[j] \in Call /\ calls'[j] \in Call
        /\ Zero \notin Hash
    <2>1. calls \in Seq(Call)
      BY Zenon DEF TypeOK
    <2>2. DOMAIN calls = 1..n /\ \A j \in 1..n : calls[j] \in Call
      BY SMTT(30), <2>1
    <2>3. DOMAIN calls' = 1..n /\ \A j \in 1..n : calls'[j] \in Call
      BY SMTT(30)
    <2> QED
      BY Zenon, <2>2, <2>3, ContentType
  <1>2. \A j \in 1..n : j < n => /\ calls[j].visiting # Zero /\ calls[j].visiting # h
                                 /\ CallInv(calls[j]) /\ ~calls[j].error
    <2> SUFFICES ASSUME NEW j \in 1..n, j < n
                 PROVE  /\ calls[j].visiting # Zero /\ calls[j].visiting # h
                        /\ CallInv(calls[j]) /\ ~calls[j].error
      BY Zenon
    <2>1. CallInv(calls[j]) /\ calls[j].visiting # Zero
      BY Zenon, <1>1 DEF StackInv
    <2>2. calls[j].visiting # h
      <3>1. rank[calls[j].visiting] < rank[h] /\ rank[h] \in Nat
        BY Zenon, <1>1, HashAssumption
      <3> QED
        BY SMTT(30), <3>1
    <2> QED
      BY Zenon, <2>1, <2>2 DEF CallInv
  <1>3. ASSUME NEW j \in 1..n, j < n, NEW c \in Call, c = calls[j]
        PROVE  VisitingInv(c)' /\ c.account # a
    <2>1. VisitingInv(c) /\ c.visiting # h /\ c.visiting # Zero
      BY Zenon, <1>2, <1>3 DEF CallInv
    <2> QED
      BY Zenon, <2>1, RemovedVisiting
  <1>4. \A w \in Word, s \in Hash : w # a /\ ~pending_exists(<<w, s>>) => ~pending_exists(<<w, s>>)'
    <2>1. content[h].link \in Word /\ a \in Word
      BY Zenon, ContentType DEF Word
    <2>2. CASE SendUndone(h)
      BY Zenon, <2>1, <2>2, PendingUpdate DEF SendUndone, pending_exists
    <2>3. CASE ReceiveUndone(h, a)
      <3>1. PICK p \in PendingInfo : content[h].link \in Hash /\ pending' = [pending EXCEPT ![<<a, content[h].link>>] = p]
        BY Zenon, <2>3 DEF ReceiveUndone
      <3> QED
        BY Zenon, <2>1, <3>1, PendingUpdate DEF pending_exists
    <2>4. CASE NothingUndone(h)
      BY SMTT(30), <2>4 DEF NothingUndone, pending_exists
    <2> QED
      BY Zenon, <2>2, <2>3, <2>4
  <1>5. ASSUME NEW j \in 1..n, NEW c \in Call, c = calls'[j]
        PROVE  /\ owner[c.target] = c.account
               /\ \A x \in Hash : c.target = x /\ exists(x)' => height_of(x)' = c.height
               /\ VisitingInv(c)'
               /\ ~c.error
               /\ c.visiting # Zero => exists(c.target)'
    <2>1. \A x \in Hash : exists(x)' => exists(x) /\ height_of(x)' = height_of(x)
      BY Zenon DEF Removed, Kept
    <2>2. /\ c.target = calls[j].target /\ c.account = calls[j].account /\ c.height = calls[j].height
          /\ CallInv(calls[j])
      BY SMTT(30), <1>1, <1>5 DEF StackInv
    <2>3. /\ owner[c.target] = c.account
          /\ \A x \in Hash : c.target = x /\ exists(x)' => height_of(x)' = c.height
      BY Zenon, <2>1, <2>2 DEF CallInv
    <2>4. VisitingInv(c)' /\ ~c.error
      <3>1. CASE j = n
        BY Zenon, <3>1, <1>1, <1>5 DEF VisitingInv
      <3>2. CASE j # n
        BY SMTT(30), <3>2, <1>1, <1>2, <1>3, <1>5
      <3> QED
        BY Zenon, <3>1, <3>2
    <2>5. ASSUME c.visiting # Zero PROVE exists(c.target)'
      <3>1. j # n
        BY Zenon, <2>5, <1>5
      <3>2. c = calls[j] /\ c.target \in Hash
        BY SMTT(30), <3>1, <1>5 DEF Call
      <3>3. c.account # a
        BY SMTT(30), <3>1, <3>2, <1>3
      <3>4. exists(c.target) /\ owner[c.target] = c.account
        BY Zenon, <2>2, <2>5, <3>2 DEF CallInv
      <3> QED
        BY Zenon, <3>2, <3>3, <3>4 DEF Removed
    <2> QED
      BY <2>3, <2>4, <2>5
  <1>6. ASSUME NEW j \in 1..n, j > 1, NEW c \in Call, c = calls'[j], NEW s \in Hash, s = calls'[j - 1].visiting
        PROVE  /\ content[s].link = c.account
               /\ \A x \in Hash : c.target = x /\ exists(x)' =>
                     account'[c.account].head = x /\ ~pending_exists(<<c.account, s>>)'
    <2>1. j - 1 \in 1..n /\ j - 1 < n /\ s = calls[j - 1].visiting
      BY SMTT(30), <1>6
    <2>2. c.target = calls[j].target /\ c.account = calls[j].account /\ NestedInv(calls[j], s) /\ c.account \in Word
      <3>1. c.account \in Word
        BY DEF Call, Word
      <3>2. c.target = calls[j].target /\ c.account = calls[j].account
        BY SMTT(30), <1>6
      <3>3. NestedInv(calls[j], calls[j - 1].visiting)
        BY Zenon, <1>1, <1>6 DEF StackInv
      <3> QED
        BY Zenon, <3>1, <3>2, <3>3, <2>1
    <2>3. CASE j = n
      BY Zenon, <2>2, <2>3, <1>6 DEF NestedInv, Removed
    <2>4. CASE j # n
      <3>1. c.account # a /\ c.account \in Account
        BY SMTT(30), <2>4, <1>3, <1>6 DEF Call
      <3>2. account'[c.account] = account[c.account]
        BY Zenon, <3>1 DEF Removed
      <3>3. \A x \in Hash : exists(x)' => exists(x)
        BY Zenon DEF Removed
      <3> QED
        BY Zenon, <2>2, <3>1, <3>2, <3>3, <1>4 DEF NestedInv
    <2> QED
      BY Zenon, <2>3, <2>4
  <1>7. \A j \in 1..n : j < n => calls'[j].visiting \in Hash
    BY Zenon, <1>1, <1>2 DEF Call
  <1>8. \A i, j \in 1..n : i < j /\ calls'[j].visiting # Zero => rank[calls'[i].visiting] < rank[calls'[j].visiting]
    BY SMTT(30), <1>1 DEF StackInv
  <1>9. ASSUME NEW j \in 1..n PROVE CallInv(calls[j])'
    <2>1. calls'[j] \in Call
      BY Zenon, <1>1
    <2> QED
      BY Zenon, <2>1, <1>5 DEF CallInv
  <1>10. ASSUME NEW j \in 1..n, j > 1 PROVE NestedInv(calls[j], calls[j - 1].visiting)'
    <2>1. j - 1 \in 1..n /\ j - 1 < n
      BY SMTT(30), <1>10
    <2>2. calls'[j - 1].visiting \in Hash /\ calls'[j] \in Call
      BY Zenon, <2>1, <1>1, <1>7
    <2>3. PICK c \in Call, s \in Hash : c = calls'[j] /\ s = calls'[j - 1].visiting
      BY ZenonT(60), <2>2
    <2>4. /\ content[s].link = c.account
          /\ \A x \in Hash : c.target = x /\ exists(x)' =>
                account'[c.account].head = x /\ ~pending_exists(<<c.account, s>>)'
      BY SMTT(30), <2>3, <1>10, <1>6
    <2>5. NestedInv(c, s)'
      BY Zenon, <2>4 DEF NestedInv
    <2> QED
      BY Zenon, <2>3, <2>5 DEF NestedInv
  <1>11. \A j \in 1..n : j < n => calls'[j].visiting # Zero
    BY Zenon, <1>1, <1>7
  <1> QED
    BY Zenon, <1>1, <1>8, <1>9, <1>10, <1>11 DEF StackInv

-----------------------------------------------------------------------------
(* The steps that remove a block                                           *)

LEMMA RemovedFrontier ==
    ASSUME TypeOK, StoreInv, FrontierMatchesHead, NEW h \in Hash, NEW a \in Account, Removed(h, a),
           frontier'[h] = Zero,
           content[h].previous # Zero /\ is_legacy(content[h].previous) => frontier'[content[h].previous] = a,
           content[h].previous # Zero /\ ~is_legacy(content[h].previous) =>
               frontier'[content[h].previous] = frontier[content[h].previous],
           \A x \in Hash : x # h /\ x # content[h].previous => frontier'[x] = frontier[x]
    PROVE  FrontierMatchesHead'
  <1> DEFINE previous == content[h].previous
  <1>0. /\ Zero \notin Hash /\ Zero \notin Account /\ previous \in Hash \cup {Zero}
        /\ account'[a].head = previous /\ account[a].head = h
        /\ owner[h] = a /\ exists(h) /\ height_of(h) > confirmation_height[a].height
        /\ \A b \in Account : b # a => account'[b] = account[b]
        /\ previous # h
    <2>1. previous \in Hash \cup {Zero} /\ Zero \notin Hash
      BY Zenon, ContentType
    <2>2. previous # h
      BY SMTT(30), <2>1, HashAssumption
    <2> QED
      BY Zenon, <2>1, <2>2, ContentType DEF Removed
  <1>1. \A b \in Account : account[b].head = h => b = a
    BY Zenon, <1>0 DEF StoreInv, AccountInv
  <1>2. ASSUME NEW b \in Account, previous # Zero, account[b].head = previous PROVE FALSE
    <2>1. exists(previous) /\ owner[previous] = a
      BY Zenon, <1>0, <1>2 DEF StoreInv, BlockInv
    <2>2. owner[previous] = b
      BY Zenon, <1>0, <1>2 DEF StoreInv, AccountInv
    <2> QED
      BY Zenon, <2>1, <2>2, <1>0, <1>2
  <1> SUFFICES ASSUME NEW x \in Hash, NEW b \in Account
               PROVE  frontier'[x] = b <=> account'[b].head = x /\ is_legacy(x)
    BY Zenon DEF FrontierMatchesHead, is_legacy
  <1>3. CASE x = h
    BY Zenon, <1>0, <1>1, <1>3
  <1>4. CASE x = previous /\ x # h
    <2>1. account'[b].head = x <=> b = a
      BY Zenon, <1>4, <1>0, <1>2
    <2>2. ~is_legacy(x) => frontier[x] # b
      BY Zenon DEF FrontierMatchesHead
    <2>3. is_legacy(x) => frontier'[x] = a
      BY Zenon, <1>4, <1>0
    <2>4. ~is_legacy(x) => frontier'[x] = frontier[x]
      BY Zenon, <1>4, <1>0
    <2> QED
      BY Zenon, <2>1, <2>2, <2>3, <2>4
  <1>5. CASE x # previous /\ x # h
    <2>1. frontier'[x] = frontier[x] /\ (frontier[x] = b <=> account[b].head = x /\ is_legacy(x))
      BY Zenon, <1>5 DEF FrontierMatchesHead
    <2>2. account'[b].head = x <=> account[b].head = x
      BY Zenon, <1>5, <1>0
    <2> QED
      BY Zenon, <2>1, <2>2
  <1> QED
    BY Zenon, <1>3, <1>4, <1>5

\* What is left to show of a step that removes the block the innermost call visits
LEMMA RemovedInv ==
    ASSUME IInv, NEW h \in Hash, NEW a \in Account, Removed(h, a),
           SendUndone(h) \/ ReceiveUndone(h, a) \/ NothingUndone(h),
           NEW n \in Nat, n \in DOMAIN calls, n = Len(calls), calls[n].account = a,
           n > 1 => calls[n].target = h,
           \A j \in DOMAIN calls : j < n => rank[calls[j].visiting] < rank[h],
           Len(calls') = n,
           \A j \in 1..n : j < n => calls'[j] = calls[j],
           calls'[n].target = calls[n].target, calls'[n].account = a, calls'[n].height = calls[n].height,
           calls'[n].visiting = Zero, calls'[n].error = FALSE,
           TypeOK', FrontierMatchesHead'
    PROVE  IInv'
  <1>1. TypeOK /\ StoreInv /\ StackInv /\ calls' \in Seq(Call)
    BY Zenon DEF IInv, TypeOK
  <1>2. StoreInv'
    BY Zenon, <1>1, RemovedChains, RemovedPending DEF StoreInv
  <1>3. StackInv'
    BY Zenon, <1>1, RemovedStack
  <1>4. LegacyInv'
    <2> SUFFICES ASSUME NEW x \in Hash, exists(x)'
                 PROVE  /\ is_legacy(x) /\ content[x].previous # Zero => is_legacy(content[x].previous)
                        /\ content[x].type = "change" /\ exists(content[x].previous)' =>
                              balance_of(x)' = balance_of(content[x].previous)'
      BY Zenon DEF LegacyInv, is_legacy
    <2>1. exists(x) /\ Kept(x)
      BY Zenon DEF Removed
    <2>2. ASSUME exists(content[x].previous)', content[x].type = "change"
          PROVE  balance_of(x)' = balance_of(content[x].previous)'
      <3>1. PICK k \in Hash : k = content[x].previous
        BY Zenon, <2>2 DEF exists
      <3>2. exists(k) /\ Kept(k)
        BY Zenon, <2>2, <3>1 DEF Removed
      <3>3. balance_of(x) = balance_of(k)
        BY Zenon, <2>1, <2>2, <3>1, <3>2 DEF IInv, LegacyInv
      <3> QED
        BY Zenon, <2>1, <3>1, <3>2, <3>3 DEF Kept
    <2>3. is_legacy(x) /\ content[x].previous # Zero => is_legacy(content[x].previous)
      BY Zenon, <2>1 DEF IInv, LegacyInv
    <2> QED
      BY Zenon, <2>2, <2>3
  <1>5. PruneInv'
    <2>1. calls # <<>>
      BY SMTT(30)
    <2>2. prune_hash = Zero /\ prune_hash' = prune_hash /\ Zero \notin Hash
      BY Zenon, <2>1, ContentType DEF IInv, PruneInv, Removed
    <2> QED
      BY Zenon, <2>2 DEF PruneInv
  <1> QED
    BY Zenon, <1>2, <1>3, <1>4, <1>5 DEF IInv

\* What a step needs that undoes the visited block at once, without a change of the stack
LEMMA RemovedVisited ==
    ASSUME IInv, looping, top.height > confirmation_height[top.account].height,
           NEW h \in Hash, h = visited, NEW a \in Account, a = top.account, Removed(h, a),
           ReceiveUndone(h, a) \/ NothingUndone(h),
           calls' = calls, TypeOK', FrontierMatchesHead'
    PROVE  IInv'
  <1>1. TypeOK /\ StoreInv /\ StackInv /\ calls # <<>> /\ top.visiting = Zero /\ ~top.error
    BY DEF IInv, looping
  <1>2. /\ Len(calls) \in DOMAIN calls /\ Len(calls) \in Nat /\ top = calls[Len(calls)]
    BY <1>1, TopType
  <1>3. PICK n \in Nat : n = Len(calls)
    BY Zenon, <1>2
  <1>4. /\ n > 1 => calls[n].target = h
        /\ \A j \in DOMAIN calls : j < n => rank[calls[j].visiting] < rank[h]
    BY Zenon, <1>1, <1>2, <1>3, VisitedHead
  <1>5. calls[n].error = FALSE /\ calls[n].visiting = Zero
    BY <1>1, <1>2, <1>3, CallType
  <1>6. Len(calls') = n /\ calls'[n] = calls[n] /\ \A j \in 1..n : calls'[j] = calls[j]
    BY <1>3
  <1> QED
    BY Zenon, <1>2, <1>3, <1>4, <1>5, <1>6, RemovedInv

\* The amount a block has sent or received
LEMMA AmountMoved ==
    ASSUME TypeOK, NEW h \in Hash, exists(h), content[h].previous = Zero \/ exists(content[h].previous)
    PROVE  amount(h) \in Amount /\ balance(content[h].previous) \in Amount
  <1>1. balance(h) \in Amount /\ balance(h) \in Nat
    BY Zenon, BalanceType, AmountType
  <1>2. balance(content[h].previous) \in Amount /\ balance(content[h].previous) \in Nat
    <2>1. CASE exists(content[h].previous)
      <3>1. content[h].previous \in Hash
        BY <2>1, ContentType DEF exists
      <3> QED
        BY Zenon, <3>1, <2>1, BalanceType, AmountType
    <2>2. CASE content[h].previous = Zero
      BY Zenon, <2>2, AmountType DEF balance
    <2> QED
      BY Zenon, <2>1, <2>2
  <1> HIDE DEF Amount
  <1>3. CASE balance(h) > balance(content[h].previous)
    <2>1. ~(balance(h) < balance(content[h].previous))
      BY SMTT(30), <1>1, <1>2, <1>3
    <2> QED
      BY <2>1, <1>1, <1>2, <1>3, AmountType DEF amount
  <1>4. CASE ~(balance(h) > balance(content[h].previous))
    <2>1. ~(balance(content[h].previous) < balance(h))
      BY Zenon, <1>1, <1>2, <1>4
    <2> QED
      BY Zenon, <2>1, <1>1, <1>2, <1>4, AmountType DEF amount
  <1> QED
    BY <1>2, <1>3, <1>4

\* The block h the loop of the innermost call visits is the head of its account a
LEMMA VisitedBlock ==
    ASSUME IInv, NEW type, visit(type)
    PROVE  /\ TypeOK /\ StoreInv /\ StackInv /\ looping
           /\ top.height > confirmation_height[top.account].height
           /\ UNCHANGED <<confirmation_height, pruned, prune_hash>>
           /\ list' \in Seq(Hash)
           /\ \E h \in Hash, a \in Account :
                 /\ h = visited /\ a = top.account /\ content[h].type = type
                 /\ exists(h) /\ owner[h] = a /\ account_of(h) = a /\ account[a].head = h
                 /\ height_of(h) > confirmation_height[a].height
                 /\ content[h].previous \in Hash \cup {Zero}
                 /\ content[h].previous # h
                 /\ content[h].previous # Zero => content[h].previous \in Hash /\ exists(content[h].previous)
                 /\ account[a].block_count - 1 \in Nat
  <1>1. /\ TypeOK /\ StoreInv /\ StackInv /\ looping
        /\ top.height > confirmation_height[top.account].height
        /\ content[visited].type = type
        /\ UNCHANGED <<confirmation_height, pruned, prune_hash>>
        /\ list' = Append(list, visited)
    BY DEF IInv, visit
  <1>2. visited \in Hash /\ top.account \in Account
    BY Zenon, <1>1, VisitedHead, TopType, CallType DEF looping
  <1>3. PICK h \in Hash : h = visited
    BY <1>2
  <1>4. PICK a \in Account : a = top.account
    BY <1>2
  <1>5. /\ exists(h) /\ owner[h] = a /\ account_of(h) = a
        /\ height_of(h) > confirmation_height[a].height
        /\ content[h].previous # Zero => exists(content[h].previous)
    BY Zenon, <1>1, <1>3, <1>4, VisitedHead
  <1>6. account[a].head = h
    BY Zenon, <1>3, <1>4 DEF visited
  <1>7. content[h].previous \in Hash \cup {Zero} /\ content[h].previous # h
    <2>1. content[h].previous \in Hash \cup {Zero} /\ Zero \notin Hash
      BY Zenon, ContentType
    <2> QED
      BY SMTT(30), <2>1, HashAssumption
  <1>8. account[a].block_count - 1 \in Nat
    <2>1. 1 <= height_of(h) /\ height_of(h) <= account[a].block_count
      BY Zenon, <1>1, <1>5 DEF StoreInv, BlockInv
    <2>2. height_of(h) \in Nat /\ account[a].block_count \in Nat
      BY Zenon, <1>1, <1>5, AccountType, SidebandType DEF height_of
    <2> QED
      BY SMTT(30), <2>1, <2>2
  <1>9. list' \in Seq(Hash)
    <2>1. list \in Seq(Hash)
      BY Zenon, <1>1 DEF TypeOK
    <2> QED
      BY SMTT(30), <2>1, <1>1, <1>2
  <1> QED
    BY ZenonT(40), <1>1, <1>3, <1>4, <1>5, <1>6, <1>7, <1>8, <1>9

\* The account as it was before its head h, a state block
LEMMA StatePreviousInfo ==
    ASSUME IInv, NEW h \in Hash, NEW a \in Account, exists(h),
           content[h].previous \in Hash \cup {Zero},
           content[h].previous # Zero => exists(content[h].previous),
           account[a].block_count - 1 \in Nat,
           balance(content[h].previous) \in Amount,
           rollback_state_representative(h)
    PROVE  /\ state_previous_info(h, account[a]) \in AccountInfo
           /\ state_previous_info(h, account[a]).head = content[h].previous
           /\ state_previous_info(h, account[a]).block_count = account[a].block_count - 1
           /\ state_previous_info(h, account[a]).balance = balance(content[h].previous)
  <1> DEFINE previous == content[h].previous
             representative == IF previous = Zero THEN Zero
                               ELSE content[representative_visitor[previous]].representative
  <1>1. representative \in Account \cup {Zero}
    <2>1. previous # Zero => exists(representative_visitor[previous])
      BY ZenonT(40) DEF rollback_state_representative
    <2> QED
      BY Zenon, <2>1, ContentType DEF exists
  <1>2. account[a].open_block \in Hash \cup {Zero}
    BY Zenon, AccountType DEF IInv
  <1>3. state_previous_info(h, account[a]) =
            new_account_info(previous, representative, account[a].open_block, balance(previous),
                             account[a].block_count - 1, 0)
    BY Zenon DEF state_previous_info
  <1> HIDE DEF representative
  <1> DEFINE new == new_account_info(previous, representative, account[a].open_block, balance(previous),
                                     account[a].block_count - 1, 0)
  <1>4. 0 \in Epoch
    BY DEF Epoch
  <1>5. new \in AccountInfo /\ new.head = previous /\ new.block_count = account[a].block_count - 1
        /\ new.balance = balance(previous)
    BY <1>1, <1>2, <1>4 DEF new_account_info, AccountInfo
  <1> QED
    BY Zenon, <1>3, <1>5

\* The innermost call is replaced
LEMMA TopReplaced ==
    ASSUME TypeOK, NEW n \in Nat, n = Len(calls), n \in DOMAIN calls,
           NEW c \in Call, calls' = [calls EXCEPT ![n] = c]
    PROVE  /\ calls' \in Seq(Call) /\ Len(calls') = n /\ calls'[n] = c
           /\ \A j \in 1..n : j < n => calls'[j] = calls[j]
  <1>1. calls \in Seq(Call)
    BY Zenon DEF TypeOK
  <1> QED
    BY <1>1

=============================================================================
