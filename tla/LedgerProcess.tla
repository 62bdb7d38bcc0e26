----------------------------- MODULE LedgerProcess -----------------------------
(***************************************************************************)
(* ledger::process keeps the invariant.  A block that the ledger accepts is *)
(* appended to the chain of its account (Appended); it sends an amount,    *)
(* receives one or does neither.                                           *)
(***************************************************************************)
EXTENDS LedgerTables

Appended(h, a) ==
    /\ a \in Account /\ owner[h] = a
    /\ ~exists(h) /\ h \notin pruned
    /\ content[h].previous = account[a].head
    /\ is_legacy(h) /\ content[h].previous # Zero => is_legacy(content[h].previous)
    /\ content[h].type = "change" => balance_of(h)' = account[a].balance
    /\ \A x \in Hash : exists(x)' <=> exists(x) \/ x = h
    /\ \A x \in Hash : exists(x) => Kept(x)
    /\ height_of(h)' = account[a].block_count + 1 /\ account_of(h)' = a
    /\ content[h].type = "state" => (block'[h].is_send <=> content[h].balance < account[a].balance)
    /\ \A b \in Account : b # a => account'[b] = account[b]
    /\ account'[a].head = h
    /\ account'[a].block_count = account[a].block_count + 1
    /\ account'[a].balance = balance_of(h)'
    /\ idle
    /\ UNCHANGED <<confirmation_height, pruned, calls, prune_hash>>

PendingSent(h, a) ==
    /\ is_send(h)'
    /\ \E p \in PendingInfo : p.source = a /\ pending' = [pending EXCEPT ![<<content[h].link, h>>] = p]

PendingReceived(h, a) ==
    /\ ~is_send(h)' /\ source_of(h)' = content[h].link /\ content[h].link \in Hash
    /\ pending_exists(<<a, content[h].link>>)
    /\ pending' = [pending EXCEPT ![<<a, content[h].link>>] = None]

PendingKept(h) ==
    ~is_send(h)' /\ source_of(h)' = Zero /\ pending' = pending

LEMMA AppendedChains ==
    ASSUME TypeOK, StoreInv, NEW h \in Hash, NEW a \in Account, Appended(h, a)
    PROVE  AccountInv' /\ BlockInv' /\ OrderInv' /\ ConfirmationInv'
  <1> USE DEF exists
  <1> DEFINE head == account[a].head
  <1>0. /\ Zero \notin Hash
        /\ account[a].block_count \in Nat
        /\ confirmation_height[a].height \in Nat
        /\ confirmation_height[a].height <= account[a].block_count
        /\ confirmation_height' = confirmation_height /\ pruned' = pruned
    BY AccountType, ContentType DEF Appended, StoreInv, ConfirmationInv
  <1>1. /\ head = Zero => account[a].block_count = 0 /\ account[a].balance = 0
        /\ head # Zero => /\ exists(head) /\ owner[head] = a /\ head \in Hash
                          /\ height_of(head) = account[a].block_count /\ account[a].balance = balance_of(head)
    BY AccountType DEF StoreInv, AccountInv, account_info
  <1>2. \A x \in Hash : exists(x) /\ owner[x] = a =>
            /\ 1 <= height_of(x) /\ height_of(x) <= account[a].block_count /\ height_of(x) \in Nat
            /\ rank[x] < rank[h]
    <2> SUFFICES ASSUME NEW x \in Hash, exists(x), owner[x] = a
                 PROVE  /\ 1 <= height_of(x) /\ height_of(x) <= account[a].block_count /\ height_of(x) \in Nat
                        /\ rank[x] < rank[h]
      OBVIOUS
    <2>1. 1 <= height_of(x) /\ height_of(x) <= account[a].block_count /\ height_of(x) \in Nat
      BY SidebandType DEF StoreInv, BlockInv, height_of
    <2>2. head # Zero /\ content[h].previous = head
      BY <1>1, <2>1 DEF Appended
    <2>3. rank[head] < rank[h] /\ rank[head] \in Nat /\ rank[h] \in Nat /\ rank[x] \in Nat
      BY <2>2, <1>1, HashAssumption
    <2>4. x = head \/ rank[x] < rank[head]
      BY <2>1, <2>2, <1>1 DEF StoreInv, OrderInv
    <2> QED
      BY <2>1, <2>3, <2>4
  <1>3. AccountInv'
    <2>1. ASSUME NEW b \in Account, account'[b].head = Zero PROVE account'[b] = account_info
      BY <2>1, <1>0 DEF Appended, StoreInv, AccountInv
    <2>2. ASSUME NEW b \in Account, NEW k \in Hash, account'[b].head = k
          PROVE  /\ exists(k)' /\ owner[k] = b
                 /\ height_of(k)' = account'[b].block_count
                 /\ account'[b].balance = balance_of(k)'
      <3>1. CASE b = a
        BY <2>2, <3>1 DEF Appended
      <3>2. CASE b # a
        <4>1. account'[b] = account[b]
          BY <3>2 DEF Appended
        <4>2. /\ exists(k) /\ owner[k] = b
              /\ height_of(k) = account[b].block_count
              /\ account[b].balance = balance_of(k)
          BY <2>2, <4>1 DEF StoreInv, AccountInv
        <4>3. Kept(k)
          BY Zenon, <4>2 DEF Appended
        <4> QED
          BY <4>1, <4>2, <4>3 DEF Kept
      <3> QED
        BY <3>1, <3>2
    <2> QED
      BY <2>1, <2>2 DEF AccountInv
  <1>4. BlockInv'
    <2> SUFFICES ASSUME NEW x \in Hash, exists(x)'
                 PROVE LET previous == content[x].previous
                       IN  /\ x \notin pruned
                           /\ owner[x] \in Account /\ account_of(x)' = owner[x]
                           /\ 1 <= height_of(x)' /\ height_of(x)' <= account'[owner[x]].block_count
                           /\ height_of(x)' = 1 <=> previous = Zero
                           /\ previous # Zero => exists(previous)' \/ previous \in pruned
                           /\ previous # Zero /\ height_of(x)' > confirmation_height[owner[x]].height => exists(previous)'
                           /\ exists(previous)' => owner[previous] = owner[x] /\ height_of(x)' = height_of(previous)' + 1
                           /\ content[x].type = "state" /\ exists(previous)' =>
                                 (block'[x].is_send <=> content[x].balance < balance_of(previous)')
                           /\ content[x].type = "state" /\ previous = Zero => ~block'[x].is_send
      BY <1>0 DEF BlockInv
    <2> DEFINE previous == content[x].previous
    <2>0. previous \in Hash \cup {Zero}
      BY Zenon, ContentType
    <2>1. CASE x = h
      <3>1. previous = head
        BY <2>1 DEF Appended
      <3>2. CASE head = Zero
        <4>1. height_of(h)' = 1 /\ ~exists(Zero)' /\ account'[a].block_count = 1
          BY <3>2, <1>0, <1>1 DEF Appended, exists
        <4>2. content[h].balance \in Nat /\ account[a].balance = 0
          BY Zenon, <3>2, <1>1, ContentType, AmountType
        <4>3. content[h].type = "state" => ~block'[h].is_send
          BY SMTT(30), <4>2 DEF Appended
        <4> QED
          BY SMTT(30), <2>1, <3>1, <3>2, <4>1, <4>3 DEF Appended
      <3>3. CASE head # Zero
        <4>1. PICK k \in Hash : k = head
          BY Zenon, <3>3, <1>1
        <4>2. Kept(k) /\ exists(k) /\ owner[k] = a
              /\ height_of(k) = account[a].block_count /\ account[a].balance = balance_of(k)
          BY <4>1, <3>3, <1>1 DEF Appended, StoreInv, AccountInv
        <4>3. previous = k
          BY Zenon, <4>1, <3>1
        <4> HIDE DEF head, previous
        <4>4. exists(previous)' /\ previous # Zero
          BY Zenon, <4>2, <4>3, <1>0 DEF Kept
        <4>5. height_of(h)' = height_of(k)' + 1 /\ height_of(k)' = height_of(k) /\ height_of(k) \in Nat
              /\ balance_of(k)' = balance_of(k) /\ 1 <= height_of(k)
          BY SMTT(30), <4>2, <1>0, <1>2 DEF Appended, Kept
        <4> QED
          BY <2>1, <4>2, <4>3, <4>4, <4>5, <1>0 DEF Appended, previous
      <3> QED
        BY <3>2, <3>3
    <2>2. CASE x # h
      <3>1. exists(x) /\ Kept(x)
        BY <2>2 DEF Appended
      <3>2. previous # h
        <4> SUFFICES ASSUME previous = h PROVE FALSE
          OBVIOUS
        <4>1. ~exists(h) /\ h \notin pruned /\ h # Zero
          BY <1>0 DEF Appended
        <4> QED
          BY <4>1, <3>1 DEF StoreInv, BlockInv
      <3>3. exists(previous)' <=> exists(previous)
        BY <3>2, <2>0, <1>0 DEF Appended, exists
      <3>4. exists(previous) => Kept(previous)
        BY Zenon, <2>0 DEF exists, Appended
      <3>5. owner[x] \in Account /\ height_of(x) <= account[owner[x]].block_count /\ height_of(x)' = height_of(x)
        BY <3>1 DEF StoreInv, BlockInv, Kept
      <3>6. height_of(x)' <= account'[owner[x]].block_count
        <4>1. CASE owner[x] = a
          BY SMTT(30), <4>1, <3>1, <3>5, <1>0, <1>2 DEF Appended
        <4>2. CASE owner[x] # a
          BY <4>2, <3>5 DEF Appended
        <4> QED
          BY Zenon, <4>1, <4>2
      <3> QED
        BY Zenon, <3>1, <3>3, <3>4, <3>5, <3>6 DEF Kept, StoreInv, BlockInv
    <2> QED
      BY Zenon, <2>1, <2>2
  <1>5. OrderInv'
    <2> SUFFICES ASSUME NEW x \in Hash, NEW y \in Hash, exists(x)', exists(y)', owner[x] = owner[y], x # y,
                        height_of(x)' <= height_of(y)'
                 PROVE  rank[x] < rank[y]
      BY Zenon DEF OrderInv
    <2>1. CASE x # h /\ y # h
      BY <2>1 DEF Appended, Kept, StoreInv, OrderInv
    <2>2. CASE x = h
      <3>1. exists(y) /\ height_of(y)' = height_of(y) /\ owner[y] = a
        BY Zenon, <2>2 DEF Appended, Kept
      <3>2. height_of(x)' = account[a].block_count + 1
        BY <2>2 DEF Appended
      <3> QED
        BY SMTT(30), <3>1, <3>2, <1>0, <1>2
    <2>3. CASE y = h
      <3>1. exists(x) /\ owner[x] = a
        BY Zenon, <2>3 DEF Appended
      <3> QED
        BY Zenon, <3>1, <2>3, <1>2
    <2> QED
      BY <2>1, <2>2, <2>3
  <1>6. ConfirmationInv'
    BY <1>0, AccountType DEF Appended, StoreInv, ConfirmationInv
  <1> QED
    BY <1>3, <1>4, <1>5, <1>6

LEMMA AppendedPending ==
    ASSUME TypeOK, StoreInv, NEW h \in Hash, NEW a \in Account, Appended(h, a),
           PendingSent(h, a) \/ PendingReceived(h, a) \/ PendingKept(h)
    PROVE  PendingInv' /\ SourceInv' /\ ReceivedInv'
  <1> DEFINE link == content[h].link
  <1>0. /\ Zero \notin Hash /\ None \notin PendingInfo /\ link \in Word /\ a \in Word
        /\ pruned' = pruned /\ confirmation_height' = confirmation_height
        /\ ~exists(h) /\ h \notin pruned /\ owner[h] = a
    BY Zenon, ContentType DEF Appended, Word
  <1>1. \A x \in Hash : x # h => (exists(x)' <=> exists(x)) /\ (exists(x) => Kept(x))
                                 /\ (block_confirmed(x)' <=> block_confirmed(x))
                                 /\ (block_or_pruned_exists(x)' <=> block_or_pruned_exists(x))
    BY Zenon, KeptConfirmed DEF Appended, block_or_pruned_exists
  <1>2. ~block_confirmed(h)' /\ exists(h)'
    <2>1. confirmation_height[a].height \in Nat /\ account[a].block_count \in Nat
          /\ confirmation_height[a].height <= account[a].block_count
      BY AccountType DEF StoreInv, ConfirmationInv
    <2> QED
      BY <2>1, <1>0 DEF Appended, block_confirmed, exists
  <1>3. ~block_or_pruned_exists(h)
    BY Zenon, <1>0 DEF block_or_pruned_exists
  <1>4. /\ \A w \in Word : ~pending_exists(<<w, h>>)
        /\ \A x \in Hash : exists(x) => source_of(x) # h
    BY Zenon, <1>3 DEF StoreInv, PendingInv, SourceInv
  <1>5. /\ \A w \in Word, s \in Hash : s # h /\ pending_exists(<<w, s>>)' =>
              pending_exists(<<w, s>>) /\ pending'[<<w, s>>] = pending[<<w, s>>]
        /\ \A w \in Word : pending_exists(<<w, h>>)' => w = link /\ is_send(h)' /\ pending'[<<w, h>>].source = a
        /\ \A w \in Word, s \in Hash : pending_exists(<<w, s>>) /\ ~pending_exists(<<w, s>>)' => source_of(h)' = s
        /\ is_send(h)' => pending_exists(<<link, h>>)'
        /\ source_of(h)' \in Hash \cup {Zero}
        /\ source_of(h)' \in Hash => source_of(h)' # h /\ source_of(h)' = link
                                     /\ pending_exists(<<a, link>>) /\ ~pending_exists(<<a, link>>)'
    <2>1. CASE PendingSent(h, a)
      <3>1. PICK p \in PendingInfo : p.source = a /\ pending' = [pending EXCEPT ![<<link, h>>] = p]
        BY Zenon, <2>1 DEF PendingSent
      <3>2. is_send(h)' /\ source_of(h)' = Zero
        BY <2>1 DEF PendingSent, is_send, source_of
      <3>3. /\ pending'[<<link, h>>] = p
            /\ \A w \in Word, s \in Hash : w # link \/ s # h => pending'[<<w, s>>] = pending[<<w, s>>]
        BY Zenon, <3>1, <1>0, PendingUpdate
      <3> HIDE DEF link
      <3> QED
        BY <3>1, <3>2, <3>3, <1>0, <1>4 DEF pending_exists
    <2>2. CASE PendingReceived(h, a)
      <3>1. /\ ~is_send(h)' /\ source_of(h)' = link /\ link \in Hash
            /\ pending_exists(<<a, link>>)
            /\ pending' = [pending EXCEPT ![<<a, link>>] = None]
        BY Zenon, <2>2 DEF PendingReceived
      <3>2. /\ pending'[<<a, link>>] = None
            /\ \A w \in Word, s \in Hash : w # a \/ s # link => pending'[<<w, s>>] = pending[<<w, s>>]
        BY Zenon, <3>1, <1>0, PendingUpdate
      <3> HIDE DEF link
      <3> QED
        BY SMTT(30), <3>1, <3>2, <1>0, <1>4 DEF pending_exists
    <2>3. CASE PendingKept(h)
      BY Zenon, <2>3, <1>0, <1>4 DEF PendingKept, pending_exists
    <2> QED
      BY Zenon, <2>1, <2>2, <2>3
  <1>6. PendingInv'
    <2> SUFFICES ASSUME NEW w \in Word, NEW s \in Hash, pending_exists(<<w, s>>)'
                 PROVE  /\ content[s].link = w
                        /\ block_or_pruned_exists(s)'
                        /\ exists(s)' => is_send(s)' /\ pending'[<<w, s>>].source = owner[s]
      BY Zenon DEF PendingInv
    <2>1. CASE s = h
      BY Zenon, <2>1, <1>0, <1>2, <1>5 DEF block_or_pruned_exists
    <2>2. CASE s # h
      <3>1. pending_exists(<<w, s>>) /\ pending'[<<w, s>>] = pending[<<w, s>>]
        BY <2>2, <1>5
      <3>2. /\ content[s].link = w
            /\ block_or_pruned_exists(s)
            /\ exists(s) => is_send(s) /\ pending[<<w, s>>].source = owner[s]
        BY Zenon, <3>1 DEF StoreInv, PendingInv
      <3>3. exists(s)' => exists(s) /\ is_send(s)' = is_send(s)
        BY Zenon, <2>2, <1>1 DEF Kept
      <3> QED
        BY Zenon, <2>2, <3>1, <3>2, <3>3, <1>1
    <2> QED
      BY <2>1, <2>2
  <1>7. SourceInv'
    <2> SUFFICES ASSUME NEW x \in Hash, exists(x)'
                 PROVE  /\ source_of(x)' \in Hash \cup {Zero}
                        /\ \A s \in Hash : source_of(x)' = s =>
                              /\ content[s].link = owner[x]
                              /\ block_or_pruned_exists(s)'
                              /\ exists(s)' => is_send(s)'
                              /\ ~pending_exists(<<owner[x], s>>)'
                              /\ \A k \in Hash : exists(k)' /\ source_of(k)' = s => k = x
                              /\ block_confirmed(x)' => block_confirmed(s)'
      BY Zenon DEF SourceInv
    <2>1. CASE x = h
      <3>1. ASSUME NEW s \in Hash, source_of(h)' = s
            PROVE  /\ s # h /\ content[s].link = a /\ block_or_pruned_exists(s) /\ (exists(s) => is_send(s))
                   /\ ~pending_exists(<<a, s>>)'
                   /\ \A k \in Hash : exists(k) => source_of(k) # s
        <4>1. s # h /\ s = link /\ pending_exists(<<a, s>>) /\ ~pending_exists(<<a, s>>)'
          BY <3>1, <1>5
        <4>2. content[s].link = a /\ block_or_pruned_exists(s) /\ (exists(s) => is_send(s))
          BY Zenon, <4>1, <1>0 DEF StoreInv, PendingInv
        <4>3. ASSUME NEW k \in Hash, exists(k), source_of(k) = s PROVE FALSE
          BY Zenon, <4>1, <4>2, <4>3 DEF StoreInv, SourceInv
        <4> QED
          BY Zenon, <4>1, <4>2, <4>3
      <3>2. ASSUME NEW s \in Hash, source_of(h)' = s
            PROVE  block_or_pruned_exists(s)' /\ (exists(s)' => is_send(s)')
        BY Zenon, <3>1, <3>2, <1>1 DEF Kept
      <3>3. ASSUME NEW s \in Hash, source_of(h)' = s, NEW k \in Hash, exists(k)', source_of(k)' = s PROVE k = h
        BY Zenon, <3>1, <3>3, <1>1 DEF Kept
      <3> QED
        BY Zenon, <2>1, <3>1, <3>2, <3>3, <1>0, <1>2, <1>5
    <2>2. CASE x # h
      <3>1. exists(x) /\ source_of(x)' = source_of(x) /\ owner[x] \in Word
        BY Zenon, <2>2, <1>1 DEF Kept, StoreInv, BlockInv, Word
      <3>2. ASSUME NEW s \in Hash, source_of(x)' = s PROVE s # h /\ source_of(h)' # s
        <4>1. s # h /\ ~pending_exists(<<owner[x], s>>) /\ owner[x] = content[s].link
          BY Zenon, <3>1, <3>2, <1>4 DEF StoreInv, SourceInv
        <4>2. ASSUME source_of(h)' = s PROVE FALSE
          <5>1. s = link /\ pending_exists(<<a, s>>)
            BY <4>2, <1>5
          <5> QED
            BY ZenonT(40), <5>1, <4>1, <1>0 DEF StoreInv, PendingInv
        <4> QED
          BY Zenon, <4>1, <4>2
      <3>3. ASSUME NEW s \in Hash, source_of(x)' = s, NEW k \in Hash, exists(k)', source_of(k)' = s PROVE k = x
        <4>1. k # h
          BY Zenon, <3>2, <3>3
        <4> QED
          BY Zenon, <4>1, <3>1, <3>3, <1>1 DEF StoreInv, SourceInv, Kept
      <3>4. ASSUME NEW s \in Hash, source_of(x)' = s
            PROVE  /\ content[s].link = owner[x]
                   /\ block_or_pruned_exists(s)
                   /\ exists(s) => is_send(s)
                   /\ ~pending_exists(<<owner[x], s>>)
                   /\ block_confirmed(x) => block_confirmed(s)
        BY Zenon, <3>1, <3>4 DEF StoreInv, SourceInv
      <3>5. ASSUME NEW s \in Hash, source_of(x)' = s
            PROVE  /\ block_or_pruned_exists(s)'
                   /\ exists(s)' => is_send(s)'
                   /\ block_confirmed(x)' => block_confirmed(s)'
        BY Zenon, <2>2, <3>2, <3>4, <3>5, <1>1 DEF Kept
      <3>6. ASSUME NEW s \in Hash, source_of(x)' = s
            PROVE  ~pending_exists(<<owner[x], s>>)'
        BY Zenon, <3>1, <3>2, <3>4, <3>6, <1>5
      <3>7. source_of(x)' \in Hash \cup {Zero}
        BY Zenon, <3>1 DEF StoreInv, SourceInv
      <3> QED
        BY Zenon, <3>3, <3>4, <3>5, <3>6, <3>7
    <2> QED
      BY <2>1, <2>2
  <1>8. ReceivedInv'
    <2> SUFFICES ASSUME NEW s \in Hash, exists(s)', is_send(s)', ~pending_exists(<<content[s].link, s>>)'
                 PROVE  block_confirmed(s)' \/ \E r \in Hash : exists(r)' /\ source_of(r)' = s
      BY DEF ReceivedInv
    <2>1. s # h
      BY <1>5
    <2>2. exists(s) /\ is_send(s) /\ content[s].link \in Word
      BY Zenon, <2>1, <1>1, ContentType DEF Kept
    <2>3. CASE pending_exists(<<content[s].link, s>>)
      BY Zenon, <2>2, <2>3, <1>2, <1>5
    <2>4. CASE block_confirmed(s)
      BY Zenon, <2>1, <2>4, <1>1
    <2>5. ASSUME NEW r \in Hash, exists(r), source_of(r) = s PROVE exists(r)' /\ source_of(r)' = s
      BY Zenon, <2>5, <1>0, <1>1 DEF Kept
    <2> QED
      BY Zenon, <2>2, <2>3, <2>4, <2>5 DEF StoreInv, ReceivedInv
  <1> QED
    BY Zenon, <1>6, <1>7, <1>8

LEMMA AppendedFrontier ==
    ASSUME TypeOK, StoreInv, FrontierMatchesHead, NEW h \in Hash, NEW a \in Account, Appended(h, a),
           frontier' \in [Hash -> Account \cup {Zero}],
           is_legacy(h) => frontier'[h] = a,
           ~is_legacy(h) => frontier'[h] = Zero,
           content[h].previous # Zero => frontier'[content[h].previous] = Zero,
           \A x \in Hash : x # h /\ x # content[h].previous => frontier'[x] = frontier[x]
    PROVE  FrontierMatchesHead'
  <1> DEFINE previous == content[h].previous
  <1>0. /\ Zero \notin Hash /\ Zero \notin Account /\ previous \in Hash \cup {Zero} /\ ~exists(h)
        /\ account'[a].head = h /\ account[a].head = previous
        /\ \A b \in Account : b # a => account'[b] = account[b]
        /\ previous # h
    <2>1. previous \in Hash \cup {Zero} /\ Zero \notin Hash
      BY Zenon, ContentType
    <2>2. previous # h
      BY SMTT(30), <2>1, HashAssumption
    <2> QED
      BY Zenon, <2>1, <2>2, ContentType DEF Appended
  <1>1. \A b \in Account : account[b].head # h
    BY Zenon, <1>0 DEF StoreInv, AccountInv
  <1>2. ASSUME NEW b \in Account, previous # Zero, account[b].head = previous PROVE b = a
    <2>1. owner[previous] = b /\ owner[previous] = a
      BY ZenonT(40), <1>0, <1>2 DEF StoreInv, AccountInv
    <2> QED
      BY <2>1
  <1> SUFFICES ASSUME NEW x \in Hash, NEW b \in Account
               PROVE  frontier'[x] = b <=> account'[b].head = x /\ is_legacy(x)
    BY DEF FrontierMatchesHead, is_legacy
  <1>3. CASE x = h
    BY <1>0, <1>1, <1>3
  <1>4. CASE x = previous /\ x # h
    <2>1. frontier'[x] = Zero
      BY Zenon, <1>4, <1>0
    <2>2. account'[b].head # x
      BY Zenon, <1>4, <1>0, <1>2
    <2> QED
      BY <2>1, <2>2, <1>0
  <1>5. CASE x # previous /\ x # h
    <2>1. frontier'[x] = frontier[x] /\ (frontier[x] = b <=> account[b].head = x /\ is_legacy(x))
      BY Zenon, <1>5 DEF FrontierMatchesHead
    <2>2. account'[b].head = x <=> account[b].head = x
      BY <1>5, <1>0
    <2> QED
      BY <2>1, <2>2
  <1> QED
    BY Zenon, <1>3, <1>4, <1>5

LEMMA AppendedInv ==
    ASSUME IInv, NEW h \in Hash, NEW a \in Account, Appended(h, a),
           PendingSent(h, a) \/ PendingReceived(h, a) \/ PendingKept(h),
           TypeOK', FrontierMatchesHead'
    PROVE  IInv'
  <1>1. StoreInv'
    BY Zenon, AppendedChains, AppendedPending DEF IInv, StoreInv
  <1>2. calls = <<>> /\ calls' = <<>> /\ prune_hash' = Zero /\ Zero \notin Hash
    BY Zenon, ContentType DEF Appended, idle
  <1>3. PruneInv'
    BY Zenon, <1>2 DEF PruneInv
  <1>4. StackInv'
    BY SMTT(30), <1>2 DEF StackInv
  <1>5. LegacyInv'
    <2> SUFFICES ASSUME NEW x \in Hash, exists(x)'
                 PROVE  /\ is_legacy(x) /\ content[x].previous # Zero => is_legacy(content[x].previous)
                        /\ content[x].type = "change" /\ exists(content[x].previous)' =>
                              balance_of(x)' = balance_of(content[x].previous)'
      BY DEF LegacyInv, is_legacy
    <2>1. content[x].previous \in Hash \cup {Zero} /\ Zero \notin Hash
      BY Zenon, ContentType
    <2>2. CASE x = h
      <3>1. ASSUME exists(content[h].previous)' PROVE balance_of(content[h].previous)' = account[a].balance
        <4>1. PICK k \in Hash : k = content[h].previous
          BY Zenon, <3>1, <2>1, <2>2 DEF exists
        <4>2. k # h
          BY SMTT(30), <4>1, HashAssumption
        <4>3. account[a].head = k
          BY Zenon, <4>1 DEF Appended
        <4>4. exists(k) /\ balance_of(k) = account[a].balance
          BY Zenon, <4>3 DEF IInv, StoreInv, AccountInv
        <4>5. balance_of(k)' = balance_of(k)
          BY Zenon, <4>4 DEF Appended, Kept
        <4> QED
          BY Zenon, <4>1, <4>4, <4>5
      <3> QED
        BY Zenon, <2>2, <3>1 DEF Appended
    <2>3. CASE x # h
      <3>1. exists(x) /\ Kept(x) /\ ~exists(h) /\ h \notin pruned
        BY Zenon, <2>3 DEF Appended
      <3>2. ASSUME exists(content[x].previous)', content[x].type = "change"
            PROVE  balance_of(x)' = balance_of(content[x].previous)'
        <4>1. PICK k \in Hash : k = content[x].previous
          BY <3>2, <2>1 DEF exists
        <4>2. exists(k)
          <5>1. exists(k) \/ k \in pruned
            BY Zenon, <4>1, <3>1, <2>1 DEF IInv, StoreInv, BlockInv
          <5>2. exists(k) \/ k = h
            BY Zenon, <3>2, <4>1 DEF Appended
          <5> QED
            BY Zenon, <5>1, <5>2, <3>1
        <4>3. balance_of(x) = balance_of(k)
          BY Zenon, <3>1, <3>2, <4>1, <4>2 DEF IInv, LegacyInv
        <4>4. balance_of(k)' = balance_of(k)
          BY Zenon, <4>2 DEF Appended, Kept
        <4> QED
          BY Zenon, <3>1, <4>1, <4>3, <4>4 DEF Kept
      <3>3. is_legacy(x) /\ content[x].previous # Zero => is_legacy(content[x].previous)
        BY Zenon, <3>1 DEF IInv, LegacyInv
      <3> QED
        BY Zenon, <3>2, <3>3
    <2> QED
      BY Zenon, <2>2, <2>3
  <1> QED
    BY <1>1, <1>3, <1>4, <1>5 DEF IInv

-----------------------------------------------------------------------------
(* The visitor functions of ledger_processor                               *)

\* Where a legacy block that is not an open block goes
LEMMA LegacyPosition ==
    ASSUME IInv, NEW h \in Hash, content[h].type \in {"send", "receive", "change"},
           legacy_position_code(h) = "progress"
    PROVE  /\ content[h].previous \in Hash /\ content[h].previous # h
           /\ frontier[content[h].previous] \in Account
           /\ owner[h] = frontier[content[h].previous]
           /\ account[frontier[content[h].previous]].head = content[h].previous
           /\ exists(content[h].previous)
           /\ ~exists(h) /\ h \notin pruned
           /\ is_legacy(h) /\ is_legacy(content[h].previous)
  <1> DEFINE previous == content[h].previous
  <1>1. previous \in Hash /\ previous # h /\ is_legacy(h)
    <2>1. previous \in Hash
      BY ContentType
    <2>2. previous # h
      BY <2>1, HashAssumption
    <2> QED
      BY <2>1, <2>2 DEF is_legacy, Legacy
  <1>2. ~block_or_pruned_exists(h) /\ exists(previous) /\ frontier[previous] # Zero
    BY Zenon DEF legacy_position_code
  <1>3. frontier[previous] \in Account
    BY Zenon, <1>1, <1>2 DEF IInv, TypeOK
  <1>4. account[frontier[previous]].head = previous /\ is_legacy(previous)
    BY <1>1, <1>3 DEF IInv, FrontierMatchesHead
  <1>5. owner[previous] = frontier[previous]
    BY Zenon, <1>1, <1>3, <1>4 DEF IInv, StoreInv, AccountInv
  <1>6. owner[h] = owner[previous]
    BY OwnerAssumption
  <1> QED
    BY Zenon, <1>1, <1>2, <1>3, <1>4, <1>5, <1>6 DEF block_or_pruned_exists

\* A legacy block is appended
LEMMA LegacyAppended ==
    ASSUME IInv, NEW h \in Hash, NEW a \in Account, NEW v \in Amount, NEW new \in AccountInfo, NEW old,
           is_legacy(h), owner[h] = a, ~exists(h), h \notin pruned,
           content[h].previous = account[a].head,
           content[h].previous = Zero \/ (exists(content[h].previous) /\ is_legacy(content[h].previous)),
           content[h].type = "send" => v = content[h].balance,
           content[h].type = "change" => v = account[a].balance,
           process_accepted(h),
           block' = block_put(h, legacy_sideband(a, v, account[a].block_count + 1)),
           update_account(a, old, new),
           new.head = h, new.balance = v, new.block_count = account[a].block_count + 1
    PROVE  /\ Appended(h, a)
           /\ block' \in [Hash -> Sideband \cup {None}]
           /\ account' \in [Account -> AccountInfo]
  <1>1. TypeOK
    BY ZenonT(40) DEF IInv
  <1>2. account[a].block_count + 1 \in Nat /\ Zero \notin Hash
    BY SMTT(30), <1>1, AccountType, ContentType
  <1> DEFINE sb == legacy_sideband(a, v, account[a].block_count + 1)
  <1>3. /\ sb \in Sideband /\ sb.height = account[a].block_count + 1 /\ sb.account = a /\ sb.balance = v
    BY SMTT(30), <1>2, LegacySideband
  <1> HIDE DEF sb
  <1>4. /\ block' \in [Hash -> Sideband \cup {None}]
        /\ block'[h] = sb
        /\ \A x \in Hash : exists(x)' <=> exists(x) \/ x = h
        /\ \A x \in Hash : exists(x) => Kept(x)
    BY Zenon, <1>1, <1>3, BlockPut DEF sb
  <1>5. /\ account' \in [Account -> AccountInfo]
        /\ account'[a] = new
        /\ \A b \in Account : b # a => account'[b] = account[b]
    BY Zenon, <1>1, <1>2, UpdateAccount
  <1>6. height_of(h)' = account[a].block_count + 1 /\ account_of(h)' = a /\ balance_of(h)' = v
        /\ content[h].type # "state"
    <2>1. content[h].type # "state"
      BY Zenon DEF is_legacy, Legacy
    <2>2. content[h].account = Zero \/ content[h].account = a
      BY Zenon, ContentType, OwnerAssumption DEF is_legacy, Legacy
    <2> QED
      BY Zenon, <1>3, <1>4, <2>1, <2>2 DEF height_of, account_of, balance_of
  <1>7. idle /\ UNCHANGED <<confirmation_height, pruned, calls, prune_hash>>
    BY Zenon DEF process_accepted
  <1> QED
    BY Zenon, <1>4, <1>5, <1>6, <1>7 DEF Appended
LEMMA ProcessSend ==
    ASSUME IInv, NEW h \in Hash, process_send(h)
    PROVE  IInv'
  <1> DEFINE previous == content[h].previous
             link == content[h].link
  <1>1. content[h].type = "send" /\ process_accepted(h) /\ send_code(h) = "progress"
    BY Zenon DEF process_send, process_accepted, process_code
  <1>2. legacy_position_code(h) = "progress"
    BY Zenon, <1>1 DEF send_code
  <1>3. /\ previous \in Hash /\ previous # h /\ frontier[previous] \in Account
        /\ owner[h] = frontier[previous] /\ account[frontier[previous]].head = previous
        /\ exists(previous) /\ ~exists(h) /\ h \notin pruned /\ is_legacy(h)
        /\ is_legacy(previous)
    BY Zenon, <1>1, <1>2, LegacyPosition
  <1>4. PICK a \in Account : a = frontier[previous]
    BY Zenon, <1>3
  <1> DEFINE info == account[a]
             new == new_account_info(h, info.representative, info.open_block, content[h].balance,
                                     info.block_count + 1, 0)
             sent == info.balance - content[h].balance
             entry == [source |-> a, amount |-> sent, epoch |-> 0]
  <1>5. TypeOK /\ Zero \notin Hash /\ info \in AccountInfo /\ info.block_count \in Nat /\ info.balance \in Amount
        /\ content[h].balance \in Amount /\ link \in Word
    BY AccountType, ContentType DEF IInv
  <1>6. sent \in Amount
    <2>1. ~(info.balance < content[h].balance)
      BY Zenon, <1>1, <1>2, <1>4 DEF send_code
    <2> QED
      BY ZenonT(40), <2>1, <1>5, AmountType
  <1>7. new \in AccountInfo /\ new.head = h /\ new.balance = content[h].balance /\ new.block_count = info.block_count + 1
    BY SMTT(30), <1>5 DEF new_account_info, AccountInfo, Epoch
  <1>8. entry \in PendingInfo /\ entry.source = a
    BY SMTT(30), <1>6 DEF PendingInfo, Epoch
  <1>9. /\ block' = block_put(h, legacy_sideband(a, content[h].balance, info.block_count + 1))
        /\ update_account(a, info, new)
        /\ pending' = [pending EXCEPT ![<<link, h>>] = entry]
        /\ frontier' = [frontier EXCEPT ![previous] = Zero, ![h] = a]
    BY Zenon, <1>4 DEF process_send
  <1> HIDE DEF new, entry, sent
  <1>10. /\ Appended(h, a)
         /\ block' \in [Hash -> Sideband \cup {None}]
         /\ account' \in [Account -> AccountInfo]
    BY Zenon, <1>1, <1>3, <1>4, <1>5, <1>7, <1>9, LegacyAppended
  <1>11. PendingSent(h, a)
    BY Zenon, <1>1, <1>8, <1>9 DEF PendingSent, is_send
  <1>12. pending' \in [Word \X Hash -> PendingInfo \cup {None}]
    BY Zenon, <1>5, <1>8, <1>9, PendingUpdate
  <1>13. /\ frontier' \in [Hash -> Account \cup {Zero}] /\ frontier'[h] = a /\ frontier'[previous] = Zero
         /\ \A x \in Hash : x # h /\ x # previous => frontier'[x] = frontier[x]
    BY ZenonT(40), <1>3, <1>5, <1>9 DEF TypeOK
  <1>14. TypeOK'
    BY Zenon, <1>1, <1>5, <1>10, <1>12, <1>13 DEF TypeOK, process_accepted
  <1>15. FrontierMatchesHead'
    BY Zenon, <1>3, <1>5, <1>10, <1>13, AppendedFrontier DEF IInv
  <1> QED
    BY Zenon, <1>10, <1>11, <1>14, <1>15, AppendedInv

LEMMA ProcessReceive ==
    ASSUME IInv, NEW h \in Hash, process_receive(h)
    PROVE  IInv'
  <1> DEFINE previous == content[h].previous
             link == content[h].link
  <1>1. content[h].type = "receive" /\ process_accepted(h) /\ receive_code(h) = "progress"
    BY Zenon DEF process_receive, process_accepted, process_code
  <1>2. legacy_position_code(h) = "progress" /\ block_or_pruned_exists(link)
        /\ pending_exists(<<frontier[previous], link>>)
    BY Zenon, <1>1 DEF receive_code
  <1>3. /\ previous \in Hash /\ previous # h /\ frontier[previous] \in Account
        /\ owner[h] = frontier[previous] /\ account[frontier[previous]].head = previous
        /\ exists(previous) /\ ~exists(h) /\ h \notin pruned /\ is_legacy(h)
        /\ is_legacy(previous)
    BY ZenonT(40), <1>1, <1>2, LegacyPosition
  <1>4. PICK a \in Account : a = frontier[previous]
    BY <1>3
  <1>5. TypeOK /\ Zero \notin Hash /\ account[a] \in AccountInfo /\ account[a].block_count \in Nat
        /\ account[a].balance \in Amount /\ link \in Word /\ a \in Word
    BY Zenon, AccountType, ContentType DEF IInv, Word
  <1>6. link \in Hash /\ pending_exists(<<a, link>>)
    BY ZenonT(40), <1>2, <1>4, <1>5 DEF block_or_pruned_exists, exists, TypeOK
  <1>7. pending[<<a, link>>] \in PendingInfo /\ pending[<<a, link>>].amount \in Amount
    BY <1>5, <1>6 DEF TypeOK, pending_exists, PendingInfo
  <1> DEFINE v == (account[a].balance + pending[<<a, link>>].amount) % Modulus
             new == new_account_info(h, account[a].representative, account[a].open_block, v,
                                     account[a].block_count + 1, 0)
  <1>8. v \in Amount
    BY Zenon, <1>5, <1>7, AmountType
  <1>9. /\ block' = block_put(h, legacy_sideband(a, v, account[a].block_count + 1))
        /\ update_account(a, account[a], new)
        /\ pending' = [pending EXCEPT ![<<a, link>>] = None]
        /\ frontier' = [frontier EXCEPT ![previous] = Zero, ![h] = a]
    BY ZenonT(40), <1>4 DEF process_receive
  <1> HIDE DEF v
  <1>10. new \in AccountInfo /\ new.head = h /\ new.balance = v /\ new.block_count = account[a].block_count + 1
    BY SMTT(30), <1>5, <1>8 DEF new_account_info, AccountInfo, Epoch
  <1> HIDE DEF new
  <1>11. /\ Appended(h, a)
         /\ block' \in [Hash -> Sideband \cup {None}]
         /\ account' \in [Account -> AccountInfo]
    BY Zenon, <1>1, <1>3, <1>4, <1>5, <1>8, <1>9, <1>10, LegacyAppended
  <1>12. PendingReceived(h, a)
    BY <1>1, <1>6, <1>9 DEF PendingReceived, is_send, source_of
  <1>13. pending' \in [Word \X Hash -> PendingInfo \cup {None}]
    BY Zenon, <1>5, <1>6, <1>9, PendingUpdate
  <1>14. /\ frontier' \in [Hash -> Account \cup {Zero}] /\ frontier'[h] = a /\ frontier'[previous] = Zero
         /\ \A x \in Hash : x # h /\ x # previous => frontier'[x] = frontier[x]
    BY ZenonT(40), <1>3, <1>5, <1>9 DEF TypeOK
  <1>15. TypeOK'
    BY Zenon, <1>1, <1>5, <1>11, <1>13, <1>14 DEF TypeOK, process_accepted
  <1>16. FrontierMatchesHead'
    BY Zenon, <1>3, <1>5, <1>11, <1>14, AppendedFrontier DEF IInv
  <1> QED
    BY Zenon, <1>11, <1>12, <1>15, <1>16, AppendedInv

LEMMA ProcessChange ==
    ASSUME IInv, NEW h \in Hash, process_change(h)
    PROVE  IInv'
  <1> DEFINE previous == content[h].previous
  <1>1. content[h].type = "change" /\ process_accepted(h) /\ change_code(h) = "progress"
    BY Zenon DEF process_change, process_accepted, process_code
  <1>2. legacy_position_code(h) = "progress"
    BY Zenon, <1>1 DEF change_code
  <1>3. /\ previous \in Hash /\ previous # h /\ frontier[previous] \in Account
        /\ owner[h] = frontier[previous] /\ account[frontier[previous]].head = previous
        /\ exists(previous) /\ ~exists(h) /\ h \notin pruned /\ is_legacy(h)
        /\ is_legacy(previous)
    BY ZenonT(40), <1>1, <1>2, LegacyPosition
  <1>4. PICK a \in Account : a = frontier[previous]
    BY <1>3
  <1> DEFINE info == account[a]
             new == new_account_info(h, content[h].representative, info.open_block, info.balance,
                                     info.block_count + 1, 0)
  <1>5. TypeOK /\ Zero \notin Hash /\ info \in AccountInfo /\ info.block_count \in Nat /\ info.balance \in Amount
        /\ content[h].representative \in Account \cup {Zero}
    BY Zenon, AccountType, ContentType DEF IInv
  <1>6. new \in AccountInfo /\ new.head = h /\ new.balance = info.balance /\ new.block_count = info.block_count + 1
    BY SMTT(30), <1>5 DEF new_account_info, AccountInfo, Epoch
  <1>7. /\ block' = block_put(h, legacy_sideband(a, info.balance, info.block_count + 1))
        /\ update_account(a, info, new)
        /\ pending' = pending
        /\ frontier' = [frontier EXCEPT ![previous] = Zero, ![h] = a]
    BY Zenon, <1>4 DEF process_change
  <1> HIDE DEF new
  <1>8. /\ Appended(h, a)
        /\ block' \in [Hash -> Sideband \cup {None}]
        /\ account' \in [Account -> AccountInfo]
    BY Zenon, <1>1, <1>3, <1>4, <1>5, <1>6, <1>7, LegacyAppended
  <1>9. PendingKept(h)
    BY Zenon, <1>1, <1>7 DEF PendingKept, is_send, source_of
  <1>10. /\ frontier' \in [Hash -> Account \cup {Zero}] /\ frontier'[h] = a /\ frontier'[previous] = Zero
         /\ \A x \in Hash : x # h /\ x # previous => frontier'[x] = frontier[x]
    BY Zenon, <1>3, <1>5, <1>7 DEF TypeOK
  <1>11. TypeOK'
    BY Zenon, <1>1, <1>5, <1>7, <1>8, <1>10 DEF TypeOK, process_accepted
  <1>12. FrontierMatchesHead'
    BY Zenon, <1>3, <1>5, <1>8, <1>10, AppendedFrontier DEF IInv
  <1> QED
    BY Zenon, <1>8, <1>9, <1>11, <1>12, AppendedInv

LEMMA ProcessOpen ==
    ASSUME IInv, NEW h \in Hash, process_open(h)
    PROVE  IInv'
  <1> DEFINE link == content[h].link
             a == content[h].account
  <1>1. content[h].type = "open" /\ process_accepted(h) /\ open_code(h) = "progress"
    BY Zenon DEF process_open, process_accepted, process_code
  <1>2. /\ ~block_or_pruned_exists(h) /\ block_or_pruned_exists(link) /\ latest(a) = Zero
        /\ pending_exists(<<a, link>>) /\ a # Zero
    BY Zenon, <1>1 DEF open_code
  <1>3. TypeOK /\ Zero \notin Hash /\ Zero \notin Account /\ a \in Account /\ a \in Word /\ content[h].previous = Zero
        /\ content[h].representative \in Account \cup {Zero}
    BY Zenon, <1>1, <1>2, ContentType DEF IInv, Word
  <1>4. ~exists(h) /\ h \notin pruned /\ link \in Hash /\ is_legacy(h) /\ owner[h] = a
    <2>1. link \in Hash
      BY Zenon, <1>2, <1>3 DEF block_or_pruned_exists, exists, TypeOK
    <2>2. is_legacy(h) /\ owner[h] = a
      BY Zenon, <1>1, OwnerAssumption DEF is_legacy, Legacy
    <2> QED
      BY ZenonT(40), <2>1, <2>2, <1>2 DEF block_or_pruned_exists
  <1>5. account[a].head = Zero /\ account[a].block_count = 0
    <2>1. account[a].head = Zero
      BY Zenon, <1>2, <1>3 DEF latest
    <2> QED
      BY Zenon, <2>1, <1>3, UnopenedAccount DEF IInv
  <1>6. pending[<<a, link>>].amount \in Amount
    BY Zenon, <1>2, <1>3, <1>4 DEF TypeOK, pending_exists, PendingInfo
  <1> DEFINE v == pending[<<a, link>>].amount
             new == new_account_info(h, content[h].representative, h, v, 1, 0)
  <1>7. /\ block' = block_put(h, legacy_sideband(a, v, account[a].block_count + 1))
        /\ update_account(a, account[a], new)
        /\ pending' = [pending EXCEPT ![<<a, link>>] = None]
        /\ frontier' = [frontier EXCEPT ![h] = a]
    <2>1. account[a].block_count + 1 = 1
      BY SMTT(30), <1>5
    <2> QED
      BY Zenon, <2>1 DEF process_open
  <1> HIDE DEF v
  <1>8. new \in AccountInfo /\ new.head = h /\ new.balance = v /\ new.block_count = account[a].block_count + 1
    <2>1. account[a].block_count + 1 = 1
      BY <1>5
    <2>2. 1 \in Nat /\ 0 \in Epoch /\ h \in Hash \cup {Zero}
      BY DEF Epoch
    <2>3. v \in Amount
      BY Zenon, <1>6 DEF v
    <2>4. content[h].representative \in Account \cup {Zero}
      BY <1>3
    <2>5. new \in AccountInfo /\ new.head = h /\ new.balance = v /\ new.block_count = 1
      BY <2>2, <2>3, <2>4, NewAccountInfo
    <2> QED
      BY Zenon, <2>1, <2>5
  <1> HIDE DEF new
  <1>9. /\ Appended(h, a)
        /\ block' \in [Hash -> Sideband \cup {None}]
        /\ account' \in [Account -> AccountInfo]
    BY ZenonT(40), <1>1, <1>3, <1>4, <1>5, <1>6, <1>7, <1>8, LegacyAppended DEF v
  <1>10. PendingReceived(h, a)
    <2>1. link # content[genesis].account
      BY Zenon, <1>4, GenesisAssumption, ContentAssumption
    <2> QED
      BY <2>1, <1>1, <1>2, <1>4, <1>7 DEF PendingReceived, is_send, source_of
  <1>11. pending' \in [Word \X Hash -> PendingInfo \cup {None}]
    BY ZenonT(40), <1>3, <1>4, <1>7, PendingUpdate
  <1>12. /\ frontier' \in [Hash -> Account \cup {Zero}] /\ frontier'[h] = a
         /\ \A x \in Hash : x # h => frontier'[x] = frontier[x]
    BY Zenon, <1>3, <1>7 DEF TypeOK
  <1>13. TypeOK'
    BY Zenon, <1>1, <1>3, <1>9, <1>11, <1>12 DEF TypeOK, process_accepted
  <1>14. FrontierMatchesHead'
    BY Zenon, <1>3, <1>4, <1>9, <1>12, AppendedFrontier DEF IInv
  <1> QED
    BY Zenon, <1>3, <1>9, <1>10, <1>13, <1>14, AppendedInv

LEMMA StateInfo ==
    ASSUME TypeOK, NEW h \in Hash, NEW a \in Account, content[h].account = a, NEW epoch \in Epoch
    PROVE  /\ state_info(h, epoch) \in AccountInfo
           /\ state_info(h, epoch).head = h
           /\ state_info(h, epoch).balance = content[h].balance
           /\ state_info(h, epoch).block_count = account[a].block_count + 1
  <1>1. PICK n \in Nat : n = account[a].block_count + 1
    BY AccountType
  <1>2. PICK o \in Hash : o = IF account[a].open_block = Zero THEN h ELSE account[a].open_block
    BY AccountType
  <1>3. PICK r \in Account \cup {Zero} : r = content[h].representative
    BY ContentType
  <1>4. PICK v \in Amount : v = content[h].balance
    BY ContentType
  <1>5. state_info(h, epoch) = new_account_info(h, r, o, v, n, epoch)
    BY Zenon, <1>1, <1>2, <1>3, <1>4 DEF state_info
  <1>6. new_account_info(h, r, o, v, n, epoch) \in AccountInfo
    BY DEF new_account_info, AccountInfo
  <1>7. /\ new_account_info(h, r, o, v, n, epoch).head = h
        /\ new_account_info(h, r, o, v, n, epoch).balance = v
        /\ new_account_info(h, r, o, v, n, epoch).block_count = n
    BY DEF new_account_info
  <1> QED
    BY ZenonT(40), <1>1, <1>4, <1>5, <1>6, <1>7

\* A state block is appended
LEMMA StateAppended ==
    ASSUME IInv, NEW h \in Hash, NEW a \in Account, NEW epoch \in Epoch, NEW old, NEW sb \in Sideband,
           content[h].type = "state", content[h].account = a, ~block_or_pruned_exists(h),
           content[h].previous = account[a].head,
           sb.height = account[a].block_count + 1,
           sb.is_send <=> content[h].balance < account[a].balance,
           process_accepted(h),
           block' = block_put(h, sb),
           update_account(a, old, state_info(h, epoch)),
           frontier' = frontier_del(account[a].head)
    PROVE  /\ Appended(h, a)
           /\ block' \in [Hash -> Sideband \cup {None}]
           /\ account' \in [Account -> AccountInfo]
           /\ frontier' \in [Hash -> Account \cup {Zero}]
           /\ FrontierMatchesHead'
           /\ block'[h] = sb
  <1> DEFINE previous == content[h].previous
             new == state_info(h, epoch)
  <1>1. /\ TypeOK /\ Zero \notin Hash /\ Zero \notin Account /\ account[a].block_count \in Nat
        /\ previous \in Hash \cup {Zero} /\ ~exists(h) /\ h \notin pruned
        /\ content[h].representative \in Account \cup {Zero} /\ content[h].balance \in Amount
        /\ account[a].open_block \in Hash \cup {Zero}
        /\ owner[h] = a /\ ~is_legacy(h)
    <2>1. TypeOK
      BY ZenonT(40) DEF IInv
    <2>2. owner[h] = a /\ ~is_legacy(h)
      BY Zenon, OwnerAssumption DEF is_legacy, Legacy
    <2>3. ~exists(h) /\ h \notin pruned
      BY Zenon DEF block_or_pruned_exists
    <2> QED
      BY ZenonT(40), <2>1, <2>2, <2>3, AccountType, ContentType
  <1>2. previous = Zero \/ exists(previous)
    BY Zenon, <1>1 DEF IInv, StoreInv, AccountInv
  <1>3. /\ block' \in [Hash -> Sideband \cup {None}]
        /\ block'[h] = sb
        /\ \A x \in Hash : exists(x)' <=> exists(x) \/ x = h
        /\ \A x \in Hash : exists(x) => Kept(x)
    BY ZenonT(40), <1>1, <1>2, BlockPut
  <1>4. new \in AccountInfo /\ new.head = h /\ new.balance = content[h].balance
        /\ new.block_count = account[a].block_count + 1
    BY ZenonT(40), <1>1, StateInfo
  <1> HIDE DEF new
  <1>5. /\ account' \in [Account -> AccountInfo]
        /\ account'[a] = new
        /\ \A b \in Account : b # a => account'[b] = account[b]
    BY ZenonT(40), <1>1, <1>4, UpdateAccount DEF new
  <1>6. height_of(h)' = account[a].block_count + 1 /\ account_of(h)' = a /\ balance_of(h)' = content[h].balance
    BY Zenon, <1>1, <1>3 DEF height_of, account_of, balance_of
  <1>7. idle /\ UNCHANGED <<confirmation_height, pruned, calls, prune_hash>>
    BY Zenon DEF process_accepted
  <1>8. Appended(h, a)
    BY Zenon, <1>1, <1>3, <1>4, <1>5, <1>6, <1>7 DEF Appended
  <1>9. frontier[h] = Zero
    <2>1. \A b \in Account : account[b].head # h
      BY Zenon, <1>1 DEF IInv, StoreInv, AccountInv
    <2> QED
      BY Zenon, <2>1, <1>1 DEF IInv, TypeOK, FrontierMatchesHead
  <1>10. /\ frontier' \in [Hash -> Account \cup {Zero}] /\ frontier'[h] = Zero
         /\ previous # Zero => frontier'[previous] = Zero
         /\ \A x \in Hash : x # h /\ x # previous => frontier'[x] = frontier[x]
    BY Zenon, <1>1, <1>9 DEF TypeOK, frontier_del
  <1>11. FrontierMatchesHead'
    BY ZenonT(40), <1>1, <1>8, <1>10, AppendedFrontier DEF IInv
  <1> QED
    BY Zenon, <1>3, <1>5, <1>8, <1>10, <1>11

LEMMA StateSideband ==
    ASSUME NEW a \in Account, NEW n \in Nat, NEW epoch \in Epoch, NEW send \in BOOLEAN,
           NEW receive \in BOOLEAN, NEW source_epoch \in Epoch
    PROVE  LET sb == [successor |-> Zero, account |-> a, height |-> n, balance |-> 0, epoch |-> epoch,
                      is_send |-> send, is_receive |-> receive, is_epoch |-> FALSE,
                      source_epoch |-> source_epoch]
           IN  sb \in Sideband /\ sb.height = n /\ sb.is_send = send
  BY Zenon, AmountType DEF Sideband

LEMMA EpochSideband ==
    ASSUME NEW a \in Account, NEW n \in Nat, NEW epoch \in Epoch
    PROVE  LET sb == [successor |-> Zero, account |-> a, height |-> n, balance |-> 0, epoch |-> epoch,
                      is_send |-> FALSE, is_receive |-> FALSE, is_epoch |-> TRUE,
                      source_epoch |-> 0]
           IN  sb \in Sideband /\ sb.height = n /\ sb.is_send = FALSE
  BY SMTT(30), AmountType DEF Sideband, Epoch

LEMMA ProcessState ==
    ASSUME IInv, NEW h \in Hash, process_state(h)
    PROVE  IInv'
  <1> DEFINE previous == content[h].previous
             link == content[h].link
             a == content[h].account
             sb == [successor |-> Zero, account |-> a, height |-> account[a].block_count + 1, balance |-> 0,
                    epoch |-> state_epoch(h), is_send |-> state_is_send(h),
                    is_receive |-> state_is_receive(h), is_epoch |-> FALSE,
                    source_epoch |-> state_source_epoch(h)]
  <1>1. content[h].type = "state" /\ process_accepted(h) /\ state_impl_code(h) = "progress"
    <2>1. content[h].type = "state" /\ process_accepted(h) /\ ~is_epoch_block(h) /\ state_code(h) = "progress"
      BY Zenon DEF process_state, process_accepted, process_code
    <2> QED
      BY Zenon, <2>1 DEF state_code
  <1>2. /\ ~block_or_pruned_exists(h) /\ a # Zero
        /\ state_position_code(h) = "progress" /\ state_amount_code(h) = "progress"
    BY ZenonT(40), <1>1 DEF state_impl_code
  <1>3. /\ TypeOK /\ Zero \notin Hash /\ Zero \notin Account /\ a \in Account /\ a \in Word
        /\ previous \in Hash \cup {Zero} /\ content[h].balance \in Amount /\ link \in Word
        /\ account[a].block_count \in Nat /\ account[a].balance \in Amount /\ account[a].epoch \in Epoch
    <2>1. TypeOK /\ a \in Account
      BY <1>2, ContentType DEF IInv
    <2> QED
      BY Zenon, <2>1, AccountType, ContentType DEF Word
  <1>4. previous = account[a].head
    BY ZenonT(40), <1>2 DEF state_position_code, opened
  <1>5. state_is_send(h) <=> content[h].balance < account[a].balance
    <2>1. CASE opened(a)
      BY SMTT(30), <2>1 DEF state_is_send
    <2>2. CASE ~opened(a)
      <3>1. account[a].balance = 0
        BY <2>2, <1>3, UnopenedAccount DEF opened, IInv
      <3>2. content[h].balance \in Nat
        BY ZenonT(40), <1>3, AmountType
      <3> QED
        BY SMTT(30), <2>2, <3>1, <3>2 DEF state_is_send
    <2> QED
      BY Zenon, <2>1, <2>2
  <1>6. ~state_is_send(h) /\ link # Zero =>
            link \in Hash /\ pending_exists(<<a, link>>) /\ pending[<<a, link>>] \in PendingInfo
    <2> SUFFICES ASSUME ~state_is_send(h), link # Zero
                 PROVE  link \in Hash /\ pending_exists(<<a, link>>) /\ pending[<<a, link>>] \in PendingInfo
      BY Zenon
    <2>1. block_or_pruned_exists(link) /\ pending_exists(<<a, link>>)
      BY Zenon, <1>2 DEF state_amount_code
    <2>2. link \in Hash
      BY Zenon, <2>1, <1>3 DEF block_or_pruned_exists, exists, TypeOK
    <2> QED
      BY Zenon, <2>1, <2>2, <1>3 DEF TypeOK, pending_exists
  <1>7. state_source_epoch(h) \in Epoch
    BY SMTT(30), <1>6 DEF state_source_epoch, PendingInfo, Epoch
  <1>8. state_epoch(h) \in Epoch
    BY Zenon, <1>3, <1>7 DEF state_epoch
  <1>9. state_is_send(h) \in BOOLEAN /\ state_is_receive(h) \in BOOLEAN
    BY Zenon DEF state_is_send, state_is_receive, opened
  <1>10. sb \in Sideband /\ sb.height = account[a].block_count + 1 /\ sb.is_send = state_is_send(h)
    <2>1. account[a].block_count + 1 \in Nat
      BY <1>3
    <2> QED
      BY ZenonT(40), <2>1, <1>3, <1>7, <1>8, <1>9, StateSideband
  <1>11. /\ block' = block_put(h, sb)
         /\ update_account(a, account[a], state_info(h, state_epoch(h)))
         /\ frontier' = frontier_del(account[a].head)
    BY Zenon DEF process_state
  <1>12. pending' = IF state_is_send(h)
                    THEN [pending EXCEPT ![<<link, h>>] =
                             [source |-> a, amount |-> state_amount(h), epoch |-> state_epoch(h)]]
                    ELSE IF link # Zero THEN [pending EXCEPT ![<<a, link>>] = None]
                    ELSE pending
    BY Zenon DEF process_state
  <1>13. sb.is_send <=> content[h].balance < account[a].balance
    BY Zenon, <1>5, <1>10
  <1> HIDE DEF sb
  <1>14. /\ Appended(h, a)
         /\ block' \in [Hash -> Sideband \cup {None}]
         /\ account' \in [Account -> AccountInfo]
         /\ frontier' \in [Hash -> Account \cup {Zero}]
         /\ FrontierMatchesHead'
         /\ block'[h] = sb
    <2> HIDE DEF a
    <2>1. content[h].account = a
      BY DEF a
    <2>2. a \in Account /\ state_epoch(h) \in Epoch /\ sb \in Sideband
      BY SMTT(30), <1>3, <1>8, <1>10
    <2>3. content[h].type = "state" /\ ~block_or_pruned_exists(h) /\ process_accepted(h)
      BY <1>1, <1>2
    <2>4. content[h].previous = account[a].head /\ sb.height = account[a].block_count + 1
      BY Zenon, <1>4, <1>10
    <2>5. /\ sb.is_send <=> content[h].balance < account[a].balance
          /\ block' = block_put(h, sb)
          /\ update_account(a, account[a], state_info(h, state_epoch(h)))
          /\ frontier' = frontier_del(account[a].head)
      BY Zenon, <1>11, <1>13
    <2> QED
      BY Zenon, <2>1, <2>2, <2>3, <2>4, <2>5, StateAppended
  <1>15. is_send(h)' <=> state_is_send(h)
    BY ZenonT(40), <1>1, <1>10, <1>14 DEF is_send
  <1>16. /\ pending' \in [Word \X Hash -> PendingInfo \cup {None}]
         /\ PendingSent(h, a) \/ PendingReceived(h, a) \/ PendingKept(h)
    <2>1. CASE state_is_send(h)
      <3> DEFINE entry == [source |-> a, amount |-> state_amount(h), epoch |-> state_epoch(h)]
      <3>1. state_amount(h) \in Amount
        <4>1. state_amount(h) = account[a].balance - content[h].balance
          BY Zenon, <2>1 DEF state_amount
        <4>2. ~(account[a].balance < content[h].balance)
          <5>1. content[h].balance \in Nat /\ account[a].balance \in Nat
            BY Zenon, <1>3, AmountType
          <5>2. content[h].balance < account[a].balance
            BY Zenon, <2>1, <1>5
          <5> QED
            BY SMTT(30), <5>1, <5>2
        <4> QED
          BY Zenon, <4>1, <4>2, <1>3, AmountType
      <3>2. entry \in PendingInfo /\ entry.source = a
        BY Zenon, <3>1, <1>3, <1>8 DEF PendingInfo
      <3>3. pending' = [pending EXCEPT ![<<link, h>>] = entry]
        BY Zenon, <2>1, <1>12
      <3> HIDE DEF entry
      <3> QED
        BY ZenonT(40), <2>1, <3>2, <3>3, <1>3, <1>15, PendingUpdate DEF PendingSent
    <2>2. CASE ~state_is_send(h) /\ link # Zero
      <3>1. pending' = [pending EXCEPT ![<<a, link>>] = None]
        BY Zenon, <2>2, <1>12
      <3>2. source_of(h)' = link
        <4>1. ~is_epoch_link(link)
          BY Zenon, <2>2, <1>6, ContentAssumption DEF is_epoch_link
        <4>2. ~block'[h].is_send
          BY Zenon, <2>2, <1>1, <1>15 DEF is_send
        <4> QED
          BY Zenon, <4>1, <4>2, <1>1 DEF source_of, is_epoch_link
      <3> QED
        BY Zenon, <2>2, <3>1, <3>2, <1>3, <1>6, <1>15, PendingUpdate DEF PendingReceived
    <2>3. CASE ~state_is_send(h) /\ link = Zero
      <3>1. pending' = pending
        BY <2>3, <1>12
      <3>2. source_of(h)' = Zero
        BY Zenon, <2>3, <1>1 DEF source_of
      <3> QED
        BY ZenonT(40), <2>3, <3>1, <3>2, <1>3, <1>15 DEF PendingKept, TypeOK
    <2> QED
      BY <2>1, <2>2, <2>3
  <1>17. TypeOK'
    BY Zenon, <1>1, <1>3, <1>14, <1>16 DEF TypeOK, process_accepted
  <1> QED
    BY ZenonT(40), <1>3, <1>14, <1>16, <1>17, AppendedInv

LEMMA ProcessEpoch ==
    ASSUME IInv, NEW h \in Hash, process_epoch(h)
    PROVE  IInv'
  <1> DEFINE previous == content[h].previous
             link == content[h].link
             a == content[h].account
             epoch == epoch_of_link(link)
             sb == [successor |-> Zero, account |-> a, height |-> account[a].block_count + 1, balance |-> 0,
                    epoch |-> epoch, is_send |-> FALSE, is_receive |-> FALSE, is_epoch |-> TRUE,
                    source_epoch |-> 0]
  <1>1. /\ content[h].type = "state" /\ process_accepted(h) /\ is_epoch_block(h)
        /\ epoch_impl_code(h) = "progress" /\ validate_epoch_code(h) = "progress"
    <2>1. content[h].type = "state" /\ process_accepted(h) /\ is_epoch_block(h) /\ state_code(h) = "progress"
      BY DEF process_epoch, process_accepted, process_code
    <2>2. is_epoch_link(link)
      BY Zenon, <2>1 DEF is_epoch_block
    <2> QED
      BY Zenon, <2>1, <2>2 DEF state_code
  <1>2. /\ ~block_or_pruned_exists(h) /\ a # Zero /\ signed_by(h, EpochSigner)
        /\ epoch_position_code(h) = "progress"
        /\ content[h].balance = account[a].balance
    BY ZenonT(40), <1>1 DEF epoch_impl_code
  <1>3. /\ TypeOK /\ Zero \notin Hash /\ Zero \notin Account /\ a \in Account
        /\ previous \in Hash \cup {Zero} /\ content[h].balance \in Amount
        /\ account[a].block_count \in Nat /\ account[a].balance \in Amount
    <2>1. TypeOK /\ a \in Account
      BY <1>2, ContentType DEF IInv
    <2> QED
      BY Zenon, <2>1, AccountType, ContentType
  <1>4. is_epoch_link(link) /\ epoch \in Epoch
    <2>1. is_epoch_link(link)
      BY <1>1 DEF is_epoch_block
    <2>2. epoch \in 1..2
      BY Zenon, <2>1 DEF is_epoch_link, epoch_of_link
    <2> QED
      BY <2>1, <2>2 DEF Epoch
  <1>5. previous = account[a].head
    <2>1. CASE opened(a)
      BY Zenon, <2>1, <1>2 DEF epoch_position_code
    <2>2. CASE ~opened(a)
      <3>1. account[a].head = Zero /\ account[a].block_count = 0
        BY <2>2, <1>3, UnopenedAccount DEF opened, IInv
      <3>2. ASSUME previous # Zero PROVE FALSE
        <4>1. exists(previous)
          BY ZenonT(40), <3>2, <1>1 DEF validate_epoch_code
        <4>2. owner[previous] = a
          BY <3>2, <1>1, <1>2, <1>4, EpochSignerAssumption DEF signed_by, is_epoch_link
        <4>3. 1 <= height_of(previous) /\ height_of(previous) <= 0 /\ height_of(previous) \in Nat
          BY ZenonT(40), <3>1, <3>2, <4>1, <4>2, <1>3, SidebandType DEF IInv, StoreInv, BlockInv, height_of
        <4> QED
          BY SMTT(30), <4>3
      <3> QED
        BY Zenon, <3>1, <3>2
    <2> QED
      BY Zenon, <2>1, <2>2
  <1>6. sb \in Sideband /\ sb.height = account[a].block_count + 1 /\ sb.is_send = FALSE
    <2>1. account[a].block_count + 1 \in Nat
      BY <1>3
    <2> QED
      BY ZenonT(40), <2>1, <1>3, <1>4, EpochSideband
  <1>7. /\ block' = block_put(h, sb)
        /\ update_account(a, account[a], state_info(h, epoch))
        /\ frontier' = frontier_del(account[a].head)
        /\ pending' = pending
    BY ZenonT(40) DEF process_epoch
  <1>8. sb.is_send <=> content[h].balance < account[a].balance
    <2>1. ~sb.is_send
      BY Zenon, <1>6
    <2>2. content[h].balance \in Nat
      BY Zenon, <1>3, AmountType
    <2>3. content[h].balance = account[a].balance
      BY Zenon, <1>2
    <2> HIDE DEF sb
    <2> QED
      BY SMTT(30), <2>1, <2>2, <2>3
  <1> HIDE DEF sb, epoch
  <1>9. /\ Appended(h, a)
        /\ block' \in [Hash -> Sideband \cup {None}]
        /\ account' \in [Account -> AccountInfo]
        /\ frontier' \in [Hash -> Account \cup {Zero}]
        /\ FrontierMatchesHead'
        /\ block'[h] = sb
    <2> HIDE DEF a
    <2>1. content[h].account = a
      BY DEF a
    <2>2. a \in Account /\ epoch \in Epoch /\ sb \in Sideband
      BY <1>3, <1>4, <1>6
    <2>3. content[h].type = "state" /\ ~block_or_pruned_exists(h) /\ process_accepted(h)
      BY <1>1, <1>2
    <2>4. content[h].previous = account[a].head /\ sb.height = account[a].block_count + 1
      BY Zenon, <1>5, <1>6
    <2>5. /\ sb.is_send <=> content[h].balance < account[a].balance
          /\ block' = block_put(h, sb)
          /\ update_account(a, account[a], state_info(h, epoch))
          /\ frontier' = frontier_del(account[a].head)
      BY Zenon, <1>7, <1>8
    <2> QED
      BY Zenon, <2>1, <2>2, <2>3, <2>4, <2>5, StateAppended
  <1>10. PendingKept(h)
    BY Zenon, <1>1, <1>4, <1>6, <1>7, <1>9 DEF PendingKept, is_send, source_of, is_epoch_link
  <1>11. TypeOK'
    BY Zenon, <1>1, <1>3, <1>7, <1>9 DEF TypeOK, process_accepted
  <1> QED
    BY Zenon, <1>3, <1>9, <1>10, <1>11, AppendedInv

LEMMA ProcessedBlock ==
    ASSUME NEW h \in Hash, process(h)
    PROVE  ~exists(h) /\ \E sideband : block' = block_put(h, sideband)
  <1>1. /\ content[h].type \in {"send", "receive", "open", "change", "state"} /\ process_code(h) = "progress"
        /\ \E sideband : block' = block_put(h, sideband)
    BY Zenon DEF process, process_send, process_receive, process_open, process_change, process_state,
           process_epoch, process_accepted
  <1>2. ASSUME exists(h) PROVE FALSE
    <2>1. legacy_position_code(h) = "old" /\ open_code(h) = "old" /\ state_impl_code(h) = "old"
          /\ epoch_impl_code(h) = "old"
      BY Zenon, <1>2 DEF legacy_position_code, open_code, state_impl_code, epoch_impl_code, block_or_pruned_exists
    <2>2. send_code(h) = "old" /\ receive_code(h) = "old" /\ change_code(h) = "old"
      BY Zenon, <2>1 DEF send_code, receive_code, change_code
    <2>3. state_code(h) # "progress"
      BY <2>1 DEF state_code
    <2> QED
      BY Zenon, <1>1, <2>1, <2>2, <2>3 DEF process_code
  <1> QED
    BY Zenon, <1>1, <1>2

=============================================================================
