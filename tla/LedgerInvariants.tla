-------------------------- MODULE LedgerInvariants --------------------------
(***************************************************************************)
(* The inductive invariant behind the safety of rollback.  Its parts say   *)
(* how the tables hang together; the last two describe the stack of        *)
(* running rollbacks.                                                      *)
(***************************************************************************)
EXTENDS Ledger

\* An account without a head is the default account; otherwise its head is a block of
\* its chain, the highest, and carries its balance.
AccountInv ==
    \A a \in Account :
        /\ account[a].head = Zero => account[a] = account_info
        /\ \A h \in Hash : account[a].head = h =>
              /\ exists(h) /\ owner[h] = a
              /\ height_of(h) = account[a].block_count
              /\ account[a].balance = balance_of(h)

\* What a block of the store knows about itself and about its predecessor, which can
\* be missing only if it was pruned, hence at or below the confirmation height.
BlockInv ==
    \A h \in Hash : exists(h) =>
        LET previous == content[h].previous
        IN  /\ h \notin pruned
            /\ owner[h] \in Account /\ account_of(h) = owner[h]
            /\ 1 <= height_of(h) /\ height_of(h) <= account[owner[h]].block_count
            /\ height_of(h) = 1 <=> previous = Zero
            /\ previous # Zero => exists(previous) \/ previous \in pruned
            /\ previous # Zero /\ height_of(h) > confirmation_height[owner[h]].height => exists(previous)
            /\ exists(previous) => owner[previous] = owner[h] /\ height_of(h) = height_of(previous) + 1
            /\ content[h].type = "state" /\ exists(previous) =>
                  (block[h].is_send <=> content[h].balance < balance_of(previous))
            /\ content[h].type = "state" /\ previous = Zero => ~block[h].is_send

\* Within a chain the higher block is the younger one, and no two have the same height.
OrderInv ==
    \A x, y \in Hash :
        exists(x) /\ exists(y) /\ owner[x] = owner[y] /\ x # y /\ height_of(x) <= height_of(y)
        => rank[x] < rank[y]

\* A legacy block extends a legacy block: once an account has a state block, its chain
\* goes on with state blocks.  A change block leaves the balance alone.
LegacyInv ==
    \A h \in Hash : exists(h) =>
        LET previous == content[h].previous
        IN  /\ is_legacy(h) /\ previous # Zero => is_legacy(previous)
            /\ content[h].type = "change" /\ exists(previous) => balance_of(h) = balance_of(previous)

ConfirmationInv ==
    \A a \in Account : confirmation_height[a].height <= account[a].block_count

\* Pending entries are filed under the destination of their send and name its sender.
PendingInv ==
    \A w \in Word, s \in Hash : pending_exists(<<w, s>>) =>
        /\ content[s].link = w
        /\ block_or_pruned_exists(s)
        /\ exists(s) => is_send(s) /\ pending[<<w, s>>].source = owner[s]

\* A received send was sent to the receiver, is no longer pending, is received by no
\* other block, and is cemented before its receive.
SourceInv ==
    \A h \in Hash : exists(h) =>
        /\ source_of(h) \in Hash \cup {Zero}
        /\ \A s \in Hash : source_of(h) = s =>
              /\ content[s].link = owner[h]
              /\ block_or_pruned_exists(s)
              /\ exists(s) => is_send(s)
              /\ ~pending_exists(<<owner[h], s>>)
              /\ \A k \in Hash : exists(k) /\ source_of(k) = s => k = h
              /\ block_confirmed(h) => block_confirmed(s)

\* A send that is not pending has been received; the receive is gone only if it was
\* pruned, and then the send is cemented.
ReceivedInv ==
    \A s \in Hash : exists(s) /\ is_send(s) /\ ~pending_exists(<<content[s].link, s>>) =>
        block_confirmed(s) \/ \E r \in Hash : exists(r) /\ source_of(r) = s

PruneInv ==
    /\ prune_hash # Zero => calls = <<>>
    /\ \A h \in Hash : prune_hash = h /\ exists(h) =>
          height_of(h) < confirmation_height[owner[h]].height

\* A waiting send is the uncemented head of the account of its call, and the account
\* has not changed since the visitor read it.
VisitingInv(c) ==
    \A h \in Hash : c.visiting = h =>
        /\ exists(h) /\ is_send(h)
        /\ account[c.account].head = h
        /\ height_of(h) > confirmation_height[c.account].height
        /\ content[h].type = "state" =>
              /\ c.info = account[c.account]
              /\ c.new_info.head = content[h].previous
              /\ c.new_info.balance = balance(content[h].previous)
              /\ c.new_info.block_count = c.info.block_count - 1

\* A call undoes blocks of one account until its target is gone; only the outermost call
\* can fail.
CallInv(c) ==
    /\ owner[c.target] = c.account
    /\ c.visiting # Zero => exists(c.target)
    /\ \A h \in Hash : c.target = h /\ exists(h) => height_of(h) = c.height
    /\ VisitingInv(c)
    /\ c.error => Len(calls) = 1 /\ c.visiting = Zero

\* A nested call c undoes the head of the account that received the send s waiting below
\* it, while that send is not pending.
NestedInv(c, s) ==
    /\ content[s].link = c.account
    /\ \A h \in Hash : c.target = h /\ exists(h) =>
          account[c.account].head = h /\ ~pending_exists(<<c.account, s>>)

StackInv ==
    /\ \A i \in DOMAIN calls : CallInv(calls[i])
    /\ \A i \in DOMAIN calls : i < Len(calls) => calls[i].visiting # Zero
    /\ \A i \in DOMAIN calls : i > 1 => NestedInv(calls[i], calls[i - 1].visiting)
    /\ \A i, j \in DOMAIN calls : i < j /\ calls[j].visiting # Zero =>
          rank[calls[i].visiting] < rank[calls[j].visiting]

\* The part of the invariant that is about the tables alone
StoreInv ==
    /\ AccountInv
    /\ BlockInv
    /\ OrderInv
    /\ ConfirmationInv
    /\ PendingInv
    /\ SourceInv
    /\ ReceivedInv

IInv ==
    /\ TypeOK
    /\ StoreInv
    /\ LegacyInv
    /\ FrontierMatchesHead
    /\ PruneInv
    /\ StackInv

=============================================================================
