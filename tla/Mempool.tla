------------------------------- MODULE Mempool -------------------------------
(***************************************************************************)
(* The transaction pool (txmempool.cpp) and the code of validation.cpp     *)
(* that keeps it in step with the active chain: AcceptToMemoryPool, the    *)
(* pool side of ConnectTip, DisconnectTip, ActivateBestChainStep and       *)
(* InvalidateBlock, prioritisation, expiry, eviction and the dump and      *)
(* reload of the pool at a restart.                                        *)
(*                                                                         *)
(* cs_main is held for the whole of a reorganisation, so that no other     *)
(* thread adds to the pool while `mode' is not "idle"; the steps below are *)
(* the calls DisconnectTip and ConnectTip one after the other.             *)
(*                                                                         *)
(* The chain is a path in a constant tree of valid blocks.  A transaction  *)
(* is its inputs, size, fee, lock height, nullifiers and Sapling anchor.   *)
(* The memory a pool takes is the sum of the sizes of its transactions.    *)
(* The fee estimator, the rolling minimum fee rate (only reported, never   *)
(* enforced here) and the signature operation totals, which every update   *)
(* treats as it treats the sizes, are left out.                            *)
(***************************************************************************)
EXTENDS Integers, FiniteSets, FiniteSetsExt, Sequences, SequencesExt

CONSTANTS
    Txs,            \* the loose transactions
    Inputs,         \* the outpoints <<transaction, n>> a transaction spends
    Outputs,        \* how many outputs it has
    Size, Fee,      \* nTxSize and nFee
    LockTime,       \* nLockTime, a height
    Nullifiers,     \* the nullifiers its shielded spends reveal
    Anchor,         \* the Sapling root they refer to, or None
    Blocks, Genesis, Parent,
    Vtx,            \* the transactions of a block, its coinbase left out
    CoinBase,       \* the coinbase of a block, which has one output
    Root,           \* the Sapling root after a block
    Maturity,       \* nCoinbaseMaturity
    MaxMempool,     \* -maxmempool
    Expiry,         \* -mempoolexpiry
    MinRelayFee,    \* the fee a relayed transaction must pay
    MaxAncestors,   \* -limitancestorcount
    MaxDescendants, \* -limitdescendantcount
    Deltas,         \* the fee deltas the operator gives to prioritisetransaction
    Prioritised,    \* the transactions the operator names, each at most once
    MaxTime,        \* bound on the clock
    None            \* no anchor, no target

VARIABLES
    pool,           \* mapTx, mapLinks, mapNextTx, mapSaplingNullifiers, mapDeltas
    tip,            \* chainActive.Tip()
    now,            \* GetTime()
    mode,           \* "idle", "step" (ActivateBestChainStep) or "invalidate"
    target,         \* the block ActivateBestChainStep or InvalidateBlock moves to
    disconnected,   \* the blocks this reorganisation disconnected
    trimmed,        \* history: a reorganisation evicted before the links were repaired
    stale           \* history: entries with an ancestor prioritised after they came

vars == <<pool, tip, now, mode, target, disconnected, trimmed, stale>>

-------------------------------------------------------------------------------
\* The chain: what the coins view of a block holds.

Chain[b \in Blocks] == IF b = Genesis THEN {b} ELSE {b} \cup Chain[Parent[b]]

nHeight(b) == Cardinality(Chain[b]) - 1

OutpointsOf(t) == {t} \X (0 .. Outputs[t] - 1)

Confirmed(b) == UNION {Range(Vtx[a]) : a \in Chain[b]}

Coins(b) ==
    ({<<CoinBase[a], 0>> : a \in Chain[b]} \cup UNION {OutpointsOf(t) : t \in Confirmed(b)})
        \ UNION {Inputs[t] : t \in Confirmed(b)}

IsCoinBase(o) == \E b \in Blocks : CoinBase[b] = o[1]

\* A coinbase output can be spent by a block at this height.
Mature(o, height) == \A b \in Blocks : CoinBase[b] = o[1] => height - nHeight(b) >= Maturity

IsFinalTx(t, height) == LockTime[t] < height

HaveShieldedRequirements(t, b) ==
    /\ \A u \in Confirmed(b) : Nullifiers[t] \cap Nullifiers[u] = {}
    /\ Nullifiers[t] # {} => Anchor[t] \in {Root[a] : a \in Chain[b]}

\* The blocks are valid (an assumption on the constants).
ValidBlocks ==
    \A b \in Blocks \ {Genesis} : \A i \in DOMAIN Vtx[b] :
        LET t == Vtx[b][i]
            earlier == {Vtx[b][j] : j \in 1 .. i - 1}
        IN  /\ Inputs[t] \subseteq Coins(Parent[b]) \cup UNION {OutpointsOf(u) : u \in earlier}
            /\ \A u \in earlier : Inputs[t] \cap Inputs[u] = {}
            /\ \A o \in Inputs[t] : Mature(o, nHeight(b))
            /\ IsFinalTx(t, nHeight(b))
            /\ HaveShieldedRequirements(t, Parent[b])

-------------------------------------------------------------------------------
\* Entries.  `desc' and `anc' are the totals with descendants and with ancestors.

Totals == [n : Int, size : Int, fees : Int]

Plus(a, b) == [n |-> a.n + b.n, size |-> a.size + b.size, fees |-> a.fees + b.fees]

Minus(a, b) == [n |-> a.n - b.n, size |-> a.size - b.size, fees |-> a.fees - b.fees]

EmptyPool ==
    [entry |-> <<>>, next |-> <<>>, nullifiers |-> <<>>, deltas |-> [t \in Txs |-> 0],
     indexed |-> {}]

Pooled(p) == DOMAIN p.entry

GetModifiedFee(p, t) == Fee[t] + p.entry[t].feeDelta

Total(p, S) ==
    [n |-> Cardinality(S), size |-> MapThenSumSet(LAMBDA t : Size[t], S),
     fees |-> MapThenSumSet(LAMBDA t : GetModifiedFee(p, t), S)]

DynamicMemoryUsage(p) == MapThenSumSet(LAMBDA t : Size[t], Pooled(p))

\* Everything the function R of sets leads to from S, S included.
RECURSIVE Closure(_, _)
Closure(R, S) ==
    LET more == S \cup UNION {R[t] : t \in S} IN IF more = S THEN S ELSE Closure(R, more)

\* The entries that t spends from, found by its inputs.
ParentsByInput(p, t) == {u \in Pooled(p) : \E o \in Inputs[t] : o[1] = u}

\* CalculateMemPoolAncestors: from S, along the links.
Ancestors(p, S) == Closure([u \in Pooled(p) |-> p.entry[u].parents], S)

CalculateDescendants(p, S) == Closure([u \in Pooled(p) |-> p.entry[u].children], S)

-------------------------------------------------------------------------------
\* Adding and removing entries.

\* addUnchecked, with addAddressIndex and addSpentIndex.  A new entry is taken to
\* have no children in the pool.
addUnchecked(p, t, ancestors, time) ==
    LET parents == ParentsByInput(p, t)
        own == [n |-> 1, size |-> Size[t], fees |-> Fee[t] + p.deltas[t]]
        new == [nTime |-> time, feeDelta |-> p.deltas[t], parents |-> parents, children |-> {},
                desc |-> own, anc |-> Plus(own, Total(p, ancestors))]
        old == [u \in Pooled(p) |->
                   [p.entry[u] EXCEPT !.children = IF u \in parents THEN @ \cup {t} ELSE @,
                                      !.desc = IF u \in ancestors THEN Plus(@, own) ELSE @]]
    IN  [p EXCEPT !.entry = (t :> new) @@ old,
                  !.next = @ @@ [o \in Inputs[t] |-> t],
                  !.nullifiers = [n \in Nullifiers[t] |-> t] @@ @,
                  !.indexed = @ \cup {t}]

\* UpdateForRemoveFromMempool: the totals and links of the entries that stay.
UpdateForRemoveFromMempool(p, stage, updateDescendants) ==
    [u \in Pooled(p) \ stage |->
        [p.entry[u] EXCEPT
            !.desc = Minus(@, Total(p, {r \in stage : u \in Ancestors(p, p.entry[r].parents)})),
            !.anc = IF updateDescendants
                    THEN Minus(@, Total(p, {r \in stage : u \in CalculateDescendants(p, {r})}))
                    ELSE @,
            !.children = @ \ {r \in stage : u \in p.entry[r].parents},
            !.parents = @ \ {r \in stage : u \in p.entry[r].children}]]

\* removeUnchecked for every transaction of the stage, with removeAddressIndex and
\* removeSpentIndex: what the pool knows of it beside its entry.
removeUnchecked(p, stage) ==
    [p EXCEPT !.next = Restrict(@, DOMAIN @ \ UNION {Inputs[t] : t \in stage}),
              !.nullifiers = Restrict(@, DOMAIN @ \ UNION {Nullifiers[t] : t \in stage}),
              !.indexed = @ \ stage]

RemoveStaged(p, stage, updateDescendants) ==
    [removeUnchecked(p, stage) EXCEPT
        !.entry = UpdateForRemoveFromMempool(p, stage, updateDescendants)]

\* The entries that spend an output of t, found in mapNextTx.
Spenders(p, t) == {p.next[o] : o \in {q \in DOMAIN p.next : q[1] = t}}

\* removeRecursive: t and what depends on it, or, without t, what spends from it.
removeRecursive(p, t) ==
    LET origins == IF t \in Pooled(p) THEN {t} ELSE Spenders(p, t)
    IN  RemoveStaged(p, CalculateDescendants(p, origins), FALSE)

ClearPrioritisation(p, t) == [p EXCEPT !.deltas[t] = 0]

\* removeConflicts: what spends an input or reveals a nullifier of t.
removeConflicts(p, t) ==
    LET Drop(q, u) == ClearPrioritisation(removeRecursive(q, u), u)
        ByInput(q, o) == IF o \in DOMAIN q.next /\ q.next[o] # t THEN Drop(q, q.next[o]) ELSE q
        ByNullifier(q, n) ==
            IF n \in DOMAIN q.nullifiers /\ q.nullifiers[n] # t THEN Drop(q, q.nullifiers[n]) ELSE q
    IN  FoldLeft(ByNullifier, FoldLeft(ByInput, p, SetToSeq(Inputs[t])), SetToSeq(Nullifiers[t]))

\* removeForBlock: transaction by transaction, in the order of the block.
removeForBlock(p, b) ==
    LET Confirm(q, t) ==
            LET r == IF t \in Pooled(q) THEN RemoveStaged(q, {t}, TRUE) ELSE q
            IN  ClearPrioritisation(removeConflicts(r, t), t)
    IN  FoldLeft(Confirm, p, Vtx[b])

\* removeForReorg: no longer final, or spending a coinbase that is gone or immature.
removeForReorg(p, b) ==
    LET Gone(o) == /\ o[1] \notin Pooled(p)
                   /\ o \notin Coins(b) \/ ~Mature(o, nHeight(b) + 1)
        toRemove == {t \in Pooled(p) : \/ ~IsFinalTx(t, nHeight(b) + 1)
                                       \/ /\ \E o \in Inputs[t] : IsCoinBase(o)
                                          /\ \E o \in Inputs[t] : Gone(o)}
    IN  RemoveStaged(p, CalculateDescendants(p, toRemove), FALSE)

\* removeWithAnchor: the shielded spends that refer to this root.
removeWithAnchor(p, root) ==
    FoldLeft(removeRecursive, p, SetToSeq({t \in Pooled(p) : Nullifiers[t] # {} /\ Anchor[t] = root}))

-------------------------------------------------------------------------------
\* Limits.

\* Expire: entries older than `time' and what depends on them.
Expire(p, time) ==
    RemoveStaged(p, CalculateDescendants(p, {t \in Pooled(p) : p.entry[t].nTime < time}), FALSE)

\* CompareTxMemPoolEntryByDescendantScore: the fee rate of the entry, or of the entry
\* with its descendants if that is better.
DescendantScore(p, t) ==
    LET own == [fees |-> GetModifiedFee(p, t), size |-> Size[t]]
        all == [fees |-> p.entry[t].desc.fees, size |-> p.entry[t].desc.size]
    IN  IF all.fees * own.size > own.fees * all.size THEN all ELSE own

SortsBefore(p, t, u) ==
    LET a == DescendantScore(p, t)
        b == DescendantScore(p, u)
    IN  \/ a.fees * b.size < a.size * b.fees
        \/ a.fees * b.size = a.size * b.fees /\ p.entry[t].nTime >= p.entry[u].nTime

\* The first entry by descendant score, with its descendants, leaves the pool.
EvictWorst(p) ==
    LET worst == CHOOSE t \in Pooled(p) : \A u \in Pooled(p) : SortsBefore(p, t, u)
    IN  RemoveStaged(p, CalculateDescendants(p, {worst}), FALSE)

\* TrimToSize: evict until the pool fits.
RECURSIVE TrimToSize(_)
TrimToSize(p) == IF DynamicMemoryUsage(p) <= MaxMempool THEN p ELSE TrimToSize(EvictWorst(p))

LimitMempoolSize(p) == TrimToSize(Expire(p, now - Expiry))

-------------------------------------------------------------------------------
\* AcceptToMemoryPool.

\* The checks of AcceptToMemoryPoolWorker, against the coins of block b with the pool
\* on top, while chainActive ends in `active'.  A transaction below the relay fee is
\* taken to have the priority a free transaction needs, and the size limits on
\* packages to follow the count limits.
Acceptable(p, t, limitFree, b, active) ==
    LET ancestors == Ancestors(p, ParentsByInput(p, t))
    IN  /\ IsFinalTx(t, nHeight(active) + 1)
        /\ t \notin Pooled(p)
        /\ Inputs[t] \cap DOMAIN p.next = {}
        /\ Nullifiers[t] \cap DOMAIN p.nullifiers = {}
        /\ OutpointsOf(t) \cap Coins(b) = {}
        /\ \A o \in Inputs[t] : o[1] \in Pooled(p) \/ o \in Coins(b)
        /\ HaveShieldedRequirements(t, b)
        /\ limitFree => Fee[t] >= MinRelayFee \/ p.deltas[t] > 0
        /\ Fee[t] > 0
        /\ Cardinality(ancestors) + 1 <= MaxAncestors
        /\ \A a \in ancestors : p.entry[a].desc.n + 1 <= MaxDescendants
        /\ \A o \in Inputs[t] : Mature(o, nHeight(b) + 1)

Entered(p, t, time) == addUnchecked(p, t, Ancestors(p, ParentsByInput(p, t)), time)

\* AcceptToMemoryPoolWithTime, for a transaction that passes the checks.  The second
\* TrimToSize runs whether or not the caller overrides the limit.
AcceptToMemoryPool(p, t, override, time) ==
    LET entered == Entered(p, t, time)
    IN  TrimToSize(IF override THEN entered ELSE LimitMempoolSize(entered))

\* PrioritiseTransaction: the ancestors learn of the delta, the descendants do not.
PrioritiseTransaction(p, t, delta) ==
    LET q == [p EXCEPT !.deltas[t] = @ + delta]
        Bump(totals) == [totals EXCEPT !.fees = @ + delta]
        above == Ancestors(p, p.entry[t].parents)
    IN  IF t \notin Pooled(p) THEN q
        ELSE [q EXCEPT !.entry = [u \in Pooled(p) |->
                 IF u = t THEN [p.entry[t] EXCEPT !.feeDelta = q.deltas[t], !.desc = Bump(@),
                                                  !.anc = Bump(@)]
                 ELSE IF u \in above THEN [p.entry[u] EXCEPT !.desc = Bump(@)]
                 ELSE p.entry[u]]]

-------------------------------------------------------------------------------
\* DisconnectTip.

\* Mutant of UpdateTransactionsFromBlock: the links to the children are not restored.
UpdateNone(p, hashes) == p

\* UpdateTransactionsFromBlock: link the transactions of the block to their children
\* in the pool, from the last to the first, and add up what the new links connect.
UpdateTransactionsFromBlock(p, hashes) ==
    LET already == Range(hashes)
        Link(q, t) ==
            LET new == Spenders(q, t) \ already
            IN  [q EXCEPT !.entry = [u \in Pooled(q) |->
                    [q.entry[u] EXCEPT !.children = IF u = t THEN @ \cup new ELSE @,
                                       !.parents = IF u \in new THEN @ \cup {t} ELSE @]]]
        UpdateForDescendants(q, t) ==
            LET below == CalculateDescendants(q, {t}) \ ({t} \cup already)
            IN  [q EXCEPT !.entry = [u \in Pooled(q) |->
                    [q.entry[u] EXCEPT !.anc = IF u \in below THEN Plus(@, Total(q, {t})) ELSE @,
                                       !.desc = IF u = t THEN Plus(@, Total(q, below)) ELSE @]]]
        Update(q, t) == IF t \in Pooled(q) THEN UpdateForDescendants(Link(q, t), t) ELSE q
    IN  FoldLeft(Update, p, Reverse(hashes))

\* Mutant of Resurrectable: the relay fee is asked for again.
ResurrectRelayed(p, t, b) == Acceptable(p, t, TRUE, Parent[b], b)

\* A transaction of the disconnected block b passes the checks of the pool.
Resurrectable(p, t, b) == Acceptable(p, t, FALSE, Parent[b], b)

\* The loop that offers the transactions of the disconnected block to the pool again;
\* chainActive still ends in that block, the coins view no longer does.
Resurrect(p, b) ==
    LET Again(acc, t) ==
            IF Resurrectable(acc.pool, t, b)
            THEN LET after == AcceptToMemoryPool(acc.pool, t, TRUE, now)
                 IN  [pool |-> IF t \in Pooled(after) THEN after ELSE removeRecursive(after, t),
                      hashes |-> IF t \in Pooled(after) THEN Append(acc.hashes, t) ELSE acc.hashes,
                      trimmed |-> acc.trimmed \/ Pooled(after) # Pooled(acc.pool) \cup {t}]
            ELSE [acc EXCEPT !.pool = removeRecursive(@, t)]
    IN  FoldLeft(Again, [pool |-> removeRecursive(p, CoinBase[b]), hashes |-> <<>>, trimmed |-> FALSE],
                 Vtx[b])

\* Mutant of AnchorEvicted: the root of the parent, not of the block that went.
AnchorOfParent(p, b) ==
    IF Root[b] # Root[Parent[b]] THEN removeWithAnchor(p, Root[Parent[b]]) ELSE p

AnchorEvicted(p, b) ==
    IF Root[b] # Root[Parent[b]] THEN removeWithAnchor(p, Root[b]) ELSE p

\* Replaces the pool; an entry is no longer stale once it has left the pool.
Becomes(p, newlyStale) ==
    /\ pool' = p
    /\ stale' = (stale \cup newlyStale) \cap Pooled(p)

DisconnectTip ==
    /\ mode # "idle"
    /\ tip \notin Chain[target]
    /\ LET r == Resurrect(pool, tip)
       IN  /\ Becomes(AnchorEvicted(UpdateTransactionsFromBlock(r.pool, r.hashes), tip), {})
           /\ trimmed' = (trimmed \/ r.trimmed)
    /\ disconnected' = disconnected \cup {tip}
    /\ tip' = Parent[tip]
    /\ UNCHANGED <<now, mode, target>>

-------------------------------------------------------------------------------
\* The other actions.

Init ==
    /\ pool = EmptyPool
    /\ tip = Genesis
    /\ now = 0
    /\ mode = "idle"
    /\ target = None
    /\ disconnected = {}
    /\ trimmed = FALSE
    /\ stale = {}

\* A peer, the wallet or an RPC call offers a transaction.  A refused one leaves the
\* pool as it is.
Accept(t) ==
    /\ mode = "idle"
    /\ Acceptable(pool, t, TRUE, tip, tip)
    /\ Becomes(AcceptToMemoryPool(pool, t, FALSE, now), {})
    /\ UNCHANGED <<tip, now, mode, target, disconnected, trimmed>>

\* prioritisetransaction.  Bound: one pending delta per transaction, and no second one
\* while the first has left totals behind (each would move them further).
Prioritise(t, delta) ==
    /\ mode = "idle"
    /\ pool.deltas[t] = 0
    /\ stale = {}
    /\ Becomes(PrioritiseTransaction(pool, t, delta),
               IF t \in Pooled(pool) THEN CalculateDescendants(pool, {t}) \ {t} ELSE {})
    /\ UNCHANGED <<tip, now, mode, target, disconnected, trimmed>>

\* ActivateBestChainStep towards a better block, or InvalidateBlock down to b.  Bound:
\* none starts on a pool whose totals a trimmed reorganisation has left wrong.
StartStep(b) ==
    /\ mode = "idle" /\ ~trimmed
    /\ b # tip
    /\ mode' = "step"
    /\ target' = b
    /\ disconnected' = {}
    /\ UNCHANGED <<pool, tip, now, trimmed, stale>>

InvalidateBlock(b) ==
    /\ mode = "idle" /\ ~trimmed
    /\ b \in Chain[tip] \ {Genesis}
    /\ mode' = "invalidate"
    /\ target' = Parent[b]
    /\ disconnected' = {}
    /\ UNCHANGED <<pool, tip, now, trimmed, stale>>

\* ConnectTip: the pool loses the transactions of the block and what they conflict with.
ConnectTip ==
    /\ mode = "step"
    /\ tip \in Chain[target] \ {target}
    /\ \E b \in Chain[target] \ {Genesis} :
          /\ Parent[b] = tip
          /\ tip' = b
          /\ Becomes(removeForBlock(pool, b), {})
    /\ UNCHANGED <<now, mode, target, disconnected, trimmed>>

\* The end of ActivateBestChainStep: the target is reached, the tip is better than the
\* old one, or the next block turned out to be invalid.
EndStep ==
    /\ mode = "step"
    /\ tip \in Chain[target]
    /\ mode' = "idle"
    /\ target' = None
    /\ Becomes(IF disconnected # {} THEN LimitMempoolSize(removeForReorg(pool, tip)) ELSE pool, {})
    /\ UNCHANGED <<tip, now, disconnected, trimmed>>

\* The end of InvalidateBlock.
EndInvalidate ==
    /\ mode = "invalidate"
    /\ tip = target
    /\ mode' = "idle"
    /\ target' = None
    /\ Becomes(removeForReorg(LimitMempoolSize(pool), tip), {})
    /\ UNCHANGED <<tip, now, disconnected, trimmed>>

\* DumpMempool at shutdown and LoadMempool at the next start: the entries with the
\* fewest ancestors come first, then those with the better fee rate.
DepthAndScore(p, t, u) ==
    \/ p.entry[t].anc.n < p.entry[u].anc.n
    \/ /\ p.entry[t].anc.n = p.entry[u].anc.n
       /\ GetModifiedFee(p, t) * Size[u] > GetModifiedFee(p, u) * Size[t]

Reloaded(p) ==
    LET dump == SetToSortSeq(Pooled(p), LAMBDA t, u : DepthAndScore(p, t, u))
        Weighed(q, t, delta) == IF delta = 0 THEN q ELSE PrioritiseTransaction(q, t, delta)
        Load(q, t) ==
            LET w == Weighed(q, t, p.entry[t].feeDelta)
            IN  IF p.entry[t].nTime + Expiry > now /\ Acceptable(w, t, TRUE, tip, tip)
                THEN AcceptToMemoryPool(w, t, FALSE, p.entry[t].nTime)
                ELSE w
        rest == SetToSeq({t \in Txs \ Pooled(p) : p.deltas[t] # 0})
    IN  FoldLeft(LAMBDA q, t : Weighed(q, t, p.deltas[t]), FoldLeft(Load, EmptyPool, dump), rest)

Restart ==
    /\ mode = "idle"
    /\ pool' = Reloaded(pool)
    /\ stale' = {}
    /\ disconnected' = {}
    /\ trimmed' = FALSE
    /\ UNCHANGED <<tip, now, mode, target>>

\* A reorganisation takes far less than a unit of -mempoolexpiry, which counts hours.
Tick ==
    /\ mode = "idle"
    /\ now < MaxTime
    /\ now' = now + 1
    /\ UNCHANGED <<pool, tip, mode, target, disconnected, trimmed, stale>>

Next ==
    \/ \E t \in Txs : Accept(t)
    \/ \E t \in Prioritised, delta \in Deltas : Prioritise(t, delta)
    \/ \E b \in Blocks : StartStep(b) \/ InvalidateBlock(b)
    \/ DisconnectTip
    \/ ConnectTip
    \/ EndStep
    \/ EndInvalidate
    \/ Restart
    \/ Tick

Spec == Init /\ [][Next]_vars

-------------------------------------------------------------------------------
\* Properties.

Entry ==
    [nTime : 0 .. MaxTime, feeDelta : Deltas \cup {0}, parents : SUBSET Txs,
     children : SUBSET Txs, desc : Totals, anc : Totals]

\* Type correctness; the pool is tracked per transaction, outpoint and nullifier.
TypeOK ==
    /\ Pooled(pool) \subseteq Txs
    /\ \A t \in Pooled(pool) : pool.entry[t] \in Entry
    /\ Range(pool.next) \cup Range(pool.nullifiers) \subseteq Pooled(pool)
    /\ pool.deltas \in [Txs -> Deltas \cup {0}]
    /\ pool.indexed = Pooled(pool)
    /\ tip \in Blocks
    /\ now \in 0 .. MaxTime
    /\ mode \in {"idle", "step", "invalidate"}
    /\ target \in Blocks \cup {None}
    /\ disconnected \subseteq Blocks
    /\ trimmed \in BOOLEAN
    /\ stale \subseteq Pooled(pool)

\* The comment on CTxMemPool: the pool stores "valid-according-to-the-current-best-chain
\* transactions that may be included in the next block": nothing that is already in the
\* chain, immature, not yet final, double-spent in the chain or anchored in a Sapling
\* root that a reorganisation removed.  And CTxMemPool::check: every input of an entry is
\* an output of another entry or a coin of the active chain, no two entries spend the
\* same one, and mapNextTx and mapSaplingNullifiers name exactly the entries, unless a
\* reorganisation had to evict entries in the middle of a resurrection
\* (validation.cpp:605).
Minable ==
    mode = "idle" =>
        \A t \in Pooled(pool) :
            /\ t \notin Confirmed(tip)
            /\ IsFinalTx(t, nHeight(tip) + 1)
            /\ \A o \in Inputs[t] : Mature(o, nHeight(tip) + 1)
            /\ HaveShieldedRequirements(t, tip)
            /\ ~trimmed =>
                  /\ \A o \in Inputs[t] : /\ o[1] \in Pooled(pool) \/ o \in Coins(tip)
                                          /\ o \in DOMAIN pool.next /\ pool.next[o] = t
                  /\ \A n \in Nullifiers[t] :
                        n \in DOMAIN pool.nullifiers /\ pool.nullifiers[n] = t

\* The links and the totals that eviction and block assembly sort by are those of the
\* transactions really in the pool, through arrivals, confirmations, conflicts and
\* reorganisations; the fees with ancestors of an entry are right unless an ancestor
\* was prioritised after the entry came (PrioritiseTransaction).
TotalsRight ==
    mode = "idle" /\ ~trimmed =>
        \A t \in Pooled(pool) :
            LET e == pool.entry[t]
                Up == [u \in Pooled(pool) |-> ParentsByInput(pool, u)]
                Down == [u \in Pooled(pool) |-> {v \in Pooled(pool) : u \in Up[v]}]
                above == Total(pool, Closure(Up, {t}))
                below == Total(pool, Closure(Down, {t}))
            IN  /\ e.parents = Up[t]
                /\ e.children = Down[t]
                /\ e.desc = below
                /\ e.anc.n = above.n /\ e.anc.size = above.size
                /\ t \notin stale => e.anc = above

\* The guarantee on CTxMemPool::cs that the pool is "fully populated": a transaction of
\* a disconnected block that is not in the new chain is in the pool, or the pool would
\* not take it now, or the pool is short of space.
Repopulated ==
    mode # "idle" /\ mode' = "idle" /\ ~trimmed' =>
        \A b \in disconnected : \A t \in Range(Vtx[b]) :
            \/ t \in Confirmed(tip') \cup Pooled(pool')
            \/ ~Acceptable(pool', t, FALSE, tip', tip')
            \/ DynamicMemoryUsage(Entered(pool', t, now)) > MaxMempool

===============================================================================
