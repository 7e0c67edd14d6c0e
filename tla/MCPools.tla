------------------------------ MODULE MCPools ------------------------------
(***************************************************************************)
(* The pools of a node,  one at a time, each in a small instance of its    *)
(* module: `part' names the one that runs, and the others stay as they     *)
(* begin.                                                                  *)
(***************************************************************************)
EXTENDS OrphanPool, Integers, TLC

VARIABLE part

-----------------------------------------------------------------------------
(* Mempool: two branches of two blocks.  txF funds txP, its conflict txX,  *)
(* txQ and the shielded spend txS; txC spends txP, the time-locked txL     *)
(* spends txQ and txC, and txK spends a coinbase.                          *)

CONSTANTS txF, txP, txX, txC, txQ, txL, txS, txK, g, a1, a2, b1, b2, nf, NoAnchor

VARIABLES poolTxs, poolTip, poolNow, mode, target, disconnected, trimmed, stale

poolVars == <<poolTxs, poolTip, poolNow, mode, target, disconnected, trimmed, stale>>

PoolTxs == {txF, txP, txX, txC, txQ, txL, txS, txK}
PoolInputs ==
    [t \in PoolTxs |-> CASE t = txF -> {<<"spent", 0>>} [] t \in {txP, txX} -> {<<txF, 0>>}
                         [] t = txC -> {<<txP, 0>>} [] t = txQ -> {<<txF, 1>>}
                         [] t = txL -> {<<txQ, 0>>, <<txC, 0>>} [] t = txS -> {<<txF, 2>>}
                         [] t = txK -> {<<"cbg", 0>>}]
PoolOutputs == [t \in PoolTxs |-> IF t = txF THEN 3 ELSE 1]
PoolSize == [t \in PoolTxs |-> CASE t = txC -> 2 [] t = txL -> 3 [] OTHER -> 1]
PoolFee ==
    [t \in PoolTxs |-> CASE t = txP -> 2 [] t = txC -> 5 [] t = txQ -> 4 [] t = txL -> 20
                         [] t = txK -> 1 [] OTHER -> 3]
PoolLockTime == [t \in PoolTxs |-> IF t = txL THEN 1 ELSE 0]
PoolNullifiers == [t \in PoolTxs |-> IF t = txS THEN {nf} ELSE {}]
PoolAnchor == [t \in PoolTxs |-> IF t = txS THEN "root1" ELSE NoAnchor]
PoolBlocks == {g, a1, a2, b1, b2}
PoolParent == (a1 :> g) @@ (b1 :> g) @@ (a2 :> a1) @@ (b2 :> b1)
PoolVtx ==
    (g :> <<txF>>) @@ (a1 :> <<txP, txQ>>) @@ (a2 :> <<txC>>) @@ (b1 :> <<txX>>) @@ (b2 :> <<txK>>)
PoolCoinBase == (g :> "cbg") @@ (a1 :> "cba1") @@ (a2 :> "cba2") @@ (b1 :> "cbb1") @@ (b2 :> "cbb2")
PoolRoot == [b \in PoolBlocks |-> IF b \in {a1, a2} THEN "root1" ELSE "root0"]

Pool == INSTANCE Mempool WITH
    Txs <- PoolTxs, Inputs <- PoolInputs, Outputs <- PoolOutputs, Size <- PoolSize, Fee <- PoolFee,
    LockTime <- PoolLockTime, Nullifiers <- PoolNullifiers, Anchor <- PoolAnchor,
    Blocks <- PoolBlocks, Genesis <- g, Parent <- PoolParent, Vtx <- PoolVtx,
    CoinBase <- PoolCoinBase, Root <- PoolRoot, Maturity <- 2, MaxMempool <- 4, Expiry <- 1,
    MinRelayFee <- 2, None <- NoAnchor, MaxAncestors <- 3, MaxDescendants <- 3, Deltas <- {3},
    Prioritised <- {txP, txK}, MaxTime <- 2, pool <- poolTxs, tip <- poolTip,
    now <- poolNow

ASSUME PoolAssumption == Pool!ValidBlocks

-----------------------------------------------------------------------------
(* OrphanPool: txC needs txA and txB, which like all the others need txR;  *)
(* txE is invalid and txL invalid and too large to keep.                   *)

CONSTANTS txR, txA, txB, txE, peer1, peer2

MCTxOrder == <<txC, txR, txB, txA, txE, txL>>
MCParents ==
    [t \in {txR, txA, txB, txC, txE, txL} |->
        CASE t = txR -> {} [] t = txC -> {txA, txB} [] OTHER -> {txR}]

ASSUME OrphanAssumption == ConstantsOK

-----------------------------------------------------------------------------
(* WalletTxs: the wallet's payment txW, its spend txV and a stranger's     *)
(* payment txU with the coin of txW; txW and txV are in the blocks of one  *)
(* branch, txU in the block of the other.                                  *)

CONSTANTS txU, txV, txW, NoBlock

VARIABLES
    walletTip, diskTip, mempool, queue, mapWallet, m_last_block_processed,
    m_last_block_processed_height, bestBlock, failed, rolledBack

walletVars ==
    <<walletTip, diskTip, mempool, queue, mapWallet, m_last_block_processed,
      m_last_block_processed_height, bestBlock, failed, rolledBack>>

WalletTxOrder == <<txW, txU, txV>>
WalletInputs == (txW :> {"coin"}) @@ (txV :> {txW}) @@ (txU :> {"coin"})
WalletPrev == (a1 :> g) @@ (a2 :> a1) @@ (b1 :> g)
WalletContents == (g :> << >>) @@ (a1 :> <<txW>>) @@ (a2 :> <<txV>>) @@ (b1 :> <<txU>>)

Wallet == INSTANCE WalletTxs WITH
    TxOrder <- WalletTxOrder, Inputs <- WalletInputs, Mine <- {txW, txV},
    Blocks <- {g, a1, a2, b1}, Genesis <- g, Prev <- WalletPrev, Contents <- WalletContents,
    MaxQueue <- 2, tip <- walletTip

-----------------------------------------------------------------------------
(* AddrMan: three addresses from two sources, two new buckets of one slot, *)
(* and two addresses that share their slot of the tried table.             *)

CONSTANTS d1, d2, d3, s1, s2

VARIABLES am, m_tried_collisions, nIdCount

addrVars == <<am, m_tried_collisions, nIdCount>>

AddrNewBucket ==
    [d \in {d1, d2, d3} |-> [n \in {s1, s2} |-> IF n = s1 \/ d = d3 THEN 0 ELSE 1]]
AddrNewPosition == [d \in {d1, d2, d3} |-> [n \in {0, 1} |-> 0]]
AddrTriedSlot == [d \in {d1, d2, d3} |-> IF d = d3 THEN 1 ELSE 0]

Addr == INSTANCE AddrMan WITH
    Addrs <- {d1, d2, d3}, Sources <- {s1, s2}, NewBuckets <- {0, 1},
    GetNewBucket <- AddrNewBucket, GetNewPosition <- AddrNewPosition,
    GetTriedSlot <- AddrTriedSlot, MaxRefs <- 2, MaxCollisions <- 1, MaxIds <- 4

-----------------------------------------------------------------------------
(* Sporks: the signer and two other nodes, with two updates, or with one   *)
(* and a restart.                                                          *)

CONSTANTS signer, node1, node2, NoSpork

VARIABLES
    now, updates, restarts, lastSigned, mapSporks, mapSporksActive, sporkDb, handling, signing,
    network, raced

sporkVars ==
    <<now, updates, restarts, lastSigned, mapSporks, mapSporksActive, sporkDb, handling, signing,
      network, raced>>

SporkParts == {"spork updates", "spork restart"}

SporkUpdates == INSTANCE Sporks WITH
    Nodes <- {signer, node1, node2}, Signer <- signer, MaxTime <- 2, MaxUpdates <- 2,
    MaxRestarts <- 0, db <- sporkDb

SporkRestart == INSTANCE Sporks WITH
    Nodes <- {signer, node1, node2}, Signer <- signer, MaxTime <- 2, MaxUpdates <- 1,
    MaxRestarts <- 1, db <- sporkDb

-----------------------------------------------------------------------------
MCInit ==
    /\ part \in {"pool", "orphans", "wallet", "addresses"} \cup SporkParts
    /\ Pool!Init /\ OrphanInit /\ Wallet!Init /\ Addr!Init
    /\ SporkUpdates!Init

PoolStep == part = "pool" /\ Pool!Next
             /\ UNCHANGED <<orphanVars, walletVars, addrVars, sporkVars>>
OrphanStep == part = "orphans" /\ OrphanNext
             /\ UNCHANGED <<poolVars, walletVars, addrVars, sporkVars>>
WalletStep == part = "wallet" /\ Wallet!Next
             /\ UNCHANGED <<poolVars, orphanVars, addrVars, sporkVars>>
AddrStep == part = "addresses" /\ Addr!Next
             /\ UNCHANGED <<poolVars, orphanVars, walletVars, sporkVars>>
SporkStep == /\ \/ part = "spork updates" /\ SporkUpdates!Next
                \/ part = "spork restart" /\ SporkRestart!Next
             /\ UNCHANGED <<poolVars, orphanVars, walletVars, addrVars>>

MCNext ==
    /\ PoolStep \/ OrphanStep \/ WalletStep \/ AddrStep \/ SporkStep
    /\ UNCHANGED part

MCSpec ==
    MCInit /\ [][MCNext]_<<part, poolVars, orphanVars, walletVars, addrVars,
                           sporkVars>>

-----------------------------------------------------------------------------
(* The properties of the parts; each module says more about its own.       *)

\* The pool holds only transactions that may be included in the next block, with their inputs
\* there and spent by them alone (removeForReorg, removeWithAnchor, removeConflicts, check).
Minable == part = "pool" => Pool!Minable

\* Links and ancestor and descendant totals are those of the entries in the pool
\* (UpdateTransactionsFromBlock, UpdateForRemoveFromMempool).
TotalsRight == part = "pool" => Pool!TotalsRight

\* A transaction of a disconnected block is in the new chain or in the pool, or the pool
\* would not take it (DisconnectTip).
Repopulated == [][part = "pool" => Pool!Repopulated]_poolVars

\* A wallet that has taken every notification agrees with the chain and the pool
\* (BlockConnected, BlockDisconnected, LoadToWallet).
CaughtUpAgrees == part = "wallet" => Wallet!CaughtUpAgrees

\* What the chain rules out counts neither as pending nor as confirmed (MarkConflicted).
RuledOutSeen == part = "wallet" => Wallet!RuledOutSeen

\* CAddrMan::Check_ finds the tables, counters and indexes consistent.
Check == part = "addresses" => Addr!Check

\* An address that waits to evict another finds its slot taken (SelectTriedCollision_).
CollisionSlotTaken == part = "addresses" => Addr!CollisionSlotTaken

\* When nothing is on its way all nodes have the same spork in force (Relay, GETSPORKS).
Settled == part \in SporkParts => SporkUpdates!Settled
=============================================================================
