-------------------------- MODULE ChainstateFlush --------------------------
(***************************************************************************)
(* How the chainstate survives a crash.                                    *)
(*                                                                         *)
(* FlushStateToDisk (validation.cpp) first writes the block index, with    *)
(* the block and undo files it refers to, and then the coins cache.        *)
(* CCoinsViewDB::BatchWrite (txdb.cpp) writes the coins in batches: the    *)
(* first one replaces the best block by a pair of head blocks <<new, old>>,*)
(* the last one writes the Sapling data and the best block and erases the  *)
(* pair.  A process that finds such a pair at start-up runs ReplayBlocks,  *)
(* which undoes the old branch and applies the new one to whatever mixture *)
(* of the two is on the disk, and flushes the result the same way.         *)
(*                                                                         *)
(* The blocks are a constant tree, and a coin is the height of the block   *)
(* that created it.  A Sapling commitment tree is the set of the blocks    *)
(* whose commitments it holds.  The blocks on one branch are all valid     *)
(* there: what a rejected block does to the index is not modelled here.    *)
(***************************************************************************)
EXTENDS Integers, Sequences

CONSTANTS
    Blocks,     \* the block tree: its blocks,
    Genesis,    \*   its root,
    Parent,     \*   the parent (pprev) of every other block,
    nHeight,    \*   the height of every block,
    MaxHeight,  \*   the greatest height,
    Txs,        \*   and the transactions of every block, each with its
                \*   inputs vin, outputs vout and nullifiers nfs
    Notes,      \* the blocks that add commitments to the Sapling tree
    Outpoints,  \* transparent outputs
    Nullifiers, \* nullifiers of Sapling notes
    Null        \* the null block hash

\* The blocks form a tree (an assumption on the constants), and AcceptBlock
\* gives every block a height one above that of its parent.
IsTree ==
    /\ Genesis \in Blocks /\ Null \notin Blocks
    /\ Parent \in [Blocks \ {Genesis} -> Blocks]
    /\ MaxHeight \in Nat
    /\ nHeight \in [Blocks -> 0 .. MaxHeight] /\ nHeight[Genesis] = 0
    /\ \A b \in Blocks \ {Genesis} : nHeight[b] = nHeight[Parent[b]] + 1
    /\ Txs \in [Blocks -> Seq([vin  : SUBSET Outpoints, vout : SUBSET Outpoints,
                               nfs  : SUBSET Nullifiers])]
    /\ Txs[Genesis] = << >> /\ Notes \subseteq Blocks \ {Genesis}

VARIABLES
    phase,      \* what the process does: it is "down", has the chain open
                \* ("run"), or is in BatchWrite, for FlushStateToDisk
                \* ("flush") or for ReplayBlocks ("replay")
    data,       \* blocks whose data and index entry are in memory,
    undo,       \*   and those whose undo data is too
    diskData,   \* the same two sets, in the block tree database
    diskUndo,
    best,       \* hashBlock, coins, nullifiers and best anchor, seen through
    coins,      \*   the cache in memory
    nfs,
    anchor,
    dbBest,     \* DB_BEST_BLOCK, or Null
    dbHeads,    \* DB_HEAD_BLOCKS, << >> or <<new, old>>
    dbCoins,    \* DB_COIN, DB_SAPLING_NULLIFIER and DB_BEST_SAPLING_ANCHOR
    dbNfs,
    dbAnchor

index  == <<data, undo>>
disk   == <<diskData, diskUndo>>
memory == <<best, coins, nfs, anchor>>
db     == <<dbBest, dbHeads, dbCoins, dbNfs, dbAnchor>>
vars   == <<phase, index, disk, memory, db>>

Spent == 0
NoCoins == [o \in Outpoints |-> Spent]

(***************************************************************************)
(* The block tree.                                                         *)
(***************************************************************************)

\* CBlockIndex::GetAncestor: the block at height h of the chain that ends in b.
GetAncestor[b \in Blocks] ==
    [h \in 0 .. MaxHeight |-> IF h > nHeight[b] THEN Null
                             ELSE IF h = nHeight[b] THEN b
                             ELSE GetAncestor[Parent[b]][h]]

\* The blocks above height h of the chain that ends in b.
Branch(b, h) == {GetAncestor[b][k] : k \in h + 1 .. nHeight[b]}

Ancestors(b) == IF b = Null THEN {} ELSE Branch(b, -1)

\* The height of LastCommonAncestor, or 0 when there is no old tip.
nForkHeight(old, new) ==
    IF old = Null THEN 0
    ELSE LET common == {h \in 0 .. nHeight[new] : GetAncestor[old][h] = GetAncestor[new][h]}
         IN CHOOSE h \in common : \A k \in common : k <= h

BlockNfs(b) == UNION {Txs[b][i].nfs : i \in DOMAIN Txs[b]}

FinalSaplingRoot(b) == Ancestors(b) \cap Notes
-----------------------------------------------------------------------------
(***************************************************************************)
(* What a block does to the coins.                                         *)
(***************************************************************************)

\* SpendCoin on the inputs, then AddCoins on the outputs, of every
\* transaction in turn: UpdateCoins and RollforwardBlock alike.
ApplyTx(h, view, tx) ==
    [o \in Outpoints |-> IF o \in tx.vout THEN h
                         ELSE IF o \in tx.vin THEN Spent ELSE view[o]]

ApplyTxs(view, b, n) ==
    LET applied[i \in 0 .. n] ==
            IF i = 0 THEN view ELSE ApplyTx(nHeight[b], applied[i - 1], Txs[b][i])
    IN applied[n]

RollforwardBlock(view, b) == ApplyTxs(view, b, Len(Txs[b]))

\* The coins of the chain that ends in b.  ConnectBlock returns before it
\* touches the coins when the block is the genesis block.
Utxo[b \in Blocks] ==
    IF b = Genesis THEN NoCoins ELSE RollforwardBlock(Utxo[Parent[b]], b)

NfsOf(b) == UNION {BlockNfs(a) : a \in Ancestors(b)}

HaveInputs(view, b) ==
    \A i \in DOMAIN Txs[b] : \A o \in Txs[b][i].vin :
        ApplyTxs(view, b, i - 1)[o] # Spent

\* ApplyTxInUndo: an input gets the coin back that the undo data kept of it
\* when the block was connected.
ApplyTxInUndo(b, i, o) == ApplyTxs(Utxo[Parent[b]], b, i - 1)[o]

\* The hash of a transaction names its outputs, so no block creates an output
\* that is unspent already (an assumption on the constants).
FreshOutputs ==
    \A b \in Blocks \ {Genesis} : \A i \in DOMAIN Txs[b] :
        \A o \in Txs[b][i].vout \ Txs[b][i].vin :
            ApplyTxs(Utxo[Parent[b]], b, i - 1)[o] = Spent

\* The outputs are spent and the inputs restored, last transaction first.
UndoTx(b, view, i) ==
    [o \in Outpoints |-> IF o \in Txs[b][i].vin THEN ApplyTxInUndo(b, i, o)
                         ELSE IF o \in Txs[b][i].vout THEN Spent ELSE view[o]]

UndoTxs(view, b, n) ==
    LET undone[k \in 0 .. n] ==
            IF k = 0 THEN view ELSE UndoTx(b, undone[k - 1], Len(Txs[b]) + 1 - k)
    IN undone[n]

\* A missing output, or an input that is there, makes the result unclean.
Clean(view, b) ==
    \A i \in DOMAIN Txs[b] :
        LET before == UndoTxs(view, b, Len(Txs[b]) - i)
        IN /\ \A o \in Txs[b][i].vout : before[o] # Spent
           /\ \A o \in Txs[b][i].vin  : before[o] = Spent

\* Mutant: an unclean block is left as it is.
DisconnectBlockIfClean(view, b) ==
    IF ~Clean(view.coins, b) THEN view
    ELSE [coins  |-> UndoTxs(view.coins, b, Len(Txs[b])),
          nfs    |-> view.nfs \ BlockNfs(b),
          anchor |-> FinalSaplingRoot(Parent[b])]

\* DisconnectBlock on the three parts of a view.
DisconnectBlock(view, b) ==
    [coins  |-> UndoTxs(view.coins, b, Len(Txs[b])),
     nfs    |-> view.nfs \ BlockNfs(b),
     anchor |-> FinalSaplingRoot(Parent[b])]
-----------------------------------------------------------------------------
Init ==
    /\ phase = "run"
    /\ data = {Genesis} /\ undo = {} /\ diskData = {} /\ diskUndo = {}
    /\ best = Genesis /\ coins = NoCoins /\ nfs = {} /\ anchor = {}
    /\ dbBest = Null /\ dbHeads = << >>
    /\ dbCoins = NoCoins /\ dbNfs = {} /\ dbAnchor = {}

\* AcceptBlock: a block arrives, is written to its file and enters the index.
AcceptBlock(b) ==
    /\ phase = "run" /\ b \notin data /\ Parent[b] \in data
    /\ data' = data \cup {b}
    /\ UNCHANGED <<phase, undo, disk, memory, db>>

\* ConnectTip with ConnectBlock: the inputs are unspent, the nullifiers are
\* new, and the commitment tree has the root the header promises.  The undo
\* data is written before the view is flushed into the cache.
ConnectTip(b) ==
    /\ phase = "run" /\ b \in data \ {Genesis} /\ Parent[b] = best
    /\ HaveInputs(coins, b) /\ BlockNfs(b) \cap nfs = {}
    /\ anchor \cup ({b} \cap Notes) = FinalSaplingRoot(b)
    /\ undo' = undo \cup {b}
    /\ best' = b
    /\ coins' = RollforwardBlock(coins, b)
    /\ nfs' = nfs \cup BlockNfs(b)
    /\ anchor' = anchor \cup ({b} \cap Notes)
    /\ UNCHANGED <<phase, data, disk, db>>

\* DisconnectTip, which fails unless DisconnectBlock is clean.
DisconnectTip ==
    /\ phase = "run" /\ best # Genesis
    /\ best \in undo /\ Clean(coins, best)
    /\ LET view == DisconnectBlock(
                       [coins |-> coins, nfs |-> nfs, anchor |-> anchor], best)
       IN coins' = view.coins /\ nfs' = view.nfs /\ anchor' = view.anchor
    /\ best' = Parent[best]
    /\ UNCHANGED <<phase, index, disk, db>>

\* FlushStateToDisk, first half: the block and undo files, then the index
\* entries that refer to them, in one synchronous batch.  A full flush goes
\* on to the coins; a periodic write, or one short of disk space, does not.
WriteBlockIndex ==
    /\ phase = "run"
    /\ diskData' = data /\ diskUndo' = undo
    /\ phase' \in {"run", "flush"}
    /\ UNCHANGED <<index, memory, db>>

\* CCoinsViewDB::BatchWrite: the tip that the transition starts from.
OldTip ==
    IF dbBest # Null THEN dbBest
    ELSE IF dbHeads # << >> THEN dbHeads[2] ELSE Null

\* The dirty entries of the cache that make a difference to the database.
Dirty == {o \in Outpoints : coins[o] # dbCoins[o]}

\* BatchWrite: a batch that exceeds the batch size is written before the
\* others.  It holds some of the dirty coins; the first one also marks the
\* database as being in the middle of a transition.
WritePartialBatch(S) ==
    /\ phase \in {"flush", "replay"} /\ S \subseteq Dirty
    /\ dbBest' = Null
    /\ dbHeads' = <<best, OldTip>>
    /\ dbCoins' = [o \in Outpoints |-> IF o \in S THEN coins[o] ELSE dbCoins[o]]
    /\ UNCHANGED <<phase, index, disk, memory, dbNfs, dbAnchor>>

\* Mutant: the last batch of a replay does not mark the database consistent.
WriteFinalBatchKeepsHeads ==
    /\ phase \in {"flush", "replay"}
    /\ IF phase = "flush" THEN dbBest' = best /\ dbHeads' = << >>
       ELSE UNCHANGED <<dbBest, dbHeads>>
    /\ dbCoins' = coins /\ dbNfs' = nfs /\ dbAnchor' = anchor
    /\ phase' = IF phase = "flush" THEN "run" ELSE "down"
    /\ UNCHANGED <<index, disk, memory>>

\* BatchWrite: the rest of the coins, all Sapling data and the best block.
\* After a replay the process opens the database as after a clean stop.
WriteFinalBatch ==
    /\ phase \in {"flush", "replay"}
    /\ dbBest' = best /\ dbHeads' = << >>
    /\ dbCoins' = coins /\ dbNfs' = nfs /\ dbAnchor' = anchor
    /\ phase' = IF phase = "flush" THEN "run" ELSE "down"
    /\ UNCHANGED <<index, disk, memory>>

\* The process dies, at any point, or stops after an error (AbortNode).
Crash ==
    /\ phase # "down"
    /\ phase' = "down"
    /\ data' = {} /\ undo' = {}
    /\ best' = Null /\ coins' = NoCoins /\ nfs' = {} /\ anchor' = {}
    /\ UNCHANGED <<disk, db>>

\* What ReplayBlocks needs on the disk: both heads in the block index, the
\* undo data of the branch it leaves and the data of the one it enters.
CanReplay(new, old) ==
    /\ {new, old} \ {Null} \subseteq diskData
    /\ old # Null => Branch(old, nForkHeight(old, new)) \subseteq diskUndo
    /\ Branch(new, nForkHeight(old, new)) \subseteq diskData

\* Start-up succeeds if ReplayBlocks does, and if there is a best block then
\* or nothing but the genesis block, which LoadChainTip connects.
CanOpen ==
    IF dbHeads = << >> THEN dbBest # Null \/ diskData \subseteq {Genesis}
    ELSE CanReplay(dbHeads[1], dbHeads[2])

\* LoadBlockIndexDB, LoadGenesisBlock and LoadChainTip on a database that
\* has no head blocks: ReplayBlocks has nothing to do.
LoadChainTip ==
    /\ phase = "down" /\ dbHeads = << >> /\ CanOpen
    /\ phase' = "run"
    /\ data' = diskData \cup {Genesis} /\ undo' = diskUndo
    /\ best' = IF dbBest = Null THEN Genesis ELSE dbBest
    /\ coins' = dbCoins /\ nfs' = dbNfs /\ anchor' = dbAnchor
    /\ UNCHANGED <<disk, db>>

\* "Do you want to rebuild the block database now?": both databases are
\* wiped, and the blocks are accepted again from their files.
Reindex ==
    /\ phase = "down" /\ ~CanOpen
    /\ phase' = "run"
    /\ data' = {Genesis} /\ undo' = {} /\ diskData' = {} /\ diskUndo' = {}
    /\ best' = Genesis /\ coins' = NoCoins /\ nfs' = {} /\ anchor' = {}
    /\ dbBest' = Null /\ dbHeads' = << >>
    /\ dbCoins' = NoCoins /\ dbNfs' = {} /\ dbAnchor' = {}

\* The old branch is rolled back to the fork, clean or not,
RollBack(view, old, h) ==
    LET back[k \in 0 .. nHeight[old] - h] ==
            IF k = 0 THEN view
            ELSE DisconnectBlock(back[k - 1], GetAncestor[old][nHeight[old] + 1 - k])
    IN back[nHeight[old] - h]

\* and the new one rolled forward from it.
RollForward(view, new, h) ==
    LET forward[k \in 0 .. nHeight[new] - h] ==
            IF k = 0 THEN view
            ELSE RollforwardBlock(forward[k - 1], GetAncestor[new][h + k])
    IN forward[nHeight[new] - h]

\* ReplayBlocks, on a cache over the database as it is.
ReplayBlocks ==
    /\ phase = "down" /\ dbHeads # << >> /\ CanOpen
    /\ LET new  == dbHeads[1]
           old  == dbHeads[2]
           view == [coins |-> dbCoins, nfs |-> dbNfs, anchor |-> dbAnchor]
           back == IF old = Null THEN view
                   ELSE RollBack(view, old, nForkHeight(old, new))
       IN /\ best' = new
          /\ coins' = RollForward(back.coins, new, nForkHeight(old, new))
          /\ nfs' = back.nfs
          /\ anchor' = back.anchor
    /\ phase' = "replay"
    /\ data' = diskData /\ undo' = diskUndo
    /\ UNCHANGED <<disk, db>>

Next ==
    \/ \E b \in Blocks \ {Genesis} : AcceptBlock(b) \/ ConnectTip(b)
    \/ DisconnectTip
    \/ WriteBlockIndex
    \/ \E S \in SUBSET Outpoints : WritePartialBatch(S)
    \/ WriteFinalBatch
    \/ Crash
    \/ LoadChainTip
    \/ ReplayBlocks
    \/ Reindex

Spec == Init /\ [][Next]_vars

\* A flush that was begun, a start-up and a replay go on by themselves.
FairSpec ==
    Spec /\ WF_vars(WriteFinalBatch) /\ WF_vars(LoadChainTip) /\ WF_vars(ReplayBlocks)
-----------------------------------------------------------------------------
(***************************************************************************)
(* The state is well typed; undo data never exists without its block.      *)
(***************************************************************************)
TypeOK ==
    /\ phase \in {"down", "run", "flush", "replay"}
    /\ data \subseteq Blocks /\ undo \subseteq data
    /\ diskData \subseteq Blocks /\ diskUndo \subseteq diskData
    /\ {best, dbBest} \subseteq Blocks \cup {Null}
    /\ dbHeads \in {<< >>} \cup (Blocks \X (Blocks \cup {Null}))
    /\ {coins, dbCoins} \subseteq [Outpoints -> 0 .. MaxHeight]
    /\ nfs \cup dbNfs \subseteq Nullifiers
    /\ anchor \cup dbAnchor \subseteq Notes

(***************************************************************************)
(* Whatever crash interrupted whichever flush, and whichever replay of it, *)
(* the coins that the process works on are those of the chain that ends in *)
(* its best block: ReplayBlocks' claim that writing and deleting coins are *)
(* idempotent (validation.cpp:4052-4055).  And a database without head     *)
(* blocks holds the coins of its best block: "mark the database as         *)
(* consistent with hashBlock again" (txdb.cpp:156).                        *)
(***************************************************************************)
CoinsMatchBest ==
    /\ phase # "down" => coins = Utxo[best]
    /\ dbHeads = << >> => dbCoins = IF dbBest = Null THEN NoCoins ELSE Utxo[dbBest]

(***************************************************************************)
(* Once the process stops crashing, an interrupted flush is completed and  *)
(* the chain opened, by the flush itself or by a replay, and no rebuild of *)
(* the databases is needed for it: the block index was written first, and  *)
(* knows both heads and the data that the replay reads ("This can only be  *)
(* done if the blocks / block index write was also done",                  *)
(* validation.cpp:2110).                                                   *)
(***************************************************************************)
Recovers == <>[][~Crash]_vars => (dbHeads # << >> ~> phase = "run")

(***************************************************************************)
(* A process that stopped can be started again: LoadChainTip connects the  *)
(* genesis block "so that we always have a chainActive.Tip() when we       *)
(* return" (validation.cpp:3861), and the block index is written often "so *)
(* we don't need to redownload after a crash" (validation.cpp:2076).       *)
(***************************************************************************)
StartsAgain == phase = "down" => CanOpen

(***************************************************************************)
(* What init.cpp:1667 says after ReplayBlocks: "The on-disk coinsdb is now *)
(* in a good state".  The nullifiers and the best anchor of a database     *)
(* without head blocks are those of its best block.                        *)
(***************************************************************************)
DbSaplingMatchesBest ==
    dbHeads = << >> /\ dbBest # Null =>
        dbNfs = NfsOf(dbBest) /\ dbAnchor = FinalSaplingRoot(dbBest)
=============================================================================
