---------------------------- MODULE ChainOnDisk ----------------------------
(***************************************************************************)
(* ChainstateFlush as Disk, under names that leave room for the other      *)
(* parts of the chainstate.                                                *)
(***************************************************************************)
CONSTANTS
    DiskBlocks, DiskGenesis, DiskParent, DiskHeight, DiskMaxHeight, DiskTxs, DiskNotes,
    DiskOutpoints, DiskNullifiers, NullBlock

VARIABLES
    phase, data, undo, diskData, diskUndo, best, coins, nfs, anchor, diskBest, diskHeads,
    diskCoins, diskNfs, diskAnchor

diskVars ==
    <<phase, data, undo, diskData, diskUndo, best, coins, nfs, anchor, diskBest, diskHeads,
      diskCoins, diskNfs, diskAnchor>>

Disk == INSTANCE ChainstateFlush WITH
    Blocks <- DiskBlocks, Genesis <- DiskGenesis, Parent <- DiskParent, nHeight <- DiskHeight,
    MaxHeight <- DiskMaxHeight, Txs <- DiskTxs, Notes <- DiskNotes, Outpoints <- DiskOutpoints,
    Nullifiers <- DiskNullifiers, Null <- NullBlock,
    dbBest <- diskBest, dbHeads <- diskHeads, dbCoins <- diskCoins, dbNfs <- diskNfs,
    dbAnchor <- diskAnchor

\* The coins the process works on are those of its best block, whatever crash interrupted
\* whichever flush or replay, and those of a consistent database too (ReplayBlocks, BatchWrite).
CoinsMatchBest == Disk!CoinsMatchBest
=============================================================================
