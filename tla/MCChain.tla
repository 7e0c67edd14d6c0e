------------------------------ MODULE MCChain ------------------------------
(***************************************************************************)
(* The chain in memory and the chain on disk, one at a time: "index" is    *)
(* ChainState with the blocks of MCChainState, "disk" is ChainstateFlush   *)
(* with the tree of MCChainstateFlush.                                     *)
(***************************************************************************)
EXTENDS MCChainState, ChainOnDisk, TLC

ASSUME OperatorAssumption == QuietOperator

VARIABLE part

indexFair == WF_vars(part = "index" /\ ActivateBestChain)

-----------------------------------------------------------------------------
(* ChainstateFlush: both branches spend the output x of a1 and create y at *)
(* different heights; a2 spends y too.                                     *)

CONSTANTS b1, x, y, z, w, n

Tx(vin, vout, ns) == [vin |-> vin, vout |-> vout, nfs |-> ns]
MCDiskBlocks == {g, a1, a2, b1, b2}
MCDiskParent == (a1 :> g) @@ (a2 :> a1) @@ (b1 :> a1) @@ (b2 :> b1)
MCDiskHeight == (g :> 0) @@ (a1 :> 1) @@ (a2 :> 2) @@ (b1 :> 2) @@ (b2 :> 3)
MCDiskTxs ==
    (g  :> << >>) @@
    (a1 :> <<Tx({}, {x}, {})>>) @@
    (a2 :> <<Tx({x}, {y}, {}), Tx({y}, {z}, {n})>>) @@
    (b1 :> <<Tx({}, {w}, {})>>) @@
    (b2 :> <<Tx({x}, {y}, {n})>>)

ASSUME DiskAssumption == Disk!IsTree /\ Disk!FreshOutputs

diskFair ==
    /\ WF_diskVars(part = "disk" /\ Disk!WriteFinalBatch)
    /\ WF_diskVars(part = "disk" /\ Disk!LoadChainTip)
    /\ WF_diskVars(part = "disk" /\ Disk!ReplayBlocks)

-----------------------------------------------------------------------------
MCInit == part \in {"index", "disk"} /\ Init /\ Disk!Init

MCNext ==
    \/ part = "index" /\ Next /\ UNCHANGED <<part, diskVars>>
    \/ part = "disk" /\ Disk!Next /\ UNCHANGED <<part, vars>>

MCSpec ==
    /\ MCInit /\ [][MCNext]_<<part, vars, diskVars>>
    /\ indexFair /\ diskFair

-----------------------------------------------------------------------------
\* Once the process stops crashing, an interrupted flush is completed and the chain opened
\* (ReplayBlocks, LoadChainTip).
Recovers == part = "disk" => Disk!Recovers
=============================================================================
