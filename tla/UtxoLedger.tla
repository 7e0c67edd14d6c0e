----------------------------- MODULE UtxoLedger -----------------------------
(***************************************************************************)
(* What the stack of coin views promises: three maps from outpoints to     *)
(* coins (the database, the active chain, the block being processed) with  *)
(* no caches, no flags and no laziness.  CoinsCache implements it.         *)
(***************************************************************************)
CONSTANTS Outpoints, Coins, Spent, InvalidOutpoints

VARIABLES
  disk,    \* disk[o]: the coin of o in the database, or Spent
  chain,   \* chain[o]: the coin of o for the active chain
  block,   \* block[o]: the same for the block being (dis)connected
  open     \* a block is being (dis)connected

vars == <<disk, chain, block, open>>

MaybeCoins == Coins \cup {Spent}

Init ==
  /\ disk \in [Outpoints -> MaybeCoins]
  /\ chain = disk
  /\ block = disk
  /\ open = FALSE

(* Start working on a block.                                               *)
Begin ==
  /\ ~open
  /\ open' = TRUE
  /\ UNCHANGED <<disk, chain, block>>

(* Create, restore or spend an output; only the block sees it.             *)
Put(o, c) ==
  /\ open
  /\ block' = [block EXCEPT ![o] = c]
  /\ UNCHANGED <<disk, chain, open>>

(* The block is valid: all of its changes reach the chain at once ...      *)
Commit ==
  /\ open
  /\ chain' = block
  /\ open' = FALSE
  /\ UNCHANGED <<disk, block>>

(* ... or none does.                                                       *)
Discard ==
  /\ open
  /\ block' = chain
  /\ open' = FALSE
  /\ UNCHANGED <<disk, chain>>

(* The chain reaches the database; nobody's view of a coin changes.        *)
Sync ==
  /\ ~open
  /\ disk' = chain
  /\ UNCHANGED <<chain, block, open>>

(* The invalid outputs vanish from the chain and from the database.        *)
Prune ==
  /\ ~open
  /\ chain' = [o \in Outpoints |-> IF o \in InvalidOutpoints THEN Spent ELSE chain[o]]
  /\ block' = chain'
  /\ disk' = chain'
  /\ UNCHANGED open

Next ==
  \/ Begin
  \/ \E o \in Outpoints, c \in MaybeCoins : Put(o, c)
  \/ Commit
  \/ Discard
  \/ Sync
  \/ Prune

Spec == Init /\ [][Next]_vars
=============================================================================
