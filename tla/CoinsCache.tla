----------------------------- MODULE CoinsCache -----------------------------
(***************************************************************************)
(* The coin part of CCoinsViewCache (src/src/coins.cpp): the cache of one   *)
(* block (view) on top of the cache of the active chain (pcoinsTip) on top *)
(* of CCoinsViewDB.  cs_main is held from the creation of the block's view *)
(* to its end, so tip operations of others happen only outside of it.      *)
(***************************************************************************)
EXTENDS Naturals

CONSTANTS Outpoints,
          Coins,             \* unspent coins
          Spent,             \* the cleared coin: Coin::IsSpent()
          NoCoinEntry,       \* the cache map has no entry for the outpoint
          InvalidOutpoints   \* invalid_out::setInvalidOutPoints

MaybeCoins == Coins \cup {Spent}

(* CCoinsCacheEntry                                                         *)
Entries == [coin : MaybeCoins, dirty : BOOLEAN, fresh : BOOLEAN]

ASSUME SpentAssumption == Spent \notin Coins
ASSUME NoEntryAssumption == NoCoinEntry \notin Entries
ASSUME InvalidAssumption == InvalidOutpoints \subseteq Outpoints

VARIABLES
  db,     \* db[o]: the coin stored for o; Spent when there is none
  tip,    \* pcoinsTip->cacheCoins
  view,   \* cacheCoins of the block's view
  open,   \* the block's view exists
  threw   \* a std::logic_error left AddCoin or BatchWrite

coinsVars == <<db, tip, view, open, threw>>

Caches == [Outpoints -> Entries \cup {NoCoinEntry}]
Empty == [o \in Outpoints |-> NoCoinEntry]

(* A spent coin the base never had leaves no entry to write.               *)
Sensible(e) == e # NoCoinEntry /\ e.dirty /\ e.fresh => e.coin # Spent

CoinsTypeOK ==
  /\ db \in [Outpoints -> MaybeCoins]
  /\ tip \in Caches /\ view \in Caches
  /\ \A o \in Outpoints : Sensible(tip[o]) /\ Sensible(view[o])
  /\ open \in BOOLEAN /\ threw \in BOOLEAN

CoinsInit ==
  /\ db \in [Outpoints -> MaybeCoins]
  /\ tip = Empty /\ view = Empty
  /\ open = FALSE /\ threw = FALSE

-----------------------------------------------------------------------------
(* Entries                                                                  *)

Entry(coin, dirty, fresh) == [coin |-> coin, dirty |-> dirty, fresh |-> fresh]

(* FetchCoin: the cached entry e, or a new one when the base has an entry   *)
(* with coin c (has).  A pruned coin in the base makes the new one FRESH.   *)
Fetched(e, has, c) ==
  IF e # NoCoinEntry THEN e ELSE IF has THEN Entry(c, FALSE, c = Spent) ELSE NoCoinEntry

(* The coin an entry stands for; no entry at all reads as coinEmpty.        *)
CoinOf(e) == IF e = NoCoinEntry THEN Spent ELSE e.coin

(* AddCoin: the entry is emplaced if absent, and is FRESH when the caller   *)
(* promised a new coin and no spend is waiting to be written below.         *)
Emplaced(e) == IF e = NoCoinEntry THEN Entry(Spent, FALSE, FALSE) ELSE e

AddedFreshIfDirty(e, c, overwrite) ==
  Entry(c, TRUE, Emplaced(e).fresh \/ ~overwrite)

Added(e, c, overwrite) ==
  Entry(c, TRUE, Emplaced(e).fresh \/ (~overwrite /\ ~Emplaced(e).dirty))

AddThrows(e, overwrite) == ~overwrite /\ Emplaced(e).coin # Spent

(* Mutant: no trace is left of any coin.                                    *)
SpentEntryForgets(e) == NoCoinEntry

(* SpendCoin on the fetched entry: a FRESH one needs no trace.              *)
SpentEntry(e) ==
  IF e = NoCoinEntry \/ e.fresh THEN NoCoinEntry ELSE Entry(Spent, TRUE, FALSE)

(* BatchWrite of the child's entry v over our entry t.                      *)
Written(t, v) ==
  IF v = NoCoinEntry \/ ~v.dirty THEN t
  ELSE IF t = NoCoinEntry
    THEN IF v.fresh /\ v.coin = Spent THEN NoCoinEntry ELSE Entry(v.coin, TRUE, v.fresh)
    ELSE IF t.fresh /\ v.coin = Spent THEN NoCoinEntry ELSE Entry(v.coin, TRUE, t.fresh)

WriteThrows(t, v) ==
  /\ v # NoCoinEntry /\ v.dirty /\ v.fresh
  /\ t # NoCoinEntry /\ t.coin # Spent

(* CCoinsViewDB::BatchWrite of the entry t over the stored coin c.          *)
Stored(c, t) == IF t # NoCoinEntry /\ t.dirty THEN t.coin ELSE c

-----------------------------------------------------------------------------
(* Reading                                                                  *)

TipEntry(o) == Fetched(tip[o], db[o] # Spent, db[o])

ViewEntry(o) == Fetched(view[o], TipEntry(o) # NoCoinEntry, CoinOf(TipEntry(o)))

(* A fetch through the view caches the coin in pcoinsTip as well.           *)
TipAfterFetch(o) ==
  IF view[o] # NoCoinEntry THEN tip ELSE [tip EXCEPT ![o] = TipEntry(o)]

-----------------------------------------------------------------------------
(* pcoinsTip outside of block processing                                    *)

(* GetCoin, HaveCoin, AccessCoin (mempool acceptance, RPC).                 *)
TipFetch(o) ==
  /\ ~open
  /\ tip' = [tip EXCEPT ![o] = TipEntry(o)]
  /\ UNCHANGED <<db, view, open, threw>>

Uncache(o) ==
  /\ ~open
  /\ tip[o] # NoCoinEntry /\ ~tip[o].dirty /\ ~tip[o].fresh
  /\ tip' = [tip EXCEPT ![o] = NoCoinEntry]
  /\ UNCHANGED <<db, view, open, threw>>

(* Flush of pcoinsTip into the database.                                    *)
TipFlushCoins ==
  /\ ~open
  /\ db' = [o \in Outpoints |-> Stored(db[o], tip[o])]
  /\ tip' = Empty
  /\ UNCHANGED <<view, open, threw>>

(* PruneInvalidEntries: spend what is listed, then Flush.                   *)
PruneInvalidEntries ==
  /\ ~open
  /\ LET pruned == [o \in Outpoints |->
                     IF o \in InvalidOutpoints
                       THEN IF CoinOf(TipEntry(o)) # Spent
                              THEN SpentEntry(TipEntry(o)) ELSE TipEntry(o)
                       ELSE tip[o]]
     IN db' = [o \in Outpoints |-> Stored(db[o], pruned[o])]
  /\ tip' = Empty
  /\ UNCHANGED <<view, open, threw>>

-----------------------------------------------------------------------------
(* The view of one block                                                    *)

(* ConnectTip and DisconnectTip construct CCoinsViewCache view(pcoinsTip).  *)
Open ==
  /\ ~open
  /\ open' = TRUE
  /\ UNCHANGED <<db, tip, view, threw>>

(* GetCoin, HaveCoin, AccessCoin.                                           *)
Fetch(o) ==
  /\ open
  /\ view' = [view EXCEPT ![o] = ViewEntry(o)]
  /\ tip' = TipAfterFetch(o)
  /\ UNCHANGED <<db, open, threw>>

(* UpdateCoins adds the outputs of a new transaction without looking below *)
(* (check is false): its txid occurs in no earlier block of the chain, so  *)
(* the caller promises that the outpoint has no unspent coin.              *)
AddNew(o, c) ==
  /\ open
  /\ CoinOf(ViewEntry(o)) = Spent
  /\ IF AddThrows(view[o], FALSE)
       THEN threw' = TRUE /\ UNCHANGED view
       ELSE view' = [view EXCEPT ![o] = Added(view[o], c, FALSE)] /\ UNCHANGED threw
  /\ UNCHANGED <<db, tip, open>>

(* ApplyTxInUndo restores a spent output, RollforwardBlock adds an output   *)
(* that may be there: HaveCoin decides whether it overwrites, so that      *)
(* AddCoin has no reason to throw.                                         *)
Restore(o, c) ==
  /\ open
  /\ view' = [view EXCEPT ![o] = Added(ViewEntry(o), c, CoinOf(ViewEntry(o)) # Spent)]
  /\ tip' = TipAfterFetch(o)
  /\ UNCHANGED <<db, open, threw>>

SpendCoin(o) ==
  /\ open
  /\ view' = [view EXCEPT ![o] = SpentEntry(ViewEntry(o))]
  /\ tip' = TipAfterFetch(o)
  /\ UNCHANGED <<db, open, threw>>

(* The block is good: Flush hands the entries to pcoinsTip->BatchWrite.     *)
Flush ==
  /\ open
  /\ IF \E o \in Outpoints : WriteThrows(tip[o], view[o])
       THEN threw' = TRUE /\ UNCHANGED tip
       ELSE tip' = [o \in Outpoints |-> Written(tip[o], view[o])] /\ UNCHANGED threw
  /\ view' = Empty
  /\ open' = FALSE
  /\ UNCHANGED db

(* The block is bad: the view is destroyed without Flush.                   *)
Drop ==
  /\ open
  /\ view' = Empty
  /\ open' = FALSE
  /\ UNCHANGED <<db, tip, threw>>

CoinsNext ==
  \/ \E o \in Outpoints : TipFetch(o) \/ Uncache(o) \/ Fetch(o) \/ SpendCoin(o)
  \/ \E o \in Outpoints, c \in Coins : AddNew(o, c) \/ Restore(o, c)
  \/ TipFlushCoins \/ PruneInvalidEntries \/ Open \/ Flush \/ Drop

CoinsSpec == CoinsInit /\ [][CoinsNext]_coinsVars

-----------------------------------------------------------------------------
(* Properties                                                               *)

(* What a reader of pcoinsTip and a reader of the block's view see.         *)
TipCoins == [o \in Outpoints |-> IF tip[o] = NoCoinEntry THEN db[o] ELSE tip[o].coin]
ViewCoins == [o \in Outpoints |-> IF view[o] = NoCoinEntry THEN TipCoins[o] ELSE view[o].coin]

(* Entry e over base coin c keeps the promise of its flags (coins.h, lines  *)
(* 139-142): FRESH, the base has no unspent coin; not DIRTY, it has this   *)
(* very coin.                                                              *)
FlagsHold(e, c) ==
  e # NoCoinEntry => (e.fresh => c = Spent) /\ (~e.dirty => e.coin = c)

(* The flags are right in both caches, whatever was fetched, spent, added   *)
(* again, flushed and uncached in between.  A wrong FRESH loses a spend, a *)
(* wrong clean entry loses a coin.                                         *)
FlagsSound ==
  \A o \in Outpoints : FlagsHold(tip[o], db[o]) /\ FlagsHold(view[o], TipCoins[o])

(* The two std::logic_error exceptions of coins.cpp are never thrown:       *)
(* "Adding new coin that replaces non-pruned entry" and "FRESH flag        *)
(* misapplied".                                                            *)
NoLogicError == ~threw

(* The caches are invisible: through them the program sees the plain maps   *)
(* of UtxoLedger.  A block's changes reach the chain all at once or not at *)
(* all, and fetching, uncaching and flushing change nobody's coins.        *)
Ledger == INSTANCE UtxoLedger WITH disk <- db, chain <- TipCoins, block <- ViewCoins
ImplementsLedger == Ledger!Spec
=============================================================================
