---------------------------- MODULE SaplingCache ----------------------------
(***************************************************************************)
(* The Sapling part of CCoinsViewCache (src/src/coins.cpp) and of           *)
(* CCoinsViewDB (src/src/sapling/sapling_txdb.cpp): the spent nullifiers,   *)
(* the note-commitment trees by root (anchors) and the best anchor, in the *)
(* block's view over pcoinsTip over the database, as ConnectBlock and       *)
(* DisconnectBlock use them.  A tree is the sequence of its commitments    *)
(* and its root identifies it; the empty tree is EmptyRoot.                *)
(***************************************************************************)
EXTENDS Naturals, Sequences

CONSTANTS Nullifiers, Commitments,
          MaxHeight,  \* bound: blocks of the chain, the genesis block included
          MaxTree,    \* bound: commitments of a tree
          NoEntry,    \* the cache map has no entry
          Null        \* an unset uint256

VARIABLES
  chain,                \* the active chain: <<[nfs, root], ...>>
  dbChain,              \* the chain as of the last flush to the database
  dbNf, dbAn, dbBest,   \* database: nullifiers, roots, best anchor
  tipNf, tipAn, tipBest,     \* pcoinsTip: the two maps and hashSaplingAnchor
  viewNf, viewAn, viewBest,  \* the same for the block's view
  mode,                 \* what the open view is for
  block                 \* the block being connected: its nullifiers and tree

dbVars == <<dbChain, dbNf, dbAn, dbBest>>
tipVars == <<tipNf, tipAn, tipBest>>
viewVars == <<viewNf, viewAn, viewBest>>
vars == <<chain, dbVars, tipVars, viewVars, mode, block>>

Trees == UNION {[1..n -> Commitments] : n \in 0..MaxTree}
EmptyRoot == <<>>

Blocks == [nfs : SUBSET Nullifiers, root : Trees]
Genesis == [nfs |-> {}, root |-> EmptyRoot]

(* CNullifiersCacheEntry and CAnchorsSaplingCacheEntry                      *)
NfEntries == [entered : BOOLEAN, dirty : BOOLEAN]
AnEntries == [entered : BOOLEAN, tree : Trees, dirty : BOOLEAN]
NfEmpty == [n \in Nullifiers |-> NoEntry]
AnEmpty == [r \in Trees |-> NoEntry]

(* The two marks for "nothing" are told from every value.                  *)
ConstantsOK ==
  /\ NoEntry \notin NfEntries \cup AnEntries
  /\ Null \notin Trees
  /\ MaxTree \in Nat

TypeOK ==
  /\ chain \in Seq(Blocks) /\ dbChain \in Seq(Blocks)
  /\ dbNf \subseteq Nullifiers /\ dbAn \subseteq Trees
  /\ {dbBest, tipBest, viewBest} \subseteq Trees \cup {Null}
  /\ \A c \in {tipNf, viewNf} : \A n \in Nullifiers : c[n] \in NfEntries \cup {NoEntry}
  /\ \A c \in {tipAn, viewAn} : \A r \in Trees : c[r] \in AnEntries \cup {NoEntry}
  /\ mode \in {"idle", "connect", "disconnect"}
  /\ block \in Blocks

Init ==
  /\ chain = <<Genesis>> /\ dbChain = <<Genesis>>
  /\ dbNf = {} /\ dbAn = {} /\ dbBest = Null
  /\ tipNf = NfEmpty /\ tipAn = AnEmpty /\ tipBest = Null
  /\ viewNf = NfEmpty /\ viewAn = AnEmpty /\ viewBest = Null
  /\ mode = "idle" /\ block = Genesis

Last(s) == s[Len(s)]

-----------------------------------------------------------------------------
(* Reading through the layers                                               *)

(* GetBestAnchor: an unset hash is read from the base and kept.             *)
DbBest == IF dbBest = Null THEN EmptyRoot ELSE dbBest
TipBest == IF tipBest = Null THEN DbBest ELSE tipBest
ViewBest == IF viewBest = Null THEN TipBest ELSE viewBest

(* GetNullifier: what the base says is cached, also when it says no.        *)
NfFetched(e, base) == IF e # NoEntry THEN e ELSE [entered |-> base, dirty |-> FALSE]
TipNfEntry(n) == NfFetched(tipNf[n], n \in dbNf)
ViewNfEntry(n) == NfFetched(viewNf[n], TipNfEntry(n).entered)

(* GetSaplingAnchorAt: only an anchor the base has is cached.               *)
AnFetched(e, r, has) ==
  IF e # NoEntry THEN e
  ELSE IF has THEN [entered |-> TRUE, tree |-> r, dirty |-> FALSE] ELSE NoEntry
HasAnchor(e) == e # NoEntry /\ e.entered
DbHasAnchor(r) == r = EmptyRoot \/ r \in dbAn
TipAnEntry(r) == AnFetched(tipAn[r], r, DbHasAnchor(r))
ViewAnEntry(r) == AnFetched(viewAn[r], r, HasAnchor(TipAnEntry(r)))

(* pcoinsTip after the view asked it for nullifiers N and roots R.          *)
TipNfAsked(N) == [n \in Nullifiers |-> IF n \in N /\ viewNf[n] = NoEntry THEN TipNfEntry(n) ELSE tipNf[n]]
TipAnAsked(R) == [r \in Trees |-> IF r \in R /\ viewAn[r] = NoEntry THEN TipAnEntry(r) ELSE tipAn[r]]

-----------------------------------------------------------------------------
(* Writing                                                                  *)

(* SetNullifiers: insert or overwrite, DIRTY either way.                    *)
NfSet(e, spent) == [entered |-> spent, dirty |-> TRUE]

(* Mutant: the popped anchor is not written down.                           *)
AnPoppedClean(e) == [e EXCEPT !.entered = FALSE]

(* AbstractPopAnchor: the best anchor is no longer entered.                 *)
AnPopped(e) == [e EXCEPT !.entered = FALSE, !.dirty = TRUE]

(* BatchWriteNullifiers: entry v of the child over our entry t.             *)
NfWritten(t, v) ==
  IF v = NoEntry \/ ~v.dirty THEN t
  ELSE IF t # NoEntry /\ t.entered = v.entered THEN t
  ELSE [entered |-> v.entered, dirty |-> TRUE]

(* BatchWriteAnchors: the tree of an existing entry stays.                  *)
AnWritten(t, v) ==
  IF v = NoEntry \/ ~v.dirty THEN t
  ELSE IF t = NoEntry THEN [v EXCEPT !.dirty = TRUE]
  ELSE IF t.entered = v.entered THEN t
  ELSE [t EXCEPT !.entered = v.entered, !.dirty = TRUE]

(* hashSaplingAnchor after BatchWrite: the child's, set or not.             *)
BestWritten(child) == child

-----------------------------------------------------------------------------
(* ConnectBlock and DisconnectBlock on a fresh view                         *)

(* ConnectBlock starts from the tree of the best anchor (an assertion says *)
(* that it is there, as does the property AnchorsMatchChain).              *)
ConnectBegin ==
  /\ mode = "idle" /\ Len(chain) < MaxHeight
  /\ mode' = "connect"
  /\ tipBest' = TipBest /\ viewBest' = TipBest
  /\ HasAnchor(ViewAnEntry(TipBest))
  /\ viewAn' = [viewAn EXCEPT ![TipBest] = ViewAnEntry(TipBest)]
  /\ tipAn' = TipAnAsked({TipBest})
  /\ block' = [nfs |-> {}, root |-> ViewAnEntry(TipBest).tree]
  /\ UNCHANGED <<chain, dbVars, tipNf, viewNf>>

(* HaveShieldedRequirements for a transaction that spends nullifiers N, all *)
(* with anchor r.                                                          *)
RequirementsMetBelowOnly(N, r) ==
  \A n \in N : ~(n \in dbNf) /\ HasAnchor(ViewAnEntry(r))

RequirementsMet(N, r) ==
  \A n \in N : ~ViewNfEntry(n).entered /\ HasAnchor(ViewAnEntry(r))

(* The anchors a transaction without spends, or with some, asks for.        *)
Asked(N, r) == IF N = {} THEN {} ELSE {r}

(* The tree has a fixed capacity; appending to a full one throws.           *)
HasRoom(tree, outs) == Len(tree) + Len(outs) <= MaxTree

(* The requirements, then UpdateCoins, then the outputs enter the tree.     *)
ConnectTx(N, r, outs) ==
  /\ mode = "connect"
  /\ RequirementsMet(N, r)
  /\ HasRoom(block.root, outs)
  /\ tipNf' = TipNfAsked(N)
  /\ tipAn' = TipAnAsked(Asked(N, r))
  /\ viewNf' = [n \in Nullifiers |-> IF n \in N THEN NfSet(ViewNfEntry(n), TRUE) ELSE viewNf[n]]
  /\ viewAn' = [t \in Trees |-> IF t \in Asked(N, r) THEN ViewAnEntry(t) ELSE viewAn[t]]
  /\ block' = [nfs |-> block.nfs \cup N, root |-> block.root \o outs]
  /\ UNCHANGED <<chain, dbVars, tipBest, viewBest, mode>>

(* A transaction whose requirements are not met, or another defect of the   *)
(* block, or a mere test of it (fJustCheck): the view is dropped, but       *)
(* pcoinsTip has cached what was asked.                                    *)
ConnectFails(N, r) ==
  /\ mode = "connect"
  /\ ~RequirementsMet(N, r) \/ N = {}
  /\ tipNf' = TipNfAsked(N)
  /\ tipAn' \in {tipAn, TipAnAsked(Asked(N, r))}
  /\ viewNf' = NfEmpty /\ viewAn' = AnEmpty /\ viewBest' = Null
  /\ mode' = "idle" /\ block' = Genesis
  /\ UNCHANGED <<chain, dbVars, tipBest>>

(* Flush of the view into pcoinsTip.                                        *)
FlushView(nf, an, best) ==
  /\ tipNf' = [n \in Nullifiers |-> NfWritten(tipNf[n], nf[n])]
  /\ tipAn' = [r \in Trees |-> AnWritten(tipAn[r], an[r])]
  /\ tipBest' = BestWritten(best)
  /\ viewNf' = NfEmpty /\ viewAn' = AnEmpty /\ viewBest' = Null
  /\ mode' = "idle" /\ block' = Genesis

(* PushAnchor and Flush at the end of ConnectBlock and ConnectTip.          *)
ConnectEnd ==
  /\ mode = "connect"
  /\ LET r == block.root
         pushed == [entered |-> TRUE, tree |-> r, dirty |-> TRUE]
     IN FlushView(viewNf, IF ViewBest # r THEN [viewAn EXCEPT ![r] = pushed] ELSE viewAn, r)
  /\ chain' = Append(chain, block)
  /\ UNCHANGED dbVars

(* DisconnectTip: SetNullifiers(false) for the block's transactions,        *)
(* PopAnchor back to the root of the previous block, Flush.                 *)
DisconnectTip ==
  /\ mode = "idle" /\ Len(chain) > 1
  /\ LET old == chain[Len(chain) - 1].root
         nf == [n \in Nullifiers |->
                 IF n \in Last(chain).nfs THEN NfSet(NoEntry, FALSE) ELSE NoEntry]
         e == ViewAnEntry(TipBest)
     IN IF TipBest = old
          THEN FlushView(nf, AnEmpty, TipBest)
          ELSE /\ HasAnchor(e)
               /\ FlushView(nf, [AnEmpty EXCEPT ![TipBest] = AnPopped(e)], old)
  /\ chain' = SubSeq(chain, 1, Len(chain) - 1)
  /\ UNCHANGED dbVars

-----------------------------------------------------------------------------
(* pcoinsTip on its own                                                     *)

(* Mempool acceptance asks pcoinsTip about nullifiers and anchors.          *)
TipAsk(n, r) ==
  /\ mode = "idle"
  /\ tipNf' = TipNfAsked({n})
  /\ tipAn' \in {tipAn, TipAnAsked({r})}
  /\ UNCHANGED <<chain, dbVars, tipBest, viewVars, mode, block>>

(* FlushStateToDisk: CCoinsViewDB::BatchWriteSapling, in one batch here.    *)
TipFlush ==
  /\ mode = "idle"
  /\ dbNf' = {n \in Nullifiers : IF tipNf[n] # NoEntry /\ tipNf[n].dirty
                                  THEN tipNf[n].entered ELSE n \in dbNf}
  /\ dbAn' = {r \in Trees : IF tipAn[r] # NoEntry /\ tipAn[r].dirty
                             THEN tipAn[r].entered /\ r # EmptyRoot ELSE r \in dbAn}
  /\ dbBest' = IF tipBest # Null THEN tipBest ELSE dbBest
  /\ dbChain' = chain
  /\ tipNf' = NfEmpty /\ tipAn' = AnEmpty
  /\ UNCHANGED <<chain, tipBest, viewVars, mode, block>>

(* The process dies and starts again from the database.                    *)
Crash ==
  /\ chain' = dbChain
  /\ tipNf' = NfEmpty /\ tipAn' = AnEmpty /\ tipBest' = Null
  /\ viewNf' = NfEmpty /\ viewAn' = AnEmpty /\ viewBest' = Null
  /\ mode' = "idle" /\ block' = Genesis
  /\ UNCHANGED dbVars

Next ==
  \/ ConnectBegin
  \/ \E N \in SUBSET Nullifiers, r \in Trees :
       \/ \E outs \in {<<>>} \cup {<<c>> : c \in Commitments} : ConnectTx(N, r, outs)
       \/ ConnectFails(N, r)
  \/ ConnectEnd
  \/ DisconnectTip
  \/ \E n \in Nullifiers, r \in Trees : TipAsk(n, r)
  \/ TipFlush
  \/ Crash

Spec == Init /\ [][Next]_vars

-----------------------------------------------------------------------------
(* Properties                                                               *)

SpentBy(c) == UNION {c[i].nfs : i \in DOMAIN c}
RootsOf(c) == {c[i].root : i \in DOMAIN c}

(* Through pcoinsTip exactly the nullifiers of the active chain are spent,  *)
(* after any mix of connecting, disconnecting, asking, flushing, crashing;  *)
(* and no nullifier is spent by two blocks of the active chain.            *)
NoDoubleSpend ==
  /\ mode = "idle" => \A n \in Nullifiers : TipNfEntry(n).entered <=> n \in SpentBy(chain)
  /\ \A i, j \in DOMAIN chain : i # j => chain[i].nfs \cap chain[j].nfs = {}

(* The valid anchors are exactly the roots after the blocks of the active   *)
(* chain, so that a note of a disconnected block cannot be spent.  The best *)
(* one is the root after the last block, and its tree is there: the         *)
(* assertions of ConnectBlock and BringBestAnchorIntoCache hold.           *)
AnchorsMatchChain ==
  mode = "idle" => /\ \A r \in Trees : HasAnchor(TipAnEntry(r)) <=> r \in RootsOf(chain)
                   /\ TipBest = Last(chain).root
                   /\ TipAnEntry(TipBest).tree = TipBest
=============================================================================
