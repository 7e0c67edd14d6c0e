------------------------- MODULE SaplingCacheProofs -------------------------
(***************************************************************************)
(* For any nullifiers, commitments and bounds: through the caches the node *)
(* sees exactly the nullifiers and the anchors of the active chain, so     *)
(* that no note is spent twice and none of a disconnected block at all.    *)
(***************************************************************************)
EXTENDS SaplingCache, TLAPS

(* No nullifier is in two blocks of the chain c.                           *)
Disjoint(c) == \A i, j \in 1..Len(c) : i # j => c[i].nfs \cap c[j].nfs = {}

(* Tree t comes after tree s: it is longer, or the same.                   *)
After(s, t) == Len(s) <= Len(t) /\ (Len(s) = Len(t) => s = t)

(* The trees of a chain grow from the empty one.                           *)
Grows(c) ==
  /\ c[1].root = EmptyRoot
  /\ \A i, j \in 1..Len(c) : i <= j => After(c[i].root, c[j].root)

IsChain(c) == c \in Seq(Blocks) /\ Len(c) >= 1 /\ Disjoint(c) /\ Grows(c)

(* The types, with maps that are functions.                                *)
Types ==
  /\ dbNf \subseteq Nullifiers /\ dbAn \subseteq Trees
  /\ tipNf \in [Nullifiers -> NfEntries \cup {NoEntry}]
  /\ viewNf \in [Nullifiers -> NfEntries \cup {NoEntry}]
  /\ tipAn \in [Trees -> AnEntries \cup {NoEntry}]
  /\ viewAn \in [Trees -> AnEntries \cup {NoEntry}]
  /\ dbBest \in Trees \cup {Null} /\ tipBest \in Trees \cup {Null} /\ viewBest \in Trees \cup {Null}
  /\ mode \in {"idle", "connect"} /\ block \in Blocks

(* A clean entry of pcoinsTip says what the database says; pcoinsTip and    *)
(* the database say what their chains say.                                 *)
NfLayers ==
  \A n \in Nullifiers :
    /\ tipNf[n] # NoEntry /\ ~tipNf[n].dirty => (tipNf[n].entered <=> n \in dbNf)
    /\ TipNfEntry(n).entered <=> n \in SpentBy(chain)
    /\ n \in dbNf <=> n \in SpentBy(dbChain)

(* The same for the anchors, where clean entries are entered.              *)
AnLayers ==
  \A r \in Trees :
    /\ tipAn[r] # NoEntry =>
         tipAn[r].tree = r /\ (~tipAn[r].dirty => tipAn[r].entered /\ DbHasAnchor(r))
    /\ HasAnchor(TipAnEntry(r)) <=> r \in RootsOf(chain)
    /\ DbHasAnchor(r) <=> r \in RootsOf(dbChain)

Bests == TipBest = Last(chain).root /\ DbBest = Last(dbChain).root

(* The view of a block holds the block's nullifiers, all spent, and anchors *)
(* it asked for; the block's tree continues that of the tip.               *)
ViewNf ==
  /\ mode = "idle" => viewNf = NfEmpty
  /\ mode = "connect" =>
       /\ \A n \in Nullifiers :
            viewNf[n] = IF n \in block.nfs THEN [entered |-> TRUE, dirty |-> TRUE] ELSE NoEntry
       /\ block.nfs \cap SpentBy(chain) = {}

ViewAn ==
  /\ mode = "idle" => viewAn = AnEmpty /\ viewBest = Null
  /\ mode = "connect" =>
       /\ viewBest = TipBest
       /\ \A r \in Trees : viewAn[r] # NoEntry =>
            r \in RootsOf(chain) /\ viewAn[r] = [entered |-> TRUE, tree |-> r, dirty |-> FALSE]
       /\ After(Last(chain).root, block.root)

(* The inductive invariant.                                                *)
IInv ==
  /\ Types /\ IsChain(chain) /\ IsChain(dbChain)
  /\ NfLayers /\ AnLayers /\ Bests /\ ViewNf /\ ViewAn

-----------------------------------------------------------------------------
(* Trees and chains.                                                       *)

LEMMA TreeSeq ==
  ASSUME NEW t \in Trees
  PROVE  t \in Seq(Commitments) /\ Len(t) \in Nat
<1>1. PICK n \in 0..MaxTree : t \in [1..n -> Commitments]
  BY DEF Trees
<1>2. n \in Nat
  OBVIOUS
<1> QED BY <1>1, <1>2

LEMMA SeqTree ==
  ASSUME NEW t \in Seq(Commitments), Len(t) <= MaxTree
  PROVE  t \in Trees
<1>1. Len(t) \in 0..MaxTree /\ t \in [1..Len(t) -> Commitments]
  OBVIOUS
<1> QED BY <1>1 DEF Trees

LEMMA EmptyTree ==
  ASSUME ConstantsOK
  PROVE  EmptyRoot \in Trees
<1>1. <<>> \in Seq(Commitments) /\ Len(<<>>) <= MaxTree
  BY DEF ConstantsOK
<1> QED BY <1>1, SeqTree DEF EmptyRoot

LEMMA SpentMember ==
  ASSUME NEW c \in Seq(Blocks), NEW n
  PROVE  n \in SpentBy(c) <=> \E i \in 1..Len(c) : n \in c[i].nfs
BY DEF SpentBy

LEMMA RootMember ==
  ASSUME NEW c \in Seq(Blocks), NEW r
  PROVE  r \in RootsOf(c) <=> \E i \in 1..Len(c) : c[i].root = r
BY DEF RootsOf

(* A chain with a block more.                                              *)
LEMMA AppendChain ==
  ASSUME NEW c, IsChain(c), NEW b \in Blocks,
         b.nfs \cap SpentBy(c) = {}, After(Last(c).root, b.root)
  PROVE  /\ IsChain(Append(c, b)) /\ Last(Append(c, b)) = b
         /\ SpentBy(Append(c, b)) = SpentBy(c) \cup b.nfs
         /\ RootsOf(Append(c, b)) = RootsOf(c) \cup {b.root}
<1> DEFINE d == Append(c, b)
<1>1. /\ c \in Seq(Blocks) /\ Len(c) \in Nat /\ Len(c) >= 1
      /\ d \in Seq(Blocks) /\ Len(d) = Len(c) + 1
      /\ d[Len(c) + 1] = b /\ \A i \in 1..Len(c) : d[i] = c[i]
  BY DEF IsChain
<1> HIDE DEF d
<1>2. \A i \in 1..Len(c) : c[i] \in Blocks
  BY <1>1
<1>3. Last(d) = b
  BY <1>1 DEF Last
<1>4. SpentBy(d) = SpentBy(c) \cup b.nfs
  <2>1. \A n : n \in SpentBy(d) <=> \E i \in 1..Len(d) : n \in d[i].nfs
    BY <1>1, SpentMember
  <2>2. \A n : n \in SpentBy(c) <=> \E i \in 1..Len(c) : n \in c[i].nfs
    BY <1>1, SpentMember
  <2> QED BY <1>1, <2>1, <2>2
<1>5. RootsOf(d) = RootsOf(c) \cup {b.root}
  <2>1. \A r : r \in RootsOf(d) <=> \E i \in 1..Len(d) : d[i].root = r
    BY <1>1, RootMember
  <2>2. \A r : r \in RootsOf(c) <=> \E i \in 1..Len(c) : c[i].root = r
    BY <1>1, RootMember
  <2> QED BY <1>1, <2>1, <2>2
<1>6. Disjoint(d)
  <2>1. \A i \in 1..Len(c) : c[i].nfs \cap b.nfs = {}
    BY <1>1, SpentMember
  <2> QED BY <1>1, <2>1 DEF Disjoint, IsChain
<1>7. Grows(d)
  <2>1. \A i \in 1..Len(c) : After(c[i].root, c[Len(c)].root)
    BY <1>1 DEF IsChain, Grows
  <2>2. \A i \in 1..Len(c) : Len(c[i].root) \in Nat
    BY <1>2, TreeSeq DEF Blocks
  <2>3. Len(b.root) \in Nat
    BY TreeSeq DEF Blocks
  <2>4. \A i \in 1..Len(c) : After(c[i].root, b.root)
    BY <1>1, <2>1, <2>2, <2>3 DEF After, Last
  <2>5. After(b.root, b.root)
    BY <2>3 DEF After
  <2>6. d[1].root = EmptyRoot
    BY <1>1 DEF IsChain, Grows
  <2>7. ASSUME NEW i \in 1..Len(d), NEW j \in 1..Len(d), i <= j
        PROVE  After(d[i].root, d[j].root)
    <3>1. CASE j \in 1..Len(c)
      <4>1. i \in 1..Len(c) /\ d[i] = c[i] /\ d[j] = c[j]
        BY <1>1, <2>7, <3>1
      <4> QED BY <2>7, <3>1, <4>1 DEF IsChain, Grows
    <3>2. CASE j = Len(c) + 1
      <4>1. d[j] = b /\ (i \in 1..Len(c) \/ d[i] = b)
        BY <1>1, <2>7, <3>2
      <4> QED BY <1>1, <2>4, <2>5, <4>1
    <3> QED BY <1>1, <3>1, <3>2
  <2> QED BY <2>6, <2>7 DEF Grows
<1> QED BY <1>1, <1>3, <1>4, <1>5, <1>6, <1>7 DEF IsChain, d
(* A chain with a block less.                                              *)
LEMMA FrontChain ==
  ASSUME NEW c, IsChain(c), Len(c) > 1
  PROVE  LET d == SubSeq(c, 1, Len(c) - 1)
         IN  /\ IsChain(d) /\ Last(d) = c[Len(c) - 1] /\ Last(d) \in Blocks
             /\ SpentBy(d) = SpentBy(c) \ Last(c).nfs
             /\ Last(c).nfs \subseteq SpentBy(c)
             /\ Last(c).root = Last(d).root => RootsOf(d) = RootsOf(c)
             /\ Last(c).root # Last(d).root => RootsOf(d) = RootsOf(c) \ {Last(c).root}
<1> DEFINE d == SubSeq(c, 1, Len(c) - 1)
<1>1. /\ c \in Seq(Blocks) /\ Len(c) \in Nat /\ Len(c) >= 1
      /\ d \in Seq(Blocks) /\ Len(d) = Len(c) - 1
      /\ \A i \in 1..Len(d) : d[i] = c[i]
  BY DEF IsChain
<1> HIDE DEF d
<1>2. \A i \in 1..Len(c) : c[i] \in Blocks
  BY <1>1
<1>3. Last(d) = c[Len(c) - 1] /\ Last(c) = c[Len(c)]
  BY <1>1 DEF Last
<1>4. SpentBy(d) = SpentBy(c) \ Last(c).nfs /\ Last(c).nfs \subseteq SpentBy(c)
  <2>1. \A n : n \in SpentBy(d) <=> \E i \in 1..Len(d) : n \in d[i].nfs
    BY <1>1, SpentMember
  <2>2. \A n : n \in SpentBy(c) <=> \E i \in 1..Len(c) : n \in c[i].nfs
    BY <1>1, SpentMember
  <2>3. \A i \in 1..Len(d) : c[i].nfs \cap c[Len(c)].nfs = {}
    BY <1>1 DEF IsChain, Disjoint
  <2>4. \A i : i \in 1..Len(c) <=> i \in 1..Len(d) \/ i = Len(c)
    BY <1>1
  <2>5. ASSUME NEW n \in SpentBy(d) PROVE n \in SpentBy(c) /\ n \notin Last(c).nfs
    <3>1. PICK i \in 1..Len(d) : n \in d[i].nfs
      BY <2>1
    <3>2. n \in c[i].nfs /\ i \in 1..Len(c)
      BY <1>1, <3>1, <2>4
    <3> QED BY <1>3, <2>2, <2>3, <3>2
  <2>6. ASSUME NEW n \in SpentBy(c), n \notin Last(c).nfs PROVE n \in SpentBy(d)
    <3>1. PICK i \in 1..Len(c) : n \in c[i].nfs
      BY <2>2
    <3>2. i \in 1..Len(d) /\ n \in d[i].nfs
      BY <1>1, <1>3, <2>4, <2>6, <3>1
    <3> QED BY <2>1, <3>2
  <2>7. ASSUME NEW n \in Last(c).nfs PROVE n \in SpentBy(c)
    BY <1>3, <2>2, <2>4
  <2> QED BY <2>5, <2>6, <2>7
<1>5. \A r : r \in RootsOf(d) <=> \E i \in 1..Len(d) : c[i].root = r
  BY <1>1, RootMember
<1>6. \A r : r \in RootsOf(c) <=> \E i \in 1..Len(c) : c[i].root = r
  BY <1>1, RootMember
<1>7. ASSUME Last(c).root = Last(d).root PROVE RootsOf(d) = RootsOf(c)
  <2>1. \A i : i \in 1..Len(c) <=> i \in 1..Len(d) \/ i = Len(c)
    BY <1>1
  <2>2. Len(c) - 1 \in 1..Len(d) /\ c[Len(c) - 1].root = c[Len(c)].root
    BY <1>1, <1>3, <1>7
  <2> QED BY <1>5, <1>6, <2>1, <2>2
<1>8. ASSUME Last(c).root # Last(d).root PROVE RootsOf(d) = RootsOf(c) \ {Last(c).root}
  <2>1. \A i \in 1..Len(d) : After(c[i].root, c[Len(c) - 1].root)
    BY <1>1 DEF IsChain, Grows
  <2>2. After(c[Len(c) - 1].root, c[Len(c)].root)
    BY <1>1 DEF IsChain, Grows
  <2>3. \A i \in 1..Len(c) : Len(c[i].root) \in Nat
    BY <1>2, TreeSeq DEF Blocks
  <2>4. \A i \in 1..Len(d) : c[i].root # c[Len(c)].root
    BY <1>1, <1>3, <1>8, <2>1, <2>2, <2>3 DEF After
  <2> QED BY <1>1, <1>3, <1>5, <1>6, <2>4
<1>9. Disjoint(d) /\ Grows(d)
  BY <1>1 DEF IsChain, Disjoint, Grows
<1> QED BY <1>1, <1>2, <1>3, <1>4, <1>7, <1>8, <1>9 DEF IsChain, d
-----------------------------------------------------------------------------
(* What asking and flushing do to the layers.                              *)

(* Asking pcoinsTip caches what the database says.                         *)
LEMMA NfAsked ==
  ASSUME ConstantsOK, Types, NfLayers, NEW N, tipNf' = TipNfAsked(N), UNCHANGED <<chain, dbVars>>
  PROVE  NfLayers' /\ (tipNf \in [Nullifiers -> NfEntries \cup {NoEntry}])'
<1>1. ASSUME NEW n \in Nullifiers
      PROVE  TipNfEntry(n) \in NfEntries /\ (tipNf[n] # NoEntry => TipNfEntry(n) = tipNf[n])
  BY DEF TipNfEntry, NfFetched, Types, NfEntries
<1>2. (tipNf \in [Nullifiers -> NfEntries \cup {NoEntry}])'
  BY <1>1 DEF TipNfAsked, Types
<1>3. ASSUME NEW n \in Nullifiers
      PROVE  tipNf'[n] = tipNf[n] \/ (tipNf[n] = NoEntry /\ tipNf'[n] = [entered |-> n \in dbNf, dirty |-> FALSE])
  BY <1>1 DEF TipNfAsked, TipNfEntry, NfFetched
<1>4. UNCHANGED <<chain, dbNf, dbChain>>
  BY DEF dbVars
<1>5. ASSUME NEW n \in Nullifiers
      PROVE  TipNfEntry(n)' = TipNfEntry(n)
  <2>1. [entered |-> n \in dbNf, dirty |-> FALSE] \in NfEntries
    BY DEF NfEntries
  <2> QED BY <1>3, <1>4, <2>1 DEF TipNfEntry, NfFetched, ConstantsOK
<1>6. ASSUME NEW n \in Nullifiers, tipNf'[n] # NoEntry, ~tipNf'[n].dirty
      PROVE  tipNf'[n].entered <=> n \in dbNf
  <2>1. CASE tipNf'[n] = tipNf[n]
    BY <1>6, <2>1 DEF NfLayers
  <2>2. CASE tipNf'[n] = [entered |-> n \in dbNf, dirty |-> FALSE]
    <3>1. tipNf'[n].entered = (n \in dbNf)
      BY <2>2, SMT
    <3> QED BY <3>1, Zenon
  <2> QED BY <1>3, <2>1, <2>2
<1> QED BY <1>2, <1>4, <1>5, <1>6 DEF NfLayers, SpentBy

LEMMA AnAsked ==
  ASSUME ConstantsOK, Types, AnLayers, NEW R, tipAn' \in {tipAn, TipAnAsked(R)},
         UNCHANGED <<chain, dbVars>>
  PROVE  AnLayers' /\ (tipAn \in [Trees -> AnEntries \cup {NoEntry}])'
<1>1. ASSUME NEW r \in Trees
      PROVE  TipAnEntry(r) \in AnEntries \cup {NoEntry}
  BY DEF TipAnEntry, AnFetched, Types, AnEntries
<1>2. (tipAn \in [Trees -> AnEntries \cup {NoEntry}])'
  BY <1>1 DEF TipAnAsked, Types
<1>3. ASSUME NEW r \in Trees
      PROVE  \/ tipAn'[r] = tipAn[r]
             \/ /\ tipAn[r] = NoEntry /\ DbHasAnchor(r)
                /\ tipAn'[r] = [entered |-> TRUE, tree |-> r, dirty |-> FALSE]
  BY DEF TipAnAsked, TipAnEntry, AnFetched
<1>4. /\ UNCHANGED <<chain, dbAn, dbChain>>
      /\ \A r \in Trees : DbHasAnchor(r)' <=> DbHasAnchor(r)
  BY DEF dbVars, DbHasAnchor
<1>5. ASSUME NEW r \in Trees
      PROVE  HasAnchor(TipAnEntry(r))' <=> HasAnchor(TipAnEntry(r))
  <2>1. [entered |-> TRUE, tree |-> r, dirty |-> FALSE] \in AnEntries
    BY DEF AnEntries
  <2>2. [entered |-> TRUE, tree |-> r, dirty |-> FALSE] # NoEntry
    BY <2>1 DEF ConstantsOK
  <2> QED BY <1>3, <1>4, <2>2 DEF TipAnEntry, AnFetched, HasAnchor
<1>6. ASSUME NEW r \in Trees, tipAn'[r] # NoEntry
      PROVE  tipAn'[r].tree = r /\ (~tipAn'[r].dirty => tipAn'[r].entered /\ DbHasAnchor(r))
  <2>1. CASE tipAn'[r] = tipAn[r]
    BY <1>6, <2>1 DEF AnLayers
  <2>2. CASE DbHasAnchor(r) /\ tipAn'[r] = [entered |-> TRUE, tree |-> r, dirty |-> FALSE]
    BY <2>2
  <2> QED BY <1>3, <2>1, <2>2
<1> QED BY <1>2, <1>4, <1>5, <1>6 DEF AnLayers, RootsOf

(* Flushing a view that says what the new chain says.                      *)
LEMMA NfFlushed ==
  ASSUME ConstantsOK, Types, NfLayers,
         NEW nf \in [Nullifiers -> NfEntries \cup {NoEntry}],
         \A n \in Nullifiers : nf[n] # NoEntry => nf[n].dirty,
         \A n \in Nullifiers : n \in SpentBy(chain)' <=>
             IF nf[n] = NoEntry THEN n \in SpentBy(chain) ELSE nf[n].entered,
         tipNf' = [n \in Nullifiers |-> NfWritten(tipNf[n], nf[n])], UNCHANGED dbVars
  PROVE  NfLayers' /\ (tipNf \in [Nullifiers -> NfEntries \cup {NoEntry}])'
<1>1. UNCHANGED <<dbNf, dbChain>>
  BY DEF dbVars
<1>2. SUFFICES ASSUME NEW n \in Nullifiers
               PROVE  /\ tipNf'[n] \in NfEntries \cup {NoEntry}
                      /\ tipNf'[n] # NoEntry /\ ~tipNf'[n].dirty => (tipNf'[n].entered <=> n \in dbNf)
                      /\ TipNfEntry(n)'.entered <=> n \in SpentBy(chain)'
  BY <1>1, <1>2 DEF NfLayers, SpentBy
<1>3. tipNf'[n] = NfWritten(tipNf[n], nf[n])
  OBVIOUS
<1>4. CASE nf[n] = NoEntry
  <2>1. tipNf'[n] = tipNf[n]
    BY <1>3, <1>4 DEF NfWritten
  <2>2. TipNfEntry(n)' = TipNfEntry(n)
    BY <1>1, <2>1 DEF TipNfEntry
  <2> QED BY <1>4, <2>1, <2>2 DEF NfLayers, Types
<1>5. CASE nf[n] # NoEntry
  <2>1. nf[n].dirty /\ nf[n].entered \in BOOLEAN
    BY <1>5 DEF NfEntries
  <2>2. CASE tipNf[n] # NoEntry /\ tipNf[n].entered = nf[n].entered
    <3>1. tipNf'[n] = tipNf[n]
      BY <1>3, <1>5, <2>1, <2>2 DEF NfWritten
    <3>2. TipNfEntry(n)' = tipNf[n]
      BY <2>2, <3>1 DEF TipNfEntry, NfFetched
    <3> QED BY <1>5, <2>1, <2>2, <3>1, <3>2 DEF NfLayers, Types
  <2>3. CASE ~(tipNf[n] # NoEntry /\ tipNf[n].entered = nf[n].entered)
    <3>1. tipNf'[n] = [entered |-> nf[n].entered, dirty |-> TRUE]
      BY <1>3, <1>5, <2>1, <2>3 DEF NfWritten
    <3>2. tipNf'[n] \in NfEntries /\ tipNf'[n] # NoEntry
      <4>1. [entered |-> nf[n].entered, dirty |-> TRUE] \in NfEntries
        BY <2>1 DEF NfEntries
      <4> QED BY <3>1, <4>1 DEF ConstantsOK
    <3>3. TipNfEntry(n)' = tipNf'[n]
      BY <3>2 DEF TipNfEntry, NfFetched
    <3> QED BY <1>5, <2>1, <3>1, <3>2, <3>3
  <2> QED BY <2>2, <2>3
<1> QED BY <1>4, <1>5

LEMMA AnFlushed ==
  ASSUME ConstantsOK, Types, AnLayers,
         NEW an \in [Trees -> AnEntries \cup {NoEntry}],
         \A r \in Trees : an[r] # NoEntry => an[r].tree = r,
         \A r \in Trees : r \in RootsOf(chain)' <=>
             IF an[r] # NoEntry /\ an[r].dirty THEN an[r].entered ELSE r \in RootsOf(chain),
         tipAn' = [r \in Trees |-> AnWritten(tipAn[r], an[r])], UNCHANGED dbVars
  PROVE  AnLayers' /\ (tipAn \in [Trees -> AnEntries \cup {NoEntry}])'
<1>1. UNCHANGED <<dbAn, dbChain>> /\ \A r \in Trees : DbHasAnchor(r)' <=> DbHasAnchor(r)
  BY DEF dbVars, DbHasAnchor
<1>2. SUFFICES ASSUME NEW r \in Trees
               PROVE  /\ tipAn'[r] \in AnEntries \cup {NoEntry}
                      /\ tipAn'[r] # NoEntry =>
                           tipAn'[r].tree = r /\ (~tipAn'[r].dirty => tipAn'[r].entered /\ DbHasAnchor(r))
                      /\ HasAnchor(TipAnEntry(r))' <=> r \in RootsOf(chain)'
  BY <1>1, <1>2 DEF AnLayers, RootsOf
<1>3. tipAn'[r] = AnWritten(tipAn[r], an[r])
  OBVIOUS
<1>4. CASE tipAn'[r] = tipAn[r] /\ (r \in RootsOf(chain)' <=> r \in RootsOf(chain))
  <2>1. HasAnchor(TipAnEntry(r))' <=> HasAnchor(TipAnEntry(r))
    BY <1>1, <1>4 DEF TipAnEntry, AnFetched, HasAnchor
  <2> QED BY <1>4, <2>1 DEF AnLayers, Types
<1>5. CASE ~(an[r] # NoEntry /\ an[r].dirty)
  <2>1. tipAn'[r] = tipAn[r]
    BY <1>3, <1>5 DEF AnWritten
  <2> QED BY <1>4, <1>5, <2>1
<1>6. CASE an[r] # NoEntry /\ an[r].dirty
  <2>1. an[r] \in AnEntries /\ an[r].entered \in BOOLEAN /\ an[r].tree = r
    BY <1>6 DEF AnEntries
  <2>2. CASE tipAn[r] # NoEntry /\ tipAn[r].entered = an[r].entered
    <3>1. tipAn'[r] = tipAn[r]
      BY <1>3, <1>6, <2>2 DEF AnWritten
    <3>2. TipAnEntry(r)' = tipAn[r]
      BY <2>2, <3>1 DEF TipAnEntry, AnFetched
    <3> QED BY <1>6, <2>1, <2>2, <3>1, <3>2 DEF AnLayers, Types, HasAnchor
  <2>3. CASE ~(tipAn[r] # NoEntry /\ tipAn[r].entered = an[r].entered)
    <3>1. CASE tipAn[r] = NoEntry
      <4>1. tipAn'[r] = [an[r] EXCEPT !.dirty = TRUE]
        BY <1>3, <1>6, <3>1 DEF AnWritten
      <4>2. /\ tipAn'[r] \in AnEntries
            /\ tipAn'[r].tree = r /\ tipAn'[r].dirty /\ tipAn'[r].entered = an[r].entered
        BY <2>1, <4>1 DEF AnEntries
      <4>3. tipAn'[r] # NoEntry
        BY <4>2 DEF ConstantsOK
      <4> QED BY <1>6, <2>1, <4>2, <4>3 DEF TipAnEntry, AnFetched, HasAnchor
    <3>2. CASE tipAn[r] # NoEntry
      <4>1. tipAn[r] \in AnEntries /\ tipAn[r].tree = r
        BY <3>2 DEF Types, AnLayers
      <4>2. tipAn'[r] = [tipAn[r] EXCEPT !.entered = an[r].entered, !.dirty = TRUE]
        BY <1>3, <1>6, <2>3, <3>2 DEF AnWritten
      <4>3. /\ tipAn'[r] \in AnEntries /\ tipAn'[r] # NoEntry
            /\ tipAn'[r].tree = r /\ tipAn'[r].dirty /\ tipAn'[r].entered = an[r].entered
        BY <2>1, <4>1, <4>2 DEF AnEntries, ConstantsOK
      <4> QED BY <1>6, <2>1, <4>3 DEF TipAnEntry, AnFetched, HasAnchor
    <3> QED BY <3>1, <3>2
  <2> QED BY <2>2, <2>3
<1> QED BY <1>5, <1>6
-----------------------------------------------------------------------------
(* What the view reads.                                                    *)

(* The last root of a chain is among its roots, and after all of them.     *)
LEMMA LastRoot ==
  ASSUME NEW c, IsChain(c)
  PROVE  /\ Last(c) \in Blocks /\ Last(c).root \in Trees /\ Last(c).root \in RootsOf(c)
         /\ EmptyRoot \in RootsOf(c) /\ RootsOf(c) \subseteq Trees
         /\ \A r \in RootsOf(c) : After(r, Last(c).root)
<1>1. /\ c \in Seq(Blocks) /\ Len(c) \in Nat /\ Len(c) >= 1 /\ Last(c) = c[Len(c)]
      /\ 1 \in 1..Len(c) /\ Len(c) \in 1..Len(c)
  BY DEF IsChain, Last
<1>2. ASSUME NEW i \in 1..Len(c) PROVE c[i] \in Blocks /\ c[i].root \in Trees
  <2>1. c[i] \in Blocks
    BY <1>1
  <2> QED BY <2>1 DEF Blocks
<1>3. \A r : r \in RootsOf(c) <=> \E i \in 1..Len(c) : c[i].root = r
  BY <1>1, RootMember
<1>4. c[1].root = EmptyRoot /\ \A i \in 1..Len(c) : After(c[i].root, c[Len(c)].root)
  BY <1>1 DEF IsChain, Grows
<1> QED BY <1>1, <1>2, <1>3, <1>4

(* An anchor that the view finds is a root of the chain.                   *)
LEMMA ViewAnchor ==
  ASSUME ConstantsOK, Types, AnLayers, ViewAn, NEW r \in Trees
  PROVE  ViewAnEntry(r) = IF r \in RootsOf(chain)
                            THEN [entered |-> TRUE, tree |-> r, dirty |-> FALSE] ELSE NoEntry
<1>1. CASE viewAn[r] = NoEntry
  BY <1>1 DEF ViewAnEntry, AnFetched, AnLayers
<1>2. CASE viewAn[r] # NoEntry
  <2>1. mode = "connect"
    BY <1>2 DEF Types, ViewAn, AnEmpty
  <2> QED BY <1>2, <2>1 DEF ViewAn, ViewAnEntry, AnFetched
<1> QED BY <1>1, <1>2

LEMMA FoundEntry ==
  ASSUME ConstantsOK, NEW r \in Trees
  PROVE  LET e == [entered |-> TRUE, tree |-> r, dirty |-> FALSE]
         IN  e \in AnEntries /\ e # NoEntry /\ HasAnchor(e)
<1>1. [entered |-> TRUE, tree |-> r, dirty |-> FALSE] \in AnEntries
  BY DEF AnEntries
<1> QED BY <1>1 DEF ConstantsOK, HasAnchor

LEMMA BestKnown ==
  ASSUME ConstantsOK, IInv
  PROVE  TipBest \in Trees /\ TipBest # Null /\ TipBest \in RootsOf(chain)
BY LastRoot DEF IInv, Bests, ConstantsOK

(* Through an empty cache one reads the database.                          *)
LEMMA EmptyReads ==
  ASSUME ConstantsOK
  PROVE  /\ tipNf = NfEmpty => \A n \in Nullifiers : TipNfEntry(n).entered <=> n \in dbNf
         /\ tipAn = AnEmpty => \A r \in Trees : HasAnchor(TipAnEntry(r)) <=> DbHasAnchor(r)
         /\ tipNf' = NfEmpty => \A n \in Nullifiers : TipNfEntry(n)'.entered <=> n \in dbNf'
         /\ tipAn' = AnEmpty => \A r \in Trees : HasAnchor(TipAnEntry(r))' <=> DbHasAnchor(r)'
<1>1. ASSUME NEW n \in Nullifiers, tipNf = NfEmpty PROVE TipNfEntry(n).entered <=> n \in dbNf
  <2>1. tipNf[n] = NoEntry
    BY <1>1 DEF NfEmpty
  <2>2. TipNfEntry(n).entered = (n \in dbNf)
    BY <2>1, SMT DEF TipNfEntry, NfFetched
  <2> QED BY <2>2
<1>2. ASSUME NEW r \in Trees, tipAn = AnEmpty PROVE HasAnchor(TipAnEntry(r)) <=> DbHasAnchor(r)
  <2>1. tipAn[r] = NoEntry
    BY <1>2 DEF AnEmpty
  <2> QED BY <2>1, FoundEntry DEF TipAnEntry, AnFetched, HasAnchor
<1>3. ASSUME NEW n \in Nullifiers, tipNf' = NfEmpty PROVE TipNfEntry(n)'.entered <=> n \in dbNf'
  <2>1. tipNf'[n] = NoEntry
    BY <1>3 DEF NfEmpty
  <2>2. TipNfEntry(n)'.entered = (n \in dbNf')
    BY <2>1, SMT DEF TipNfEntry, NfFetched
  <2> QED BY <2>2
<1>4. ASSUME NEW r \in Trees, tipAn' = AnEmpty PROVE HasAnchor(TipAnEntry(r))' <=> DbHasAnchor(r)'
  <2>1. tipAn'[r] = NoEntry
    BY <1>4 DEF AnEmpty
  <2> QED BY <2>1, FoundEntry DEF TipAnEntry, AnFetched, HasAnchor
<1> QED BY <1>1, <1>2, <1>3, <1>4

(* A closed view.                                                          *)
LEMMA ViewClosed ==
  ASSUME ConstantsOK, mode' = "idle", viewNf' = NfEmpty, viewAn' = AnEmpty, viewBest' = Null, block' = Genesis
  PROVE  /\ ViewNf' /\ ViewAn' /\ block' \in Blocks
         /\ (viewNf \in [Nullifiers -> NfEntries \cup {NoEntry}])'
         /\ (viewAn \in [Trees -> AnEntries \cup {NoEntry}])'
<1>1. EmptyRoot \in Trees
  BY EmptyTree
<1> QED BY <1>1 DEF ViewNf, ViewAn, NfEmpty, AnEmpty, Genesis, Blocks

-----------------------------------------------------------------------------
(* One lemma per action.                                                   *)

LEMMA ConnectBeginKeeps ==
  ASSUME ConstantsOK, IInv, ConnectBegin
  PROVE  IInv'
<1>1. /\ Types /\ NfLayers /\ AnLayers /\ Bests /\ ViewNf /\ ViewAn
      /\ IsChain(chain) /\ IsChain(dbChain)
  BY DEF IInv
<1>2. /\ mode = "idle" /\ mode' = "connect" /\ viewNf = NfEmpty /\ viewAn = AnEmpty
      /\ UNCHANGED <<chain, dbChain, dbNf, dbAn, dbBest, tipNf, viewNf>>
      /\ tipBest' = TipBest /\ viewBest' = TipBest
      /\ tipAn' = TipAnAsked({TipBest})
  BY <1>1 DEF ConnectBegin, ViewNf, ViewAn, dbVars
<1>3. TipBest \in Trees /\ TipBest # Null /\ TipBest \in RootsOf(chain)
  BY BestKnown
<1> DEFINE e == [entered |-> TRUE, tree |-> TipBest, dirty |-> FALSE]
<1>4. ViewAnEntry(TipBest) = e
  BY <1>1, <1>3, ViewAnchor
<1>5. e \in AnEntries /\ e # NoEntry /\ e.tree = TipBest
  BY <1>3, FoundEntry
<1>6. viewAn' = [viewAn EXCEPT ![TipBest] = e] /\ block' = [nfs |-> {}, root |-> TipBest]
  BY <1>4, <1>5 DEF ConnectBegin
<1> HIDE DEF e
<1>7. AnLayers' /\ (tipAn \in [Trees -> AnEntries \cup {NoEntry}])'
  BY <1>1, <1>2, AnAsked DEF dbVars
<1>8. (viewAn \in [Trees -> AnEntries \cup {NoEntry}])' /\ block' \in Blocks
  BY <1>3, <1>5, <1>6, <1>1 DEF Types, Blocks
<1>9. Types'
  BY <1>1, <1>2, <1>3, <1>7, <1>8 DEF Types
<1>10. NfLayers'
  BY <1>1, <1>2 DEF NfLayers, TipNfEntry, SpentBy
<1>11. TipBest' = TipBest /\ Bests'
  BY <1>1, <1>2, <1>3 DEF Bests, TipBest, DbBest, Last
<1>12. ViewNf'
  BY <1>2, <1>6 DEF ViewNf, NfEmpty, SpentBy
<1>13. ViewAn'
  <2>1. \A r \in Trees : viewAn'[r] # NoEntry => r = TipBest /\ viewAn'[r] = e
    BY <1>2, <1>3, <1>6 DEF AnEmpty
  <2>2. RootsOf(chain)' = RootsOf(chain) /\ Last(chain)' = Last(chain)
    BY <1>2 DEF RootsOf, Last
  <2>3. After(TipBest, TipBest) /\ TipBest = Last(chain).root
    BY <1>1, <1>3, TreeSeq DEF After, Bests
  <2> QED BY <1>2, <1>3, <1>6, <1>11, <2>1, <2>2, <2>3 DEF ViewAn, e
<1>14. IsChain(chain)' /\ IsChain(dbChain)'
  BY <1>1, <1>2 DEF IsChain, Disjoint, Grows
<1> QED BY <1>7, <1>9, <1>10, <1>11, <1>12, <1>13, <1>14 DEF IInv
LEMMA ConnectTxKeeps ==
  ASSUME ConstantsOK, IInv,
         NEW N \in SUBSET Nullifiers, NEW r \in Trees,
         NEW outs \in {<<>>} \cup {<<c>> : c \in Commitments}, ConnectTx(N, r, outs)
  PROVE  IInv'
<1>1. /\ Types /\ NfLayers /\ AnLayers /\ Bests /\ ViewNf /\ ViewAn
      /\ IsChain(chain) /\ IsChain(dbChain)
  BY DEF IInv
<1>2. /\ mode = "connect" /\ tipNf' = TipNfAsked(N) /\ tipAn' = TipAnAsked(Asked(N, r))
      /\ viewNf' = [n \in Nullifiers |-> IF n \in N THEN NfSet(ViewNfEntry(n), TRUE) ELSE viewNf[n]]
      /\ viewAn' = [t \in Trees |-> IF t \in Asked(N, r) THEN ViewAnEntry(t) ELSE viewAn[t]]
      /\ block' = [nfs |-> block.nfs \cup N, root |-> block.root \o outs]
      /\ UNCHANGED <<chain, dbVars>>
      /\ UNCHANGED <<dbChain, dbNf, dbAn, dbBest, tipBest, viewBest, mode>>
  BY DEF ConnectTx, dbVars
<1>3. NfLayers' /\ (tipNf \in [Nullifiers -> NfEntries \cup {NoEntry}])'
  BY <1>1, <1>2, NfAsked
<1>4. AnLayers' /\ (tipAn \in [Trees -> AnEntries \cup {NoEntry}])'
  BY <1>1, <1>2, AnAsked
<1>5. /\ block.root \in Seq(Commitments) /\ Len(block.root) \in Nat
      /\ block.nfs \subseteq Nullifiers
  BY <1>1, TreeSeq DEF Types, Blocks
<1>6. /\ outs \in Seq(Commitments)
      /\ block.root \o outs \in Seq(Commitments)
      /\ Len(block.root \o outs) = Len(block.root) + Len(outs)
      /\ Len(outs) = 0 \/ Len(outs) = 1
      /\ Len(outs) = 0 => block.root \o outs = block.root
  <2>1. CASE outs = <<>>
    BY <1>5, <2>1
  <2>2. CASE outs \in {<<c>> : c \in Commitments}
    <3>1. PICK c \in Commitments : outs = <<c>>
      BY <2>2
    <3> QED BY <1>5, <3>1
  <2> QED BY <2>1, <2>2
<1>7. block.root \o outs \in Trees
  BY <1>6, SeqTree DEF ConnectTx, HasRoom
<1>8. block' \in Blocks /\ block'.nfs = block.nfs \cup N /\ block'.root = block.root \o outs
  BY <1>2, <1>5, <1>7 DEF Blocks
<1>9. [entered |-> TRUE, dirty |-> TRUE] \in NfEntries
  BY DEF NfEntries
<1>10. (viewNf \in [Nullifiers -> NfEntries \cup {NoEntry}])'
  BY <1>1, <1>2, <1>9 DEF NfSet, Types
<1>11. ASSUME NEW t \in Trees
       PROVE  /\ viewAn'[t] \in AnEntries \cup {NoEntry}
              /\ viewAn'[t] # NoEntry =>
                   t \in RootsOf(chain) /\ viewAn'[t] = [entered |-> TRUE, tree |-> t, dirty |-> FALSE]
  <2>1. viewAn'[t] = ViewAnEntry(t) \/ viewAn'[t] = viewAn[t]
    BY <1>2
  <2>2. CASE viewAn'[t] = ViewAnEntry(t)
    BY <1>1, <2>2, ViewAnchor, FoundEntry
  <2>3. CASE viewAn'[t] = viewAn[t]
    BY <1>1, <1>2, <2>3 DEF ViewAn, Types
  <2> QED BY <2>1, <2>2, <2>3
<1>12. (viewAn \in [Trees -> AnEntries \cup {NoEntry}])'
  BY <1>2, <1>11
<1>13. Types'
  BY <1>1, <1>2, <1>3, <1>4, <1>8, <1>10, <1>12 DEF Types
<1>14. ASSUME NEW n \in N PROVE n \notin SpentBy(chain)
  <2>1. ~ViewNfEntry(n).entered
    BY DEF ConnectTx, RequirementsMet
  <2>2. n \notin block.nfs
    <3>1. SUFFICES ASSUME n \in block.nfs PROVE FALSE
      OBVIOUS
    <3>2. viewNf[n] = [entered |-> TRUE, dirty |-> TRUE]
      BY <1>1, <1>2, <3>1 DEF ViewNf
    <3>3. viewNf[n] # NoEntry
      BY <1>9, <3>2 DEF ConstantsOK
    <3>4. viewNf[n].entered
      BY <3>2
    <3> QED BY <2>1, <3>3, <3>4 DEF ViewNfEntry, NfFetched
  <2>3. ViewNfEntry(n) = [entered |-> TipNfEntry(n).entered, dirty |-> FALSE]
    BY <1>1, <1>2, <2>2 DEF ViewNf, ViewNfEntry, NfFetched
  <2>4. ~TipNfEntry(n).entered
    BY <2>1, <2>3
  <2> QED BY <1>1, <2>4 DEF NfLayers
<1>15. SpentBy(chain)' = SpentBy(chain) /\ RootsOf(chain)' = RootsOf(chain) /\ Last(chain)' = Last(chain)
  BY <1>2 DEF SpentBy, RootsOf, Last
<1>16. ViewNf'
  <2>1. ASSUME NEW n \in Nullifiers
        PROVE  viewNf'[n] = IF n \in block'.nfs THEN [entered |-> TRUE, dirty |-> TRUE] ELSE NoEntry
    BY <1>1, <1>2, <1>8 DEF ViewNf, NfSet
  <2>2. block'.nfs \cap SpentBy(chain)' = {}
    BY <1>1, <1>2, <1>8, <1>14, <1>15 DEF ViewNf
  <2> QED BY <1>2, <2>1, <2>2 DEF ViewNf
<1>17. TipBest' = TipBest /\ Bests'
  BY <1>1, <1>2 DEF Bests, TipBest, DbBest, Last
<1>18. After(Last(chain).root, block'.root)
  <2>1. Len(Last(chain).root) \in Nat /\ After(Last(chain).root, block.root)
    BY <1>1, <1>2, LastRoot, TreeSeq DEF ViewAn
  <2>2. CASE Len(outs) = 0
    BY <1>6, <1>8, <2>1, <2>2
  <2>3. CASE Len(outs) = 1
    <3>1. Len(Last(chain).root) < Len(block'.root)
      BY <1>5, <1>6, <1>8, <2>1, <2>3 DEF After
    <3> QED BY <1>5, <1>6, <1>8, <2>1, <3>1 DEF After
  <2> QED BY <1>6, <2>2, <2>3
<1>19. ViewAn'
  BY <1>1, <1>2, <1>11, <1>15, <1>17, <1>18 DEF ViewAn
<1>20. IsChain(chain)' /\ IsChain(dbChain)'
  BY <1>1, <1>2 DEF IsChain, Disjoint, Grows
<1> QED BY <1>3, <1>4, <1>13, <1>16, <1>17, <1>19, <1>20 DEF IInv

LEMMA ConnectFailsKeeps ==
  ASSUME ConstantsOK, IInv, NEW N \in SUBSET Nullifiers, NEW r \in Trees, ConnectFails(N, r)
  PROVE  IInv'
<1>1. /\ Types /\ NfLayers /\ AnLayers /\ Bests /\ IsChain(chain) /\ IsChain(dbChain)
  BY DEF IInv
<1>2. /\ tipNf' = TipNfAsked(N) /\ tipAn' \in {tipAn, TipAnAsked(Asked(N, r))}
      /\ UNCHANGED <<chain, dbVars>> /\ UNCHANGED <<dbChain, dbNf, dbAn, dbBest, tipBest>>
      /\ mode' = "idle" /\ viewBest' = Null
  BY DEF ConnectFails, dbVars
<1>3. NfLayers' /\ (tipNf \in [Nullifiers -> NfEntries \cup {NoEntry}])'
  BY <1>1, <1>2, NfAsked
<1>4. AnLayers' /\ (tipAn \in [Trees -> AnEntries \cup {NoEntry}])'
  BY <1>1, <1>2, AnAsked
<1>5. /\ ViewNf' /\ ViewAn' /\ block' \in Blocks
      /\ (viewNf \in [Nullifiers -> NfEntries \cup {NoEntry}])'
      /\ (viewAn \in [Trees -> AnEntries \cup {NoEntry}])'
  BY ViewClosed DEF ConnectFails
<1>6. Types'
  BY <1>1, <1>2, <1>3, <1>4, <1>5 DEF Types
<1>7. Bests'
  BY <1>1, <1>2 DEF Bests, TipBest, DbBest, Last
<1>8. IsChain(chain)' /\ IsChain(dbChain)'
  BY <1>1, <1>2 DEF IsChain, Disjoint, Grows
<1> QED BY <1>3, <1>4, <1>5, <1>6, <1>7, <1>8 DEF IInv

LEMMA TipAskKeeps ==
  ASSUME ConstantsOK, IInv, NEW n \in Nullifiers, NEW r \in Trees, TipAsk(n, r)
  PROVE  IInv'
<1>1. /\ Types /\ NfLayers /\ AnLayers /\ Bests /\ ViewNf /\ ViewAn
      /\ IsChain(chain) /\ IsChain(dbChain)
  BY DEF IInv
<1>2. /\ mode = "idle" /\ tipNf' = TipNfAsked({n}) /\ tipAn' \in {tipAn, TipAnAsked({r})}
      /\ UNCHANGED <<chain, dbVars>> /\ UNCHANGED <<dbChain, dbNf, dbAn, dbBest, tipBest>>
      /\ UNCHANGED <<viewNf, viewAn, viewBest, mode, block>>
  BY DEF TipAsk, dbVars, viewVars
<1>3. NfLayers' /\ (tipNf \in [Nullifiers -> NfEntries \cup {NoEntry}])'
  BY <1>1, <1>2, NfAsked
<1>4. AnLayers' /\ (tipAn \in [Trees -> AnEntries \cup {NoEntry}])'
  BY <1>1, <1>2, AnAsked
<1>5. Types'
  BY <1>1, <1>2, <1>3, <1>4 DEF Types
<1>6. Bests' /\ ViewNf' /\ ViewAn'
  BY <1>1, <1>2 DEF Bests, TipBest, DbBest, Last, ViewNf, ViewAn, NfEmpty, AnEmpty
<1>7. IsChain(chain)' /\ IsChain(dbChain)'
  BY <1>1, <1>2 DEF IsChain, Disjoint, Grows
<1> QED BY <1>3, <1>4, <1>5, <1>6, <1>7 DEF IInv
(* FlushView(nf, an, best), when what it writes is what the new chain says. *)
LEMMA FlushKeeps ==
  ASSUME ConstantsOK, IInv,
         NEW nf \in [Nullifiers -> NfEntries \cup {NoEntry}],
         NEW an \in [Trees -> AnEntries \cup {NoEntry}], NEW best \in Trees,
         FlushView(nf, an, best), UNCHANGED dbVars, IsChain(chain)', best = Last(chain)'.root,
         \A n \in Nullifiers : nf[n] # NoEntry => nf[n].dirty,
         \A n \in Nullifiers : n \in SpentBy(chain)' <=>
             IF nf[n] = NoEntry THEN n \in SpentBy(chain) ELSE nf[n].entered,
         \A r \in Trees : an[r] # NoEntry => an[r].tree = r,
         \A r \in Trees : r \in RootsOf(chain)' <=>
             IF an[r] # NoEntry /\ an[r].dirty THEN an[r].entered ELSE r \in RootsOf(chain)
  PROVE  IInv'
<1>1. /\ Types /\ NfLayers /\ AnLayers /\ Bests /\ IsChain(dbChain)
      /\ UNCHANGED <<dbChain, dbNf, dbAn, dbBest>>
  BY DEF IInv, dbVars
<1>2. /\ tipNf' = [n \in Nullifiers |-> NfWritten(tipNf[n], nf[n])]
      /\ tipAn' = [r \in Trees |-> AnWritten(tipAn[r], an[r])]
      /\ tipBest' = best /\ mode' = "idle" /\ viewBest' = Null
  BY DEF FlushView, BestWritten
<1>3. NfLayers' /\ (tipNf \in [Nullifiers -> NfEntries \cup {NoEntry}])'
  BY <1>1, <1>2, NfFlushed
<1>4. AnLayers' /\ (tipAn \in [Trees -> AnEntries \cup {NoEntry}])'
  BY <1>1, <1>2, AnFlushed
<1>5. /\ ViewNf' /\ ViewAn' /\ block' \in Blocks
      /\ (viewNf \in [Nullifiers -> NfEntries \cup {NoEntry}])'
      /\ (viewAn \in [Trees -> AnEntries \cup {NoEntry}])'
  BY ViewClosed DEF FlushView
<1>6. Types'
  BY <1>1, <1>2, <1>3, <1>4, <1>5 DEF Types
<1>7. Bests'
  <2>1. best # Null
    BY DEF ConstantsOK
  <2> QED BY <1>1, <1>2, <2>1 DEF Bests, TipBest, DbBest, Last
<1>8. IsChain(dbChain)'
  BY <1>1 DEF IsChain, Disjoint, Grows
<1> QED BY <1>3, <1>4, <1>5, <1>6, <1>7, <1>8 DEF IInv

LEMMA ConnectEndKeeps ==
  ASSUME ConstantsOK, IInv, ConnectEnd
  PROVE  IInv'
<1>1. /\ Types /\ NfLayers /\ AnLayers /\ Bests /\ ViewNf /\ ViewAn
      /\ IsChain(chain) /\ IsChain(dbChain)
  BY DEF IInv
<1> DEFINE r == block.root
           pushed == [entered |-> TRUE, tree |-> r, dirty |-> TRUE]
           an == IF ViewBest # r THEN [viewAn EXCEPT ![r] = pushed] ELSE viewAn
<1>2. /\ mode = "connect" /\ FlushView(viewNf, an, r)
      /\ chain' = Append(chain, block) /\ UNCHANGED dbVars
  BY DEF ConnectEnd
<1>3. /\ block \in Blocks /\ r \in Trees /\ Last(chain).root \in Trees
      /\ block.nfs \cap SpentBy(chain) = {} /\ After(Last(chain).root, block.root)
  BY <1>1, <1>2, LastRoot DEF Types, Blocks, ViewNf, ViewAn
<1>4. /\ IsChain(Append(chain, block)) /\ Last(Append(chain, block)) = block
      /\ SpentBy(Append(chain, block)) = SpentBy(chain) \cup block.nfs
      /\ RootsOf(Append(chain, block)) = RootsOf(chain) \cup {block.root}
  BY <1>1, <1>3, AppendChain
<1>5. /\ IsChain(chain)' /\ Last(chain)' = block
      /\ SpentBy(chain)' = SpentBy(chain) \cup block.nfs
      /\ RootsOf(chain)' = RootsOf(chain) \cup {r}
  <2>1. PICK c : c = Append(chain, block)
    OBVIOUS
  <2>2. /\ chain' = c /\ IsChain(c) /\ Last(c) = block
        /\ SpentBy(c) = SpentBy(chain) \cup block.nfs
        /\ RootsOf(c) = RootsOf(chain) \cup {r}
    BY <1>2, <1>4, <2>1, Zenon
  <2>3. IsChain(chain)'
    BY <2>2 DEF IsChain, Disjoint, Grows
  <2>4. Last(chain)' = Last(c)
    BY <2>2 DEF Last
  <2>5. SpentBy(chain)' = SpentBy(c)
    BY <2>2 DEF SpentBy
  <2>6. RootsOf(chain)' = RootsOf(c)
    BY <2>2 DEF RootsOf
  <2> QED BY <2>2, <2>3, <2>4, <2>5, <2>6, Zenon
<1>6. ViewBest = Last(chain).root
  BY <1>1, <1>2, <1>3 DEF ViewBest, ViewAn, Bests, ConstantsOK
<1>7. pushed \in AnEntries /\ pushed # NoEntry /\ pushed.tree = r /\ pushed.dirty /\ pushed.entered
  <2>1. pushed \in AnEntries
    BY <1>3 DEF AnEntries
  <2> QED BY <2>1 DEF ConstantsOK
<1> HIDE DEF pushed
<1>8. an \in [Trees -> AnEntries \cup {NoEntry}]
  BY <1>1, <1>3, <1>7 DEF Types
<1>9. \A t \in Trees : an[t] = IF ViewBest # r /\ t = r THEN pushed ELSE viewAn[t]
  BY <1>1, <1>3 DEF Types
<1> HIDE DEF an
<1>10. [entered |-> TRUE, dirty |-> TRUE] \in NfEntries
  BY DEF NfEntries
<1>11. \A n \in Nullifiers : viewNf[n] # NoEntry => viewNf[n].dirty
  BY <1>1, <1>2 DEF ViewNf
<1>12. ASSUME NEW n \in Nullifiers
       PROVE  n \in SpentBy(chain)' <=>
                IF viewNf[n] = NoEntry THEN n \in SpentBy(chain) ELSE viewNf[n].entered
  <2>1. CASE n \in block.nfs
    <3>1. viewNf[n] = [entered |-> TRUE, dirty |-> TRUE] /\ viewNf[n] # NoEntry
      BY <1>1, <1>2, <1>10, <2>1 DEF ViewNf, ConstantsOK
    <3> QED BY <1>5, <2>1, <3>1
  <2>2. CASE n \notin block.nfs
    BY <1>1, <1>2, <1>5, <2>2 DEF ViewNf
  <2> QED BY <2>1, <2>2
<1>13. ASSUME NEW t \in Trees, viewAn[t] # NoEntry
       PROVE  viewAn[t].tree = t /\ ~viewAn[t].dirty
  <2>1. viewAn[t] = [entered |-> TRUE, tree |-> t, dirty |-> FALSE]
    BY <1>1, <1>2, <1>13 DEF ViewAn
  <2> QED BY <2>1
<1>14. \A t \in Trees : an[t] # NoEntry => an[t].tree = t
  BY <1>7, <1>9, <1>13
<1>15. ASSUME NEW t \in Trees
       PROVE  t \in RootsOf(chain)' <=>
                IF an[t] # NoEntry /\ an[t].dirty THEN an[t].entered ELSE t \in RootsOf(chain)
  <2>1. CASE ViewBest # r /\ t = r
    BY <1>5, <1>7, <1>9, <2>1
  <2>2. CASE ~(ViewBest # r /\ t = r)
    <3>1. ~(an[t] # NoEntry /\ an[t].dirty)
      BY <1>9, <1>13, <2>2
    <3>2. t = r => t \in RootsOf(chain)
      BY <1>1, <1>6, <2>2, LastRoot
    <3> QED BY <1>5, <3>1, <3>2
  <2> QED BY <2>1, <2>2
<1>16. viewNf \in [Nullifiers -> NfEntries \cup {NoEntry}] /\ r = Last(chain)'.root
  BY <1>1, <1>5 DEF Types
<1> HIDE DEF r
<1> QED BY <1>2, <1>3, <1>5, <1>8, <1>11, <1>12, <1>14, <1>15, <1>16, FlushKeeps

LEMMA DisconnectTipKeeps ==
  ASSUME ConstantsOK, IInv, DisconnectTip
  PROVE  IInv'
<1>1. /\ Types /\ NfLayers /\ AnLayers /\ Bests /\ ViewNf /\ ViewAn
      /\ IsChain(chain) /\ IsChain(dbChain)
  BY DEF IInv
<1> DEFINE d == SubSeq(chain, 1, Len(chain) - 1)
           old == chain[Len(chain) - 1].root
           nf == [n \in Nullifiers |->
                   IF n \in Last(chain).nfs THEN NfSet(NoEntry, FALSE) ELSE NoEntry]
           e == ViewAnEntry(TipBest)
           popped == [AnEmpty EXCEPT ![TipBest] = AnPopped(e)]
<1>2. /\ mode = "idle" /\ Len(chain) > 1 /\ chain' = d /\ UNCHANGED dbVars
      /\ IF TipBest = old THEN FlushView(nf, AnEmpty, TipBest) ELSE FlushView(nf, popped, old)
  BY DEF DisconnectTip
<1>3. /\ IsChain(d) /\ Last(d) = chain[Len(chain) - 1] /\ Last(d) \in Blocks
      /\ SpentBy(d) = SpentBy(chain) \ Last(chain).nfs /\ Last(chain).nfs \subseteq SpentBy(chain)
      /\ Last(chain).root = Last(d).root => RootsOf(d) = RootsOf(chain)
      /\ Last(chain).root # Last(d).root => RootsOf(d) = RootsOf(chain) \ {Last(chain).root}
  BY <1>1, <1>2, FrontChain
<1>4. IsChain(chain)' /\ Last(chain)' = Last(d) /\ SpentBy(chain)' = SpentBy(d) /\ RootsOf(chain)' = RootsOf(d)
  BY <1>2, <1>3 DEF IsChain, Disjoint, Grows, Last, SpentBy, RootsOf
<1> HIDE DEF d
<1>5. /\ TipBest \in Trees /\ TipBest \in RootsOf(chain) /\ TipBest = Last(chain).root
      /\ old \in Trees /\ old = Last(chain)'.root
  BY <1>1, <1>3, <1>4, BestKnown DEF Bests, Blocks
<1>6. [entered |-> FALSE, dirty |-> TRUE] \in NfEntries
  BY DEF NfEntries
<1>7. /\ nf \in [Nullifiers -> NfEntries \cup {NoEntry}]
      /\ \A n \in Nullifiers :
           nf[n] = IF n \in Last(chain).nfs THEN [entered |-> FALSE, dirty |-> TRUE] ELSE NoEntry
  BY <1>6 DEF NfSet
<1> HIDE DEF nf, old
<1>8. \A n \in Nullifiers : nf[n] # NoEntry => nf[n].dirty
  BY <1>7
<1>9. ASSUME NEW n \in Nullifiers
      PROVE  n \in SpentBy(chain)' <=> IF nf[n] = NoEntry THEN n \in SpentBy(chain) ELSE nf[n].entered
  <2>1. CASE n \in Last(chain).nfs
    <3>1. nf[n] # NoEntry /\ ~nf[n].entered
      <4>1. nf[n] = [entered |-> FALSE, dirty |-> TRUE]
        BY <1>7, <2>1
      <4>2. nf[n] # NoEntry
        BY <1>6, <4>1 DEF ConstantsOK
      <4>3. ~nf[n].entered
        BY <4>1
      <4> QED BY <4>2, <4>3
    <3> QED BY <1>3, <1>4, <2>1, <3>1
  <2>2. CASE n \notin Last(chain).nfs
    BY <1>3, <1>4, <1>7, <2>2
  <2> QED BY <2>1, <2>2
<1>10. CASE TipBest = old
  <2>1. RootsOf(chain)' = RootsOf(chain)
    BY <1>3, <1>4, <1>5, <1>10
  <2>2. AnEmpty \in [Trees -> AnEntries \cup {NoEntry}] /\ \A r \in Trees : AnEmpty[r] = NoEntry
    BY DEF AnEmpty
  <2>3. FlushView(nf, AnEmpty, old)
    BY <1>2, <1>10
  <2> QED BY <1>2, <1>4, <1>5, <1>7, <1>8, <1>9, <2>1, <2>2, <2>3, FlushKeeps
<1>11. CASE TipBest # old
  <2>1. RootsOf(chain)' = RootsOf(chain) \ {TipBest}
    BY <1>3, <1>4, <1>5, <1>11
  <2>2. e = [entered |-> TRUE, tree |-> TipBest, dirty |-> FALSE]
    BY <1>1, <1>5, ViewAnchor
  <2> DEFINE gone == AnPopped(e)
  <2>3. e \in AnEntries /\ e.tree = TipBest
    BY <1>5, <2>2, FoundEntry
  <2> HIDE DEF e
  <2>4. gone \in AnEntries /\ gone.tree = TipBest /\ gone.dirty /\ ~gone.entered
    BY <2>3 DEF AnPopped, AnEntries
  <2>5. gone # NoEntry
    BY <2>4 DEF ConstantsOK
  <2> HIDE DEF gone
  <2>6. /\ popped \in [Trees -> AnEntries \cup {NoEntry}]
        /\ \A r \in Trees : popped[r] = IF r = TipBest THEN gone ELSE NoEntry
    <3>1. AnEmpty \in [Trees -> AnEntries \cup {NoEntry}] /\ \A r \in Trees : AnEmpty[r] = NoEntry
      BY DEF AnEmpty
    <3>2. popped = [AnEmpty EXCEPT ![TipBest] = gone]
      BY DEF gone
    <3> HIDE DEF popped
    <3> QED BY <1>5, <2>4, <3>1, <3>2
  <2>7. FlushView(nf, popped, old)
    BY <1>2, <1>11
  <2> HIDE DEF popped
  <2>8. \A r \in Trees : popped[r] # NoEntry => popped[r].tree = r
    BY <2>4, <2>6
  <2>9. \A r \in Trees : r \in RootsOf(chain)' <=>
           IF popped[r] # NoEntry /\ popped[r].dirty THEN popped[r].entered ELSE r \in RootsOf(chain)
    BY <2>1, <2>4, <2>5, <2>6
  <2> QED BY <1>2, <1>4, <1>5, <1>7, <1>8, <1>9, <2>6, <2>7, <2>8, <2>9, FlushKeeps
<1> QED BY <1>10, <1>11
LEMMA TipFlushKeeps ==
  ASSUME ConstantsOK, IInv, TipFlush
  PROVE  IInv'
<1>1. /\ Types /\ NfLayers /\ AnLayers /\ Bests /\ ViewNf /\ ViewAn
      /\ IsChain(chain) /\ IsChain(dbChain)
  BY DEF IInv
<1>2. /\ mode = "idle" /\ dbChain' = chain
      /\ dbBest' = IF tipBest # Null THEN tipBest ELSE dbBest
      /\ tipNf' = NfEmpty /\ tipAn' = AnEmpty
      /\ UNCHANGED <<chain, tipBest, viewNf, viewAn, viewBest, mode, block>>
  BY DEF TipFlush, viewVars
<1>3. dbNf' = {n \in Nullifiers : IF tipNf[n] # NoEntry /\ tipNf[n].dirty
                                    THEN tipNf[n].entered ELSE n \in dbNf}
  BY DEF TipFlush
<1>4. dbAn' = {r \in Trees : IF tipAn[r] # NoEntry /\ tipAn[r].dirty
                               THEN tipAn[r].entered /\ r # EmptyRoot ELSE r \in dbAn}
  BY DEF TipFlush
<1>5. ASSUME NEW n \in Nullifiers
      PROVE  (n \in dbNf' <=> n \in SpentBy(chain)) /\ (TipNfEntry(n)'.entered <=> n \in dbNf')
  <2>1. CASE tipNf[n] = NoEntry
    <3>1. n \in dbNf' <=> n \in dbNf
      BY <1>3, <2>1
    <3>2. TipNfEntry(n).entered = (n \in dbNf)
      BY <2>1, SMT DEF TipNfEntry, NfFetched
    <3> QED BY <1>1, <3>1, <3>2, EmptyReads, <1>2 DEF NfLayers
  <2>2. CASE tipNf[n] # NoEntry
    <3>1. TipNfEntry(n) = tipNf[n]
      BY <2>2 DEF TipNfEntry, NfFetched
    <3>2. n \in dbNf' <=> tipNf[n].entered
      BY <1>1, <1>3, <2>2 DEF NfLayers
    <3> QED BY <1>1, <3>1, <3>2, EmptyReads, <1>2 DEF NfLayers
  <2> QED BY <2>1, <2>2
<1>6. ASSUME NEW r \in Trees
      PROVE  DbHasAnchor(r)' <=> r \in RootsOf(chain)
  <2>1. r = EmptyRoot => r \in RootsOf(chain)
    BY <1>1, LastRoot
  <2>2. CASE tipAn[r] = NoEntry
    <3>1. DbHasAnchor(r)' <=> DbHasAnchor(r)
      BY <1>4, <2>2 DEF DbHasAnchor
    <3>2. HasAnchor(TipAnEntry(r)) <=> DbHasAnchor(r)
      BY <2>2, FoundEntry DEF TipAnEntry, AnFetched, HasAnchor
    <3> QED BY <1>1, <3>1, <3>2 DEF AnLayers
  <2>3. CASE tipAn[r] # NoEntry
    <3>1. HasAnchor(TipAnEntry(r)) <=> tipAn[r].entered
      BY <2>3 DEF TipAnEntry, AnFetched, HasAnchor
    <3>2. CASE tipAn[r].dirty
      BY <1>1, <1>4, <2>1, <2>3, <3>1, <3>2 DEF DbHasAnchor, AnLayers
    <3>3. CASE ~tipAn[r].dirty
      BY <1>1, <1>4, <2>1, <2>3, <3>1, <3>3 DEF DbHasAnchor, AnLayers
    <3> QED BY <3>2, <3>3
  <2> QED BY <2>2, <2>3
<1>7. UNCHANGED <<SpentBy(chain), RootsOf(chain), Last(chain)>>
      /\ SpentBy(dbChain)' = SpentBy(chain) /\ RootsOf(dbChain)' = RootsOf(chain)
      /\ Last(dbChain)' = Last(chain)
  BY <1>2 DEF SpentBy, RootsOf, Last
<1>8. NfLayers'
  BY <1>2, <1>5, <1>7 DEF NfLayers, NfEmpty
<1>9. AnLayers'
  BY <1>2, <1>6, <1>7, EmptyReads DEF AnLayers, AnEmpty
<1>10. Types'
  BY <1>1, <1>2, <1>3, <1>4 DEF Types, NfEmpty, AnEmpty
<1>11. Bests'
  <2>1. CASE tipBest = Null
    BY <1>1, <1>2, <1>7, <2>1 DEF Bests, TipBest, DbBest
  <2>2. CASE tipBest # Null
    BY <1>1, <1>2, <1>7, <2>2 DEF Bests, TipBest, DbBest
  <2> QED BY <2>1, <2>2
<1>12. ViewNf' /\ ViewAn'
  BY <1>1, <1>2 DEF ViewNf, ViewAn, NfEmpty, AnEmpty
<1>13. IsChain(chain)' /\ IsChain(dbChain)'
  BY <1>1, <1>2 DEF IsChain, Disjoint, Grows
<1> QED BY <1>8, <1>9, <1>10, <1>11, <1>12, <1>13 DEF IInv

LEMMA CrashKeeps ==
  ASSUME ConstantsOK, IInv, Crash
  PROVE  IInv'
<1>1. /\ Types /\ NfLayers /\ AnLayers /\ Bests /\ IsChain(dbChain)
  BY DEF IInv
<1>2. /\ chain' = dbChain /\ tipNf' = NfEmpty /\ tipAn' = AnEmpty /\ tipBest' = Null
      /\ mode' = "idle" /\ viewBest' = Null
      /\ UNCHANGED <<dbChain, dbNf, dbAn, dbBest>>
  BY DEF Crash, dbVars
<1>3. /\ ViewNf' /\ ViewAn' /\ block' \in Blocks
      /\ (viewNf \in [Nullifiers -> NfEntries \cup {NoEntry}])'
      /\ (viewAn \in [Trees -> AnEntries \cup {NoEntry}])'
  BY ViewClosed DEF Crash
<1>4. /\ SpentBy(chain)' = SpentBy(dbChain) /\ RootsOf(chain)' = RootsOf(dbChain)
      /\ UNCHANGED <<SpentBy(dbChain), RootsOf(dbChain), Last(dbChain)>>
      /\ Last(chain)' = Last(dbChain)
  BY <1>2 DEF SpentBy, RootsOf, Last
<1>5. NfLayers'
  BY <1>1, <1>2, <1>4, EmptyReads DEF NfLayers, NfEmpty
<1>6. AnLayers'
  BY <1>1, <1>2, <1>4, EmptyReads DEF AnLayers, AnEmpty, DbHasAnchor
<1>7. Types'
  BY <1>1, <1>2, <1>3 DEF Types, NfEmpty, AnEmpty
<1>8. Bests'
  BY <1>1, <1>2, <1>4 DEF Bests, TipBest, DbBest
<1>9. IsChain(chain)' /\ IsChain(dbChain)'
  BY <1>1, <1>2 DEF IsChain, Disjoint, Grows
<1> QED BY <1>3, <1>5, <1>6, <1>7, <1>8, <1>9 DEF IInv

-----------------------------------------------------------------------------
(* The theorems.                                                           *)

LEMMA InitHolds ==
  ASSUME ConstantsOK, Init
  PROVE  IInv
<1>1. Genesis \in Blocks /\ Genesis.nfs = {} /\ Genesis.root = EmptyRoot
  BY EmptyTree DEF Genesis, Blocks
<1>2. /\ chain = <<Genesis>> /\ dbChain = <<Genesis>> /\ dbNf = {} /\ dbAn = {} /\ dbBest = Null
      /\ tipNf = NfEmpty /\ tipAn = AnEmpty /\ tipBest = Null
      /\ viewNf = NfEmpty /\ viewAn = AnEmpty /\ viewBest = Null
      /\ mode = "idle" /\ block = Genesis
  BY DEF Init
<1>3. /\ chain \in Seq(Blocks) /\ Len(chain) = 1 /\ chain[1] = Genesis /\ DOMAIN chain = 1..1
  BY <1>1, <1>2
<1>4. SpentBy(chain) = {} /\ RootsOf(chain) = {EmptyRoot} /\ Last(chain).root = EmptyRoot
  BY <1>1, <1>3 DEF SpentBy, RootsOf, Last
<1>5. IsChain(chain)
  <2>1. Len(EmptyRoot) = 0
    BY DEF EmptyRoot
  <2>2. Disjoint(chain) /\ Grows(chain)
    BY <1>1, <1>3, <2>1 DEF Disjoint, Grows, After
  <2> QED BY <1>3, <2>2 DEF IsChain
<1>6. Types
  BY <1>1, <1>2 DEF Types, NfEmpty, AnEmpty
<1>7. NfLayers
  BY <1>2, <1>4, EmptyReads DEF NfLayers, NfEmpty
<1>8. AnLayers
  BY <1>2, <1>4, EmptyReads DEF AnLayers, AnEmpty, DbHasAnchor
<1>9. Bests
  BY <1>2, <1>4 DEF Bests, TipBest, DbBest
<1>10. ViewNf /\ ViewAn
  BY <1>2 DEF ViewNf, ViewAn
<1> QED BY <1>2, <1>5, <1>6, <1>7, <1>8, <1>9, <1>10 DEF IInv

LEMMA NextKeeps ==
  ASSUME ConstantsOK, IInv, [Next]_vars
  PROVE  IInv'
<1>1. CASE UNCHANGED vars
  <2>1. UNCHANGED <<chain, dbChain, dbNf, dbAn, dbBest, tipNf, tipAn, tipBest,
                    viewNf, viewAn, viewBest, mode, block>>
    BY <1>1 DEF vars, dbVars, tipVars, viewVars
  <2>2. Types' /\ IsChain(chain)' /\ IsChain(dbChain)'
    BY <2>1 DEF IInv, Types, IsChain, Disjoint, Grows
  <2>3. UNCHANGED <<SpentBy(chain), SpentBy(dbChain), RootsOf(chain), RootsOf(dbChain),
                    Last(chain), Last(dbChain), TipBest, DbBest>>
    BY <2>1 DEF SpentBy, RootsOf, Last, TipBest, DbBest
  <2>4. \A n \in Nullifiers : TipNfEntry(n)' = TipNfEntry(n)
    BY <2>1 DEF TipNfEntry
  <2>5. NfLayers'
    BY <2>1, <2>3, <2>4 DEF IInv, NfLayers
  <2>6. \A r \in Trees : (DbHasAnchor(r)' <=> DbHasAnchor(r)) /\ TipAnEntry(r)' = TipAnEntry(r)
    BY <2>1 DEF TipAnEntry, DbHasAnchor
  <2>7. AnLayers'
    BY <2>1, <2>3, <2>6 DEF IInv, AnLayers
  <2>8. Bests' /\ ViewNf'
    BY <2>1, <2>3 DEF IInv, Bests, ViewNf
  <2>9. ViewAn'
    BY <2>1, <2>3 DEF IInv, ViewAn
  <2> QED BY <2>2, <2>5, <2>7, <2>8, <2>9 DEF IInv
<1> QED BY <1>1, ConnectBeginKeeps, ConnectTxKeeps, ConnectFailsKeeps, ConnectEndKeeps,
           DisconnectTipKeeps, TipAskKeeps, TipFlushKeeps, CrashKeeps DEF Next

LEMMA Invariant ==
  ASSUME ConstantsOK
  PROVE  Spec => []IInv
<1>1. Init => IInv
  BY InitHolds
<1>2. IInv /\ [Next]_vars => IInv'
  BY NextKeeps
<1> QED BY <1>1, <1>2, PTL DEF Spec

(* The maps of the caches and the database keep their types.               *)
THEOREM TypeCorrect ==
  ASSUME ConstantsOK
  PROVE  Spec => []TypeOK
<1>1. IInv => TypeOK
  BY DEF IInv, Types, IsChain, TypeOK
<1> QED BY <1>1, Invariant, PTL

(* For any nullifiers, commitments and bounds, through pcoinsTip exactly   *)
(* the nullifiers of the active chain are spent, and none by two blocks.   *)
THEOREM NullifiersExact ==
  ASSUME ConstantsOK
  PROVE  Spec => []NoDoubleSpend
<1>1. IInv => NoDoubleSpend
  <2> HAVE IInv
  <2>1. DOMAIN chain = 1..Len(chain)
    BY DEF IInv, IsChain
  <2> QED BY <2>1 DEF IInv, NfLayers, IsChain, Disjoint, NoDoubleSpend
<1> QED BY <1>1, Invariant, PTL

(* The anchors pcoinsTip accepts are the roots after the blocks of the     *)
(* active chain; the best one is that of the tip, and its tree is known.   *)
THEOREM AnchorsExact ==
  ASSUME ConstantsOK
  PROVE  Spec => []AnchorsMatchChain
<1>1. IInv => AnchorsMatchChain
  <2> HAVE IInv
  <2>1. TipBest \in Trees /\ TipBest \in RootsOf(chain)
    BY BestKnown
  <2>2. HasAnchor(TipAnEntry(TipBest))
    BY <2>1 DEF IInv, AnLayers
  <2>3. TipAnEntry(TipBest).tree = TipBest
    BY <2>1, <2>2 DEF IInv, AnLayers, TipAnEntry, AnFetched, HasAnchor
  <2> QED BY <2>3 DEF IInv, AnLayers, Bests, AnchorsMatchChain
<1> QED BY <1>1, Invariant, PTL
=============================================================================
