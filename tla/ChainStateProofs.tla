-------------------------- MODULE ChainStateProofs --------------------------
(***************************************************************************)
(* Proofs about ChainState, for every finite tree of blocks.               *)
(*                                                                         *)
(* The assertions of CheckBlockIndex hold whenever cs_main is free, but    *)
(* they are not inductive: a round of ActivateBestChain moves the tip down *)
(* and up again while it holds cs_main, and the set of candidates is       *)
(* complete with respect to the tip the round STARTED from, not to the one *)
(* it is passing through.  The invariant therefore speaks of startingTip:  *)
(* it stays valid and stays a candidate, the search goes on while the tip  *)
(* is worse, and the target is never worse than it.  That is also why no   *)
(* round can lose.  Chains are least closed sets, so that facts about them *)
(* follow by choosing a set closed under pprev.                            *)
(***************************************************************************)
EXTENDS ChainState, FiniteSetTheorems, TLAPS

\* A round of ActivateBestChain is under way and holds cs_main.
InRound == pc \in {"find", "disconnect", "connect"}

\* The types, and where a block that is marked as invalid itself can come from.
Types ==
    /\ TypeOK
    /\ Genesis \in linked
    /\ failedValid \subseteq Bad \cup Rejected \cup Operated

\* nChainTx is known for the blocks with data whose parent it is known for, and the
\* other blocks with data wait in mapBlocksUnlinked.
Links ==
    /\ \A b \in linked \ {Genesis} : Parent[b] \in linked
    /\ \A b \in haveData \ {Genesis} : Parent[b] \in linked => b \in linked
    /\ mapBlocksUnlinked = haveData \ linked
    /\ \A b \in Blocks \ linked : nSequenceId[b] = 0

\* Every failed mark has a reason.
Marks == \A b \in Failed : HasInvalid(b)

\* setBlockIndexCandidates: no candidate is worse than the tip, and every unmarked
\* linked block that is neither worse than the tip nor, in a round, worse than the
\* tip the round started from is a candidate.
Candidates ==
    /\ \A c \in setBlockIndexCandidates : ~Worse(c, tip)
    /\ \A c \in linked \ Failed :
          ~Worse(c, tip) /\ (InRound => ~Worse(c, startingTip)) => c \in setBlockIndexCandidates

\* The blocks of the active chain, and of the one the round started from, are valid.
Sound ==
    /\ Chain[tip] \cap (Failed \cup Bad) = {}
    /\ InRound => /\ startingTip \in linked
                  /\ Chain[startingTip] \cap (Failed \cup Bad) = {}

\* Where a round stands.
Progress ==
    /\ pc \in {"find", "disconnect"} => ~Worse(startingTip, tip)
    /\ pc \in {"disconnect", "connect"} => pindexMostWork # None
    /\ pc = "connect" => tip \in Chain[pindexMostWork]

\* The target of the activation.
Target ==
    pc # "idle" /\ pindexMostWork # None =>
        /\ Chain[pindexMostWork] \cap Failed = {}
        /\ ~Worse(pindexMostWork, IF InRound THEN startingTip ELSE tip)
        /\ InRound => pindexMostWork # tip

IInv == Types /\ Links /\ Marks /\ Candidates /\ Sound /\ Progress /\ Target

-----------------------------------------------------------------------------
(* Chains                                                                  *)

\* A chain is a set of blocks and holds the block it ends in.
LEMMA ChainSelf ==
    ASSUME NEW b \in Blocks
    PROVE  Chain[b] \subseteq Blocks /\ b \in Chain[b]
BY DEF Chain

\* A chain is contained in every set that holds its last block and is closed under pprev.
LEMMA ChainLeast ==
    ASSUME NEW b \in Blocks, NEW S \in SUBSET Blocks, b \in S, HasParents(S)
    PROVE  Chain[b] \subseteq S
BY DEF Chain

\* A chain is closed under pprev.
LEMMA ChainParents ==
    ASSUME NEW b \in Blocks, NEW c \in Chain[b], c # Genesis
    PROVE  Parent[c] \in Chain[b]
<1>1. c \in Blocks /\ Parent[c] \in Blocks
  BY ChainSelf, TreeAssumption
<1>2. ASSUME NEW S \in SUBSET Blocks, b \in S, HasParents(S)
      PROVE  Parent[c] \in S
  BY <1>2, ChainLeast DEF HasParents
<1>. QED BY <1>1, <1>2 DEF Chain

\* The chain of an ancestor is part of the chain.
LEMMA ChainTrans ==
    ASSUME NEW b \in Blocks, NEW a \in Chain[b]
    PROVE  a \in Blocks /\ Chain[a] \subseteq Chain[b]
<1>1. Chain[b] \in SUBSET Blocks /\ a \in Blocks
  BY ChainSelf
<1>2. HasParents(Chain[b])
  BY ChainParents DEF HasParents
<1>. QED BY <1>1, <1>2, ChainLeast

\* The chain of the genesis block, and that of a block and of its parent.
LEMMA ChainStep ==
    /\ Chain[Genesis] = {Genesis}
    /\ \A b \in Blocks \ {Genesis} : Parent[b] \in Blocks /\ Chain[b] = {b} \cup Chain[Parent[b]]
<1>1. Chain[Genesis] = {Genesis}
  <2>1. HasParents({Genesis}) BY DEF HasParents
  <2>. QED BY <2>1, ChainLeast, ChainSelf, TreeAssumption
<1>2. ASSUME NEW b \in Blocks \ {Genesis}
      PROVE  Parent[b] \in Blocks /\ Chain[b] = {b} \cup Chain[Parent[b]]
  <2>1. Parent[b] \in Blocks
    BY TreeAssumption
  <2>2. {b} \cup Chain[Parent[b]] \subseteq Chain[b]
    BY <2>1, ChainSelf, ChainParents, ChainTrans
  <2>3. {b} \cup Chain[Parent[b]] \in SUBSET Blocks
    BY <2>1, ChainSelf
  <2>4. HasParents({b} \cup Chain[Parent[b]])
    BY <2>1, ChainSelf, ChainParents DEF HasParents
  <2>5. Chain[b] \subseteq {b} \cup Chain[Parent[b]]
    BY <2>3, <2>4, ChainLeast
  <2>. QED BY <2>1, <2>2, <2>5
<1>. QED BY <1>1, <1>2

\* An ancestor has less work.
LEMMA ChainWork ==
    ASSUME NEW b \in Blocks, NEW a \in Chain[b], a # b
    PROVE  Work[a] < Work[b]
<1>. DEFINE S == {c \in Blocks : c = b \/ Work[c] < Work[b]}
<1>1. HasParents(S)
  <2>. SUFFICES ASSUME NEW c \in S, c # Genesis
               PROVE  Parent[c] \in S
    BY DEF HasParents
  <2>1. Parent[c] \in Blocks /\ Work[Parent[c]] < Work[c]
        /\ Work[c] \in Nat /\ Work[b] \in Nat /\ Work[Parent[c]] \in Nat
    BY TreeAssumption
  <2>. QED BY <2>1
<1>2. Chain[b] \subseteq S
  BY <1>1, ChainLeast
<1>. QED BY <1>2

\* Two blocks do not descend from each other, and no block is in its parent's chain.
LEMMA ChainAcyclic ==
    /\ \A a, b \in Blocks : a \in Chain[b] /\ b \in Chain[a] => a = b
    /\ \A b \in Blocks \ {Genesis} : b \notin Chain[Parent[b]]
<1>1. ASSUME NEW a \in Blocks, NEW b \in Blocks, a \in Chain[b], b \in Chain[a], a # b
      PROVE  FALSE
  <2>1. Work[a] < Work[b] /\ Work[b] < Work[a]
    BY <1>1, ChainWork
  <2>2. Work[a] \in Nat /\ Work[b] \in Nat
    BY TreeAssumption
  <2>. QED BY <2>1, <2>2
<1>2. ASSUME NEW b \in Blocks \ {Genesis}, b \in Chain[Parent[b]]
      PROVE  FALSE
  <2>1. Parent[b] \in Blocks /\ Parent[b] \in Chain[b]
    BY ChainSelf, ChainStep
  <2>2. Parent[b] = b
    BY <2>1, <1>1, <1>2
  <2>3. Work[b] > Work[Parent[b]] /\ Work[b] \in Nat
    BY TreeAssumption
  <2>. QED BY <2>2, <2>3
<1>. QED BY <1>1, <1>2

\* The blocks of a chain are in line.
LEMMA ChainLinear ==
    ASSUME NEW b \in Blocks, NEW a \in Chain[b], NEW c \in Chain[b]
    PROVE  a \in Chain[c] \/ c \in Chain[a]
<1>. DEFINE S == {d \in Blocks : d \in Chain[a] \/ a \in Chain[d]}
<1>1. a \in Blocks /\ c \in Blocks
  BY ChainSelf
<1>2. HasParents(S)
  <2>. SUFFICES ASSUME NEW d \in S, d # Genesis
               PROVE  Parent[d] \in S
    BY DEF HasParents
  <2>1. Parent[d] \in Blocks /\ Chain[d] = {d} \cup Chain[Parent[d]]
    BY ChainStep
  <2>2. CASE d \in Chain[a]
    BY <2>1, <2>2, <1>1, ChainParents
  <2>3. CASE d # a /\ a \in Chain[d]
    BY <2>1, <2>3
  <2>. QED BY <2>2, <2>3, <1>1, ChainSelf
<1>3. Chain[b] \subseteq S
  BY <1>2, ChainLeast
<1>. QED BY <1>3

\* A family of subsets of a finite set has a minimal member.
LEMMA MinimalSet ==
    ASSUME NEW S, IsFiniteSet(S), NEW F, F \subseteq SUBSET S, F # {}
    PROVE  \E x \in F : \A y \in F : ~(y \subseteq x /\ y # x)
<1>1. IsWellFoundedOn(StrictSubsetOrdering(S), SUBSET S)
  BY FS_StrictSubsetOrderingWellFounded, FS_FiniteSubsetsOfFinite
<1>2. PICK x \in F : \A y \in F : ~(<<y, x>> \in StrictSubsetOrdering(S))
  BY <1>1, WFMin
<1>3. ASSUME NEW y \in F, y \subseteq x, y # x
      PROVE  FALSE
  <2>1. <<y, x>> \in (SUBSET S) \X (SUBSET S)
    OBVIOUS
  <2>2. <<y, x>> \in StrictSubsetOrdering(S)
    BY <2>1, <1>3 DEF StrictSubsetOrdering
  <2>. QED BY <2>2, <1>2
<1>. QED BY <1>3

\* Every block descends from the genesis block.
LEMMA ChainRoot ==
    ASSUME NEW b \in Blocks
    PROVE  Genesis \in Chain[b]
<1>. DEFINE F == {Chain[c] : c \in Chain[b]}
<1>1. F \subseteq SUBSET Blocks /\ F # {}
  BY ChainSelf
<1>2. PICK x \in F : \A y \in F : ~(y \subseteq x /\ y # x)
  <2>. HIDE DEF F
  <2>1. IsFiniteSet(Blocks) BY TreeAssumption
  <2>. QED BY <1>1, <2>1, MinimalSet
<1>3. PICK c \in Chain[b] : x = Chain[c]
  BY <1>2
<1>4. c \in Blocks
  BY ChainSelf
<1>5. CASE c # Genesis
  <2>1. Parent[c] \in Blocks /\ Parent[c] \in Chain[b] /\ Chain[Parent[c]] \subseteq Chain[c]
    BY <1>4, <1>5, ChainStep, ChainParents
  <2>3. c \notin Chain[Parent[c]]
    BY <1>4, <1>5, ChainAcyclic
  <2>4. Chain[Parent[c]] # Chain[c]
    BY <2>3, <1>4, ChainSelf
  <2>. QED BY <2>1, <2>4, <1>2, <1>3
<1>. QED BY <1>3, <1>5

\* A set of blocks of a chain has a highest one.
LEMMA ChainHighest ==
    ASSUME NEW b \in Blocks, NEW F, F \subseteq Chain[b], F # {}
    PROVE  \E f \in F : F \subseteq Chain[f]
<1>. SUFFICES ASSUME \A f \in F : ~(F \subseteq Chain[f])
             PROVE  FALSE
  OBVIOUS
<1>. DEFINE S == {c \in Blocks : F \subseteq Chain[c]}
<1>1. HasParents(S)
  <2>. SUFFICES ASSUME NEW c \in S, c # Genesis
               PROVE  Parent[c] \in S
    BY DEF HasParents
  <2>1. Parent[c] \in Blocks /\ Chain[c] = {c} \cup Chain[Parent[c]]
    BY ChainStep
  <2>. QED BY <2>1
<1>2. Chain[b] \subseteq S
  BY <1>1, ChainLeast
<1>. QED BY <1>2

\* Between an ancestor and a block there is a child of the ancestor.
LEMMA ChainNext ==
    ASSUME NEW b \in Blocks, NEW a \in Chain[b], a # b
    PROVE  \E c \in Chain[b] : c # Genesis /\ Parent[c] = a
<1>. SUFFICES ASSUME \A c \in Chain[b] : c # Genesis => Parent[c] # a
             PROVE  FALSE
  OBVIOUS
<1>. DEFINE S == {c \in Chain[b] : c # a}
<1>1. HasParents(S)
  BY ChainParents DEF HasParents
<1>2. Chain[b] \subseteq S
  BY <1>1, ChainLeast, ChainSelf
<1>. QED BY <1>2

-----------------------------------------------------------------------------
(* CBlockIndexWorkComparator                                               *)

\* The comparator is a strict total order on the blocks.
LEMMA WorseOrder ==
    ASSUME NEW seq \in [Blocks -> Nat], NEW a \in Blocks, NEW b \in Blocks, NEW c \in Blocks
    PROVE  /\ ~WorseBy(seq, a, a)
           /\ WorseBy(seq, a, b) => ~WorseBy(seq, b, a)
           /\ a # b => WorseBy(seq, a, b) \/ WorseBy(seq, b, a)
           /\ WorseBy(seq, a, b) /\ WorseBy(seq, b, c) => WorseBy(seq, a, c)
           /\ ~WorseBy(seq, a, b) /\ ~WorseBy(seq, b, c) => ~WorseBy(seq, a, c)
<1>1. /\ Work[a] \in Nat /\ Work[b] \in Nat /\ Work[c] \in Nat
      /\ Addr[a] \in Nat /\ Addr[b] \in Nat /\ Addr[c] \in Nat
      /\ seq[a] \in Nat /\ seq[b] \in Nat /\ seq[c] \in Nat
      /\ Addr[a] = Addr[b] => a = b
  BY TreeAssumption
<1>. QED BY <1>1 DEF WorseBy

\* An ancestor sorts before its descendants.
LEMMA WorseAncestor ==
    ASSUME NEW seq, NEW b \in Blocks, NEW a \in Chain[b], a # b
    PROVE  WorseBy(seq, a, b)
BY ChainWork DEF WorseBy

\* A set of blocks that is not empty has a last element.
LEMMA WorseLast ==
    ASSUME NEW seq \in [Blocks -> Nat], NEW C, C \subseteq Blocks, C # {}
    PROVE  \E c \in C : \A d \in C \ {c} : WorseBy(seq, d, c)
<1>. DEFINE Above(c) == {d \in Blocks : WorseBy(seq, c, d)}
            F == {Above(c) : c \in C}
<1>1. PICK x \in F : \A y \in F : ~(y \subseteq x /\ y # x)
  <2>1. IsFiniteSet(Blocks) BY TreeAssumption
  <2>2. F \subseteq SUBSET Blocks /\ F # {} OBVIOUS
  <2>. HIDE DEF F
  <2>. QED BY <2>1, <2>2, MinimalSet
<1>2. PICK c \in C : x = Above(c)
  BY <1>1
<1>3. ASSUME NEW d \in C \ {c}, ~WorseBy(seq, d, c)
      PROVE  FALSE
  <2>1. WorseBy(seq, c, d)
    BY <1>3, WorseOrder
  <2>2. Above(d) \subseteq Above(c)
    BY <2>1, WorseOrder
  <2>3. d \in Above(c) /\ d \notin Above(d)
    BY <2>1, WorseOrder
  <2>. QED BY <2>2, <2>3, <1>1, <1>2
<1>. QED BY <1>3

\* The comparator only looks at the two blocks it compares.
LEMMA WorseSame ==
    ASSUME NEW s1, NEW s2, NEW a, NEW b, s1[a] = s2[a], s1[b] = s2[b]
    PROVE  WorseBy(s1, a, b) <=> WorseBy(s2, a, b)
BY DEF WorseBy

-----------------------------------------------------------------------------
(* The inductive invariant                                                 *)

\* The chain of a linked block is linked, and only a linked block has all its data.
LEMMA LinkedChain ==
    ASSUME Types, Links, NEW b \in Blocks
    PROVE  /\ b \in linked => Chain[b] \subseteq linked
           /\ Chain[b] \subseteq haveData => b \in linked
<1>1. ASSUME b \in linked PROVE Chain[b] \subseteq linked
  <2>1. linked \in SUBSET Blocks BY DEF Types, TypeOK
  <2>2. HasParents(linked) BY DEF Links, HasParents
  <2>. QED BY <1>1, <2>1, <2>2, ChainLeast
<1>2. ASSUME Chain[b] \subseteq haveData, b \notin linked PROVE FALSE
  <2>. DEFINE S == {c \in Chain[b] : c \notin linked}
  <2>1. HasParents(S)
    BY <1>2, ChainParents, ChainSelf DEF HasParents, Links
  <2>2. Chain[b] \subseteq S
    BY <2>1, <1>2, ChainLeast, ChainSelf
  <2>. QED BY <2>2, ChainRoot DEF Types
<1>. QED BY <1>1, <1>2

\* The invariant holds at first.
LEMMA InitInv ==
    ASSUME Init
    PROVE  IInv
<1>. USE TreeAssumption DEF Init
<1>1. Types
  <2>1. nSequenceId \in [Blocks -> Nat] /\ nBlockSequenceId \in Nat \ {0}
    OBVIOUS
  <2>2. pending \in BOOLEAN /\ blocksConnected \in BOOLEAN
    OBVIOUS
  <2>. QED BY <2>1, <2>2 DEF Types, TypeOK, Failed
<1>2. Links BY DEF Links
<1>3. Marks BY DEF Marks, Failed
<1>4. ~Worse(Genesis, Genesis)
  BY <1>1, WorseOrder DEF Worse, Types, TypeOK
<1>5. Candidates BY <1>4 DEF Candidates, InRound, Failed
<1>6. Sound BY ChainStep DEF Sound, InRound, Failed
<1>7. Progress /\ Target BY DEF Progress, Target
<1>. QED BY <1>1, <1>2, <1>3, <1>5, <1>6, <1>7 DEF IInv

\* AcceptBlock of a block whose parent is linked links it and what waited for it.
LEMMA LinkInv ==
    ASSUME IInv, NEW b \in Blocks \ {Genesis}, AcceptBlock(b), Parent[b] \in linked
    PROVE  IInv'
<1>. DEFINE L == NewlyLinked(b)
<1>. USE DEF AcceptBlock, ReceivedBlockTransactions, AcceptBlockHeader, flagVars, abcVars
<1>0. /\ Types /\ Links /\ Marks /\ Candidates /\ Sound /\ Target
      /\ CsMainFree /\ ~InRound /\ pc' = pc /\ ~InRound'
  BY DEF IInv, CsMainFree, InRound
<1>1. L \subseteq Blocks /\ b \in L /\ L \cap linked = {} /\ L \subseteq haveData'
  BY <1>0 DEF NewlyLinked, Links, Types, TypeOK
<1>2. Cardinality(L) \in Nat
  BY <1>1, FS_Subset, FS_CardinalityType, TreeAssumption
<1>3. PICK place \in Bijection(L, 1..Cardinality(L)) :
         nSequenceId' = [c \in Blocks |-> IF c \in L THEN nBlockSequenceId - 1 + place[c]
                                                     ELSE nSequenceId[c]]
  BY <1>0 DEF QueuePlaces
<1>. HIDE DEF L
<1>4. nSequenceId' \in [Blocks -> Nat]
  <2>1. nBlockSequenceId \in Nat \ {0} /\ nSequenceId \in [Blocks -> Nat]
    BY <1>0 DEF Types, TypeOK
  <2>2. \A c \in L : place[c] \in 1..Cardinality(L)
    BY <1>3 DEF Bijection, Injection
  <2>. QED BY <1>2, <1>3, <2>1, <2>2
<1>5. linked' = linked \cup L /\ mapBlocksUnlinked' = mapBlocksUnlinked \ L
  BY <1>0 DEF L
<1>6. setBlockIndexCandidates' =
          setBlockIndexCandidates \cup {c \in L : ~WorseBy(nSequenceId', c, tip)}
  BY <1>0 DEF L, CandidatesAfterLink
<1>7. \A c \in linked : nSequenceId'[c] = nSequenceId[c]
  BY <1>0, <1>1, <1>3 DEF Types, TypeOK
<1>8. \A a, c \in linked : WorseBy(nSequenceId', a, c) <=> WorseBy(nSequenceId, a, c)
  BY <1>7, WorseSame
<1>9. Types'
  <2>1. nBlockSequenceId' \in Nat \ {0}
    BY <1>0, <1>2 DEF Types, TypeOK, L
  <2>. QED BY <2>1, <1>0, <1>1, <1>4, <1>5, <1>6 DEF Types, TypeOK, Failed
<1>10. Links'
  <2>1. ASSUME NEW c \in L PROVE Parent[c] \in linked'
    <3>1. CASE c = b
      BY <3>1, <1>5
    <3>2. CASE c # b
      <4>1. c \in mapBlocksUnlinked /\ b \in Chain[c]
            /\ Chain[c] \subseteq Chain[b] \cup mapBlocksUnlinked
        BY <3>2 DEF L, NewlyLinked, Descends
      <4>2. c # Genesis
        BY <4>1, <1>0 DEF Links, Types
      <4>3. Parent[c] \in Blocks /\ Chain[c] = {c} \cup Chain[Parent[c]]
            /\ Parent[c] \in Chain[Parent[c]]
        BY <4>2, <1>1, ChainStep, ChainSelf
      <4>4. b \in Chain[Parent[c]]
        BY <4>1, <4>3, <3>2
      <4>5. CASE Parent[c] = b
        BY <4>5, <1>1, <1>5
      <4>6. CASE Parent[c] # b
        <5>1. Parent[c] \notin Chain[b]
          BY <4>3, <4>4, <4>6, ChainAcyclic
        <5>2. Parent[c] \in mapBlocksUnlinked
          BY <4>1, <4>3, <5>1
        <5>3. Parent[c] \in L
          BY <5>2, <4>1, <4>3, <4>4 DEF L, NewlyLinked, Descends
        <5>. QED BY <5>3, <1>5
      <4>. QED BY <4>5, <4>6
    <3>. QED BY <3>1, <3>2
  <2>2. ASSUME NEW c \in haveData' \ {Genesis}, Parent[c] \in linked', c \notin linked'
        PROVE  FALSE
    <3>1. c # b /\ c \in haveData /\ c \notin linked /\ c \in Blocks
      BY <2>2, <1>1, <1>5, <1>0 DEF Types, TypeOK
    <3>2. c \in mapBlocksUnlinked /\ Parent[c] \notin linked
      BY <3>1, <2>2, <1>0 DEF Links
    <3>3. Parent[c] \in L
      BY <3>2, <2>2, <1>5
    <3>4. Chain[c] = {c} \cup Chain[Parent[c]]
      BY <3>1, <2>2, ChainStep
    <3>5. b \in Chain[Parent[c]] /\ Chain[Parent[c]] \subseteq Chain[b] \cup mapBlocksUnlinked
      BY <3>3, ChainSelf DEF L, NewlyLinked, Descends
    <3>6. b \in Chain[c] /\ Chain[c] \ (Chain[b] \cup mapBlocksUnlinked) = {}
      BY <3>2, <3>4, <3>5
    <3>7. c \in L
      BY <3>2, <3>6 DEF L, NewlyLinked, Descends
    <3>. QED BY <3>7, <2>2, <1>5
  <2>3. mapBlocksUnlinked' = haveData' \ linked'
    <3>1. haveData' = haveData \cup {b} /\ mapBlocksUnlinked = haveData \ linked
      BY <1>0 DEF Links
    <3>. QED BY <3>1, <1>1, <1>5
  <2>4. \A c \in Blocks \ linked' : nSequenceId'[c] = 0
    BY <1>0, <1>3, <1>5 DEF Links
  <2>. QED BY <2>1, <2>2, <2>3, <2>4, <1>0, <1>5 DEF Links
<1>11. Marks'
  BY <1>0 DEF Marks, Failed, HasInvalid
<1>12. tip' = tip /\ tip \in linked /\ setBlockIndexCandidates \subseteq linked
  BY <1>0 DEF Types, TypeOK
<1>13. Candidates'
  <2>1. Failed' = Failed
    BY DEF Failed
  <2>2. \A c \in setBlockIndexCandidates' : ~WorseBy(nSequenceId', c, tip)
    BY <1>0, <1>6, <1>8, <1>12 DEF Candidates, Worse
  <2>3. ASSUME NEW c \in linked' \ Failed, ~WorseBy(nSequenceId', c, tip)
        PROVE  c \in setBlockIndexCandidates'
    <3>1. CASE c \in L
      BY <3>1, <2>3, <1>6
    <3>2. CASE c \in linked
      BY <3>2, <2>3, <1>0, <1>6, <1>8, <1>12 DEF Candidates, Worse
    <3>. QED BY <3>1, <3>2, <1>5
  <2>. QED BY <2>1, <2>2, <2>3, <1>0, <1>12 DEF Candidates, Worse
<1>14. Sound' /\ Progress'
  BY <1>0 DEF Sound, Progress, Failed, InRound
<1>15. Target'
  BY <1>0, <1>8, <1>12 DEF Target, Types, TypeOK, Failed, Worse
<1>. QED BY <1>9, <1>10, <1>11, <1>13, <1>14, <1>15 DEF IInv

\* AcceptBlock of a block whose parent is not linked lets it wait.
LEMMA WaitInv ==
    ASSUME IInv, NEW b \in Blocks \ {Genesis}, AcceptBlock(b), Parent[b] \notin linked
    PROVE  IInv'
<1>. USE DEF AcceptBlock, ReceivedBlockTransactions, AcceptBlockHeader, flagVars, abcVars
<1>0. /\ Types /\ Links /\ Marks /\ Candidates /\ Sound /\ Target
      /\ CsMainFree /\ ~InRound /\ pc' = pc /\ ~InRound'
      /\ b \notin linked
  BY DEF IInv, CsMainFree, InRound, Types, TypeOK
<1>1. Types' BY <1>0 DEF Types, TypeOK, Failed
<1>2. Links' BY <1>0 DEF Links, Types, TypeOK
<1>3. Marks' BY <1>0 DEF Marks, Failed, HasInvalid
<1>4. Candidates' BY <1>0 DEF Candidates, Worse, Failed
<1>5. Sound' /\ Progress' BY <1>0 DEF Sound, Progress, Failed, InRound
<1>6. Target' BY <1>0 DEF Target, Failed, Worse
<1>. QED BY <1>1, <1>2, <1>3, <1>4, <1>5, <1>6 DEF IInv

\* The other two outcomes of AcceptBlock.
LEMMA AcceptOtherInv ==
    ASSUME IInv, NEW b \in Blocks \ {Genesis}, AcceptDuplicate(b) \/ AcceptBlockFails(b)
    PROVE  IInv'
<1>0. /\ Types /\ Links /\ Marks /\ Candidates /\ Sound /\ Target
      /\ CsMainFree /\ ~InRound /\ pc' = pc /\ ~InRound'
  BY DEF IInv, CsMainFree, InRound, AcceptDuplicate, AcceptBlockFails, abcVars
<1>1. CASE AcceptDuplicate(b)
  <2>. USE <1>1 DEF AcceptDuplicate, indexVars, flagVars, abcVars
  <2>1. Types' /\ Links' BY <1>0 DEF Types, TypeOK, Failed, Links
  <2>2. Marks' BY <1>0 DEF Marks, Failed, HasInvalid
  <2>3. Candidates' BY <1>0 DEF Candidates, Worse, Failed
  <2>4. Sound' /\ Progress' BY <1>0 DEF Sound, Progress, Failed, InRound
  <2>5. Target' BY <1>0 DEF Target, Failed, Worse
  <2>. QED BY <2>1, <2>2, <2>3, <2>4, <2>5 DEF IInv
<1>2. CASE AcceptBlockFails(b)
  <2>. USE <1>2 DEF AcceptBlockFails, AcceptBlockHeader, abcVars
  <2>0. failedValid' \subseteq failedValid \cup {b} /\ failedValid' \subseteq failedValid \cup Rejected
    OBVIOUS
  <2>1. Types' /\ Links'
    <3>1. Types' BY <2>0, <1>0 DEF Types, TypeOK, Failed
    <3>. QED BY <3>1, <1>0 DEF Links
  <2>2. failedValid \subseteq failedValid' /\ Failed \subseteq Failed' /\ Failed' \subseteq Failed \cup {b}
    BY DEF Failed
  <2>3. Marks'
    <3>1. CASE b \in failedValid'
      BY <3>1, <2>2, <1>0, ChainSelf DEF Marks, HasInvalid
    <3>2. CASE UNCHANGED failedValid
      BY <3>2, <1>0 DEF Marks, Failed, HasInvalid
    <3>. QED BY <3>1, <3>2
  <2>4. Candidates' BY <2>2, <1>0 DEF Candidates, Worse
  <2>5. \A c \in linked : b \notin Chain[c]
    BY <1>0, LinkedChain DEF Types, TypeOK
  <2>6. Sound' /\ Progress'
    BY <2>2, <2>5, <1>0 DEF Sound, Progress, InRound, Types, TypeOK
  <2>7. Target' BY <2>2, <2>5, <1>0 DEF Target, Worse, Types, TypeOK
  <2>. QED BY <2>1, <2>3, <2>4, <2>6, <2>7 DEF IInv
<1>. QED BY <1>1, <1>2

\* The steps of ActivateBestChain that only move its program counter.
LEMMA LoopInv ==
    ASSUME IInv, Begin \/ LockCsMain \/ Finish
    PROVE  IInv'
<1>. USE DEF IInv, indexVars, flagVars
<1>1. CASE Begin
  <2>. USE <1>1 DEF Begin
  <2>0. pending' \in BOOLEAN /\ blocksConnected' \in BOOLEAN BY DEF Types, TypeOK
  <2>1. Types' /\ Links' BY <2>0 DEF Types, TypeOK, Failed, Links
  <2>2. Marks' BY DEF Marks, Failed, HasInvalid
  <2>3. Candidates' BY DEF Candidates, Worse, Failed, InRound
  <2>4. Sound' /\ Progress' BY DEF Sound, Progress, Failed, InRound
  <2>5. Target' BY DEF Target
  <2>. QED BY <2>1, <2>2, <2>3, <2>4, <2>5
<1>2. CASE LockCsMain
  <2>. USE <1>2 DEF LockCsMain
  <2>0. /\ tip \in Blocks /\ nSequenceId \in [Blocks -> Nat]
        /\ pending' \in BOOLEAN /\ blocksConnected' \in BOOLEAN
    BY DEF Types, TypeOK
  <2>1. Types' /\ Links' BY <2>0 DEF Types, TypeOK, Failed, Links
  <2>2. Marks' BY DEF Marks, Failed, HasInvalid
  <2>3. Candidates' BY DEF Candidates, Worse, Failed, InRound
  <2>4. Sound' BY DEF Sound, Failed, InRound, Types, TypeOK
  <2>5. ~Worse(tip, tip) BY <2>0, WorseOrder DEF Worse
  <2>6. Progress' BY <2>5 DEF Progress, Worse
  <2>7. Target' BY DEF Target, InRound, Failed, Worse
  <2>. QED BY <2>1, <2>2, <2>3, <2>4, <2>6, <2>7
<1>3. CASE Finish
  <2>. USE <1>3 DEF Finish
  <2>1. Types' /\ Links' BY DEF Types, TypeOK, Failed, Links
  <2>2. Marks' BY DEF Marks, Failed, HasInvalid
  <2>3. Candidates' BY DEF Candidates, Worse, Failed, InRound
  <2>4. Sound' /\ Progress' BY DEF Sound, Progress, Failed, InRound
  <2>5. Target' BY DEF Target
  <2>. QED BY <2>1, <2>2, <2>3, <2>4, <2>5
<1>. QED BY <1>1, <1>2, <1>3

\* BestCandidate is the last candidate.
LEMMA BestIsLast ==
    ASSUME Types, setBlockIndexCandidates # {}
    PROVE  /\ BestCandidate \in setBlockIndexCandidates
           /\ \A d \in setBlockIndexCandidates \ {BestCandidate} : Worse(d, BestCandidate)
<1>1. \E c \in setBlockIndexCandidates :
         \A d \in setBlockIndexCandidates \ {c} : Worse(d, c)
  BY WorseLast DEF Worse, Types, TypeOK
<1>. QED BY <1>1 DEF BestCandidate

\* A candidate that has a failed block on its path is discarded.
LEMMA FindDiscardsInv ==
    ASSUME IInv, FindDiscards
    PROVE  IInv'
<1>. DEFINE b == BestCandidate
            test == CHOOSE f \in FailedOnPath(b) : FailedOnPath(b) \subseteq Chain[f]
            above == Chain[b] \ Chain[test]
<1>0. /\ Types /\ Links /\ Marks /\ Candidates /\ Sound /\ Progress
      /\ pc = "find" /\ InRound /\ pindexMostWork = None
  BY DEF IInv, FindDiscards, InRound
<1>1. b \in setBlockIndexCandidates /\ b \in linked /\ b \in Blocks
  BY <1>0, BestIsLast DEF FindDiscards, Types, TypeOK
<1>. USE DEF FindDiscards, indexVars, abcVars
<1>2. /\ failedChild' = failedChild \cup above
      /\ unsaved' = unsaved \cup (above \ failedChild)
      /\ setBlockIndexCandidates' = setBlockIndexCandidates \ (above \cup {test})
      /\ failedValid' = failedValid
  BY DEF DiscardCandidate
<1>. HIDE DEF b
<1>3. test \in FailedOnPath(b)
  <2>1. FailedOnPath(b) \subseteq Chain[b] /\ FailedOnPath(b) # {}
    BY DEF FailedOnPath, b
  <2>2. \E f \in FailedOnPath(b) : FailedOnPath(b) \subseteq Chain[f]
    BY <2>1, <1>1, ChainHighest
  <2>. QED BY <2>2
<1>4. test \in Chain[b] /\ test \in Failed /\ test \in Blocks
  BY <1>3, <1>1, ChainSelf DEF FailedOnPath
<1>. HIDE DEF test
<1>5. \A c \in above : c \in Blocks /\ test \in Chain[c] /\ Chain[test] \subseteq Chain[c]
  BY <1>1, <1>4, ChainSelf, ChainLinear, ChainTrans
<1>6. above \subseteq linked
  BY <1>0, <1>1, LinkedChain
<1>. HIDE DEF above
<1>7. Failed' = Failed \cup above
  BY <1>2 DEF Failed
<1>8. Types'
  <2>1. unsaved' \subseteq failedChild' BY <1>0, <1>2 DEF Types, TypeOK
  <2>2. Failed' \subseteq mapBlockIndex' BY <1>0, <1>6, <1>7 DEF Types, TypeOK
  <2>. QED BY <2>1, <2>2, <1>0, <1>2 DEF Types, TypeOK
<1>9. Links' BY <1>0 DEF Links
<1>10. Marks'
  <2>1. \A c \in above : HasInvalid(c)
    BY <1>0, <1>4, <1>5 DEF Marks, HasInvalid
  <2>. QED BY <2>1, <1>0, <1>2, <1>7 DEF Marks, HasInvalid
<1>11. Candidates'
  BY <1>0, <1>2, <1>4, <1>7 DEF Candidates, Worse, InRound
<1>12. ASSUME NEW t \in Blocks, Chain[t] \cap (Failed \cup Bad) = {}
       PROVE  Chain[t] \cap (Failed' \cup Bad) = {}
  BY <1>4, <1>5, <1>7, <1>12, ChainTrans
<1>13. Sound'
  BY <1>0, <1>12 DEF Sound, Types, TypeOK, InRound
<1>14. Progress' /\ Target'
  BY <1>0, TreeAssumption DEF Progress, Target, Worse
<1>. QED BY <1>8, <1>9, <1>10, <1>11, <1>13, <1>14 DEF IInv

\* FindMostWorkChain returns a candidate no worse than the tip the round started
\* from, which is a candidate itself; or the target of the last step is kept.
LEMMA FindFinds ==
    ASSUME IInv, Find
    PROVE  /\ pindexMostWork' \in linked /\ pindexMostWork' \in Blocks
           /\ Chain[pindexMostWork'] \cap Failed = {}
           /\ ~Worse(pindexMostWork', startingTip)
           /\ pindexMostWork' = tip => startingTip = tip
<1>. USE DEF Find
<1>0. /\ Types /\ Candidates /\ Sound /\ Progress /\ Target
      /\ pc = "find" /\ InRound
      /\ nSequenceId \in [Blocks -> Nat] /\ startingTip \in Blocks /\ tip \in Blocks
  BY DEF IInv, InRound, Types, TypeOK, Sound
<1>1. startingTip \in setBlockIndexCandidates
  <2>1. startingTip \in linked \ Failed
    BY <1>0, ChainSelf DEF Sound
  <2>2. ~Worse(startingTip, startingTip)
    BY <1>0, WorseOrder DEF Worse
  <2>. QED BY <2>1, <2>2, <1>0 DEF Candidates, Progress
<1>2. CASE pindexMostWork # None
  BY <1>2, <1>0 DEF Target, Types, TypeOK
<1>3. CASE pindexMostWork = None
  <2>1. /\ pindexMostWork' = BestCandidate
        /\ FailedOnPath(BestCandidate) = {}
    BY <1>3, <1>1 DEF MostWork
  <2>2. pindexMostWork' \in linked /\ pindexMostWork' \in Blocks
    BY <2>1, <1>0, <1>1, BestIsLast DEF Types, TypeOK
  <2>3. Chain[pindexMostWork'] \cap Failed = {}
    BY <2>1, <1>0 DEF FailedOnPath, Sound
  <2>4. startingTip = pindexMostWork' \/ Worse(startingTip, pindexMostWork')
    BY <2>1, <1>0, <1>1, BestIsLast
  <2>5. ~Worse(pindexMostWork', startingTip)
    BY <2>2, <2>4, <1>0, WorseOrder DEF Worse
  <2>. QED BY <2>2, <2>3, <2>4, <2>5, <1>0 DEF Progress
<1>. QED BY <1>2, <1>3

\* What FindMostWorkChain returned becomes the target, or ends the round.
LEMMA FindInv ==
    ASSUME IInv, Find
    PROVE  IInv'
<1>. USE DEF Find, indexVars, flagVars
<1>0. /\ Types /\ Links /\ Marks /\ Candidates /\ Sound /\ Progress /\ Target
      /\ pc = "find" /\ InRound
  BY DEF IInv, InRound
<1>2. /\ pindexMostWork' \in linked /\ pindexMostWork' \in Blocks
      /\ Chain[pindexMostWork'] \cap Failed = {}
      /\ ~Worse(pindexMostWork', startingTip)
      /\ pindexMostWork' = tip => startingTip = tip
  BY FindFinds
<1>3. pindexMostWork' # None
  BY <1>2, TreeAssumption
<1>4. Types' /\ Links'
  <2>1. pc' \in {"unlocked", "idle", "disconnect"} /\ pindexOldTip' \in {pindexOldTip, tip}
    OBVIOUS
  <2>2. Types' BY <2>1, <1>0, <1>2 DEF Types, TypeOK, Failed
  <2>. QED BY <2>2, <1>0 DEF Links
<1>5. Marks' BY <1>0 DEF Marks, Failed, HasInvalid
<1>6. CASE pindexMostWork' = tip
  <2>1. startingTip = tip /\ ~InRound' /\ pc' \in {"unlocked", "idle"}
    BY <1>6, <1>2 DEF InRound
  <2>2. Candidates' BY <2>1, <1>0 DEF Candidates, Worse, Failed
  <2>3. Sound' /\ Progress' BY <2>1, <1>0 DEF Sound, Progress, Failed
  <2>4. Target' BY <2>1, <1>0, <1>2 DEF Target, Failed, Worse
  <2>. QED BY <2>2, <2>3, <2>4, <1>4, <1>5 DEF IInv
<1>7. CASE pindexMostWork' # tip
  <2>1. pc' = "disconnect" /\ InRound'
    BY <1>7, <1>3 DEF InRound
  <2>2. Candidates' BY <2>1, <1>0 DEF Candidates, Worse, Failed
  <2>3. Sound' BY <2>1, <1>0 DEF Sound, Failed
  <2>4. Progress' BY <2>1, <1>0, <1>3 DEF Progress, Worse
  <2>5. Target' BY <2>1, <1>2, <1>7 DEF Target, Failed, Worse
  <2>. QED BY <2>2, <2>3, <2>4, <2>5, <1>4, <1>5 DEF IInv
<1>. QED BY <1>6, <1>7

\* DisconnectTip goes down from a tip that is no better than the one the round
\* started from.
LEMMA DisconnectInv ==
    ASSUME IInv, Disconnect
    PROVE  IInv'
<1>. USE DEF Disconnect, indexVars, flagVars
<1>0. /\ Types /\ Links /\ Marks /\ Candidates /\ Sound /\ Progress /\ Target
      /\ pc = "disconnect" /\ InRound
      /\ pindexMostWork # None /\ pindexMostWork \in linked /\ pindexMostWork \in Blocks
      /\ nSequenceId \in [Blocks -> Nat] /\ startingTip \in Blocks /\ tip \in Blocks
  BY DEF IInv, InRound, Types, TypeOK, Sound, Progress
<1>1. Marks' BY <1>0 DEF Marks, Failed, HasInvalid
<1>2. CASE Descends(pindexMostWork, tip)
  <2>1. pc' = "connect" /\ tip' = tip /\ InRound'
    BY <1>2 DEF InRound
  <2>2. Types' /\ Links' BY <2>1, <1>0 DEF Types, TypeOK, Failed, Links
  <2>3. Candidates' BY <2>1, <1>0 DEF Candidates, Worse, Failed
  <2>4. Sound' BY <2>1, <1>0 DEF Sound, Failed
  <2>5. Progress' BY <2>1, <1>0, <1>2 DEF Progress, Descends
  <2>6. Target' BY <2>1, <1>0 DEF Target, Failed, Worse
  <2>. QED BY <2>2, <2>3, <2>4, <2>5, <2>6, <1>1 DEF IInv
<1>3. CASE ~Descends(pindexMostWork, tip)
  <2>1. pc' = "disconnect" /\ tip' = Parent[tip] /\ InRound'
    BY <1>0, <1>3 DEF InRound
  <2>2. tip # Genesis
    BY <1>0, <1>3, ChainRoot DEF Descends
  <2>3. /\ tip' \in linked /\ tip' \in Blocks /\ tip' \in Chain[tip]
        /\ Chain[tip'] \subseteq Chain[tip] /\ tip' # tip
    <3>1. tip' \in linked /\ tip' \in Blocks /\ tip' \in Chain[tip]
      BY <2>1, <2>2, <1>0, ChainParents, ChainSelf DEF Links, Types, TypeOK
    <3>2. Work[tip'] < Work[tip] /\ Work[tip] \in Nat
      BY <2>1, <2>2, <1>0, TreeAssumption
    <3>. QED BY <3>1, <3>2, <1>0, ChainTrans
  <2>4. WorseBy(nSequenceId, tip', tip) /\ ~WorseBy(nSequenceId, tip, tip')
    BY <2>3, <1>0, WorseAncestor, WorseOrder
  <2>5. ~WorseBy(nSequenceId, startingTip, tip)
    BY <1>0 DEF Progress, Worse
  <2>6. Types' /\ Links' BY <2>1, <2>3, <1>0 DEF Types, TypeOK, Failed, Links
  <2>7. Candidates'
    <3>1. \A c \in setBlockIndexCandidates : ~WorseBy(nSequenceId, c, tip')
      BY <2>3, <2>4, <1>0, WorseOrder DEF Candidates, Worse, Types, TypeOK
    <3>2. \A c \in linked \ Failed :
             ~WorseBy(nSequenceId, c, startingTip) => c \in setBlockIndexCandidates
      BY <2>5, <1>0, WorseOrder DEF Candidates, Worse, Types, TypeOK
    <3>. QED BY <3>1, <3>2, <2>1 DEF Candidates, Worse, Failed
  <2>8. Sound' BY <2>1, <2>3, <1>0 DEF Sound, Failed
  <2>9. ~WorseBy(nSequenceId, startingTip, tip')
    BY <2>3, <2>4, <2>5, <1>0, WorseOrder
  <2>10. Progress' BY <2>1, <2>9, <1>0 DEF Progress, Worse
  <2>11. pindexMostWork # tip'
    <3>1. ~WorseBy(nSequenceId, pindexMostWork, startingTip)
      BY <1>0 DEF Target, Worse
    <3>2. ~WorseBy(nSequenceId, pindexMostWork, tip)
      BY <3>1, <2>5, <1>0, WorseOrder
    <3>. QED BY <3>2, <2>4
  <2>12. Target' BY <2>1, <2>11, <1>0 DEF Target, Failed, Worse
  <2>. QED BY <2>6, <2>7, <2>8, <2>10, <2>12, <1>1 DEF IInv
<1>. QED BY <1>2, <1>3

\* The next block on the way to the target is a linked child of the tip.
LEMMA NextIsChild ==
    ASSUME IInv, pc = "connect"
    PROVE  /\ NextToConnect \in Chain[pindexMostWork]
           /\ NextToConnect \in linked /\ NextToConnect \in Blocks
           /\ NextToConnect # Genesis /\ Parent[NextToConnect] = tip
           /\ Chain[NextToConnect] = {NextToConnect} \cup Chain[tip]
           /\ NextToConnect # tip
<1>0. /\ Types /\ Links /\ InRound
      /\ pindexMostWork # None /\ pindexMostWork \in linked /\ pindexMostWork \in Blocks
      /\ pindexMostWork # tip /\ tip \in Chain[pindexMostWork]
  BY DEF IInv, InRound, Types, TypeOK, Progress, Target
<1>1. \E b \in Chain[pindexMostWork] : b # Genesis /\ Parent[b] = tip
  BY <1>0, ChainNext
<1>2. /\ NextToConnect \in Chain[pindexMostWork]
      /\ NextToConnect # Genesis /\ Parent[NextToConnect] = tip
  BY <1>1 DEF NextToConnect
<1>3. NextToConnect \in linked /\ NextToConnect \in Blocks
  BY <1>0, <1>2, LinkedChain, ChainSelf
<1>4. NextToConnect # tip
  BY <1>2, <1>3, TreeAssumption
<1>. QED BY <1>2, <1>3, <1>4, ChainStep

\* ConnectTip of a valid block.
LEMMA ConnectTipInv ==
    ASSUME IInv, ConnectTip
    PROVE  IInv'
<1>. USE DEF ConnectTip, indexVars, flagVars
<1>0. /\ Types /\ Links /\ Marks /\ Candidates /\ Sound /\ Progress /\ Target
      /\ pc = "connect" /\ InRound
      /\ pindexMostWork # None /\ pindexMostWork \in linked /\ pindexMostWork \in Blocks
      /\ nSequenceId \in [Blocks -> Nat] /\ startingTip \in Blocks /\ tip \in Blocks
  BY DEF IInv, InRound, Types, TypeOK, Sound, Progress
<1>1. /\ tip' \in Chain[pindexMostWork] /\ tip' \in linked /\ tip' \in Blocks
      /\ Chain[tip'] = {tip'} \cup Chain[tip] /\ tip' # tip /\ tip' \notin Bad
  BY NextIsChild
<1>2. setBlockIndexCandidates' =
          {c \in setBlockIndexCandidates : ~WorseBy(nSequenceId, c, tip')}
  BY DEF PruneBlockIndexCandidates, Worse
<1>3. \/ /\ pc' = "connect" /\ tip' # pindexMostWork /\ blocksConnected' = blocksConnected
      \/ /\ pc' = "find" /\ WorseBy(nSequenceId, tip', startingTip) /\ blocksConnected' = TRUE
      \/ /\ pc' = "unlocked" /\ ~WorseBy(nSequenceId, tip', startingTip)
         /\ blocksConnected' = TRUE
  BY <1>0 DEF AfterStep, Worse
<1>. DEFINE W(a, c) == WorseBy(nSequenceId, a, c)
<1>4. W(tip, tip') /\ ~W(tip', tip)
  BY <1>0, <1>1, ChainSelf, WorseAncestor, WorseOrder
<1>5. ~W(pindexMostWork, startingTip)
  BY <1>0 DEF Target, Worse
<1>6. Types' /\ Links'
  <2>1. blocksConnected' \in BOOLEAN /\ pc' \in {"connect", "find", "unlocked"}
    BY <1>0, <1>3 DEF Types, TypeOK
  <2>. QED BY <2>1, <1>0, <1>1, <1>2 DEF Types, TypeOK, Failed, Links
<1>7. Marks' BY <1>0 DEF Marks, Failed, HasInvalid
<1>8. Candidates'
  <2>. SUFFICES ASSUME NEW c \in linked \ Failed, ~W(c, tip'), InRound' => ~W(c, startingTip)
               PROVE  c \in setBlockIndexCandidates
    BY <1>2 DEF Candidates, Worse, Failed, InRound
  <2>1. c \in Blocks
    BY <1>0 DEF Types, TypeOK
  <2>2. ~W(c, tip)
    BY <2>1, <1>0, <1>1, <1>4, WorseOrder
  <2>3. ~W(c, startingTip)
    BY <2>1, <1>0, <1>1, <1>3, WorseOrder DEF InRound
  <2>. QED BY <2>2, <2>3, <1>0 DEF Candidates, Worse
<1>9. tip' \notin Failed
  BY <1>0, <1>1 DEF Target
<1>10. Sound'
  BY <1>0, <1>1, <1>9 DEF Sound, Failed, InRound
<1>11. Progress'
  <2>1. W(tip', startingTip) => ~W(startingTip, tip')
    BY <1>0, <1>1, WorseOrder
  <2>. QED BY <2>1, <1>0, <1>1, <1>3 DEF Progress, Worse
<1>12. Target'
  <2>1. ~W(pindexMostWork, tip')
    <3>1. pindexMostWork = tip' \/ W(tip', pindexMostWork)
      BY <1>0, <1>1, WorseAncestor
    <3>2. /\ ~W(tip', tip')
          /\ W(tip', pindexMostWork) => ~W(pindexMostWork, tip')
      BY <1>0, <1>1, WorseOrder
    <3>. QED BY <3>1, <3>2
  <2>2. InRound' => pindexMostWork # tip'
    BY <1>3, <1>5 DEF InRound
  <2>. QED BY <2>1, <2>2, <1>0, <1>5 DEF Target, Worse, Failed
<1>. QED BY <1>6, <1>7, <1>8, <1>10, <1>11, <1>12 DEF IInv

\* ConnectTip of an invalid block, which is neither in the active chain nor in the
\* one the round started from.
LEMMA ConnectFailsInv ==
    ASSUME IInv, ConnectFails
    PROVE  IInv'
<1>. USE DEF ConnectFails, indexVars
<1>0. /\ Types /\ Links /\ Marks /\ Candidates /\ Sound /\ Progress /\ Target
      /\ pc = "connect" /\ InRound /\ pindexMostWork' = None
      /\ nSequenceId \in [Blocks -> Nat] /\ startingTip \in Blocks /\ tip \in Blocks
  BY DEF IInv, InRound, Types, TypeOK, Sound
<1>1. NextToConnect \in linked /\ NextToConnect \in Bad /\ NextToConnect \in Blocks
  BY NextIsChild
<1>2. Failed' = Failed \cup {NextToConnect}
  BY DEF Failed
<1>3. \/ pc' = "find" /\ WorseBy(nSequenceId, tip, startingTip)
      \/ pc' = "unlocked" /\ ~WorseBy(nSequenceId, tip, startingTip)
  BY <1>0 DEF AfterStep, Worse
<1>4. Types' /\ Links'
  <2>1. blocksConnected' \in BOOLEAN OBVIOUS
  <2>2. pc' \in {"find", "unlocked"} BY <1>3
  <2>3. Types' BY <2>1, <2>2, <1>0, <1>1, <1>2 DEF Types, TypeOK
  <2>. QED BY <2>3, <1>0 DEF Links
<1>5. Marks'
  BY <1>0, <1>1, <1>2, ChainSelf DEF Marks, HasInvalid
<1>6. Candidates'
  <2>. SUFFICES ASSUME NEW c \in linked \ Failed', ~WorseBy(nSequenceId, c, tip),
                      InRound' => ~WorseBy(nSequenceId, c, startingTip)
               PROVE  c \in setBlockIndexCandidates'
    BY <1>0 DEF Candidates, Worse
  <2>1. c \in Blocks
    BY <1>0 DEF Types, TypeOK
  <2>2. ~WorseBy(nSequenceId, c, startingTip)
    BY <2>1, <1>0, <1>3, WorseOrder DEF InRound
  <2>. QED BY <2>2, <1>0, <1>2 DEF Candidates, Worse
<1>7. Sound'
  BY <1>0, <1>1, <1>2 DEF Sound
<1>8. Progress'
  BY <1>0, <1>3, WorseOrder DEF Progress, Worse
<1>9. Target'
  BY <1>0 DEF Target
<1>. QED BY <1>4, <1>5, <1>6, <1>7, <1>8, <1>9 DEF IInv

\* InvalidateBlock, while no activation runs.
LEMMA InvalidateInv ==
    ASSUME QuietOperator, IInv, NEW b \in Operated, InvalidateBlock(b)
    PROVE  IInv'
<1>. DEFINE D == Disconnected(b)
<1>. USE DEF InvalidateBlock, indexVars, abcVars
<1>0. /\ Types /\ Links /\ Marks /\ Candidates /\ Sound
      /\ pc = "idle" /\ ~InRound /\ pc' = "idle" /\ ~InRound'
      /\ nSequenceId \in [Blocks -> Nat] /\ tip \in Blocks
      /\ b \in Blocks \ {Genesis} /\ b \in mapBlockIndex
  BY TreeAssumption DEF IInv, QuietOperator, InRound, Types, TypeOK
<1>1. /\ failedValid' = failedValid \cup {b}
      /\ Failed' = Failed \cup D \cup {b}
      /\ unsaved' \subseteq unsaved /\ failedChild \subseteq failedChild'
      /\ setBlockIndexCandidates' = (setBlockIndexCandidates \ (D \cup {b}))
             \cup {c \in linked : c \notin Failed' /\ ~WorseBy(nSequenceId, c, tip')}
      /\ tip' = IF Descends(tip, b) THEN Parent[b] ELSE tip
      /\ pending' = TRUE
      /\ UNCHANGED <<indexVars, mapBlocksUnlinked, abcVars>>
  BY DEF Failed, Worse
<1>. HIDE DEF InvalidateBlock
<1>2. /\ tip' \in linked /\ tip' \in Blocks /\ Chain[tip'] \subseteq Chain[tip]
      /\ Chain[tip'] \cap (D \cup {b}) = {}
      /\ D \subseteq linked
      /\ \A c \in D : b \in Chain[c]
      /\ ~WorseBy(nSequenceId, tip, tip')
  <2>1. CASE ~Descends(tip, b)
    <3>1. tip' = tip /\ D = {} /\ b \notin Chain[tip] /\ tip \in linked
      BY <2>1, <1>0, <1>1 DEF Disconnected, Descends, Types, TypeOK
    <3>. HIDE DEF D
    <3>2. ~WorseBy(nSequenceId, tip, tip)
      BY <1>0, WorseOrder
    <3>. QED BY <3>1, <3>2, <1>0
  <2>2. CASE Descends(tip, b)
    <3>1. tip' = Parent[b] /\ D = (Chain[tip] \ Chain[b]) \cup {b} /\ b \in Chain[tip]
      BY <2>2, <1>1 DEF Disconnected, Descends
    <3>. HIDE DEF D
    <3>2. Chain[tip] \subseteq linked
      BY <1>0, LinkedChain DEF Types, TypeOK
    <3>3. tip' \in Blocks /\ tip' \in Chain[tip] /\ Chain[b] = {b} \cup Chain[tip']
      BY <3>1, <1>0, ChainStep, ChainParents
    <3>4. b \notin Chain[tip']
      BY <3>1, <1>0, ChainAcyclic
    <3>5. tip' # tip
      BY <3>1, <3>4
    <3>6. \A c \in D : b \in Chain[c]
      BY <3>1, <1>0, ChainLinear, ChainSelf
    <3>7. ~WorseBy(nSequenceId, tip, tip')
      BY <3>3, <3>5, <1>0, WorseAncestor, WorseOrder
    <3>. QED BY <3>1, <3>2, <3>3, <3>4, <3>6, <3>7, <1>0, ChainTrans
  <2>. QED BY <2>1, <2>2
<1>. HIDE DEF D
<1>3. Types' /\ Links'
  <2>1. pending' \in BOOLEAN BY <1>1
  <2>2. setBlockIndexCandidates' \subseteq linked
    BY <1>0, <1>1 DEF Types, TypeOK
  <2>3. Types' BY <2>1, <2>2, <1>0, <1>1, <1>2 DEF Types, TypeOK
  <2>. QED BY <2>3, <1>0, <1>1 DEF Links
<1>4. Marks'
  <2>1. b \in failedValid' /\ failedValid \subseteq failedValid' /\ b \in Chain[b]
    BY <1>0, <1>1, ChainSelf
  <2>2. \A c \in Failed : Chain[c] \cap failedValid' # {}
    BY <2>1, <1>0 DEF Marks, HasInvalid
  <2>3. \A c \in D \cup {b} : Chain[c] \cap failedValid' # {}
    BY <2>1, <1>2
  <2>. QED BY <2>2, <2>3, <1>1 DEF Marks, HasInvalid
<1>5. Candidates'
  <2>1. \A c \in setBlockIndexCandidates : ~WorseBy(nSequenceId, c, tip')
    BY <1>0, <1>2, WorseOrder DEF Candidates, Worse, Types, TypeOK
  <2>. QED BY <2>1, <1>0, <1>1 DEF Candidates, Worse
<1>6. Sound'
  BY <1>0, <1>1, <1>2 DEF Sound
<1>7. Progress' /\ Target'
  BY <1>0 DEF Progress, Target
<1>. QED BY <1>3, <1>4, <1>5, <1>6, <1>7 DEF IInv

\* ReconsiderBlock, while no activation runs, of a block above which alone there may
\* be marks.
LEMMA ReconsiderInv ==
    ASSUME QuietOperator, IInv, NEW b \in Reconsidered, ReconsiderBlock(b)
    PROVE  IInv'
<1>. DEFINE Down == FailedDescendants(b)
            cleared == Down \cup Chain[b]
<1>. USE DEF ReconsiderBlock, indexVars, abcVars
<1>0. /\ Types /\ Links /\ Marks /\ Candidates /\ Sound
      /\ pc = "idle" /\ ~InRound /\ pc' = "idle" /\ ~InRound'
      /\ nSequenceId \in [Blocks -> Nat] /\ tip \in Blocks /\ b \in Blocks
      /\ Failed \subseteq Blocks
  BY TreeAssumption DEF IInv, QuietOperator, InRound, Types, TypeOK
<1>1. /\ failedValid' = failedValid \ cleared
      /\ Failed' = Failed \ cleared
      /\ unsaved' = unsaved \ cleared /\ failedChild' = failedChild \ cleared
      /\ setBlockIndexCandidates' = setBlockIndexCandidates
             \cup {c \in Down \cap linked : WorseBy(nSequenceId, tip, c)}
      /\ pending' = TRUE
      /\ UNCHANGED <<indexVars, mapBlocksUnlinked, tip, abcVars>>
  BY DEF Failed, Worse
<1>. HIDE DEF ReconsiderBlock
<1>2. \A c \in Failed : c \in Down <=> b \in Chain[c]
  BY DEF FailedDescendants, Descends
<1>3. Down \subseteq Failed
  BY DEF FailedDescendants
<1>4. \A a \in failedValid : a \in Chain[b] => a = b
  BY <1>0 DEF QuietOperator, Types
<1>. HIDE DEF Down
<1>5. \A c \in Failed : c \in Chain[b] => c = b
  <2>. SUFFICES ASSUME NEW c \in Failed, c \in Chain[b]
               PROVE  c = b
    OBVIOUS
  <2>1. PICK a \in Chain[c] : a \in failedValid
    BY <1>0 DEF Marks, HasInvalid
  <2>2. Chain[c] \subseteq Chain[b] /\ c \in Blocks
    BY <1>0, ChainTrans
  <2>3. b \in Chain[c]
    BY <2>1, <2>2, <1>4
  <2>. QED BY <2>2, <2>3, <1>0, ChainAcyclic
<1>6. \A c \in Failed : c \in cleared <=> b \in Chain[c]
  BY <1>0, <1>2, <1>5, ChainSelf
<1>7. Types' /\ Links'
  <2>1. pending' \in BOOLEAN BY <1>1
  <2>. HIDE DEF cleared
  <2>2. Types' BY <2>1, <1>0, <1>1, <1>3 DEF Types, TypeOK
  <2>. QED BY <2>2, <1>0, <1>1 DEF Links
<1>. HIDE DEF cleared
<1>8. Marks'
  <2>. SUFFICES ASSUME NEW c \in Failed' PROVE Chain[c] \cap failedValid' # {}
    BY DEF Marks, HasInvalid
  <2>1. c \in Failed /\ b \notin Chain[c] /\ c \in Blocks
    BY <1>0, <1>1, <1>6
  <2>2. PICK a \in Chain[c] : a \in failedValid
    BY <2>1, <1>0 DEF Marks, HasInvalid
  <2>3. b \notin Chain[a]
    BY <2>1, ChainTrans
  <2>4. a \notin cleared
    BY <2>2, <2>3, <1>6 DEF Failed
  <2>. QED BY <2>2, <2>4, <1>1
<1>9. Candidates'
  <2>1. ASSUME NEW c \in linked \ Failed', ~WorseBy(nSequenceId, c, tip)
        PROVE  c \in setBlockIndexCandidates'
    <3>1. CASE c \notin Failed
      BY <3>1, <2>1, <1>0, <1>1 DEF Candidates, Worse
    <3>2. CASE c \in Failed
      <4>1. c \in Down
        BY <3>2, <2>1, <1>1, <1>2, <1>6
      <4>2. c # tip
        BY <3>2, <1>0, ChainSelf DEF Sound
      <4>3. WorseBy(nSequenceId, tip, c)
        BY <4>2, <3>2, <2>1, <1>0, WorseOrder
      <4>. QED BY <4>1, <4>3, <2>1, <1>1
    <3>. QED BY <3>1, <3>2
  <2>2. ASSUME NEW c \in setBlockIndexCandidates'
        PROVE  ~WorseBy(nSequenceId, c, tip)
    <3>1. CASE c \in setBlockIndexCandidates
      BY <3>1, <1>0 DEF Candidates, Worse
    <3>2. CASE c \in Down /\ WorseBy(nSequenceId, tip, c)
      BY <3>2, <1>0, <1>3, WorseOrder
    <3>. QED BY <3>1, <3>2, <2>2, <1>1
  <2>3. tip' = tip /\ linked' = linked /\ nSequenceId' = nSequenceId
    BY <1>1
  <2>. QED BY <2>1, <2>2, <2>3, <1>0 DEF Candidates, Worse
<1>10. Sound'
  BY <1>0, <1>1 DEF Sound
<1>11. Progress' /\ Target'
  BY <1>0 DEF Progress, Target
<1>. QED BY <1>7, <1>8, <1>9, <1>10, <1>11 DEF IInv

\* A restart rebuilds the candidates and mapBlocksUnlinked from what is stored.
LEMMA RestartInv ==
    ASSUME IInv, Restart
    PROVE  IInv'
<1>. USE DEF Restart
<1>0. /\ Types /\ Links /\ Marks /\ Candidates /\ Sound
      /\ ~InRound /\ pc' = "idle" /\ ~InRound'
  BY DEF IInv, CsMainFree, InRound
<1>1. PICK lost \in SUBSET unsaved :
         /\ failedChild' = failedChild \ lost
         /\ setBlockIndexCandidates' = LoadedCandidates(failedValid \cup failedChild')
  OBVIOUS
<1>2. Failed' \subseteq Failed /\ failedValid' = failedValid
  BY <1>1 DEF Failed
<1>3. setBlockIndexCandidates' =
          {c \in linked : c \notin Failed' /\ ~WorseBy(nSequenceId', c, tip)}
  BY <1>1 DEF Failed, LoadedCandidates
<1>4. nSequenceId' \in [Blocks -> Nat] /\ \A b \in Blocks : nSequenceId'[b] = 0
  BY DEF NoSequence
<1>5. Types'
  <2>1. pending' \in BOOLEAN /\ nBlockSequenceId' \in Nat \ {0} OBVIOUS
  <2>2. mapBlocksUnlinked' \subseteq haveData' \ linked'
    BY <1>0 DEF Links
  <2>3. Failed' \subseteq mapBlockIndex' /\ setBlockIndexCandidates' \subseteq linked'
    BY <1>0, <1>2, <1>3 DEF Types, TypeOK
  <2>. QED BY <2>1, <2>2, <2>3, <1>0, <1>2, <1>4 DEF Types, TypeOK
<1>6. Links'
  <2>1. mapBlocksUnlinked' = haveData \ linked
    BY <1>0 DEF Links, Types
  <2>. QED BY <2>1, <1>0, <1>4 DEF Links
<1>7. Marks'
  BY <1>0, <1>2 DEF Marks, HasInvalid
<1>8. Candidates'
  BY <1>0, <1>3 DEF Candidates, Worse
<1>9. Sound'
  BY <1>0, <1>2 DEF Sound
<1>10. Progress' /\ Target'
  BY <1>0 DEF Progress, Target
<1>. QED BY <1>5, <1>6, <1>7, <1>8, <1>9, <1>10 DEF IInv

\* Every step preserves the invariant.
LEMMA NextInv ==
    ASSUME QuietOperator, IInv, [Next]_vars
    PROVE  IInv'
<1>1. CASE Receive
  <2>1. ASSUME NEW b \in Blocks \ {Genesis}, AcceptBlock(b) PROVE IInv'
    BY <2>1, LinkInv, WaitInv
  <2>. QED BY <2>1, <1>1, AcceptOtherInv DEF Receive
<1>2. CASE Operator
  BY <1>2, InvalidateInv, ReconsiderInv DEF Operator
<1>3. CASE ActivateBestChain
  BY <1>3, LoopInv, FindDiscardsInv, FindInv, DisconnectInv, ConnectTipInv, ConnectFailsInv
     DEF ActivateBestChain
<1>4. CASE Restart
  BY <1>4, RestartInv
<1>5. CASE UNCHANGED vars
  <2>. USE <1>5 DEF IInv, vars, indexVars, flagVars, abcVars
  <2>1. Types' BY DEF Types, TypeOK, Failed
  <2>2. Links' BY DEF Links
  <2>3. Marks' BY DEF Marks, Failed, HasInvalid
  <2>4. Candidates' BY DEF Candidates, Worse, Failed, InRound
  <2>5. Sound' BY DEF Sound, Failed, InRound
  <2>6. Progress' BY DEF Progress, Worse
  <2>7. Target' BY DEF Target, Worse, Failed, InRound
  <2>. QED BY <2>1, <2>2, <2>3, <2>4, <2>5, <2>6, <2>7
<1>. QED BY <1>1, <1>2, <1>3, <1>4, <1>5 DEF Next

\* The inductive invariant holds throughout.
LEMMA Invariance ==
    ASSUME QuietOperator
    PROVE  Spec => []IInv
<1>1. Init => IInv
  BY InitInv
<1>2. IInv /\ [Next]_vars => IInv'
  BY NextInv
<1>. QED BY <1>1, <1>2, PTL DEF Spec

-----------------------------------------------------------------------------
(* The theorems                                                            *)

\* Every variable keeps its type: in particular candidates, the tip and the target
\* are linked blocks.
THEOREM TypeCorrect ==
    ASSUME QuietOperator
    PROVE  Spec => []TypeOK
<1>1. IInv => TypeOK
  BY DEF IInv, Types
<1>. QED BY <1>1, Invariance, PTL

\* Whenever cs_main is free the assertions of CheckBlockIndex hold, for any tree of
\* blocks arriving in any order, any of them invalid, and across restarts.
THEOREM BlockIndexChecks ==
    ASSUME QuietOperator
    PROVE  Spec => []CheckBlockIndex
<1>1. IInv => CheckBlockIndex
  <2>. SUFFICES ASSUME IInv, CsMainFree, NEW b \in mapBlockIndex
               PROVE  /\ b \notin linked => nSequenceId[b] = 0
                      /\ HasMissing(b) <=> b \notin linked
                      /\ FailedMaskJustified(b)
                      /\ IF Worse(b, tip) \/ HasMissing(b)
                         THEN b \notin setBlockIndexCandidates
                         ELSE HasInvalid(b) \/ b \in setBlockIndexCandidates
                      /\ IF b \in haveData /\ HasMissing(b)
                         THEN HasInvalid(b) \/ b \in mapBlocksUnlinked
                         ELSE b \notin mapBlocksUnlinked
    BY DEF CheckBlockIndex
  <2>1. Types /\ Links /\ Marks /\ Candidates /\ ~InRound /\ b \in Blocks
    BY DEF IInv, CsMainFree, InRound, Types, TypeOK
  <2>2. b \notin linked => nSequenceId[b] = 0
    BY <2>1 DEF Links
  <2>3. HasMissing(b) <=> b \notin linked
    BY <2>1, LinkedChain, ChainSelf DEF HasMissing, Types, TypeOK
  <2>4. FailedMaskJustified(b)
    BY <2>1 DEF FailedMaskJustified, Marks
  <2>5. CASE b \notin linked
    <3>1. b \notin setBlockIndexCandidates
      BY <2>1, <2>5 DEF Types, TypeOK
    <3>2. b \in haveData <=> b \in mapBlocksUnlinked
      BY <2>1, <2>5 DEF Links
    <3>. QED BY <3>1, <3>2, <2>2, <2>3, <2>4, <2>5
  <2>6. CASE b \in linked
    <3>1. Worse(b, tip) => b \notin setBlockIndexCandidates
      BY <2>1 DEF Candidates
    <3>2. ~Worse(b, tip) => HasInvalid(b) \/ b \in setBlockIndexCandidates
      BY <2>1, <2>6 DEF Candidates, Marks
    <3>3. b \notin mapBlocksUnlinked
      BY <2>1, <2>6 DEF Links
    <3>. QED BY <3>1, <3>2, <3>3, <2>2, <2>3, <2>4, <2>6
  <2>. QED BY <2>5, <2>6
<1>. QED BY <1>1, Invariance, PTL

\* No block of the active chain is ever marked as failed, so FindMostWorkChain may
\* stop its search for failed blocks at the active chain.
THEOREM ChainStaysValid ==
    ASSUME QuietOperator
    PROVE  Spec => []ActiveChainValid
<1>1. IInv => ActiveChainValid
  BY DEF IInv, Sound, ActiveChainValid
<1>. QED BY <1>1, Invariance, PTL

\* A round of ActivateBestChain never ends on a worse tip than it found, whatever
\* invalid blocks its reorganisations run into.
THEOREM NoRoundLoses ==
    ASSUME QuietOperator
    PROVE  Spec => NoLosingReorg
<1>1. IInv /\ [Next]_vars => [~CsMainFree /\ CsMainFree' => ~Worse(tip', startingTip)]_vars
  <2>. SUFFICES ASSUME IInv, Next, ~CsMainFree, CsMainFree'
               PROVE  ~Worse(tip', startingTip)
    OBVIOUS
  <2>1. Find \/ ConnectTip \/ ConnectFails
    <3>1. ~Receive /\ ~Restart
      BY DEF Receive, AcceptBlock, AcceptDuplicate, AcceptBlockFails, Restart
    <3>2. ~Operator
      BY DEF Operator, InvalidateBlock, ReconsiderBlock, QuietOperator, CsMainFree
    <3>3. ~Begin /\ ~LockCsMain /\ ~Finish
      BY DEF Begin, LockCsMain, Finish, CsMainFree
    <3>4. ~FindDiscards /\ ~Disconnect
      BY DEF FindDiscards, Disconnect, CsMainFree, abcVars
    <3>. QED BY <3>1, <3>2, <3>3, <3>4 DEF Next, ActivateBestChain
  <2>2. CASE Find
    <3>1. pindexMostWork' = tip
      BY <2>2, FindFinds, TreeAssumption DEF Find, CsMainFree
    <3>. QED BY <3>1, <2>2, FindFinds DEF Find
  <2>3. CASE ConnectTip
    BY <2>3 DEF ConnectTip, AfterStep, CsMainFree
  <2>4. CASE ConnectFails
    BY <2>4 DEF ConnectFails, AfterStep, CsMainFree
  <2>. QED BY <2>1, <2>2, <2>3, <2>4
<1>. QED BY <1>1, Invariance, PTL DEF Spec, NoLosingReorg

=============================================================================
