---------------------------- MODULE CoinsProofs -----------------------------
(***************************************************************************)
(* The coins on disk and in memory, for any constants.                     *)
(*                                                                         *)
(* ChainstateFlush: after any crashes the coins are those of the best      *)
(* block, and an interrupted flush can be completed.  The argument is that *)
(* between two head blocks each coin on the disk is that of the new tip or *)
(* that of the old one, and that undoing and applying blocks moves every   *)
(* such mixture along the tree.                                            *)
(*                                                                         *)
(* CoinsCache: the flags of the entries are sound, no std::logic_error is  *)
(* thrown, and the caches implement UtxoLedger.                            *)
(***************************************************************************)
EXTENDS CoinsCache, ChainOnDisk, Integers, Sequences, WellFoundedInduction,
        NaturalsInduction, TLAPS

(* ChainstateFlush *)

(* A set of numbers that is not empty has a least one.                     *)
LEMMA Least ==
    ASSUME NEW S \in SUBSET Nat, S # {}
    PROVE  \E x \in S : \A y \in S : x <= y
<1>1. PICK x \in S : \A y \in S : ~(<<y, x>> \in OpToRel(<, Nat))
  BY NatLessThanWellFounded, WFMin, Zenon
<1>2. \A y \in S : x <= y
  <2>. SUFFICES ASSUME NEW y \in S, y < x PROVE FALSE
    OBVIOUS
  <2>1. <<y, x>> \in OpToRel(<, Nat) BY DEF OpToRel
  <2>. QED BY <2>1, <1>1, Zenon
<1>. QED BY <1>2

(* What holds of 0 and passes from i - 1 to i holds up to n: the induction *)
(* behind every loop.                                                      *)
LEMMA CountUp ==
    ASSUME NEW n \in Nat, NEW S, 0 \in S, \A i \in 1..n : i - 1 \in S => i \in S
    PROVE  \A i \in 0..n : i \in S
<1> SUFFICES ASSUME NEW j \in 0..n, j \notin S PROVE FALSE
  OBVIOUS
<1>1. PICK x \in (0..n) \ S : \A y \in (0..n) \ S : x <= y
  <2>1. (0..n) \ S \in SUBSET Nat /\ (0..n) \ S # {}
    OBVIOUS
  <2> QED BY <2>1, Least, Zenon
<1>2. x # 0 /\ x \in 1..n /\ x - 1 \in 0..n /\ ~(x <= x - 1)
  BY <1>1
<1>3. x - 1 \in S
  BY <1>1, <1>2
<1> QED BY <1>1, <1>2, <1>3

(* F has a step for each of n turns, from states in W to states in W.      *)
Steps(n, W, F) == F \in [1..n -> [W -> W]]

(* There is a run of n turns of F from w.                                  *)
HasRun(n, W, w, F) == \E g \in [0..n -> W] : g[0] = w /\ \A i \in 1..n : g[i] = F[i][g[i - 1]]

(* Every such loop has a run, so a recursive function that is defined by   *)
(* one is what it says.                                                    *)
LEMMA RunExists ==
    ASSUME NEW n \in Nat, NEW W, NEW w \in W, NEW F, Steps(n, W, F)
    PROVE  HasRun(n, W, w, F)
<1> F \in [1..n -> [W -> W]]
  BY DEF Steps
<1> DEFINE Good(k) == \E g \in [0..n -> W] : \A i \in 0..k : g[i] = IF i = 0 THEN w ELSE F[i][g[i - 1]]
           S == {k \in 0..n : Good(k)}
<1>1. 0 \in S
  <2>1. [i \in 0..n |-> w] \in [0..n -> W] /\ \A i \in 0..0 : i = 0 /\ [j \in 0..n |-> w][i] = w
    OBVIOUS
  <2>2. Good(0)
    BY <2>1, Zenon
  <2> QED BY <2>2
<1>2. ASSUME NEW k \in 1..n, k - 1 \in S PROVE k \in S
  <2>1. PICK g \in [0..n -> W] : \A i \in 0..(k - 1) : g[i] = IF i = 0 THEN w ELSE F[i][g[i - 1]]
    BY <1>2
  <2> DEFINE h == [g EXCEPT ![k] = F[k][g[k - 1]]]
  <2>2. h \in [0..n -> W]
    OBVIOUS
  <2>3. ASSUME NEW i \in 0..k PROVE h[i] = IF i = 0 THEN w ELSE F[i][h[i - 1]]
    <3>1. CASE i = k
      BY <3>1
    <3>2. CASE i # k
      BY <2>1, <3>2
    <3> QED BY <3>1, <3>2
  <2>4. Good(k)
    <3> HIDE DEF h
    <3> QED BY <2>2, <2>3, Zenon
  <2> QED BY <2>4
<1>3. n \in S
  <2> HIDE DEF S
  <2>1. \A k \in 1..n : k - 1 \in S => k \in S
    BY <1>2
  <2>2. \A i \in 0..n : i \in S
    BY <1>1, <2>1, CountUp, Zenon
  <2> QED BY <2>2
<1>4. PICK g \in [0..n -> W] : \A i \in 0..n : g[i] = IF i = 0 THEN w ELSE F[i][g[i - 1]]
  BY <1>3
<1>5. g[0] = w /\ \A i \in 1..n : g[i] = F[i][g[i - 1]]
  BY <1>4
<1> QED BY <1>5 DEF HasRun

-----------------------------------------------------------------------------
(* F has a step for every block, from states in W to states in W.          *)
TreeSteps(W, F) == F \in [DiskBlocks -> [W -> W]]

(* There is a state for every block, each the step from that of its        *)
(* parent.                                                                 *)
HasTreeRun(W, w, F) ==
    \E g \in [DiskBlocks -> W] :
        \A b \in DiskBlocks : g[b] = IF b = DiskGenesis THEN w ELSE F[b][g[DiskParent[b]]]

(* The heights of the blocks; only the genesis block has height 0.         *)
LEMMA TreeFacts ==
    ASSUME Disk!IsTree
    PROVE  /\ DiskGenesis \in DiskBlocks /\ NullBlock \notin DiskBlocks /\ DiskMaxHeight \in Nat /\ DiskHeight[DiskGenesis] = 0
           /\ \A b \in DiskBlocks : DiskHeight[b] \in 0 .. DiskMaxHeight /\ DiskHeight[b] <= DiskMaxHeight
           /\ \A b \in DiskBlocks : DiskHeight[b] = 0 => b = DiskGenesis
<1>1. /\ DiskGenesis \in DiskBlocks /\ NullBlock \notin DiskBlocks /\ DiskMaxHeight \in Nat /\ DiskHeight[DiskGenesis] = 0
      /\ DiskHeight \in [DiskBlocks -> 0 .. DiskMaxHeight]
      /\ DiskParent \in [DiskBlocks \ {DiskGenesis} -> DiskBlocks]
      /\ \A b \in DiskBlocks \ {DiskGenesis} : DiskHeight[b] = DiskHeight[DiskParent[b]] + 1
  BY Zenon DEF Disk!IsTree
<1> QED BY <1>1

(* The parent of a block is one below it.                                  *)
LEMMA Below ==
    ASSUME Disk!IsTree, NEW b \in DiskBlocks, b # DiskGenesis
    PROVE  /\ DiskParent[b] \in DiskBlocks /\ DiskHeight[b] \in 1 .. DiskMaxHeight
           /\ DiskHeight[DiskParent[b]] = DiskHeight[b] - 1 /\ DiskHeight[DiskParent[b]] \in 0 .. DiskMaxHeight
<1>1. DiskParent[b] \in DiskBlocks /\ DiskHeight[b] = DiskHeight[DiskParent[b]] + 1
  BY DEF Disk!IsTree
<1>2. DiskHeight[b] \in 0 .. DiskMaxHeight /\ DiskHeight[DiskParent[b]] \in 0 .. DiskMaxHeight /\ DiskMaxHeight \in Nat
  BY <1>1 DEF Disk!IsTree
<1> QED BY <1>1, <1>2

(* What is defined from a block's parent is defined on the whole tree, as  *)
(* heights are bounded.                                                    *)
LEMMA TreeRunExists ==
    ASSUME Disk!IsTree, NEW W, NEW w \in W, NEW F, TreeSteps(W, F)
    PROVE  HasTreeRun(W, w, F)
<1>0. F \in [DiskBlocks -> [W -> W]] /\ DiskMaxHeight \in Nat /\ DiskHeight[DiskGenesis] = 0 /\ DiskGenesis \in DiskBlocks
  BY DEF TreeSteps, Disk!IsTree
<1> DEFINE At(g, b) == g[b] = IF b = DiskGenesis THEN w ELSE F[b][g[DiskParent[b]]]
           Good(k) == \E g \in [DiskBlocks -> W] : \A b \in DiskBlocks : DiskHeight[b] <= k => At(g, b)
           S == {k \in 0 .. DiskMaxHeight : Good(k)}
<1>1. 0 \in S
  <2>1. [b \in DiskBlocks |-> w] \in [DiskBlocks -> W]
    OBVIOUS
  <2>2. ASSUME NEW b \in DiskBlocks, DiskHeight[b] <= 0 PROVE b = DiskGenesis
    BY <2>2, TreeFacts
  <2>3. \A b \in DiskBlocks : DiskHeight[b] <= 0 => At([c \in DiskBlocks |-> w], b)
    BY <2>2
  <2>4. Good(0)
    BY <2>1, <2>3, Zenon
  <2> QED BY <1>0, <2>4
<1>2. ASSUME NEW k \in 1 .. DiskMaxHeight, k - 1 \in S PROVE k \in S
  <2>1. PICK g \in [DiskBlocks -> W] : \A b \in DiskBlocks : DiskHeight[b] <= k - 1 => At(g, b)
    BY <1>2
  <2> DEFINE h == [b \in DiskBlocks |-> IF b = DiskGenesis THEN w ELSE F[b][g[DiskParent[b]]]]
  <2>2. h \in [DiskBlocks -> W]
    <3>1. \A b \in DiskBlocks : b # DiskGenesis => DiskParent[b] \in DiskBlocks
      BY Below
    <3> QED BY <1>0, <3>1
  <2>3. ASSUME NEW b \in DiskBlocks, DiskHeight[b] <= k PROVE At(h, b)
    <3>1. CASE b = DiskGenesis
      BY <3>1
    <3>2. CASE b # DiskGenesis
      <4>1. DiskParent[b] \in DiskBlocks /\ DiskHeight[DiskParent[b]] <= k - 1
        BY <2>3, <3>2, Below, TreeFacts
      <4>2. h[DiskParent[b]] = g[DiskParent[b]]
        BY <2>1, <4>1
      <4> QED BY <3>2, <4>2
    <3> QED BY <3>1, <3>2
  <2>4. Good(k)
    <3> HIDE DEF h
    <3> QED BY <2>2, <2>3, Zenon
  <2> QED BY <2>4
<1>3. DiskMaxHeight \in S
  <2> HIDE DEF S
  <2>1. \A k \in 1 .. DiskMaxHeight : k - 1 \in S => k \in S
    BY <1>2
  <2>2. \A i \in 0 .. DiskMaxHeight : i \in S
    BY <1>0, <1>1, <2>1, CountUp, Zenon
  <2> QED BY <1>0, <2>2
<1>4. PICK g \in [DiskBlocks -> W] : \A b \in DiskBlocks : DiskHeight[b] <= DiskMaxHeight => At(g, b)
  BY <1>3
<1>5. \A b \in DiskBlocks : DiskHeight[b] <= DiskMaxHeight
  BY TreeFacts
<1> QED BY <1>4, <1>5 DEF HasTreeRun
-----------------------------------------------------------------------------
(* The coins a view can hold: for each outpoint the height of its          *)
(* creation, or Spent.                                                     *)
CoinViews == [DiskOutpoints -> 0 .. DiskMaxHeight]

(* A transaction takes a view to a view.                                   *)
LEMMA ApplyTxType ==
    ASSUME Disk!IsTree, NEW b \in DiskBlocks, NEW v \in CoinViews, NEW tx
    PROVE  Disk!ApplyTx(DiskHeight[b], v, tx) \in CoinViews
BY DEF Disk!ApplyTx, CoinViews, Disk!Spent, Disk!IsTree

(* ApplyTxs applies the transactions one by one.                           *)
LEMMA ApplyTxsSteps ==
    ASSUME Disk!IsTree, NEW b \in DiskBlocks, NEW v \in CoinViews
    PROVE  /\ Len(DiskTxs[b]) \in Nat
           /\ Disk!ApplyTxs(v, b, 0) = v
           /\ \A i \in 0 .. Len(DiskTxs[b]) : Disk!ApplyTxs(v, b, i) \in CoinViews
           /\ \A i \in 1 .. Len(DiskTxs[b]) :
                Disk!ApplyTxs(v, b, i) = Disk!ApplyTx(DiskHeight[b], Disk!ApplyTxs(v, b, i - 1), DiskTxs[b][i])
<1> DEFINE L == Len(DiskTxs[b])
           F == [i \in 1 .. L |-> [u \in CoinViews |-> Disk!ApplyTx(DiskHeight[b], u, DiskTxs[b][i])]]
<1>1. L \in Nat
  BY DEF Disk!IsTree
<1>2. PICK g \in [0 .. L -> CoinViews] : g[0] = v /\ \A i \in 1 .. L : g[i] = F[i][g[i - 1]]
  <2>1. F \in [1 .. L -> [CoinViews -> CoinViews]]
    BY ApplyTxType
  <2>2. Steps(L, CoinViews, F)
    BY <2>1, Zenon DEF Steps
  <2> HIDE DEF F, L
  <2>3. HasRun(L, CoinViews, v, F)
    BY <1>1, <2>2, RunExists, Zenon
  <2> QED BY <2>3, Zenon DEF HasRun
<1>3. ASSUME NEW i \in 1 .. L
      PROVE  i - 1 \in 0 .. L /\ g[i - 1] \in CoinViews /\ g[i] = Disk!ApplyTx(DiskHeight[b], g[i - 1], DiskTxs[b][i])
  <2>1. i - 1 \in 0 .. L
    BY <1>1
  <2> QED BY <1>2, <2>1
<1> HIDE DEF F
<1>4. ASSUME NEW m \in 0 .. L PROVE Disk!ApplyTxs(v, b, m) = g[m]
  <2> DEFINE applied[i \in 0 .. m] ==
               IF i = 0 THEN v ELSE Disk!ApplyTx(DiskHeight[b], applied[i - 1], DiskTxs[b][i])
  <2>1. Disk!ApplyTxs(v, b, m) = applied[m]
    BY DEF Disk!ApplyTxs
  <2>2. applied = [i \in 0 .. m |->
                     IF i = 0 THEN v ELSE Disk!ApplyTx(DiskHeight[b], applied[i - 1], DiskTxs[b][i])]
    <3> DEFINE f == [i \in 0 .. m |-> g[i]]
    <3>1. f = [i \in 0 .. m |->
                 IF i = 0 THEN v ELSE Disk!ApplyTx(DiskHeight[b], f[i - 1], DiskTxs[b][i])]
      <4>1. ASSUME NEW i \in 0 .. m
            PROVE  f[i] = IF i = 0 THEN v ELSE Disk!ApplyTx(DiskHeight[b], f[i - 1], DiskTxs[b][i])
        <5>1. CASE i = 0
          BY <1>2, <5>1
        <5>2. CASE i # 0
          <6>1. i \in 1 .. L /\ i - 1 \in 0 .. m
            BY <1>1, <5>2
          <6> QED BY <1>3, <5>2, <6>1
        <5> QED BY <5>1, <5>2
      <4> QED BY <4>1, Zenon
    <3> HIDE DEF f
    <3> QED BY <3>1
  <2> HIDE DEF applied
  <2> DEFINE S == {i \in 0 .. m : applied[i] = g[i]}
  <2>3. 0 \in S
    BY <1>1, <1>2, <2>2
  <2>4. ASSUME NEW i \in 1 .. m, i - 1 \in S PROVE i \in S
    <3>1. i \in 1 .. L /\ i \in 0 .. m /\ i # 0
      BY <1>1
    <3>2. applied[i] = Disk!ApplyTx(DiskHeight[b], applied[i - 1], DiskTxs[b][i])
      BY <2>2, <3>1
    <3>3. applied[i - 1] = g[i - 1]
      BY <2>4
    <3> QED BY <1>3, <3>1, <3>2, <3>3
  <2>5. m \in S
    <3>1. m \in Nat /\ m \in 0 .. m
      BY <1>1
    <3> HIDE DEF S
    <3>2. \A i \in 1 .. m : i - 1 \in S => i \in S
      BY <2>4
    <3> QED BY <2>3, <3>1, <3>2, CountUp, Zenon
  <2> QED BY <2>1, <2>5
<1>5. Disk!ApplyTxs(v, b, 0) = v
  BY <1>1, <1>2, <1>4
<1>6. \A i \in 0 .. L : Disk!ApplyTxs(v, b, i) \in CoinViews
  BY <1>2, <1>4
<1>7. \A i \in 1 .. L : Disk!ApplyTxs(v, b, i) = Disk!ApplyTx(DiskHeight[b], Disk!ApplyTxs(v, b, i - 1), DiskTxs[b][i])
  <2> SUFFICES ASSUME NEW i \in 1 .. L
               PROVE  Disk!ApplyTxs(v, b, i) = Disk!ApplyTx(DiskHeight[b], Disk!ApplyTxs(v, b, i - 1), DiskTxs[b][i])
    OBVIOUS
  <2>1. i \in 0 .. L
    BY <1>1
  <2> QED BY <1>3, <1>4, <2>1
<1> QED BY <1>1, <1>5, <1>6, <1>7
-----------------------------------------------------------------------------
(* Utxo gives the coins of a block from those of its parent.               *)
LEMMA UtxoRun ==
    ASSUME Disk!IsTree
    PROVE  /\ Disk!Utxo \in [DiskBlocks -> CoinViews] /\ Disk!Utxo[DiskGenesis] = Disk!NoCoins
           /\ \A b \in DiskBlocks : b # DiskGenesis => Disk!Utxo[b] = Disk!RollforwardBlock(Disk!Utxo[DiskParent[b]], b)
<1> DEFINE F == [b \in DiskBlocks |-> [v \in CoinViews |-> Disk!RollforwardBlock(v, b)]]
<1>0. DiskGenesis \in DiskBlocks /\ DiskMaxHeight \in Nat
  BY TreeFacts
<1>1. Disk!NoCoins \in CoinViews
  BY <1>0 DEF Disk!NoCoins, CoinViews, Disk!Spent
<1>2. \A b \in DiskBlocks : \A v \in CoinViews : Disk!RollforwardBlock(v, b) \in CoinViews
  <2> SUFFICES ASSUME NEW b \in DiskBlocks, NEW v \in CoinViews PROVE Disk!RollforwardBlock(v, b) \in CoinViews
    OBVIOUS
  <2>1. Len(DiskTxs[b]) \in Nat /\ \A i \in 0 .. Len(DiskTxs[b]) : Disk!ApplyTxs(v, b, i) \in CoinViews
    BY ApplyTxsSteps, Zenon
  <2> QED BY <2>1 DEF Disk!RollforwardBlock
<1>3. PICK g \in [DiskBlocks -> CoinViews] :
        \A b \in DiskBlocks : g[b] = IF b = DiskGenesis THEN Disk!NoCoins ELSE F[b][g[DiskParent[b]]]
  <2>1. F \in [DiskBlocks -> [CoinViews -> CoinViews]]
    BY <1>2
  <2>2. TreeSteps(CoinViews, F)
    BY <2>1, Zenon DEF TreeSteps
  <2> HIDE DEF F
  <2>3. HasTreeRun(CoinViews, Disk!NoCoins, F)
    BY <1>1, <2>2, TreeRunExists, Zenon
  <2> QED BY <2>3, Zenon DEF HasTreeRun
<1>4. g = [b \in DiskBlocks |-> IF b = DiskGenesis THEN Disk!NoCoins ELSE Disk!RollforwardBlock(g[DiskParent[b]], b)]
  <2>1. ASSUME NEW b \in DiskBlocks
        PROVE  g[b] = IF b = DiskGenesis THEN Disk!NoCoins ELSE Disk!RollforwardBlock(g[DiskParent[b]], b)
    <3>1. CASE b = DiskGenesis
      BY <1>3, <3>1
    <3>2. CASE b # DiskGenesis
      <4>1. DiskParent[b] \in DiskBlocks
        BY <3>2, Below
      <4>2. F[b][g[DiskParent[b]]] = Disk!RollforwardBlock(g[DiskParent[b]], b)
        BY <4>1
      <4> HIDE DEF F
      <4> QED BY <1>3, <3>2, <4>2
    <3> QED BY <3>1, <3>2
  <2>2. g = [b \in DiskBlocks |-> g[b]]
    OBVIOUS
  <2> QED BY <2>1, <2>2, Zenon
<1>5. Disk!Utxo = [b \in DiskBlocks |-> IF b = DiskGenesis THEN Disk!NoCoins ELSE Disk!RollforwardBlock(Disk!Utxo[DiskParent[b]], b)]
  <2> HIDE DEF F
  <2> QED BY <1>4 DEF Disk!Utxo
<1>6. \A b \in DiskBlocks : Disk!Utxo[b] = IF b = DiskGenesis THEN Disk!NoCoins ELSE Disk!RollforwardBlock(Disk!Utxo[DiskParent[b]], b)
  BY <1>5, Zenon
<1>7. Disk!Utxo \in [DiskBlocks -> CoinViews]
  <2> DEFINE S == {k \in 0 .. DiskMaxHeight : \A b \in DiskBlocks : DiskHeight[b] = k => Disk!Utxo[b] \in CoinViews}
  <2>1. 0 \in S
    <3>1. \A b \in DiskBlocks : DiskHeight[b] = 0 => b = DiskGenesis
      BY TreeFacts
    <3> QED BY <1>0, <1>1, <1>6, <3>1
  <2>2. ASSUME NEW k \in 1 .. DiskMaxHeight, k - 1 \in S PROVE k \in S
    <3> SUFFICES ASSUME NEW b \in DiskBlocks, DiskHeight[b] = k PROVE Disk!Utxo[b] \in CoinViews
      OBVIOUS
    <3>1. b # DiskGenesis
      BY TreeFacts
    <3>2. DiskParent[b] \in DiskBlocks /\ DiskHeight[DiskParent[b]] = k - 1
      BY <3>1, Below
    <3>3. Disk!Utxo[DiskParent[b]] \in CoinViews
      BY <2>2, <3>2
    <3> QED BY <1>2, <1>6, <3>1, <3>3
  <2>3. \A k \in 0 .. DiskMaxHeight : k \in S
    <3> HIDE DEF S
    <3>1. \A k \in 1 .. DiskMaxHeight : k - 1 \in S => k \in S
      BY <2>2
    <3> QED BY <1>0, <2>1, <3>1, CountUp, Zenon
  <2>4. ASSUME NEW b \in DiskBlocks PROVE Disk!Utxo[b] \in CoinViews
    <3>1. DiskHeight[b] \in 0 .. DiskMaxHeight
      BY TreeFacts
    <3> QED BY <2>3, <3>1
  <2>5. Disk!Utxo = [b \in DiskBlocks |-> Disk!Utxo[b]]
    BY <1>5, <1>6, Zenon
  <2> QED BY <2>4, <2>5
<1> QED BY <1>0, <1>6, <1>7

(* RollforwardBlock on any view leaves each coin either right for b or     *)
(* untouched, and then b does not concern it: the idempotence that the     *)
(* comment in ReplayBlocks counts on (validation.cpp:4054).                *)
LEMMA RollsForward ==
    ASSUME Disk!IsTree, NEW b \in DiskBlocks, b # DiskGenesis, NEW v \in CoinViews
    PROVE  /\ Disk!RollforwardBlock(v, b) \in CoinViews
           /\ \A o \in DiskOutpoints :
                \/ Disk!RollforwardBlock(v, b)[o] = Disk!Utxo[b][o]
                \/ Disk!RollforwardBlock(v, b)[o] = v[o] /\ Disk!Utxo[b][o] = Disk!Utxo[DiskParent[b]][o]
<1>0. PICK u \in CoinViews : u = Disk!Utxo[DiskParent[b]] /\ Disk!Utxo[b] = Disk!RollforwardBlock(u, b)
  <2>1. DiskParent[b] \in DiskBlocks
    BY Below
  <2> QED BY <2>1, UtxoRun
<1>1. PICK L \in Nat : L = Len(DiskTxs[b])
  BY ApplyTxsSteps
<1>2. /\ Disk!ApplyTxs(v, b, 0) = v
      /\ \A i \in 0 .. L : Disk!ApplyTxs(v, b, i) \in CoinViews
      /\ \A i \in 1 .. L : Disk!ApplyTxs(v, b, i) = Disk!ApplyTx(DiskHeight[b], Disk!ApplyTxs(v, b, i - 1), DiskTxs[b][i])
  BY <1>1, ApplyTxsSteps, Zenon
<1>3. /\ Disk!ApplyTxs(u, b, 0) = u
      /\ \A i \in 1 .. L : Disk!ApplyTxs(u, b, i) = Disk!ApplyTx(DiskHeight[b], Disk!ApplyTxs(u, b, i - 1), DiskTxs[b][i])
  BY <1>1, ApplyTxsSteps, Zenon
<1>4. ASSUME NEW o \in DiskOutpoints
      PROVE  \/ Disk!ApplyTxs(v, b, L)[o] = Disk!ApplyTxs(u, b, L)[o]
             \/ Disk!ApplyTxs(v, b, L)[o] = v[o] /\ Disk!ApplyTxs(u, b, L)[o] = u[o]
  <2> DEFINE Good(i) == \/ Disk!ApplyTxs(v, b, i)[o] = Disk!ApplyTxs(u, b, i)[o]
                        \/ Disk!ApplyTxs(v, b, i)[o] = v[o] /\ Disk!ApplyTxs(u, b, i)[o] = u[o]
             S == {i \in 0 .. L : Good(i)}
  <2>1. 0 \in S
    BY <1>2, <1>3
  <2>2. ASSUME NEW i \in 1 .. L, i - 1 \in S PROVE i \in S
    <3>1. Good(i - 1)
      BY <2>2
    <3>2. /\ Disk!ApplyTxs(v, b, i)[o] = Disk!ApplyTx(DiskHeight[b], Disk!ApplyTxs(v, b, i - 1), DiskTxs[b][i])[o]
          /\ Disk!ApplyTxs(u, b, i)[o] = Disk!ApplyTx(DiskHeight[b], Disk!ApplyTxs(u, b, i - 1), DiskTxs[b][i])[o]
      BY <1>2, <1>3
    <3>3. Good(i)
      BY <3>1, <3>2 DEF Disk!ApplyTx
    <3> QED BY <3>3
  <2>3. \A i \in 0 .. L : i \in S
    <3> HIDE DEF S
    <3>1. \A i \in 1 .. L : i - 1 \in S => i \in S
      BY <2>2
    <3> QED BY <2>1, <3>1, CountUp, Zenon
  <2> QED BY <2>3
<1>5. Disk!RollforwardBlock(v, b) = Disk!ApplyTxs(v, b, L) /\ Disk!RollforwardBlock(u, b) = Disk!ApplyTxs(u, b, L)
  BY <1>1, Zenon DEF Disk!RollforwardBlock
<1>6. Disk!RollforwardBlock(v, b) \in CoinViews
  BY <1>2, <1>5
<1> QED BY <1>0, <1>4, <1>5, <1>6, Zenon

(* Undoing b on any view leaves each coin either right for the parent of b *)
(* or untouched, and then b does not concern it (DisconnectBlock).         *)
LEMMA Undoes ==
    ASSUME Disk!IsTree, Disk!FreshOutputs, NEW b \in DiskBlocks, b # DiskGenesis, NEW v \in CoinViews
    PROVE  /\ Disk!UndoTxs(v, b, Len(DiskTxs[b])) \in CoinViews
           /\ \A o \in DiskOutpoints :
                \/ Disk!UndoTxs(v, b, Len(DiskTxs[b]))[o] = Disk!Utxo[DiskParent[b]][o]
                \/ Disk!UndoTxs(v, b, Len(DiskTxs[b]))[o] = v[o] /\ Disk!Utxo[b][o] = Disk!Utxo[DiskParent[b]][o]
<1>0. PICK u \in CoinViews : u = Disk!Utxo[DiskParent[b]] /\ Disk!Utxo[b] = Disk!RollforwardBlock(u, b)
  <2>1. DiskParent[b] \in DiskBlocks
    BY Below
  <2> QED BY <2>1, UtxoRun
<1>1. PICK L \in Nat : L = Len(DiskTxs[b]) /\ DOMAIN DiskTxs[b] = 1 .. L
  <2>1. DiskTxs[b] \in Seq([vin : SUBSET DiskOutpoints, vout : SUBSET DiskOutpoints, nfs : SUBSET DiskNullifiers])
    BY Zenon DEF Disk!IsTree
  <2> QED BY <2>1
<1>2. /\ Disk!ApplyTxs(u, b, 0) = u
      /\ \A i \in 0 .. L : Disk!ApplyTxs(u, b, i) \in CoinViews
      /\ \A i \in 1 .. L : Disk!ApplyTxs(u, b, i) = Disk!ApplyTx(DiskHeight[b], Disk!ApplyTxs(u, b, i - 1), DiskTxs[b][i])
  BY <1>1, ApplyTxsSteps, Zenon
<1>3. ASSUME NEW i \in 1 .. L, NEW o \in DiskTxs[b][i].vout \ DiskTxs[b][i].vin
      PROVE  Disk!ApplyTxs(u, b, i - 1)[o] = Disk!Spent
  BY <1>0, <1>1, Zenon DEF Disk!FreshOutputs
<1>4. ASSUME NEW i \in 1 .. L, NEW w \in CoinViews
      PROVE  Disk!UndoTx(b, w, i) \in CoinViews
  <2>1. i - 1 \in 0 .. L
    OBVIOUS
  <2>2. Disk!ApplyTxs(u, b, i - 1) \in CoinViews
    BY <1>2, <2>1
  <2>3. \A o \in DiskOutpoints : Disk!ApplyTxInUndo(b, i, o) = Disk!ApplyTxs(u, b, i - 1)[o]
    BY <1>0 DEF Disk!ApplyTxInUndo
  <2>4. DiskMaxHeight \in Nat
    BY TreeFacts
  <2>5. \A o \in DiskOutpoints : Disk!ApplyTxInUndo(b, i, o) \in 0 .. DiskMaxHeight /\ w[o] \in 0 .. DiskMaxHeight /\ Disk!Spent \in 0 .. DiskMaxHeight
    BY <2>2, <2>3, <2>4 DEF CoinViews, Disk!Spent
  <2> QED BY <2>5 DEF Disk!UndoTx, CoinViews
<1> DEFINE F == [k \in 1 .. L |-> [w \in CoinViews |-> Disk!UndoTx(b, w, L + 1 - k)]]
           undone[k \in 0 .. L] == IF k = 0 THEN v ELSE Disk!UndoTx(b, undone[k - 1], L + 1 - k)
<1>5. Disk!UndoTxs(v, b, Len(DiskTxs[b])) = undone[L]
  BY <1>1 DEF Disk!UndoTxs
<1>6. PICK g \in [0 .. L -> CoinViews] : g[0] = v /\ \A k \in 1 .. L : g[k] = F[k][g[k - 1]]
  <2>1. F \in [1 .. L -> [CoinViews -> CoinViews]]
    <3>1. \A k \in 1 .. L : L + 1 - k \in 1 .. L
      OBVIOUS
    <3> QED BY <1>4, <3>1
  <2>2. Steps(L, CoinViews, F)
    BY <2>1, Zenon DEF Steps
  <2> HIDE DEF F
  <2>3. HasRun(L, CoinViews, v, F)
    BY <2>2, RunExists, Zenon
  <2> QED BY <2>3, Zenon DEF HasRun
<1>7. g = [k \in 0 .. L |-> IF k = 0 THEN v ELSE Disk!UndoTx(b, g[k - 1], L + 1 - k)]
  <2>1. ASSUME NEW k \in 0 .. L
        PROVE  g[k] = IF k = 0 THEN v ELSE Disk!UndoTx(b, g[k - 1], L + 1 - k)
    <3>1. CASE k = 0
      BY <1>6, <3>1
    <3>2. CASE k # 0
      <4>1. k \in 1 .. L /\ k - 1 \in 0 .. L
        BY <3>2
      <4>2. g[k - 1] \in CoinViews
        BY <4>1
      <4>3. F[k][g[k - 1]] = Disk!UndoTx(b, g[k - 1], L + 1 - k)
        BY <4>1, <4>2
      <4> HIDE DEF F
      <4> QED BY <1>6, <3>2, <4>1, <4>3
    <3> QED BY <3>1, <3>2
  <2>2. g = [k \in 0 .. L |-> g[k]]
    OBVIOUS
  <2> QED BY <2>1, <2>2, Zenon
<1>8. undone = [k \in 0 .. L |-> IF k = 0 THEN v ELSE Disk!UndoTx(b, undone[k - 1], L + 1 - k)]
  <2> HIDE DEF F
  <2> QED BY <1>7
<1> HIDE DEF undone, F
<1> DEFINE Good(k) ==
             /\ undone[k] \in CoinViews
             /\ \A o \in DiskOutpoints :
                  \/ undone[k][o] = Disk!ApplyTxs(u, b, L - k)[o]
                  \/ undone[k][o] = v[o] /\ Disk!ApplyTxs(u, b, L)[o] = Disk!ApplyTxs(u, b, L - k)[o]
           S == {k \in 0 .. L : Good(k)}
<1>9. 0 \in S
  <2>1. undone[0] = v /\ L - 0 = L
    BY <1>8
  <2> QED BY <2>1
<1>10. ASSUME NEW k \in 1 .. L, k - 1 \in S PROVE k \in S
  <2>1. PICK i \in 1 .. L : i = L + 1 - k /\ i = L - (k - 1) /\ i - 1 = L - k
    OBVIOUS
  <2>2. k \in 0 .. L /\ k # 0
    OBVIOUS
  <2>3. undone[k] = Disk!UndoTx(b, undone[k - 1], i)
    BY <1>8, <2>1, <2>2
  <2>4. /\ undone[k - 1] \in CoinViews
        /\ \A o \in DiskOutpoints :
             \/ undone[k - 1][o] = Disk!ApplyTxs(u, b, i)[o]
             \/ undone[k - 1][o] = v[o] /\ Disk!ApplyTxs(u, b, L)[o] = Disk!ApplyTxs(u, b, i)[o]
    BY <1>10, <2>1
  <2>5. undone[k] \in CoinViews
    BY <1>4, <2>3, <2>4
  <2>6. ASSUME NEW o \in DiskOutpoints
        PROVE  \/ undone[k][o] = Disk!ApplyTxs(u, b, i - 1)[o]
               \/ undone[k][o] = v[o] /\ Disk!ApplyTxs(u, b, L)[o] = Disk!ApplyTxs(u, b, i - 1)[o]
    <3>1. CASE o \in DiskTxs[b][i].vin
      <4>1. undone[k][o] = Disk!ApplyTxInUndo(b, i, o)
        BY <2>3, <3>1 DEF Disk!UndoTx
      <4> QED BY <1>0, <4>1 DEF Disk!ApplyTxInUndo
    <3>2. CASE o \in DiskTxs[b][i].vout \ DiskTxs[b][i].vin
      <4>1. undone[k][o] = Disk!Spent
        BY <2>3, <3>2 DEF Disk!UndoTx
      <4> QED BY <1>3, <3>2, <4>1
    <3>3. CASE o \notin DiskTxs[b][i].vin \cup DiskTxs[b][i].vout
      <4>1. undone[k][o] = undone[k - 1][o]
        BY <2>3, <3>3 DEF Disk!UndoTx
      <4>2. Disk!ApplyTxs(u, b, i)[o] = Disk!ApplyTxs(u, b, i - 1)[o]
        BY <1>2, <3>3 DEF Disk!ApplyTx
      <4> QED BY <2>4, <4>1, <4>2
    <3> QED BY <3>1, <3>2, <3>3
  <2>7. Good(k)
    BY <2>1, <2>5, <2>6
  <2> QED BY <2>2, <2>7
<1>11. Good(L)
  <2> HIDE DEF S
  <2>1. \A k \in 1 .. L : k - 1 \in S => k \in S
    BY <1>10
  <2>2. \A k \in 0 .. L : k \in S
    BY <1>9, <2>1, CountUp, Zenon
  <2>3. L \in S
    BY <2>2
  <2> USE DEF S
  <2> QED BY <2>3
<1>12. L - L = 0 /\ Disk!Utxo[b] = Disk!ApplyTxs(u, b, L)
  BY <1>0, <1>1 DEF Disk!RollforwardBlock
<1> QED BY <1>0, <1>2, <1>5, <1>11, <1>12
-----------------------------------------------------------------------------
(* A set of numbers up to n that is not empty has a greatest one.          *)
LEMMA Greatest ==
    ASSUME NEW n \in Nat, NEW S \in SUBSET (0 .. n), S # {}
    PROVE  \E x \in S : \A y \in S : y <= x
<1> DEFINE R == {n - y : y \in S}
<1>1. R \in SUBSET Nat /\ R # {}
  <2>1. \A y \in S : n - y \in Nat
    OBVIOUS
  <2>2. R \in SUBSET Nat
    BY <2>1, Zenon
  <2>3. R # {}
    BY Zenon
  <2> QED BY <2>2, <2>3
<1>2. PICK r \in R : \A q \in R : r <= q
  <2> HIDE DEF R
  <2> QED BY <1>1, Least, Zenon
<1>3. PICK x \in S : r = n - x
  BY <1>2
<1>4. ASSUME NEW y \in S PROVE y <= x
  <2>1. n - x <= n - y
    BY <1>2, <1>3
  <2>2. x \in 0 .. n /\ y \in 0 .. n
    OBVIOUS
  <2> HIDE DEF R
  <2> QED BY <2>1, <2>2
<1> QED BY <1>4

(* GetAncestor walks down pprev.                                           *)
LEMMA AncestorRun ==
    ASSUME Disk!IsTree
    PROVE  \A b \in DiskBlocks : \A h \in 0 .. DiskMaxHeight :
             Disk!GetAncestor[b][h] = IF h > DiskHeight[b] THEN NullBlock
                                      ELSE IF h = DiskHeight[b] THEN b
                                      ELSE Disk!GetAncestor[DiskParent[b]][h]
<1> DEFINE W == [0 .. DiskMaxHeight -> DiskBlocks \cup {NullBlock}]
           w == [h \in 0 .. DiskMaxHeight |-> IF h = 0 THEN DiskGenesis ELSE NullBlock]
           Up(b, s) == [h \in 0 .. DiskMaxHeight |-> IF h > DiskHeight[b] THEN NullBlock
                                                   ELSE IF h = DiskHeight[b] THEN b ELSE s[h]]
           F == [b \in DiskBlocks |-> [s \in W |-> Up(b, s)]]
<1>1. DiskGenesis \in DiskBlocks /\ DiskMaxHeight \in Nat /\ DiskHeight[DiskGenesis] = 0
  BY TreeFacts
<1>2. PICK g \in [DiskBlocks -> W] : \A b \in DiskBlocks : g[b] = IF b = DiskGenesis THEN w ELSE F[b][g[DiskParent[b]]]
  <2>1. F \in [DiskBlocks -> [W -> W]]
    OBVIOUS
  <2>2. w \in W
    BY <1>1
  <2>3. TreeSteps(W, F)
    BY <2>1, Zenon DEF TreeSteps
  <2> HIDE DEF W, F, w
  <2>4. HasTreeRun(W, w, F)
    BY <2>2, <2>3, TreeRunExists, Zenon
  <2> QED BY <2>4, Zenon DEF HasTreeRun
<1>3. ASSUME NEW b \in DiskBlocks PROVE g[b] = Up(b, g[DiskParent[b]])
  <2>1. CASE b = DiskGenesis
    <3>1. g[b] = w
      BY <1>2, <2>1
    <3>2. ASSUME NEW h \in 0 .. DiskMaxHeight
          PROVE  w[h] = Up(b, g[DiskParent[b]])[h]
      BY <1>1, <2>1
    <3>3. w = [h \in 0 .. DiskMaxHeight |-> w[h]] /\ Up(b, g[DiskParent[b]]) = [h \in 0 .. DiskMaxHeight |-> Up(b, g[DiskParent[b]])[h]]
      OBVIOUS
    <3> HIDE DEF w, Up, F
    <3> QED BY <3>1, <3>2, <3>3, Zenon
  <2>2. CASE b # DiskGenesis
    <3>1. DiskParent[b] \in DiskBlocks
      BY <2>2, Below
    <3>2. g[DiskParent[b]] \in W
      BY <3>1
    <3>3. g[b] = F[b][g[DiskParent[b]]]
      <4> HIDE DEF F, W, w
      <4> QED BY <1>2, <2>2
    <3> HIDE DEF W, w
    <3> QED BY <3>2, <3>3
  <2> QED BY <2>1, <2>2
<1>4. g = [b \in DiskBlocks |-> [h \in 0 .. DiskMaxHeight |-> IF h > DiskHeight[b] THEN NullBlock
                                                            ELSE IF h = DiskHeight[b] THEN b
                                                            ELSE g[DiskParent[b]][h]]]
  <2>1. g = [b \in DiskBlocks |-> g[b]]
    OBVIOUS
  <2> HIDE DEF F, W, w
  <2> QED BY <1>3, <2>1, Zenon
<1>5. Disk!GetAncestor = [b \in DiskBlocks |-> [h \in 0 .. DiskMaxHeight |-> IF h > DiskHeight[b] THEN NullBlock
                                                                           ELSE IF h = DiskHeight[b] THEN b
                                                                           ELSE Disk!GetAncestor[DiskParent[b]][h]]]
  <2> HIDE DEF F, W, w, Up
  <2> QED BY <1>4 DEF Disk!GetAncestor
<1> HIDE DEF F, W, w, Up
<1>6. ASSUME NEW b \in DiskBlocks
      PROVE  Disk!GetAncestor[b] = [h \in 0 .. DiskMaxHeight |-> IF h > DiskHeight[b] THEN NullBlock
                                                                ELSE IF h = DiskHeight[b] THEN b
                                                                ELSE Disk!GetAncestor[DiskParent[b]][h]]
  BY <1>5, Zenon
<1>7. ASSUME NEW b \in DiskBlocks, NEW h \in 0 .. DiskMaxHeight
      PROVE  Disk!GetAncestor[b][h] = IF h > DiskHeight[b] THEN NullBlock
                                      ELSE IF h = DiskHeight[b] THEN b
                                      ELSE Disk!GetAncestor[DiskParent[b]][h]
  <2>1. PICK below : below = Disk!GetAncestor[DiskParent[b]]
    OBVIOUS
  <2>2. Disk!GetAncestor[b] = [k \in 0 .. DiskMaxHeight |-> IF k > DiskHeight[b] THEN NullBlock
                                                           ELSE IF k = DiskHeight[b] THEN b ELSE below[k]]
    BY <1>6, <2>1, Zenon
  <2> QED BY <2>1, <2>2, Zenon
<1> QED BY <1>7, Zenon

(* The chain of a block: one block of each height, each the parent of the  *)
(* next.                                                                   *)
LEMMA ChainBlocks ==
    ASSUME Disk!IsTree, NEW b \in DiskBlocks
    PROVE  /\ Disk!GetAncestor[b][0] = DiskGenesis /\ Disk!GetAncestor[b][DiskHeight[b]] = b
           /\ \A h \in 0 .. DiskMaxHeight : h > DiskHeight[b] => Disk!GetAncestor[b][h] = NullBlock
           /\ \A h \in 0 .. DiskHeight[b] : Disk!GetAncestor[b][h] \in DiskBlocks /\ DiskHeight[Disk!GetAncestor[b][h]] = h
           /\ \A h \in 1 .. DiskHeight[b] : DiskParent[Disk!GetAncestor[b][h]] = Disk!GetAncestor[b][h - 1]
<1> DEFINE Good(c) ==
             /\ Disk!GetAncestor[c][0] = DiskGenesis
             /\ \A h \in 0 .. DiskHeight[c] : Disk!GetAncestor[c][h] \in DiskBlocks /\ DiskHeight[Disk!GetAncestor[c][h]] = h
             /\ \A h \in 1 .. DiskHeight[c] : DiskParent[Disk!GetAncestor[c][h]] = Disk!GetAncestor[c][h - 1]
           S == {k \in 0 .. DiskMaxHeight : \A c \in DiskBlocks : DiskHeight[c] = k => Good(c)}
<1>0. DiskGenesis \in DiskBlocks /\ DiskMaxHeight \in Nat /\ DiskHeight[DiskGenesis] = 0
  BY TreeFacts
<1>1. ASSUME NEW c \in DiskBlocks PROVE DiskHeight[c] \in 0 .. DiskMaxHeight /\ Disk!GetAncestor[c][DiskHeight[c]] = c
  <2>1. DiskHeight[c] \in 0 .. DiskMaxHeight
    BY TreeFacts
  <2> QED BY <1>0, <2>1, AncestorRun
<1>2. 0 \in S
  <2> SUFFICES ASSUME NEW c \in DiskBlocks, DiskHeight[c] = 0 PROVE Good(c)
    BY <1>0
  <2>1. c = DiskGenesis
    BY TreeFacts
  <2> QED BY <1>0, <1>1, <2>1
<1>3. ASSUME NEW k \in 1 .. DiskMaxHeight, k - 1 \in S PROVE k \in S
  <2> SUFFICES ASSUME NEW c \in DiskBlocks, DiskHeight[c] = k PROVE Good(c)
    OBVIOUS
  <2>1. c # DiskGenesis
    BY <1>0
  <2>2. PICK p \in DiskBlocks : p = DiskParent[c] /\ DiskHeight[p] = k - 1
    BY <2>1, Below
  <2>3. /\ Disk!GetAncestor[p][0] = DiskGenesis
        /\ \A h \in 0 .. k - 1 : Disk!GetAncestor[p][h] \in DiskBlocks /\ DiskHeight[Disk!GetAncestor[p][h]] = h
        /\ \A h \in 1 .. k - 1 : DiskParent[Disk!GetAncestor[p][h]] = Disk!GetAncestor[p][h - 1]
    BY <1>3, <2>2
  <2>4. ASSUME NEW h \in 0 .. k - 1 PROVE Disk!GetAncestor[c][h] = Disk!GetAncestor[p][h]
    <3>1. h \in 0 .. DiskMaxHeight /\ ~(h > DiskHeight[c]) /\ h # DiskHeight[c]
      BY <1>0
    <3> QED BY <2>2, <3>1, AncestorRun
  <2>5. Disk!GetAncestor[c][k] = c /\ Disk!GetAncestor[p][k - 1] = p
    BY <1>1, <2>2
  <2>6. Disk!GetAncestor[c][0] = DiskGenesis
    BY <2>3, <2>4
  <2>7. ASSUME NEW h \in 0 .. k PROVE Disk!GetAncestor[c][h] \in DiskBlocks /\ DiskHeight[Disk!GetAncestor[c][h]] = h
    <3>1. CASE h = k
      BY <2>5, <3>1
    <3>2. CASE h # k
      <4>1. h \in 0 .. k - 1
        BY <3>2
      <4> QED BY <2>3, <2>4, <4>1
    <3> QED BY <3>1, <3>2
  <2>8. ASSUME NEW h \in 1 .. k PROVE DiskParent[Disk!GetAncestor[c][h]] = Disk!GetAncestor[c][h - 1]
    <3>0. h - 1 \in 0 .. k - 1
      OBVIOUS
    <3>1. CASE h = k
      BY <2>2, <2>4, <2>5, <3>0, <3>1
    <3>2. CASE h # k
      <4>1. h \in 1 .. k - 1 /\ h \in 0 .. k - 1
        BY <3>2
      <4> QED BY <2>3, <2>4, <3>0, <4>1
    <3> QED BY <3>1, <3>2
  <2> QED BY <2>6, <2>7, <2>8
<1>4. Good(b)
  <2>1. \A k \in 0 .. DiskMaxHeight : k \in S
    <3> HIDE DEF S
    <3>1. \A k \in 1 .. DiskMaxHeight : k - 1 \in S => k \in S
      BY <1>3
    <3> QED BY <1>0, <1>2, <3>1, CountUp, Zenon
  <2>2. DiskHeight[b] \in S
    <3> HIDE DEF S
    <3> QED BY <1>1, <2>1
  <2> HIDE DEF Good
  <2> QED BY <2>2
<1>5. \A h \in 0 .. DiskMaxHeight : h > DiskHeight[b] => Disk!GetAncestor[b][h] = NullBlock
  BY AncestorRun
<1> QED BY <1>1, <1>4, <1>5

(* The fork of two branches is on both (LastCommonAncestor).               *)
LEMMA Fork ==
    ASSUME Disk!IsTree, NEW old \in DiskBlocks, NEW new \in DiskBlocks
    PROVE  /\ Disk!nForkHeight(old, new) \in 0 .. DiskHeight[old]
           /\ Disk!nForkHeight(old, new) \in 0 .. DiskHeight[new]
           /\ Disk!GetAncestor[old][Disk!nForkHeight(old, new)] = Disk!GetAncestor[new][Disk!nForkHeight(old, new)]
<1> DEFINE common == {h \in 0 .. DiskHeight[new] : Disk!GetAncestor[old][h] = Disk!GetAncestor[new][h]}
<1>1. DiskHeight[new] \in Nat /\ DiskHeight[old] \in Nat /\ DiskHeight[new] <= DiskMaxHeight /\ DiskMaxHeight \in Nat
  BY TreeFacts
<1>2. Disk!nForkHeight(old, new) = CHOOSE h \in common : \A k \in common : k <= h
  BY TreeFacts DEF Disk!nForkHeight
<1>3. 0 \in common
  BY <1>1, ChainBlocks
<1>4. \E h \in common : \A k \in common : k <= h
  <2>1. common \in SUBSET (0 .. DiskHeight[new]) /\ common # {}
    BY <1>3
  <2> HIDE DEF common
  <2> QED BY <1>1, <2>1, Greatest, Zenon
<1>5. Disk!nForkHeight(old, new) \in common
  <2> HIDE DEF common
  <2> QED BY <1>2, <1>4
<1>6. PICK h \in common : h = Disk!nForkHeight(old, new)
  BY <1>5
<1>7. h \in 0 .. DiskHeight[new] /\ Disk!GetAncestor[old][h] = Disk!GetAncestor[new][h] /\ h \in 0 .. DiskMaxHeight
  BY <1>1
<1>8. Disk!GetAncestor[new][h] # NullBlock
  BY <1>7, ChainBlocks, TreeFacts
<1>9. ~(h > DiskHeight[old])
  BY <1>7, <1>8, ChainBlocks
<1> HIDE DEF common
<1> QED BY <1>1, <1>6, <1>7, <1>9
-----------------------------------------------------------------------------
(* The three parts of a view of the chainstate.                            *)
DiskViews == [coins : CoinViews, nfs : SUBSET DiskNullifiers, anchor : SUBSET DiskNotes]

(* Each coin of v is as in x or as in y.                                   *)
Between(v, x, y) == \A o \in DiskOutpoints : v[o] = x[o] \/ v[o] = y[o]

(* A mixture of anything and the coins of b becomes one of it and the      *)
(* coins of b's parent.                                                    *)
LEMMA DisconnectsBlock ==
    ASSUME Disk!IsTree, Disk!FreshOutputs, NEW b \in DiskBlocks, b # DiskGenesis, NEW vw \in DiskViews
    PROVE  /\ Disk!DisconnectBlock(vw, b) \in DiskViews
           /\ \A x : Between(vw.coins, x, Disk!Utxo[b]) =>
                     Between(Disk!DisconnectBlock(vw, b).coins, x, Disk!Utxo[DiskParent[b]])
<1>1. vw.coins \in CoinViews /\ vw.nfs \in SUBSET DiskNullifiers
  BY DEF DiskViews
<1>2. PICK v \in CoinViews : v = Disk!UndoTxs(vw.coins, b, Len(DiskTxs[b]))
  BY <1>1, Undoes
<1>3. \A o \in DiskOutpoints : \/ v[o] = Disk!Utxo[DiskParent[b]][o]
                               \/ v[o] = vw.coins[o] /\ Disk!Utxo[b][o] = Disk!Utxo[DiskParent[b]][o]
  BY <1>1, <1>2, Undoes
<1>4. Disk!FinalSaplingRoot(DiskParent[b]) \in SUBSET DiskNotes
  BY DEF Disk!FinalSaplingRoot
<1>5. Disk!DisconnectBlock(vw, b) = [coins |-> v, nfs |-> vw.nfs \ Disk!BlockNfs(b), anchor |-> Disk!FinalSaplingRoot(DiskParent[b])]
  BY <1>2 DEF Disk!DisconnectBlock
<1>6. Disk!DisconnectBlock(vw, b) \in DiskViews
  BY <1>1, <1>4, <1>5 DEF DiskViews
<1>7. Disk!DisconnectBlock(vw, b).coins = v
  BY <1>5
<1>8. ASSUME NEW x, Between(vw.coins, x, Disk!Utxo[b]) PROVE Between(v, x, Disk!Utxo[DiskParent[b]])
  BY <1>3, <1>8 DEF Between
<1> QED BY <1>6, <1>7, <1>8

(* The first loop of ReplayBlocks: a mixture of x and the old tip becomes  *)
(* one of x and the fork.                                                  *)
LEMMA RollsBack ==
    ASSUME Disk!IsTree, Disk!FreshOutputs, NEW old \in DiskBlocks, NEW h \in 0 .. DiskHeight[old],
           NEW vw \in DiskViews, NEW x, Between(vw.coins, x, Disk!Utxo[old])
    PROVE  /\ Disk!RollBack(vw, old, h) \in DiskViews
           /\ Between(Disk!RollBack(vw, old, h).coins, x, Disk!Utxo[Disk!GetAncestor[old][h]])
<1>0. DiskHeight[old] \in Nat
  BY TreeFacts
<1>1. PICK L \in Nat : L = DiskHeight[old] - h
  BY <1>0
<1> DEFINE B(k) == Disk!GetAncestor[old][DiskHeight[old] + 1 - k]
           F == [k \in 1 .. L |-> [w \in DiskViews |-> Disk!DisconnectBlock(w, B(k))]]
           back[k \in 0 .. L] == IF k = 0 THEN vw ELSE Disk!DisconnectBlock(back[k - 1], B(k))
<1>2. Disk!RollBack(vw, old, h) = back[L]
  BY <1>1 DEF Disk!RollBack
<1>3. ASSUME NEW k \in 1 .. L
      PROVE  B(k) \in DiskBlocks /\ B(k) # DiskGenesis /\ DiskParent[B(k)] = Disk!GetAncestor[old][DiskHeight[old] - k]
  <2>1. PICK m \in 1 .. DiskHeight[old] : m = DiskHeight[old] + 1 - k /\ m - 1 = DiskHeight[old] - k /\ m \in 0 .. DiskHeight[old] /\ m # 0
    BY <1>0, <1>1
  <2>2. Disk!GetAncestor[old][m] \in DiskBlocks /\ DiskHeight[Disk!GetAncestor[old][m]] = m /\ DiskParent[Disk!GetAncestor[old][m]] = Disk!GetAncestor[old][m - 1]
    BY <2>1, ChainBlocks
  <2> QED BY <2>1, <2>2, TreeFacts
<1>4. PICK g \in [0 .. L -> DiskViews] : g[0] = vw /\ \A k \in 1 .. L : g[k] = F[k][g[k - 1]]
  <2> HIDE DEF B
  <2>1. F \in [1 .. L -> [DiskViews -> DiskViews]]
    BY <1>3, DisconnectsBlock
  <2>2. Steps(L, DiskViews, F)
    BY <2>1, Zenon DEF Steps
  <2> HIDE DEF F
  <2>3. HasRun(L, DiskViews, vw, F)
    BY <2>2, RunExists, Zenon
  <2> QED BY <2>3, Zenon DEF HasRun
<1>5. g = [k \in 0 .. L |-> IF k = 0 THEN vw ELSE Disk!DisconnectBlock(g[k - 1], B(k))]
  <2> HIDE DEF B
  <2>1. ASSUME NEW k \in 0 .. L
        PROVE  g[k] = IF k = 0 THEN vw ELSE Disk!DisconnectBlock(g[k - 1], B(k))
    <3>1. CASE k = 0
      BY <1>4, <3>1
    <3>2. CASE k # 0
      <4>1. k \in 1 .. L /\ k - 1 \in 0 .. L
        BY <3>2
      <4>2. g[k - 1] \in DiskViews
        BY <4>1
      <4>3. F[k][g[k - 1]] = Disk!DisconnectBlock(g[k - 1], B(k))
        BY <4>1, <4>2
      <4> HIDE DEF F
      <4> QED BY <1>4, <3>2, <4>1, <4>3
    <3> QED BY <3>1, <3>2
  <2>2. g = [k \in 0 .. L |-> g[k]]
    OBVIOUS
  <2> QED BY <2>1, <2>2, Zenon
<1>6. back = [k \in 0 .. L |-> IF k = 0 THEN vw ELSE Disk!DisconnectBlock(back[k - 1], B(k))]
  <2> HIDE DEF F, B
  <2> QED BY <1>5
<1> HIDE DEF back, F
<1> DEFINE Good(k) == back[k] \in DiskViews /\ Between(back[k].coins, x, Disk!Utxo[Disk!GetAncestor[old][DiskHeight[old] - k]])
           S == {k \in 0 .. L : Good(k)}
<1>7. 0 \in S
  <2>1. back[0] = vw /\ DiskHeight[old] - 0 = DiskHeight[old] /\ 0 \in 0 .. L
    BY <1>0, <1>6
  <2>2. Disk!GetAncestor[old][DiskHeight[old]] = old
    BY ChainBlocks
  <2>3. Good(0)
    BY <2>1, <2>2
  <2> QED BY <2>1, <2>3
<1>8. ASSUME NEW k \in 1 .. L, k - 1 \in S PROVE k \in S
  <2>1. k \in 0 .. L /\ k # 0 /\ DiskHeight[old] - (k - 1) = DiskHeight[old] + 1 - k
    BY <1>0
  <2>2. back[k] = Disk!DisconnectBlock(back[k - 1], B(k))
    BY <1>6, <2>1
  <2>3. back[k - 1] \in DiskViews /\ Between(back[k - 1].coins, x, Disk!Utxo[B(k)])
    BY <1>8, <2>1
  <2> HIDE DEF B
  <2>4. Good(k)
    BY <1>3, <2>2, <2>3, DisconnectsBlock
  <2> QED BY <2>1, <2>4
<1>9. Good(L)
  <2> HIDE DEF S
  <2>1. \A k \in 1 .. L : k - 1 \in S => k \in S
    BY <1>8
  <2>2. \A k \in 0 .. L : k \in S
    BY <1>7, <2>1, CountUp, Zenon
  <2>3. L \in S
    BY <2>2
  <2> USE DEF S
  <2> HIDE DEF Good
  <2> QED BY <2>3
<1>10. DiskHeight[old] - L = h
  BY <1>0, <1>1
<1> QED BY <1>2, <1>9, <1>10

(* The second loop of ReplayBlocks: a mixture of the new tip and the fork  *)
(* becomes the new tip.                                                    *)
LEMMA RollsToTip ==
    ASSUME Disk!IsTree, NEW new \in DiskBlocks, NEW h \in 0 .. DiskHeight[new], NEW vw \in CoinViews,
           Between(vw, Disk!Utxo[new], Disk!Utxo[Disk!GetAncestor[new][h]])
    PROVE  Disk!RollForward(vw, new, h) = Disk!Utxo[new]
<1>0. DiskHeight[new] \in Nat
  BY TreeFacts
<1>1. PICK L \in Nat : L = DiskHeight[new] - h
  BY <1>0
<1> DEFINE B(k) == Disk!GetAncestor[new][h + k]
           F == [k \in 1 .. L |-> [w \in CoinViews |-> Disk!RollforwardBlock(w, B(k))]]
           forward[k \in 0 .. L] == IF k = 0 THEN vw ELSE Disk!RollforwardBlock(forward[k - 1], B(k))
<1>2. Disk!RollForward(vw, new, h) = forward[L]
  BY <1>1 DEF Disk!RollForward
<1>3. ASSUME NEW k \in 1 .. L
      PROVE  B(k) \in DiskBlocks /\ B(k) # DiskGenesis /\ DiskParent[B(k)] = Disk!GetAncestor[new][h + (k - 1)]
  <2>1. PICK m \in 1 .. DiskHeight[new] : m = h + k /\ m - 1 = h + (k - 1) /\ m \in 0 .. DiskHeight[new] /\ m # 0
    BY <1>0, <1>1
  <2>2. Disk!GetAncestor[new][m] \in DiskBlocks /\ DiskHeight[Disk!GetAncestor[new][m]] = m /\ DiskParent[Disk!GetAncestor[new][m]] = Disk!GetAncestor[new][m - 1]
    BY <2>1, ChainBlocks
  <2> QED BY <2>1, <2>2, TreeFacts
<1>4. PICK g \in [0 .. L -> CoinViews] : g[0] = vw /\ \A k \in 1 .. L : g[k] = F[k][g[k - 1]]
  <2> HIDE DEF B
  <2>1. F \in [1 .. L -> [CoinViews -> CoinViews]]
    BY <1>3, RollsForward
  <2>2. Steps(L, CoinViews, F)
    BY <2>1, Zenon DEF Steps
  <2> HIDE DEF F
  <2>3. HasRun(L, CoinViews, vw, F)
    BY <2>2, RunExists, Zenon
  <2> QED BY <2>3, Zenon DEF HasRun
<1>5. g = [k \in 0 .. L |-> IF k = 0 THEN vw ELSE Disk!RollforwardBlock(g[k - 1], B(k))]
  <2> HIDE DEF B
  <2>1. ASSUME NEW k \in 0 .. L
        PROVE  g[k] = IF k = 0 THEN vw ELSE Disk!RollforwardBlock(g[k - 1], B(k))
    <3>1. CASE k = 0
      BY <1>4, <3>1
    <3>2. CASE k # 0
      <4>1. k \in 1 .. L /\ k - 1 \in 0 .. L
        BY <3>2
      <4>2. g[k - 1] \in CoinViews
        BY <4>1
      <4>3. F[k][g[k - 1]] = Disk!RollforwardBlock(g[k - 1], B(k))
        BY <4>1, <4>2
      <4> HIDE DEF F
      <4> QED BY <1>4, <3>2, <4>1, <4>3
    <3> QED BY <3>1, <3>2
  <2>2. g = [k \in 0 .. L |-> g[k]]
    OBVIOUS
  <2> QED BY <2>1, <2>2, Zenon
<1>6. forward = [k \in 0 .. L |-> IF k = 0 THEN vw ELSE Disk!RollforwardBlock(forward[k - 1], B(k))]
  <2> HIDE DEF F, B
  <2> QED BY <1>5
<1> HIDE DEF forward, F
<1> DEFINE Good(k) == forward[k] \in CoinViews /\ Between(forward[k], Disk!Utxo[new], Disk!Utxo[Disk!GetAncestor[new][h + k]])
           S == {k \in 0 .. L : Good(k)}
<1>7. 0 \in S
  <2>1. forward[0] = vw /\ h + 0 = h /\ 0 \in 0 .. L
    BY <1>0, <1>6
  <2>2. Good(0)
    BY <2>1
  <2> QED BY <2>1, <2>2
<1>8. ASSUME NEW k \in 1 .. L, k - 1 \in S PROVE k \in S
  <2>1. k \in 0 .. L /\ k # 0
    BY <1>0
  <2>2. forward[k] = Disk!RollforwardBlock(forward[k - 1], B(k))
    BY <1>6, <2>1
  <2>3. forward[k - 1] \in CoinViews /\ Between(forward[k - 1], Disk!Utxo[new], Disk!Utxo[DiskParent[B(k)]])
    <3>1. DiskParent[B(k)] = Disk!GetAncestor[new][h + (k - 1)]
      BY <1>3
    <3> HIDE DEF B
    <3> QED BY <1>8, <3>1
  <2>4. forward[k] \in CoinViews /\ Between(forward[k], Disk!Utxo[new], Disk!Utxo[B(k)])
    <3> HIDE DEF B
    <3>1. forward[k] \in CoinViews
      BY <1>3, <2>2, <2>3, RollsForward
    <3>2. \A o \in DiskOutpoints : \/ forward[k][o] = Disk!Utxo[B(k)][o]
                                   \/ forward[k][o] = forward[k - 1][o] /\ Disk!Utxo[B(k)][o] = Disk!Utxo[DiskParent[B(k)]][o]
      BY <1>3, <2>2, <2>3, RollsForward
    <3> QED BY <2>3, <3>1, <3>2 DEF Between
  <2> QED BY <2>1, <2>4
<1>9. Good(L)
  <2> HIDE DEF S
  <2>1. \A k \in 1 .. L : k - 1 \in S => k \in S
    BY <1>8
  <2>2. \A k \in 0 .. L : k \in S
    BY <1>7, <2>1, CountUp, Zenon
  <2>3. L \in S
    BY <2>2
  <2> USE DEF S
  <2> HIDE DEF Good
  <2> QED BY <2>3
<1>10. h + L = DiskHeight[new] /\ Disk!GetAncestor[new][DiskHeight[new]] = new
  BY <1>0, <1>1, ChainBlocks
<1>11. forward[L] \in CoinViews /\ Between(forward[L], Disk!Utxo[new], Disk!Utxo[new])
  BY <1>9, <1>10
<1>12. Disk!Utxo[new] \in CoinViews
  BY UtxoRun
<1> HIDE DEF B, Good, S
<1> QED BY <1>2, <1>11, <1>12 DEF Between, CoinViews
-----------------------------------------------------------------------------
(* The coins of a tip; an empty database has none.                         *)
CoinsOf(b) == IF b = NullBlock THEN Disk!NoCoins ELSE Disk!Utxo[b]

(* When the database has head blocks: between the first batch and the      *)
(* last.                                                                   *)
Heads ==
    /\ phase # "down" => best \in DiskBlocks
    /\ phase = "run" => diskHeads = << >>
    /\ phase = "replay" => diskHeads # << >>
    /\ diskHeads # << >> => diskBest = NullBlock
    /\ phase \in {"flush", "replay"} /\ diskHeads # << >> => diskHeads[1] = best

(* Between the head blocks: each coin on the disk is that of the new tip   *)
(* or that of the old one.                                                 *)
Mixture ==
    diskHeads # << >> => Between(diskCoins, Disk!Utxo[diskHeads[1]], CoinsOf(diskHeads[2]))

(* The inductive invariant of a crash: CoinsMatchBest needs to know what   *)
(* an interrupted flush left behind, however often its replay is           *)
(* interrupted too.                                                        *)
DiskInv == Disk!TypeOK /\ Heads /\ Mixture /\ Disk!CoinsMatchBest

(* The coins of a tip are a view.                                          *)
LEMMA CoinsOfType ==
    ASSUME Disk!IsTree, NEW b \in DiskBlocks \cup {NullBlock}
    PROVE  CoinsOf(b) \in CoinViews
<1>1. DiskMaxHeight \in Nat
  BY TreeFacts
<1>2. Disk!NoCoins \in CoinViews
  BY <1>1 DEF Disk!NoCoins, CoinViews, Disk!Spent
<1> QED BY <1>2, UtxoRun DEF CoinsOf

(* The nullifiers of a block.                                              *)
LEMMA BlockNfsType ==
    ASSUME Disk!IsTree, NEW b \in DiskBlocks
    PROVE  Disk!BlockNfs(b) \subseteq DiskNullifiers
<1> DEFINE T == [vin : SUBSET DiskOutpoints, vout : SUBSET DiskOutpoints, nfs : SUBSET DiskNullifiers]
<1>1. DiskTxs[b] \in Seq(T)
  BY Zenon DEF Disk!IsTree
<1>2. \A i \in DOMAIN DiskTxs[b] : DiskTxs[b][i].nfs \subseteq DiskNullifiers
  <2>1. \A t \in T : t.nfs \subseteq DiskNullifiers
    OBVIOUS
  <2> HIDE DEF T
  <2>2. \A i \in DOMAIN DiskTxs[b] : DiskTxs[b][i] \in T
    BY <1>1
  <2> QED BY <2>1, <2>2
<1> HIDE DEF T
<1> QED BY <1>2, Zenon DEF Disk!BlockNfs

(* The invariant holds when a node first starts.                           *)
LEMMA DiskInit ==
    ASSUME Disk!IsTree, Disk!Init PROVE DiskInv
<1>1. Disk!NoCoins \in CoinViews /\ Disk!Utxo[DiskGenesis] = Disk!NoCoins /\ DiskGenesis \in DiskBlocks /\ NullBlock \notin DiskBlocks
  BY CoinsOfType, UtxoRun, TreeFacts DEF CoinsOf
<1>2. Disk!TypeOK
  BY <1>1 DEF Disk!Init, Disk!TypeOK, CoinViews
<1> QED BY <1>1, <1>2 DEF Disk!Init, DiskInv, Heads, Mixture, Disk!CoinsMatchBest

(* AcceptBlock keeps the invariant.                                        *)
LEMMA AcceptKeeps ==
    ASSUME Disk!IsTree, DiskInv, NEW b \in DiskBlocks \ {DiskGenesis}, Disk!AcceptBlock(b) PROVE DiskInv'
<1>1. Disk!TypeOK'
  BY DEF DiskInv, Disk!AcceptBlock, Disk!TypeOK, Disk!disk, Disk!memory, Disk!db
<1> QED BY <1>1 DEF DiskInv, Disk!AcceptBlock, Heads, Mixture, Disk!CoinsMatchBest, Between,
   Disk!disk, Disk!memory, Disk!db

(* ConnectTip keeps the invariant.                                         *)
LEMMA ConnectKeeps ==
    ASSUME Disk!IsTree, DiskInv, NEW b \in DiskBlocks \ {DiskGenesis}, Disk!ConnectTip(b) PROVE DiskInv'
<1>1. coins' = Disk!Utxo[b] /\ best' = b /\ phase = "run" /\ phase' = "run" /\ b \in data
  BY UtxoRun DEF Disk!ConnectTip, DiskInv, Disk!CoinsMatchBest
<1>2. coins' \in CoinViews
  BY <1>1, UtxoRun
<1>3. nfs' \subseteq DiskNullifiers /\ anchor' \subseteq DiskNotes /\ undo' \subseteq data'
  <2>1. nfs \subseteq DiskNullifiers /\ anchor \subseteq DiskNotes /\ undo \subseteq data
    BY DEF DiskInv, Disk!TypeOK
  <2>2. nfs' = nfs \cup Disk!BlockNfs(b) /\ anchor' = anchor \cup ({b} \cap DiskNotes) /\ undo' = undo \cup {b} /\ data' = data
    BY DEF Disk!ConnectTip
  <2> QED BY <1>1, <2>1, <2>2, BlockNfsType
<1>4. Disk!TypeOK'
  BY <1>1, <1>2, <1>3 DEF DiskInv, Disk!TypeOK, Disk!ConnectTip, Disk!disk, Disk!db, CoinViews
<1> QED BY <1>1, <1>4 DEF DiskInv, Disk!ConnectTip, Heads, Mixture, Disk!CoinsMatchBest, Between,
   Disk!disk, Disk!db

(* DisconnectTip keeps the invariant.                                      *)
LEMMA DisconnectKeeps ==
    ASSUME Disk!IsTree, Disk!FreshOutputs, DiskInv, Disk!DisconnectTip PROVE DiskInv'
<1>1. PICK b \in DiskBlocks : b = best /\ b # DiskGenesis /\ coins = Disk!Utxo[b] /\ phase = "run"
  BY DEF Disk!DisconnectTip, DiskInv, Disk!CoinsMatchBest, Heads
<1>2. PICK p \in DiskBlocks : p = DiskParent[b] /\ best' = p
  BY <1>1, Below DEF Disk!DisconnectTip
<1>3. PICK vw \in DiskViews : vw = [coins |-> coins, nfs |-> nfs, anchor |-> anchor] /\ vw.coins = Disk!Utxo[b]
  <2>1. coins \in CoinViews /\ nfs \in SUBSET DiskNullifiers /\ anchor \in SUBSET DiskNotes
    BY DEF DiskInv, Disk!TypeOK, CoinViews
  <2>2. [coins |-> coins, nfs |-> nfs, anchor |-> anchor] \in DiskViews
    BY <2>1, Zenon DEF DiskViews
  <2> QED BY <1>1, <2>2
<1>4. PICK after \in DiskViews : after = Disk!DisconnectBlock(vw, b) /\ Between(after.coins, Disk!Utxo[p], Disk!Utxo[p])
  <2>1. Between(vw.coins, Disk!Utxo[b], Disk!Utxo[b])
    BY <1>3 DEF Between
  <2>2. Disk!DisconnectBlock(vw, b) \in DiskViews
    BY <1>1, DisconnectsBlock
  <2>3. \A o \in DiskOutpoints : \/ Disk!DisconnectBlock(vw, b).coins[o] = Disk!Utxo[p][o]
                                 \/ Disk!DisconnectBlock(vw, b).coins[o] = Disk!Utxo[b][o] /\ Disk!Utxo[b][o] = Disk!Utxo[p][o]
    <3>1. Disk!DisconnectBlock(vw, b).coins = Disk!UndoTxs(Disk!Utxo[b], b, Len(DiskTxs[b]))
      BY <1>3 DEF Disk!DisconnectBlock
    <3>2. Disk!Utxo[b] \in CoinViews
      BY UtxoRun
    <3>3. \A o \in DiskOutpoints :
            \/ Disk!UndoTxs(Disk!Utxo[b], b, Len(DiskTxs[b]))[o] = Disk!Utxo[DiskParent[b]][o]
            \/ /\ Disk!UndoTxs(Disk!Utxo[b], b, Len(DiskTxs[b]))[o] = Disk!Utxo[b][o]
               /\ Disk!Utxo[b][o] = Disk!Utxo[DiskParent[b]][o]
      BY <1>1, <3>2, Undoes, Zenon
    <3> QED BY <1>2, <3>1, <3>3, Zenon
  <2> QED BY <2>2, <2>3 DEF Between
<1>5. coins' = after.coins /\ nfs' = after.nfs /\ anchor' = after.anchor
  BY <1>1, <1>3, <1>4 DEF Disk!DisconnectTip
<1>6. coins' \in CoinViews /\ nfs' \in SUBSET DiskNullifiers /\ anchor' \in SUBSET DiskNotes
  BY <1>5 DEF DiskViews
<1>7. coins' = Disk!Utxo[p]
  <2>1. Disk!Utxo[p] \in CoinViews
    BY UtxoRun
  <2> QED BY <1>4, <1>5, <1>6, <2>1 DEF Between, CoinViews
<1>8. Disk!TypeOK'
  BY <1>2, <1>6 DEF DiskInv, Disk!TypeOK, Disk!DisconnectTip, Disk!index, Disk!disk, Disk!db,
     CoinViews
<1> QED BY <1>1, <1>2, <1>7, <1>8 DEF DiskInv, Disk!DisconnectTip, Heads, Mixture,
   Disk!CoinsMatchBest, Between, Disk!index, Disk!disk, Disk!db

(* The write of the block index keeps the invariant.                       *)
LEMMA WriteIndexKeeps ==
    ASSUME Disk!IsTree, DiskInv, Disk!WriteBlockIndex PROVE DiskInv'
<1>1. Disk!TypeOK'
  BY DEF DiskInv, Disk!WriteBlockIndex, Disk!TypeOK, Disk!index, Disk!memory, Disk!db
<1> QED BY <1>1 DEF DiskInv, Disk!WriteBlockIndex, Heads, Mixture, Disk!CoinsMatchBest, Between,
   Disk!index, Disk!memory, Disk!db

(* A batch that is not the last keeps the invariant: it brings coins of    *)
(* the new tip.                                                            *)
LEMMA PartialKeeps ==
    ASSUME Disk!IsTree, DiskInv, NEW S \in SUBSET DiskOutpoints, Disk!WritePartialBatch(S) PROVE DiskInv'
<1>1. best \in DiskBlocks /\ coins = Disk!Utxo[best] /\ coins \in CoinViews /\ diskCoins \in CoinViews
  BY DEF DiskInv, Disk!WritePartialBatch, Heads, Disk!CoinsMatchBest, Disk!TypeOK, CoinViews
<1>2. Disk!OldTip \in DiskBlocks \cup {NullBlock}
  BY DEF DiskInv, Disk!TypeOK, Disk!OldTip
<1>3. diskHeads' = <<best, Disk!OldTip>> /\ diskHeads'[1] = best /\ diskHeads'[2] = Disk!OldTip /\ diskHeads' # << >>
  BY DEF Disk!WritePartialBatch
<1>4. diskCoins' \in CoinViews
  BY <1>1 DEF Disk!WritePartialBatch, CoinViews
<1>5. Disk!TypeOK'
  BY <1>1, <1>2, <1>3, <1>4 DEF DiskInv, Disk!TypeOK, Disk!WritePartialBatch, Disk!index,
     Disk!disk, Disk!memory, CoinViews
<1>6. Between(diskCoins, Disk!Utxo[best], CoinsOf(Disk!OldTip))
  <2>1. CASE diskHeads = << >>
    <3>1. diskCoins = CoinsOf(diskBest) /\ Disk!OldTip = diskBest
      BY <2>1 DEF DiskInv, Disk!CoinsMatchBest, CoinsOf, Disk!OldTip
    <3> QED BY <3>1 DEF Between
  <2>2. CASE diskHeads # << >>
    <3>1. diskBest = NullBlock /\ diskHeads[1] = best /\ Disk!OldTip = diskHeads[2]
      BY <2>2 DEF DiskInv, Heads, Disk!OldTip, Disk!WritePartialBatch
    <3> QED BY <2>2, <3>1 DEF DiskInv, Mixture
  <2> QED BY <2>1, <2>2
<1>7. Between(diskCoins', Disk!Utxo[best], CoinsOf(Disk!OldTip))
  <2>1. \A o \in DiskOutpoints : diskCoins'[o] = Disk!Utxo[best][o] \/ diskCoins'[o] = diskCoins[o]
    BY <1>1 DEF Disk!WritePartialBatch
  <2> QED BY <1>6, <2>1 DEF Between
<1>8. Mixture'
  <2>1. diskHeads'[1] = best /\ diskHeads'[2] = Disk!OldTip
    BY <1>3
  <2> QED BY <1>7, <2>1 DEF Mixture, Between, CoinsOf
<1>9. Heads' /\ Disk!CoinsMatchBest'
  BY <1>1, <1>3 DEF DiskInv, Disk!WritePartialBatch, Heads, Disk!CoinsMatchBest, Disk!memory
<1> QED BY <1>5, <1>8, <1>9 DEF DiskInv

(* The last batch keeps the invariant.                                     *)
LEMMA FinalKeeps ==
    ASSUME Disk!IsTree, DiskInv, Disk!WriteFinalBatch PROVE DiskInv'
<1>1. best \in DiskBlocks /\ coins = Disk!Utxo[best] /\ NullBlock \notin DiskBlocks
  BY TreeFacts DEF DiskInv, Disk!WriteFinalBatch, Heads, Disk!CoinsMatchBest
<1>2. Disk!TypeOK'
  BY DEF DiskInv, Disk!WriteFinalBatch, Disk!TypeOK, Disk!index, Disk!disk, Disk!memory
<1> QED BY <1>1, <1>2 DEF DiskInv, Disk!WriteFinalBatch, Heads, Mixture, Disk!CoinsMatchBest,
   Disk!index, Disk!disk, Disk!memory

(* A crash keeps the invariant.                                            *)
LEMMA DiskCrashKeeps ==
    ASSUME Disk!IsTree, DiskInv, Disk!Crash PROVE DiskInv'
<1>1. Disk!NoCoins \in CoinViews
  BY CoinsOfType DEF CoinsOf
<1>2. Disk!TypeOK'
  BY <1>1 DEF DiskInv, Disk!Crash, Disk!TypeOK, Disk!disk, Disk!db, CoinViews
<1> QED BY <1>2 DEF DiskInv, Disk!Crash, Heads, Mixture, Disk!CoinsMatchBest, Between, Disk!disk,
   Disk!db

(* LoadChainTip keeps the invariant.                                       *)
LEMMA LoadKeeps ==
    ASSUME Disk!IsTree, DiskInv, Disk!LoadChainTip PROVE DiskInv'
<1>1. Disk!Utxo[DiskGenesis] = Disk!NoCoins /\ DiskGenesis \in DiskBlocks
  BY UtxoRun, TreeFacts
<1>2. best' \in DiskBlocks /\ coins' = Disk!Utxo[best']
  BY <1>1 DEF DiskInv, Disk!LoadChainTip, Disk!TypeOK, Disk!CoinsMatchBest
<1>3. Disk!TypeOK'
  BY <1>1, <1>2 DEF DiskInv, Disk!LoadChainTip, Disk!TypeOK, Disk!disk, Disk!db
<1> QED BY <1>2, <1>3 DEF DiskInv, Disk!LoadChainTip, Heads, Mixture, Disk!CoinsMatchBest,
   Between, Disk!disk, Disk!db

(* ReplayBlocks ends with the coins of the new tip, from any mixture.      *)
LEMMA ReplayKeeps ==
    ASSUME Disk!IsTree, Disk!FreshOutputs, DiskInv, Disk!ReplayBlocks PROVE DiskInv'
<1>1. PICK new \in DiskBlocks, old \in DiskBlocks \cup {NullBlock} :
        /\ diskHeads = <<new, old>> /\ diskHeads[1] = new /\ diskHeads[2] = old
        /\ Between(diskCoins, Disk!Utxo[new], CoinsOf(old))
  BY DEF DiskInv, Disk!TypeOK, Mixture, Disk!ReplayBlocks
<1>2. PICK vw \in DiskViews : vw = [coins |-> diskCoins, nfs |-> diskNfs, anchor |-> diskAnchor] /\ vw.coins = diskCoins
  <2>1. diskCoins \in CoinViews /\ diskNfs \in SUBSET DiskNullifiers /\ diskAnchor \in SUBSET DiskNotes
    BY DEF DiskInv, Disk!TypeOK, CoinViews
  <2>2. [coins |-> diskCoins, nfs |-> diskNfs, anchor |-> diskAnchor] \in DiskViews
    BY <2>1, Zenon DEF DiskViews
  <2> QED BY <2>2
<1>3. PICK back \in DiskViews, h \in 0 .. DiskHeight[new] :
        /\ h = Disk!nForkHeight(old, new)
        /\ back = IF old = NullBlock THEN vw ELSE Disk!RollBack(vw, old, Disk!nForkHeight(old, new))
        /\ Between(back.coins, Disk!Utxo[new], Disk!Utxo[Disk!GetAncestor[new][h]])
  <2>1. CASE old = NullBlock
    <3>1. Disk!nForkHeight(old, new) = 0 /\ 0 \in 0 .. DiskHeight[new]
      BY <2>1, TreeFacts DEF Disk!nForkHeight
    <3>2. Disk!GetAncestor[new][0] = DiskGenesis /\ Disk!Utxo[DiskGenesis] = Disk!NoCoins
      BY ChainBlocks, UtxoRun
    <3>3. Between(vw.coins, Disk!Utxo[new], Disk!Utxo[Disk!GetAncestor[new][0]])
      BY <1>1, <1>2, <2>1, <3>2 DEF CoinsOf
    <3> QED BY <2>1, <3>1, <3>3
  <2>2. CASE old # NullBlock
    <3>1. PICK h \in 0 .. DiskHeight[new] : h = Disk!nForkHeight(old, new) /\ h \in 0 .. DiskHeight[old] /\ Disk!GetAncestor[old][h] = Disk!GetAncestor[new][h]
      BY <2>2, Fork
    <3>2. Between(vw.coins, Disk!Utxo[new], Disk!Utxo[old])
      BY <1>1, <1>2, <2>2 DEF CoinsOf
    <3>3. /\ Disk!RollBack(vw, old, h) \in DiskViews
          /\ Between(Disk!RollBack(vw, old, h).coins, Disk!Utxo[new], Disk!Utxo[Disk!GetAncestor[new][h]])
      BY <2>2, <3>1, <3>2, RollsBack
    <3> QED BY <2>2, <3>1, <3>3
  <2> QED BY <2>1, <2>2
<1>4. best' = new /\ coins' = Disk!RollForward(back.coins, new, h) /\ nfs' = back.nfs /\ anchor' = back.anchor
  BY <1>1, <1>2, <1>3 DEF Disk!ReplayBlocks
<1>5. back.coins \in CoinViews /\ back.nfs \in SUBSET DiskNullifiers /\ back.anchor \in SUBSET DiskNotes
  BY DEF DiskViews
<1>6. coins' = Disk!Utxo[new]
  BY <1>3, <1>4, <1>5, RollsToTip
<1>7. coins' \in CoinViews
  BY <1>6, UtxoRun
<1>8. Disk!TypeOK'
  BY <1>4, <1>5, <1>7 DEF DiskInv, Disk!TypeOK, Disk!ReplayBlocks, Disk!disk, Disk!db, CoinViews
<1>9. Mixture'
  BY DEF DiskInv, Disk!ReplayBlocks, Mixture, Between, CoinsOf, Disk!db
<1> QED BY <1>1, <1>4, <1>6, <1>8, <1>9 DEF DiskInv, Disk!ReplayBlocks, Heads,
   Disk!CoinsMatchBest, Disk!disk, Disk!db

(* A rebuild of the databases keeps the invariant.                         *)
LEMMA ReindexKeeps ==
    ASSUME Disk!IsTree, DiskInv, Disk!Reindex PROVE DiskInv'
<1>1. Disk!NoCoins \in CoinViews /\ Disk!Utxo[DiskGenesis] = Disk!NoCoins /\ DiskGenesis \in DiskBlocks /\ NullBlock \notin DiskBlocks
  BY CoinsOfType, UtxoRun, TreeFacts DEF CoinsOf
<1>2. Disk!TypeOK'
  BY <1>1 DEF Disk!Reindex, Disk!TypeOK, CoinViews
<1> QED BY <1>1, <1>2 DEF Disk!Reindex, DiskInv, Heads, Mixture, Disk!CoinsMatchBest

(* So does a step of nothing.                                              *)
LEMMA StutterKeeps ==
    ASSUME DiskInv, UNCHANGED Disk!vars PROVE DiskInv'
BY DEF DiskInv, Disk!TypeOK, Heads, Mixture, Disk!CoinsMatchBest, Between, Disk!vars, Disk!index,
   Disk!disk, Disk!memory, Disk!db

(* Every step keeps the invariant.                                         *)
LEMMA DiskStep ==
    ASSUME Disk!IsTree, Disk!FreshOutputs, DiskInv, [Disk!Next]_(Disk!vars) PROVE DiskInv'
<1>1. ASSUME NEW b \in DiskBlocks \ {DiskGenesis}, Disk!AcceptBlock(b) \/ Disk!ConnectTip(b) PROVE DiskInv'
  BY <1>1, AcceptKeeps, ConnectKeeps
<1>2. ASSUME NEW S \in SUBSET DiskOutpoints, Disk!WritePartialBatch(S) PROVE DiskInv'
  BY <1>2, PartialKeeps
<1> QED BY <1>1, <1>2, DisconnectKeeps, WriteIndexKeeps, FinalKeeps, DiskCrashKeeps, LoadKeeps,
           ReplayKeeps, ReindexKeeps, StutterKeeps, Zenon DEF Disk!Next

(* For any block tree and transactions: the coins a process works on are   *)
(* those of its best block, and so are those of a database without head    *)
(* blocks, whatever crashes interrupted whichever flushes and replays      *)
(* (BatchWrite, ReplayBlocks).                                             *)
THEOREM CoinsFollowBest ==
    ASSUME Disk!IsTree, Disk!FreshOutputs
    PROVE  Disk!Spec => []CoinsMatchBest
<1>1. Disk!Init => DiskInv
  BY DiskInit
<1>2. DiskInv /\ [Disk!Next]_(Disk!vars) => DiskInv'
  BY DiskStep
<1>3. DiskInv => CoinsMatchBest
  BY DEF DiskInv, CoinsMatchBest
<1> QED BY <1>1, <1>2, <1>3, PTL DEF Disk!Spec
-----------------------------------------------------------------------------
(* A database that a crash left with head blocks can be opened:            *)
(* ReplayBlocks finds both heads in the block index, the undo data of the  *)
(* branch it leaves and the blocks of the branch it enters. This is what   *)
(* Recovers needs of the states.                                           *)
FlushReplays == diskHeads # << >> => Disk!CanOpen

(* The block index on the disk has b, and the undo data of its whole       *)
(* chain.                                                                  *)
OnDisk(b) == b \in diskData /\ Disk!Branch(b, 0) \subseteq diskUndo

(* What is stored of each tip: FlushStateToDisk writes the block index     *)
(* before the coins.                                                       *)
StoredOnDisk ==
    /\ phase # "down" => /\ best \in data /\ Disk!Branch(best, 0) \subseteq undo
                         /\ diskData \subseteq data /\ diskUndo \subseteq undo
    /\ phase \in {"run", "flush"} => DiskGenesis \in data
    /\ phase \in {"flush", "replay"} => OnDisk(best)
    /\ diskBest # NullBlock => OnDisk(diskBest)
    /\ diskHeads # << >> => OnDisk(diskHeads[1]) /\ (diskHeads[2] # NullBlock => OnDisk(diskHeads[2]))

(* A block adds itself to the chain of its parent.                         *)
LEMMA BranchGrows ==
    ASSUME Disk!IsTree, NEW b \in DiskBlocks, b # DiskGenesis
    PROVE  Disk!Branch(b, 0) = Disk!Branch(DiskParent[b], 0) \cup {b}
<1>1. PICK p \in DiskBlocks, n \in 1 .. DiskMaxHeight : p = DiskParent[b] /\ n = DiskHeight[b] /\ DiskHeight[p] = n - 1
  BY Below
<1>2. DiskMaxHeight \in Nat /\ Disk!GetAncestor[b][n] = b
  BY <1>1, ChainBlocks, TreeFacts
<1>3. ASSUME NEW k \in 1 .. n - 1 PROVE Disk!GetAncestor[b][k] = Disk!GetAncestor[p][k]
  <2>1. k \in 0 .. DiskMaxHeight /\ ~(k > DiskHeight[b]) /\ k # DiskHeight[b]
    BY <1>1, <1>2
  <2> QED BY <1>1, <2>1, AncestorRun
<1>4. 1 .. n = (1 .. n - 1) \cup {n}
  OBVIOUS
<1>5. Disk!Branch(b, 0) = {Disk!GetAncestor[b][k] : k \in 1 .. n} /\ Disk!Branch(p, 0) = {Disk!GetAncestor[p][k] : k \in 1 .. n - 1}
  BY <1>1 DEF Disk!Branch
<1> QED BY <1>1, <1>2, <1>3, <1>4, <1>5

(* The upper part of a chain.                                              *)
LEMMA BranchInside ==
    ASSUME Disk!IsTree, NEW b \in DiskBlocks, NEW h \in Nat
    PROVE  Disk!Branch(b, h) \subseteq Disk!Branch(b, 0)
BY TreeFacts DEF Disk!Branch

(* There is nothing above height 0 of the genesis block.                   *)
LEMMA GenesisBranch ==
    ASSUME Disk!IsTree PROVE Disk!Branch(DiskGenesis, 0) = {}
BY TreeFacts DEF Disk!Branch

(* What is stored of the head blocks is what ReplayBlocks needs.           *)
LEMMA StoredReplays ==
    ASSUME Disk!IsTree, Disk!TypeOK, StoredOnDisk PROVE FlushReplays
<1> SUFFICES ASSUME diskHeads # << >> PROVE Disk!CanReplay(diskHeads[1], diskHeads[2])
  BY DEF FlushReplays, Disk!CanOpen
<1>1. PICK new \in DiskBlocks, old \in DiskBlocks \cup {NullBlock} : diskHeads[1] = new /\ diskHeads[2] = old
  BY DEF Disk!TypeOK
<1>2. OnDisk(new) /\ (old # NullBlock => OnDisk(old)) /\ diskUndo \subseteq diskData
  BY <1>1 DEF StoredOnDisk, Disk!TypeOK
<1>3. PICK h \in Nat : h = Disk!nForkHeight(old, new)
  <2>1. CASE old = NullBlock
    BY <2>1 DEF Disk!nForkHeight
  <2>2. CASE old # NullBlock
    <3>1. Disk!nForkHeight(old, new) \in 0 .. DiskHeight[new] /\ DiskHeight[new] \in Nat
      BY <2>2, Fork, TreeFacts
    <3> QED BY <3>1
  <2> QED BY <2>1, <2>2
<1>4. Disk!Branch(new, h) \subseteq diskUndo
  BY <1>2, BranchInside DEF OnDisk
<1>5. old # NullBlock => Disk!Branch(old, h) \subseteq diskUndo
  BY <1>2, BranchInside DEF OnDisk
<1> QED BY <1>1, <1>2, <1>3, <1>4, <1>5 DEF Disk!CanReplay, OnDisk

(* Every step keeps what is stored.                                        *)
LEMMA StoredKept ==
    ASSUME Disk!IsTree, DiskInv, StoredOnDisk, [Disk!Next]_(Disk!vars) PROVE StoredOnDisk'
<1>0. DiskGenesis \in DiskBlocks /\ NullBlock \notin DiskBlocks /\ Disk!Branch(DiskGenesis, 0) = {}
  BY TreeFacts, GenesisBranch
<1>1. ASSUME NEW b \in DiskBlocks \ {DiskGenesis}, Disk!AcceptBlock(b) PROVE StoredOnDisk'
  BY <1>1 DEF StoredOnDisk, OnDisk, Disk!AcceptBlock, Disk!disk, Disk!memory, Disk!db
<1>2. ASSUME NEW b \in DiskBlocks \ {DiskGenesis}, Disk!ConnectTip(b) PROVE StoredOnDisk'
  <2>1. Disk!Branch(b, 0) = Disk!Branch(best, 0) \cup {b} /\ b \in data /\ phase = "run"
    BY <1>2, BranchGrows DEF Disk!ConnectTip
  <2> QED BY <1>2, <2>1 DEF StoredOnDisk, OnDisk, Disk!ConnectTip, Disk!disk, Disk!db
<1>3. CASE Disk!DisconnectTip
  <2>1. PICK b \in DiskBlocks : b = best /\ b # DiskGenesis /\ phase = "run"
    BY <1>3 DEF Disk!DisconnectTip, DiskInv, Heads
  <2>2. Disk!Branch(b, 0) = Disk!Branch(DiskParent[b], 0) \cup {b}
    BY <2>1, BranchGrows
  <2>3. DiskParent[b] \in Disk!Branch(DiskParent[b], 0) \cup {DiskGenesis}
    <3>1. DiskParent[b] # DiskGenesis => DiskParent[b] \in DiskBlocks /\ DiskParent[b] \in Disk!Branch(DiskParent[DiskParent[b]], 0) \cup {DiskParent[b]}
      BY <2>1, Below
    <3>2. DiskParent[b] # DiskGenesis => Disk!Branch(DiskParent[b], 0) = Disk!Branch(DiskParent[DiskParent[b]], 0) \cup {DiskParent[b]}
      BY <3>1, BranchGrows
    <3> QED BY <3>1, <3>2
  <2>4. DiskParent[b] \in data /\ Disk!Branch(DiskParent[b], 0) \subseteq undo
    BY <2>1, <2>2, <2>3 DEF StoredOnDisk, DiskInv, Disk!TypeOK
  <2>5. /\ best' = DiskParent[b] /\ data' = data /\ undo' = undo /\ phase' = phase
        /\ diskData' = diskData /\ diskUndo' = diskUndo /\ diskBest' = diskBest /\ diskHeads' = diskHeads
    BY <1>3, <2>1 DEF Disk!DisconnectTip, Disk!index, Disk!disk, Disk!db
  <2> QED BY <2>1, <2>4, <2>5 DEF StoredOnDisk, OnDisk
<1>4. CASE Disk!WriteBlockIndex
  BY <1>4 DEF StoredOnDisk, OnDisk, Disk!WriteBlockIndex, DiskInv, Heads, Disk!index, Disk!memory,
     Disk!db
<1>5. ASSUME NEW S \in SUBSET DiskOutpoints, Disk!WritePartialBatch(S) PROVE StoredOnDisk'
  <2>1. Disk!OldTip # NullBlock => OnDisk(Disk!OldTip)
    BY <1>5 DEF StoredOnDisk, Disk!OldTip
  <2>2. diskHeads'[1] = best /\ diskHeads'[2] = Disk!OldTip /\ diskBest' = NullBlock
    BY <1>5 DEF Disk!WritePartialBatch
  <2> QED BY <1>5, <2>1, <2>2 DEF StoredOnDisk, OnDisk, Disk!WritePartialBatch, Disk!index,
     Disk!disk, Disk!memory
<1>6. CASE Disk!WriteFinalBatch
  BY <1>6 DEF StoredOnDisk, OnDisk, Disk!WriteFinalBatch, Disk!index, Disk!disk, Disk!memory
<1>7. CASE Disk!Crash
  BY <1>7 DEF StoredOnDisk, OnDisk, Disk!Crash, Disk!disk, Disk!db
<1>8. CASE Disk!LoadChainTip
  BY <1>0, <1>8 DEF StoredOnDisk, OnDisk, Disk!LoadChainTip, Disk!disk, Disk!db
<1>9. CASE Disk!ReplayBlocks
  <2>1. best' = diskHeads[1] /\ diskHeads # << >>
    BY <1>9 DEF Disk!ReplayBlocks
  <2> QED BY <1>9, <2>1 DEF StoredOnDisk, OnDisk, Disk!ReplayBlocks, Disk!disk, Disk!db
<1>10. CASE Disk!Reindex
  BY <1>0, <1>10 DEF StoredOnDisk, OnDisk, Disk!Reindex
<1>11. CASE UNCHANGED Disk!vars
  BY <1>11 DEF StoredOnDisk, OnDisk, Disk!vars, Disk!index, Disk!disk, Disk!memory, Disk!db
<1> QED BY <1>1, <1>2, <1>3, <1>4, <1>5, <1>6, <1>7, <1>8, <1>9, <1>10, <1>11, Zenon DEF Disk!Next

(* For any block tree and transactions: no crash, however often, leaves a  *)
(* flush that ReplayBlocks could not complete (FlushStateToDisk,           *)
(* ReplayBlocks).                                                          *)
THEOREM InterruptedFlushReplays ==
    ASSUME Disk!IsTree, Disk!FreshOutputs
    PROVE  Disk!Spec => []FlushReplays
<1>1. Disk!Init => DiskInv /\ StoredOnDisk
  <2>1. Disk!Init => StoredOnDisk
    BY TreeFacts, GenesisBranch DEF Disk!Init, StoredOnDisk
  <2> QED BY <2>1, DiskInit
<1>2. DiskInv /\ StoredOnDisk /\ [Disk!Next]_(Disk!vars) => DiskInv' /\ StoredOnDisk'
  BY DiskStep, StoredKept
<1>3. DiskInv /\ StoredOnDisk => FlushReplays
  BY StoredReplays DEF DiskInv
<1> QED BY <1>1, <1>2, <1>3, PTL DEF Disk!Spec

-----------------------------------------------------------------------------
(* CoinsCache *)

(* The inductive invariant: between blocks there is no view.               *)
CoinsInv ==
  /\ CoinsTypeOK
  /\ FlagsSound
  /\ NoLogicError
  /\ ~open => view = Empty

-----------------------------------------------------------------------------
(* Entries                                                                  *)

(* The entry Entry builds, and the fields of any entry.                    *)
LEMMA EntryFacts ==
  /\ \A c \in MaybeCoins, d \in BOOLEAN, f \in BOOLEAN :
       /\ Entry(c, d, f) \in Entries /\ Entry(c, d, f) # NoCoinEntry
       /\ Entry(c, d, f).coin = c
       /\ Entry(c, d, f).dirty = d
       /\ Entry(c, d, f).fresh = f
  /\ \A e \in Entries : /\ e.coin \in MaybeCoins /\ e.dirty \in BOOLEAN /\ e.fresh \in BOOLEAN
                        /\ e # NoCoinEntry
BY NoEntryAssumption DEF Entry, Entries

(* An entry that was written to.                                           *)
LEMMA DirtyEntry ==
  ASSUME NEW c \in MaybeCoins, NEW f \in BOOLEAN
  PROVE  /\ Entry(c, TRUE, f) \in Entries /\ Entry(c, TRUE, f) # NoCoinEntry
         /\ Entry(c, TRUE, f).coin = c
         /\ Entry(c, TRUE, f).dirty
         /\ Entry(c, TRUE, f).fresh = f
<1>1. Entry(c, TRUE, f) \in Entries
  BY f \in BOOLEAN, TRUE \in BOOLEAN DEF Entry, Entries
<1>0. Entry(c, TRUE, f) # NoCoinEntry
  BY <1>1, NoEntryAssumption
<1>2. Entry(c, TRUE, f).coin = c
  BY DEF Entry
<1>3. Entry(c, TRUE, f).dirty = TRUE
  BY DEF Entry
<1>4. Entry(c, TRUE, f).fresh = f
  BY DEF Entry
<1> QED BY <1>0, <1>1, <1>2, <1>3, <1>4

(* A fetched entry has the base's coin, or there is none to have.          *)
LEMMA FetchedFacts ==
  ASSUME NEW e \in Entries \cup {NoCoinEntry}, NEW has \in BOOLEAN, NEW c \in MaybeCoins,
         ~has => c = Spent, FlagsHold(e, c), Sensible(e)
  PROVE  /\ Fetched(e, has, c) \in Entries \cup {NoCoinEntry} /\ Sensible(Fetched(e, has, c))
         /\ FlagsHold(Fetched(e, has, c), c)
         /\ CoinOf(Fetched(e, has, c)) = IF e = NoCoinEntry THEN c ELSE e.coin
         /\ Fetched(e, has, c) = NoCoinEntry => c = Spent
<1>1. CASE e # NoCoinEntry
  BY <1>1 DEF Fetched, CoinOf
<1>2. CASE e = NoCoinEntry /\ ~has
  BY <1>2 DEF Fetched, CoinOf, FlagsHold, Sensible
<1>3. CASE e = NoCoinEntry /\ has
  <2> DEFINE n == Entry(c, FALSE, c = Spent)
  <2>1. Fetched(e, has, c) = n
    BY <1>3 DEF Fetched
  <2>2. n \in Entries /\ n # NoCoinEntry /\ n.coin = c /\ (n.fresh <=> c = Spent) /\ ~n.dirty
    <3>1. (c = Spent) \in BOOLEAN
      OBVIOUS
    <3>2. n.fresh = (c = Spent) /\ n \in Entries /\ n # NoCoinEntry /\ n.coin = c
      BY <3>1, EntryFacts
    <3>3. n.dirty = FALSE
      BY DEF Entry
    <3> QED BY <3>2, <3>3
  <2> HIDE DEF n
  <2> QED BY <1>3, <2>1, <2>2 DEF CoinOf, FlagsHold, Sensible
<1> QED BY <1>1, <1>2, <1>3

(* Adding keeps the flags right when the caller's promise is right.        *)
LEMMA AddedFacts ==
  ASSUME NEW e \in Entries \cup {NoCoinEntry}, NEW c \in Coins, NEW b \in MaybeCoins,
         NEW overwrite \in BOOLEAN, FlagsHold(e, b),
         ~overwrite => (IF e = NoCoinEntry THEN b ELSE e.coin) = Spent
  PROVE  /\ Added(e, c, overwrite) \in Entries /\ Sensible(Added(e, c, overwrite))
         /\ FlagsHold(Added(e, c, overwrite), b)
         /\ Added(e, c, overwrite).coin = c
BY NoEntryAssumption, SpentAssumption
   DEF Added, Emplaced, Entry, Entries, FlagsHold, MaybeCoins, Sensible

(* Spending leaves either a spent entry or a base without the coin.        *)
LEMMA SpentFacts ==
  ASSUME NEW e \in Entries \cup {NoCoinEntry}, NEW b \in MaybeCoins, FlagsHold(e, b),
         e = NoCoinEntry => b = Spent
  PROVE  /\ SpentEntry(e) \in Entries \cup {NoCoinEntry} /\ Sensible(SpentEntry(e))
         /\ FlagsHold(SpentEntry(e), b)
         /\ (IF SpentEntry(e) = NoCoinEntry THEN b ELSE SpentEntry(e).coin) = Spent
<1>1. CASE e = NoCoinEntry \/ e.fresh
  BY <1>1 DEF SpentEntry, FlagsHold, Sensible
<1>2. CASE ~(e = NoCoinEntry \/ e.fresh)
  <2>1. Spent \in MaybeCoins
    BY DEF MaybeCoins
  <2>2. SpentEntry(e) = Entry(Spent, TRUE, FALSE)
    BY <1>2 DEF SpentEntry
  <2>3. /\ SpentEntry(e) \in Entries /\ SpentEntry(e) # NoCoinEntry /\ SpentEntry(e).coin = Spent
        /\ SpentEntry(e).dirty /\ SpentEntry(e).fresh = FALSE
    BY <2>1, <2>2, DirtyEntry
  <2> QED BY <2>3 DEF FlagsHold, Sensible
<1> QED BY <1>1, <1>2

(* The child's entry v is sound over t, which is sound over the base coin  *)
(* b and shows the coin c.                                                 *)
Layered(t, v, b, c) ==
  /\ t \in Entries \cup {NoCoinEntry} /\ v \in Entries \cup {NoCoinEntry} /\ b \in MaybeCoins
  /\ FlagsHold(t, b) /\ FlagsHold(v, c) /\ Sensible(t)
  /\ c = IF t = NoCoinEntry THEN b ELSE t.coin

(* Writing v over t does not throw and leaves a sound entry over b, which  *)
(* shows what v showed.                                                    *)
WrittenWell(t, v, b, c) ==
  /\ Written(t, v) \in Entries \cup {NoCoinEntry} /\ Sensible(Written(t, v))
  /\ FlagsHold(Written(t, v), b)
  /\ ~WriteThrows(t, v)
  /\ (IF Written(t, v) = NoCoinEntry THEN b ELSE Written(t, v).coin)
       = IF v = NoCoinEntry THEN c ELSE v.coin

(* Writing the child's entry v over t over the base coin b gives the coin  *)
(* that a reader of the child saw, and does not throw.                     *)
LEMMA WrittenFacts ==
  ASSUME NEW t, NEW v, NEW b, NEW c, Layered(t, v, b, c)
  PROVE  WrittenWell(t, v, b, c)
<1>0. /\ t \in Entries \cup {NoCoinEntry} /\ v \in Entries \cup {NoCoinEntry} /\ b \in MaybeCoins
      /\ FlagsHold(t, b) /\ FlagsHold(v, c) /\ Sensible(t)
      /\ c = IF t = NoCoinEntry THEN b ELSE t.coin
  BY DEF Layered
<1> USE <1>0
<1> SUFFICES /\ Written(t, v) \in Entries \cup {NoCoinEntry} /\ Sensible(Written(t, v))
             /\ FlagsHold(Written(t, v), b)
             /\ ~WriteThrows(t, v)
             /\ (IF Written(t, v) = NoCoinEntry THEN b ELSE Written(t, v).coin)
                  = IF v = NoCoinEntry THEN c ELSE v.coin
  BY DEF WrittenWell
<1>1. ~WriteThrows(t, v)
  BY DEF WriteThrows, FlagsHold
<1>2. CASE v = NoCoinEntry \/ ~v.dirty
  BY <1>1, <1>2 DEF Written, FlagsHold
<1>3. CASE ~(v = NoCoinEntry \/ ~v.dirty) /\ t = NoCoinEntry
  <2>1. CASE v.fresh /\ v.coin = Spent
    <3>1. Written(t, v) = NoCoinEntry
      BY <1>3, <2>1 DEF Written
    <3>2. c = b /\ c = Spent
      BY <1>3, <2>1 DEF FlagsHold
    <3> QED BY <1>1, <1>3, <2>1, <3>1, <3>2 DEF FlagsHold, Sensible
  <2>2. CASE ~(v.fresh /\ v.coin = Spent)
    <3>1. Written(t, v) = Entry(v.coin, TRUE, v.fresh)
      BY <1>3, <2>2 DEF Written
    <3>2. v.coin \in MaybeCoins /\ v.fresh \in BOOLEAN
      BY <1>3, EntryFacts
    <3>3. /\ Written(t, v) \in Entries /\ Written(t, v) # NoCoinEntry
          /\ Written(t, v).coin = v.coin
          /\ Written(t, v).dirty
          /\ Written(t, v).fresh = v.fresh
      <4> DEFINE n == Entry(v.coin, TRUE, v.fresh)
      <4>1. n \in Entries /\ n # NoCoinEntry /\ n.coin = v.coin /\ n.dirty /\ n.fresh = v.fresh
        BY <3>2, DirtyEntry
      <4> QED BY <3>1, <4>1
    <3>4. c = b /\ (v.fresh => b = Spent)
      BY <1>3 DEF FlagsHold
    <3> QED BY <1>1, <1>3, <2>2, <3>3, <3>4 DEF FlagsHold, Sensible
  <2> QED BY <2>1, <2>2
<1>4. CASE ~(v = NoCoinEntry \/ ~v.dirty) /\ t # NoCoinEntry
  <2>1. CASE t.fresh /\ v.coin = Spent
    <3>1. Written(t, v) = NoCoinEntry
      BY <1>4, <2>1 DEF Written
    <3>2. b = Spent
      BY <1>4, <2>1 DEF FlagsHold
    <3> QED BY <1>1, <1>4, <2>1, <3>1, <3>2 DEF FlagsHold, Sensible
  <2>2. CASE ~(t.fresh /\ v.coin = Spent)
    <3>1. Written(t, v) = Entry(v.coin, TRUE, t.fresh)
      BY <1>4, <2>2 DEF Written
    <3>2. v.coin \in MaybeCoins /\ t.fresh \in BOOLEAN
      BY <1>4, EntryFacts
    <3>3. /\ Written(t, v) \in Entries /\ Written(t, v) # NoCoinEntry
          /\ Written(t, v).coin = v.coin
          /\ Written(t, v).dirty
          /\ Written(t, v).fresh = t.fresh
      <4> DEFINE n == Entry(v.coin, TRUE, t.fresh)
      <4>1. n \in Entries /\ n # NoCoinEntry /\ n.coin = v.coin /\ n.dirty /\ n.fresh = t.fresh
        BY <3>2, DirtyEntry
      <4> QED BY <3>1, <4>1
    <3>4. t.fresh => b = Spent
      BY <1>4 DEF FlagsHold
    <3> QED BY <1>1, <1>4, <2>2, <3>3, <3>4 DEF FlagsHold, Sensible
  <2> QED BY <2>1, <2>2
<1> QED BY <1>2, <1>3, <1>4

(* Writing an entry to the database stores the coin a reader saw.          *)
LEMMA StoredFacts ==
  ASSUME NEW t \in Entries \cup {NoCoinEntry}, NEW b \in MaybeCoins, FlagsHold(t, b)
  PROVE  /\ Stored(b, t) \in MaybeCoins
         /\ Stored(b, t) = IF t = NoCoinEntry THEN b ELSE t.coin
BY NoEntryAssumption DEF Stored, Entries, FlagsHold

(* What the readers of the two caches see are coins.                       *)
LEMMA CoinsTypes ==
  ASSUME CoinsTypeOK
  PROVE  /\ TipCoins \in [Outpoints -> MaybeCoins]
         /\ ViewCoins \in [Outpoints -> MaybeCoins]
<1>1. \A e \in Entries : e.coin \in MaybeCoins
  BY DEF Entries
<1>2. TipCoins \in [Outpoints -> MaybeCoins]
  BY <1>1 DEF CoinsTypeOK, TipCoins, Caches
<1>3. ViewCoins \in [Outpoints -> MaybeCoins]
  BY <1>1, <1>2 DEF CoinsTypeOK, ViewCoins, Caches
<1> QED BY <1>2, <1>3

(* The facts about one outpoint that every operation starts from.          *)
LEMMA FetchFacts ==
  ASSUME CoinsTypeOK, FlagsSound, NEW o \in Outpoints
  PROVE  /\ TipEntry(o) \in Entries \cup {NoCoinEntry} /\ Sensible(TipEntry(o))
         /\ FlagsHold(TipEntry(o), db[o])
         /\ CoinOf(TipEntry(o)) = TipCoins[o]
         /\ TipEntry(o) = NoCoinEntry => db[o] = Spent
         /\ ViewEntry(o) \in Entries \cup {NoCoinEntry} /\ Sensible(ViewEntry(o))
         /\ FlagsHold(ViewEntry(o), TipCoins[o])
         /\ CoinOf(ViewEntry(o)) = ViewCoins[o]
         /\ ViewEntry(o) = NoCoinEntry => TipCoins[o] = Spent
<1>1. /\ tip[o] \in Entries \cup {NoCoinEntry} /\ view[o] \in Entries \cup {NoCoinEntry}
      /\ db[o] \in MaybeCoins /\ TipCoins[o] \in MaybeCoins
      /\ FlagsHold(tip[o], db[o]) /\ FlagsHold(view[o], TipCoins[o])
      /\ Sensible(tip[o]) /\ Sensible(view[o])
  BY CoinsTypes DEF CoinsTypeOK, Caches, FlagsSound
<1>2. /\ TipEntry(o) \in Entries \cup {NoCoinEntry} /\ Sensible(TipEntry(o))
      /\ FlagsHold(TipEntry(o), db[o])
      /\ CoinOf(TipEntry(o)) = TipCoins[o]
      /\ TipEntry(o) = NoCoinEntry => db[o] = Spent
  <2>1. PICK e, has, c : e = tip[o] /\ has = (db[o] # Spent) /\ c = db[o]
    OBVIOUS
  <2>2. /\ TipEntry(o) = Fetched(e, has, c)
        /\ TipCoins[o] = IF e = NoCoinEntry THEN c ELSE e.coin
    BY <2>1 DEF TipEntry, TipCoins
  <2>3. e \in Entries \cup {NoCoinEntry} /\ c \in MaybeCoins /\ FlagsHold(e, c) /\ Sensible(e)
    BY <1>1, <2>1
  <2>4. has \in BOOLEAN /\ (~has => c = Spent)
    BY <2>1
  <2>5. /\ Fetched(e, has, c) \in Entries \cup {NoCoinEntry} /\ Sensible(Fetched(e, has, c))
        /\ FlagsHold(Fetched(e, has, c), c)
        /\ CoinOf(Fetched(e, has, c)) = IF e = NoCoinEntry THEN c ELSE e.coin
        /\ Fetched(e, has, c) = NoCoinEntry => c = Spent
    BY <2>3, <2>4, FetchedFacts
  <2> QED BY <2>1, <2>2, <2>5
<1>3. /\ ViewEntry(o) \in Entries \cup {NoCoinEntry} /\ Sensible(ViewEntry(o))
      /\ FlagsHold(ViewEntry(o), TipCoins[o])
      /\ CoinOf(ViewEntry(o)) = ViewCoins[o]
      /\ ViewEntry(o) = NoCoinEntry => TipCoins[o] = Spent
  <2>1. PICK e, has, c : e = view[o] /\ has = (TipEntry(o) # NoCoinEntry) /\ c = TipCoins[o]
    OBVIOUS
  <2>2. /\ ViewEntry(o) = Fetched(e, has, c)
        /\ ViewCoins[o] = IF e = NoCoinEntry THEN c ELSE e.coin
    BY <1>2, <2>1 DEF ViewEntry, ViewCoins
  <2>3. e \in Entries \cup {NoCoinEntry} /\ c \in MaybeCoins /\ FlagsHold(e, c) /\ Sensible(e)
    BY <1>1, <2>1
  <2>4. has \in BOOLEAN /\ (~has => c = Spent)
    BY <1>2, <2>1 DEF CoinOf
  <2>5. /\ Fetched(e, has, c) \in Entries \cup {NoCoinEntry} /\ Sensible(Fetched(e, has, c))
        /\ FlagsHold(Fetched(e, has, c), c)
        /\ CoinOf(Fetched(e, has, c)) = IF e = NoCoinEntry THEN c ELSE e.coin
        /\ Fetched(e, has, c) = NoCoinEntry => c = Spent
    BY <2>3, <2>4, FetchedFacts
  <2> QED BY <2>1, <2>2, <2>5
<1> QED BY <1>2, <1>3

(* A fetch changes no coin that pcoinsTip shows and keeps its flags right. *)
LEMMA TipFetchFacts ==
  ASSUME CoinsTypeOK, FlagsSound, NEW o \in Outpoints, UNCHANGED db,
         tip' \in {tip, [tip EXCEPT ![o] = TipEntry(o)]}
  PROVE  /\ tip' \in Caches
         /\ TipCoins' = TipCoins
         /\ \A p \in Outpoints : FlagsHold(tip'[p], db[p]) /\ Sensible(tip'[p])
<1>1. tip \in Caches /\ TipEntry(o) \in Entries \cup {NoCoinEntry}
  BY FetchFacts DEF CoinsTypeOK
<1>2. tip' \in Caches
  BY <1>1 DEF Caches
<1>3. \A p \in Outpoints : tip'[p] = tip[p] \/ (p = o /\ tip'[p] = TipEntry(o))
  BY <1>1 DEF Caches
<1>4. \A p \in Outpoints : FlagsHold(tip'[p], db[p]) /\ Sensible(tip'[p])
  BY <1>3, FetchFacts DEF FlagsSound, CoinsTypeOK
<1>5. (IF TipEntry(o) = NoCoinEntry THEN db[o] ELSE TipEntry(o).coin) = TipCoins[o]
  BY FetchFacts DEF CoinOf
<1>6. \A p \in Outpoints : (IF tip'[p] = NoCoinEntry THEN db[p] ELSE tip'[p].coin) = TipCoins[p]
  BY <1>3, <1>5 DEF TipCoins
<1>7. TipCoins' = [p \in Outpoints |-> IF tip'[p] = NoCoinEntry THEN db[p] ELSE tip'[p].coin]
  BY DEF TipCoins
<1>8. TipCoins = [p \in Outpoints |-> TipCoins[p]]
  BY DEF TipCoins
<1>9. TipCoins' = TipCoins
  BY <1>6, <1>7, <1>8
<1> QED BY <1>2, <1>4, <1>9

(* An operation on the block's view replaces the entry of one outpoint by  *)
(* one with right flags that shows coin c: the block's coins change there  *)
(* and nowhere else.                                                       *)
LEMMA ViewUpdate ==
  ASSUME CoinsInv, NEW o \in Outpoints, NEW n \in Entries \cup {NoCoinEntry}, NEW c,
         open, FlagsHold(n, TipCoins[o]), Sensible(n),
         c = IF n = NoCoinEntry THEN TipCoins[o] ELSE n.coin,
         view' = [view EXCEPT ![o] = n],
         tip' \in {tip, [tip EXCEPT ![o] = TipEntry(o)]},
         UNCHANGED <<db, open, threw>>
  PROVE  /\ CoinsInv'
         /\ TipCoins' = TipCoins
         /\ ViewCoins' = [ViewCoins EXCEPT ![o] = c]
<1> USE DEF CoinsInv
<1>1. /\ tip' \in Caches /\ TipCoins' = TipCoins
      /\ \A p \in Outpoints : FlagsHold(tip'[p], db[p]) /\ Sensible(tip'[p])
  BY TipFetchFacts
<1>2. view' \in Caches
  BY DEF CoinsTypeOK, Caches
<1>3. view'[o] = n /\ \A p \in Outpoints \ {o} : view'[p] = view[p]
  BY DEF CoinsTypeOK, Caches
<1>4. CoinsTypeOK'
  BY <1>1, <1>2, <1>3 DEF CoinsTypeOK
<1>5. FlagsSound'
  BY <1>1, <1>3 DEF FlagsSound
<1>6. CoinsInv'
  BY <1>4, <1>5 DEF NoLogicError
<1>7. ViewCoins' = [p \in Outpoints |-> IF view'[p] = NoCoinEntry THEN TipCoins[p] ELSE view'[p].coin]
  BY <1>1 DEF ViewCoins
<1>8. ViewCoins' = [ViewCoins EXCEPT ![o] = c]
  <2>1. [ViewCoins EXCEPT ![o] = c] = [p \in Outpoints |-> IF p = o THEN c ELSE ViewCoins[p]]
    BY DEF ViewCoins
  <2>2. \A p \in Outpoints : (IF view'[p] = NoCoinEntry THEN TipCoins[p] ELSE view'[p].coin)
                              = IF p = o THEN c ELSE ViewCoins[p]
    BY <1>3 DEF ViewCoins
  <2> QED BY <1>7, <2>1, <2>2
<1> QED BY <1>1, <1>6, <1>8

-----------------------------------------------------------------------------
(* Every step keeps the invariant and is a step of UtxoLedger               *)

CoinsRefined == [Ledger!Next]_(Ledger!vars)

(* Fetching changes nothing that a reader can see.                         *)
LEMMA FetchStep ==
  ASSUME CoinsInv, NEW o \in Outpoints, Fetch(o)
  PROVE  CoinsInv' /\ CoinsRefined
<1>1. /\ ViewEntry(o) \in Entries \cup {NoCoinEntry} /\ FlagsHold(ViewEntry(o), TipCoins[o])
      /\ Sensible(ViewEntry(o))
      /\ ViewCoins[o] = IF ViewEntry(o) = NoCoinEntry THEN TipCoins[o] ELSE ViewEntry(o).coin
  BY FetchFacts DEF CoinsInv, CoinOf
<1>2. /\ CoinsInv' /\ TipCoins' = TipCoins
      /\ ViewCoins' = [ViewCoins EXCEPT ![o] = ViewCoins[o]]
  BY <1>1, ViewUpdate DEF Fetch, TipAfterFetch
<1>3. ViewCoins' = ViewCoins
  BY <1>2 DEF ViewCoins
<1> QED BY <1>2, <1>3 DEF Fetch, CoinsRefined, Ledger!vars

(* SpendCoin makes the coin of its outpoint spent.                         *)
LEMMA SpendStep ==
  ASSUME CoinsInv, NEW o \in Outpoints, SpendCoin(o)
  PROVE  CoinsInv' /\ CoinsRefined
<1> DEFINE n == SpentEntry(ViewEntry(o))
<1>1. TipCoins[o] \in MaybeCoins
  BY CoinsTypes DEF CoinsInv
<1>2. /\ n \in Entries \cup {NoCoinEntry} /\ FlagsHold(n, TipCoins[o]) /\ Sensible(n)
      /\ Spent = IF n = NoCoinEntry THEN TipCoins[o] ELSE n.coin
  BY <1>1, FetchFacts, SpentFacts DEF CoinsInv
<1>3. view' = [view EXCEPT ![o] = n]
  BY DEF SpendCoin
<1> HIDE DEF n
<1>4. /\ CoinsInv' /\ TipCoins' = TipCoins
      /\ ViewCoins' = [ViewCoins EXCEPT ![o] = Spent]
  BY <1>2, <1>3, ViewUpdate DEF SpendCoin, TipAfterFetch
<1>5. Ledger!Put(o, Spent)
  BY <1>4 DEF SpendCoin, Ledger!Put
<1> QED BY <1>4, <1>5 DEF CoinsRefined, Ledger!Next, Ledger!MaybeCoins

(* Adding a coin makes it the coin of its outpoint.                        *)
LEMMA AddCoinStep ==
  ASSUME CoinsInv, NEW o \in Outpoints, NEW c \in Coins, AddNew(o, c) \/ Restore(o, c)
  PROVE  CoinsInv' /\ CoinsRefined
<1>0. /\ TipCoins[o] \in MaybeCoins /\ view[o] \in Entries \cup {NoCoinEntry}
      /\ FlagsHold(view[o], TipCoins[o])
      /\ ViewCoins[o] = IF view[o] = NoCoinEntry THEN TipCoins[o] ELSE view[o].coin
  BY CoinsTypes DEF CoinsInv, CoinsTypeOK, Caches, FlagsSound, ViewCoins
<1>1. \E n \in Entries \cup {NoCoinEntry} :
        /\ FlagsHold(n, TipCoins[o]) /\ Sensible(n)
        /\ c = IF n = NoCoinEntry THEN TipCoins[o] ELSE n.coin
        /\ view' = [view EXCEPT ![o] = n]
        /\ tip' \in {tip, [tip EXCEPT ![o] = TipEntry(o)]}
        /\ open /\ UNCHANGED <<db, open, threw>>
  <2>1. CASE AddNew(o, c)
    <3>1. ViewCoins[o] = Spent
      BY <2>1, FetchFacts DEF AddNew, CoinsInv
    <3>2. ~AddThrows(view[o], FALSE)
      BY <1>0, <3>1, EntryFacts DEF AddThrows, Emplaced, MaybeCoins
    <3>3. /\ Added(view[o], c, FALSE) \in Entries /\ Sensible(Added(view[o], c, FALSE))
          /\ FlagsHold(Added(view[o], c, FALSE), TipCoins[o])
          /\ Added(view[o], c, FALSE).coin = c
      BY <1>0, <3>1, AddedFacts
    <3>4. Added(view[o], c, FALSE) # NoCoinEntry
      BY <3>3, NoEntryAssumption
    <3> QED BY <2>1, <3>2, <3>3, <3>4 DEF AddNew
  <2>2. CASE Restore(o, c)
    <3> DEFINE overwrite == CoinOf(ViewEntry(o)) # Spent
               n == Added(ViewEntry(o), c, overwrite)
    <3>1. /\ ViewEntry(o) \in Entries \cup {NoCoinEntry}
          /\ FlagsHold(ViewEntry(o), TipCoins[o]) /\ overwrite \in BOOLEAN
          /\ ~overwrite => (IF ViewEntry(o) = NoCoinEntry THEN TipCoins[o] ELSE ViewEntry(o).coin) = Spent
      BY FetchFacts DEF CoinsInv, CoinOf
    <3>2. view' = [view EXCEPT ![o] = n]
      BY <2>2 DEF Restore
    <3> HIDE DEF overwrite
    <3>3. n \in Entries /\ FlagsHold(n, TipCoins[o]) /\ n.coin = c /\ Sensible(n)
      BY <1>0, <3>1, AddedFacts
    <3>4. n # NoCoinEntry
      BY <3>3, NoEntryAssumption
    <3> HIDE DEF n
    <3>5. tip' \in {tip, [tip EXCEPT ![o] = TipEntry(o)]} /\ open /\ UNCHANGED <<db, open, threw>>
      BY <2>2 DEF Restore, TipAfterFetch
    <3> QED BY <3>2, <3>3, <3>4, <3>5
  <2> QED BY <2>1, <2>2
<1>2. /\ CoinsInv' /\ TipCoins' = TipCoins
      /\ ViewCoins' = [ViewCoins EXCEPT ![o] = c]
  BY <1>1, ViewUpdate
<1>3. Ledger!Put(o, c)
  BY <1>1, <1>2 DEF Ledger!Put
<1> QED BY <1>2, <1>3 DEF CoinsRefined, Ledger!Next, Ledger!MaybeCoins

(* Reading through pcoinsTip, and uncaching, change nobody's coins.        *)
LEMMA TipStep ==
  ASSUME CoinsInv, NEW o \in Outpoints, TipFetch(o) \/ Uncache(o)
  PROVE  CoinsInv' /\ CoinsRefined
<1>1. /\ tip' \in Caches /\ TipCoins' = TipCoins
      /\ \A p \in Outpoints : FlagsHold(tip'[p], db[p]) /\ Sensible(tip'[p])
  <2>1. CASE TipFetch(o)
    BY <2>1, TipFetchFacts DEF TipFetch, CoinsInv
  <2>2. CASE Uncache(o)
    <3>1. tip' \in Caches
      BY <2>2 DEF Uncache, CoinsInv, CoinsTypeOK, Caches
    <3>2. tip'[o] = NoCoinEntry /\ \A p \in Outpoints \ {o} : tip'[p] = tip[p]
      BY <2>2 DEF Uncache, CoinsInv, CoinsTypeOK, Caches
    <3>3. tip[o].coin = db[o] /\ tip[o] # NoCoinEntry
      BY <2>2 DEF Uncache, CoinsInv, FlagsSound, FlagsHold
    <3>4. \A p \in Outpoints : (IF tip'[p] = NoCoinEntry THEN db[p] ELSE tip'[p].coin)
                               = IF tip[p] = NoCoinEntry THEN db[p] ELSE tip[p].coin
      BY <3>2, <3>3
    <3>5. TipCoins' = TipCoins
      BY <2>2, <3>4 DEF TipCoins, Uncache
    <3>6. \A p \in Outpoints : FlagsHold(tip'[p], db[p]) /\ Sensible(tip'[p])
      <4>1. FlagsHold(NoCoinEntry, db[o]) /\ Sensible(NoCoinEntry)
        BY DEF FlagsHold, Sensible
      <4>2. \A p \in Outpoints \ {o} : FlagsHold(tip[p], db[p]) /\ Sensible(tip[p])
        BY DEF CoinsInv, FlagsSound, CoinsTypeOK
      <4> QED BY <3>2, <4>1, <4>2
    <3> QED BY <3>1, <3>5, <3>6
  <2> QED BY <2>1, <2>2
<1>2. UNCHANGED <<db, view, open, threw>>
  BY DEF TipFetch, Uncache
<1>3. ViewCoins' = ViewCoins
  BY <1>1, <1>2 DEF ViewCoins
<1>4. FlagsSound'
  BY <1>1, <1>2 DEF FlagsSound, CoinsInv
<1>5. CoinsInv'
  BY <1>1, <1>2, <1>4 DEF CoinsInv, CoinsTypeOK, NoLogicError
<1> QED BY <1>1, <1>2, <1>3, <1>5 DEF CoinsRefined, Ledger!vars

(* Emptying pcoinsTip into the database, after its entries were replaced   *)
(* by those of t: every outpoint keeps the coin t shows.                   *)
LEMMA TipWrite ==
  ASSUME CoinsInv, ~open, NEW t \in Caches,
         \A o \in Outpoints : FlagsHold(t[o], db[o]),
         db' = [o \in Outpoints |-> Stored(db[o], t[o])],
         tip' = Empty,
         UNCHANGED <<view, open, threw>>
  PROVE  /\ CoinsInv'
         /\ db' = [o \in Outpoints |-> IF t[o] = NoCoinEntry THEN db[o] ELSE t[o].coin]
         /\ TipCoins' = db' /\ ViewCoins' = db'
<1>1. \A o \in Outpoints : /\ Stored(db[o], t[o]) \in MaybeCoins
                           /\ Stored(db[o], t[o]) = IF t[o] = NoCoinEntry THEN db[o] ELSE t[o].coin
  BY StoredFacts DEF CoinsInv, CoinsTypeOK, Caches
<1>2. db' = [o \in Outpoints |-> IF t[o] = NoCoinEntry THEN db[o] ELSE t[o].coin]
  BY <1>1
<1>3. db' \in [Outpoints -> MaybeCoins]
  BY <1>1
<1>4. \A o \in Outpoints : tip'[o] = NoCoinEntry /\ view'[o] = NoCoinEntry
  BY DEF CoinsInv, Empty
<1>5. TipCoins' = db'
  BY <1>3, <1>4 DEF TipCoins
<1>6. ViewCoins' = db'
  BY <1>3, <1>4, <1>5 DEF ViewCoins
<1>7. CoinsTypeOK'
  BY <1>3, <1>4 DEF CoinsInv, CoinsTypeOK, Empty, Caches, Sensible
<1>8. FlagsSound'
  BY <1>4 DEF FlagsSound, FlagsHold
<1> QED BY <1>2, <1>5, <1>6, <1>7, <1>8 DEF CoinsInv, NoLogicError

(* Flush of pcoinsTip is Sync.                                             *)
LEMMA TipFlushStep ==
  ASSUME CoinsInv, TipFlushCoins
  PROVE  CoinsInv' /\ CoinsRefined
<1>1. /\ CoinsInv' /\ TipCoins' = db' /\ ViewCoins' = db'
      /\ db' = [o \in Outpoints |-> IF tip[o] = NoCoinEntry THEN db[o] ELSE tip[o].coin]
  BY TipWrite DEF TipFlushCoins, CoinsInv, CoinsTypeOK, FlagsSound
<1>2. db' = TipCoins
  BY <1>1 DEF TipCoins
<1>3. ViewCoins = TipCoins
  <2>1. \A o \in Outpoints : view[o] = NoCoinEntry
    BY DEF TipFlushCoins, CoinsInv, Empty
  <2> QED BY <2>1 DEF ViewCoins, TipCoins
<1>4. Ledger!Sync
  BY <1>1, <1>2, <1>3 DEF TipFlushCoins, Ledger!Sync
<1> QED BY <1>1, <1>4 DEF CoinsRefined, Ledger!Next

(* PruneInvalidEntries is Prune.                                           *)
LEMMA PruneStep ==
  ASSUME CoinsInv, PruneInvalidEntries
  PROVE  CoinsInv' /\ CoinsRefined
<1> DEFINE pruned == [o \in Outpoints |->
                       IF o \in InvalidOutpoints
                         THEN IF CoinOf(TipEntry(o)) # Spent
                                THEN SpentEntry(TipEntry(o)) ELSE TipEntry(o)
                         ELSE tip[o]]
           kept == [o \in Outpoints |-> IF o \in InvalidOutpoints THEN Spent ELSE TipCoins[o]]
<1>1. \A o \in Outpoints : /\ pruned[o] \in Entries \cup {NoCoinEntry}
                           /\ FlagsHold(pruned[o], db[o])
                           /\ (IF pruned[o] = NoCoinEntry THEN db[o] ELSE pruned[o].coin) = kept[o]
  <2> SUFFICES ASSUME NEW o \in Outpoints
               PROVE  /\ pruned[o] \in Entries \cup {NoCoinEntry}
                      /\ FlagsHold(pruned[o], db[o])
                      /\ (IF pruned[o] = NoCoinEntry THEN db[o] ELSE pruned[o].coin) = kept[o]
    OBVIOUS
  <2>1. /\ TipEntry(o) \in Entries \cup {NoCoinEntry} /\ FlagsHold(TipEntry(o), db[o])
        /\ CoinOf(TipEntry(o)) = TipCoins[o] /\ (TipEntry(o) = NoCoinEntry => db[o] = Spent)
        /\ tip[o] \in Entries \cup {NoCoinEntry} /\ FlagsHold(tip[o], db[o]) /\ db[o] \in MaybeCoins
    BY FetchFacts DEF CoinsInv, CoinsTypeOK, Caches, FlagsSound
  <2>2. CASE o \in InvalidOutpoints /\ CoinOf(TipEntry(o)) # Spent
    <3>1. pruned[o] = SpentEntry(TipEntry(o)) /\ kept[o] = Spent
      BY <2>2
    <3> QED BY <2>1, <3>1, SpentFacts
  <2>3. CASE o \in InvalidOutpoints /\ CoinOf(TipEntry(o)) = Spent
    <3>1. pruned[o] = TipEntry(o) /\ kept[o] = Spent
      BY <2>3
    <3> QED BY <2>1, <2>3, <3>1 DEF CoinOf
  <2>4. CASE o \notin InvalidOutpoints
    BY <2>1, <2>4 DEF TipCoins
  <2> QED BY <2>2, <2>3, <2>4
<1>2. pruned \in Caches /\ \A o \in Outpoints : FlagsHold(pruned[o], db[o])
  BY <1>1 DEF Caches
<1>3. ~open /\ db' = [o \in Outpoints |-> Stored(db[o], pruned[o])] /\ tip' = Empty
      /\ UNCHANGED <<view, open, threw>>
  BY DEF PruneInvalidEntries
<1> HIDE DEF pruned
<1>4. /\ CoinsInv' /\ TipCoins' = db' /\ ViewCoins' = db'
      /\ db' = [o \in Outpoints |-> IF pruned[o] = NoCoinEntry THEN db[o] ELSE pruned[o].coin]
  BY <1>2, <1>3, TipWrite
<1>5. db' = kept
  BY <1>1, <1>4
<1>6. Ledger!Prune
  BY <1>3, <1>4, <1>5 DEF Ledger!Prune
<1> QED BY <1>4, <1>6 DEF CoinsRefined, Ledger!Next

(* Flush of the block's view is Commit, and never throws.                  *)
LEMMA FlushStep ==
  ASSUME CoinsInv, Flush
  PROVE  CoinsInv' /\ CoinsRefined
<1>0. \A o \in Outpoints : Layered(tip[o], view[o], db[o], TipCoins[o])
  BY DEF CoinsInv, CoinsTypeOK, Caches, FlagsSound, TipCoins, Layered
<1>a. \A o \in Outpoints : WrittenWell(tip[o], view[o], db[o], TipCoins[o])
  BY <1>0, WrittenFacts, Zenon
<1>1. \A o \in Outpoints :
        /\ Written(tip[o], view[o]) \in Entries \cup {NoCoinEntry}
        /\ Sensible(Written(tip[o], view[o]))
        /\ FlagsHold(Written(tip[o], view[o]), db[o])
        /\ ~WriteThrows(tip[o], view[o])
        /\ (IF Written(tip[o], view[o]) = NoCoinEntry THEN db[o] ELSE Written(tip[o], view[o]).coin)
             = IF view[o] = NoCoinEntry THEN TipCoins[o] ELSE view[o].coin
  BY <1>a, Zenon DEF WrittenWell
<1>2. /\ open /\ tip' = [o \in Outpoints |-> Written(tip[o], view[o])]
      /\ view' = Empty /\ open' = FALSE /\ db' = db /\ threw' = threw
  BY <1>1 DEF Flush
<1>3. CoinsTypeOK'
  BY <1>1, <1>2 DEF CoinsInv, CoinsTypeOK, Caches, Empty, Sensible
<1>4. TipCoins' = ViewCoins
  BY <1>1, <1>2 DEF TipCoins, ViewCoins
<1>5. ViewCoins' = ViewCoins
  <2>1. \A o \in Outpoints : view'[o] = NoCoinEntry
    BY <1>2 DEF Empty
  <2> QED BY <1>4, <2>1 DEF ViewCoins
<1>6. FlagsSound'
  BY <1>1, <1>2 DEF FlagsSound, FlagsHold, Empty
<1>7. Ledger!Commit
  BY <1>2, <1>4, <1>5 DEF Ledger!Commit
<1> QED BY <1>2, <1>3, <1>6, <1>7 DEF CoinsInv, NoLogicError, CoinsRefined, Ledger!Next

(* Creating and dropping the view are Begin and Discard.                   *)
LEMMA OpenDropStep ==
  ASSUME CoinsInv, Open \/ Drop \/ UNCHANGED coinsVars
  PROVE  CoinsInv' /\ CoinsRefined
<1>1. TipCoins' = TipCoins
  BY DEF Open, Drop, coinsVars, TipCoins
<1>2. CASE Open
  <2>1. ViewCoins' = ViewCoins /\ CoinsInv'
    BY <1>1, <1>2 DEF Open, ViewCoins, CoinsInv, CoinsTypeOK, FlagsSound, NoLogicError
  <2>2. Ledger!Begin
    BY <1>1, <1>2, <2>1 DEF Open, Ledger!Begin
  <2> QED BY <2>1, <2>2 DEF CoinsRefined, Ledger!Next
<1>3. CASE Drop
  <2>1. \A o \in Outpoints : view'[o] = NoCoinEntry
    BY <1>3 DEF Drop, Empty
  <2>2. ViewCoins' = TipCoins
    BY <1>1, <2>1 DEF ViewCoins, TipCoins
  <2>3. CoinsInv'
    BY <1>1, <1>3, <2>1 DEF Drop, CoinsInv, CoinsTypeOK, FlagsSound, FlagsHold, NoLogicError,
       Empty, Caches, Sensible
  <2>4. Ledger!Discard
    BY <1>1, <1>3, <2>2 DEF Drop, Ledger!Discard
  <2> QED BY <2>3, <2>4 DEF CoinsRefined, Ledger!Next
<1>4. CASE UNCHANGED coinsVars
  <2>1. ViewCoins' = ViewCoins /\ CoinsInv'
    BY <1>1, <1>4 DEF coinsVars, ViewCoins, CoinsInv, CoinsTypeOK, FlagsSound, NoLogicError
  <2> QED BY <1>1, <1>4, <2>1 DEF coinsVars, CoinsRefined, Ledger!vars
<1> QED BY <1>2, <1>3, <1>4

-----------------------------------------------------------------------------
(* The theorems                                                             *)

(* Every step keeps IInv and is a step, or a stutter, of UtxoLedger.       *)
LEMMA CoinsStep == CoinsInv /\ [CoinsNext]_coinsVars => CoinsInv' /\ CoinsRefined
<1> SUFFICES ASSUME CoinsInv, [CoinsNext]_coinsVars PROVE CoinsInv' /\ CoinsRefined
  OBVIOUS
<1>1. ASSUME NEW o \in Outpoints, TipFetch(o) \/ Uncache(o) \/ Fetch(o) \/ SpendCoin(o)
      PROVE  CoinsInv' /\ CoinsRefined
  BY <1>1, TipStep, FetchStep, SpendStep
<1>2. ASSUME NEW o \in Outpoints, NEW c \in Coins, AddNew(o, c) \/ Restore(o, c)
      PROVE  CoinsInv' /\ CoinsRefined
  BY <1>2, AddCoinStep
<1>3. CASE TipFlushCoins \/ PruneInvalidEntries \/ Flush
  BY <1>3, TipFlushStep, PruneStep, FlushStep
<1>4. CASE Open \/ Drop \/ UNCHANGED coinsVars
  BY <1>4, OpenDropStep
<1> QED BY <1>1, <1>2, <1>3, <1>4 DEF CoinsNext

(* The caches start empty, so their readers see the database.              *)
LEMMA CoinsInitially == CoinsInit => CoinsInv /\ Ledger!Init
<1> SUFFICES ASSUME CoinsInit PROVE CoinsInv /\ Ledger!Init
  OBVIOUS
<1>1. \A o \in Outpoints : tip[o] = NoCoinEntry /\ view[o] = NoCoinEntry
  BY DEF CoinsInit, Empty
<1>2. TipCoins = db
  BY <1>1 DEF TipCoins, CoinsInit
<1>3. ViewCoins = db
  BY <1>1, <1>2 DEF ViewCoins, CoinsInit
<1>4. CoinsInv
  BY <1>1 DEF CoinsInit, CoinsInv, CoinsTypeOK, FlagsSound, FlagsHold, NoLogicError, Empty,
     Caches, Sensible
<1> QED BY <1>2, <1>3, <1>4 DEF CoinsInit, Ledger!Init, Ledger!MaybeCoins, MaybeCoins

(* The caches hold well-formed entries; a spent coin the base never had    *)
(* leaves none.                                                            *)
THEOREM CoinsTypeCorrect == CoinsSpec => []CoinsTypeOK
<1>1. CoinsInv => CoinsTypeOK
  BY DEF CoinsInv
<1> QED BY <1>1, CoinsInitially, CoinsStep, PTL DEF CoinsSpec

(* The DIRTY and FRESH flags of both caches always tell the truth.         *)
THEOREM FlagsAlwaysSound == CoinsSpec => []FlagsSound
<1>1. CoinsInv => FlagsSound
  BY DEF CoinsInv
<1> QED BY <1>1, CoinsInitially, CoinsStep, PTL DEF CoinsSpec

(* BatchWrite never throws "FRESH flag misapplied", AddCoin never throws   *)
(* "Adding new coin that replaces non-pruned entry".                       *)
THEOREM NeverThrows == CoinsSpec => []NoLogicError
<1>1. CoinsInv => NoLogicError
  BY DEF CoinsInv
<1> QED BY <1>1, CoinsInitially, CoinsStep, PTL DEF CoinsSpec

(* The stack of caches implements the plain coin maps of UtxoLedger.       *)
THEOREM CacheImplementsLedger == CoinsSpec => ImplementsLedger
<1>1. CoinsInit => CoinsInv /\ Ledger!Init
  BY CoinsInitially
<1>2. CoinsInv /\ [CoinsNext]_coinsVars => CoinsInv' /\ [Ledger!Next]_(Ledger!vars)
  BY CoinsStep DEF CoinsRefined
<1> QED BY <1>1, <1>2, PTL DEF CoinsSpec, ImplementsLedger, Ledger!Spec
=============================================================================
