------------------------ MODULE BlockDownloadProofs ------------------------
(***************************************************************************)
(* Proofs about BlockDownload, for any finite set of peers, any length of  *)
(* the chain and any limits.                                               *)
(*                                                                         *)
(* FlightsAgree counts entries of lists.  The invariant says instead that  *)
(* the list of a peer enumerates, without repetition, the blocks that the  *)
(* map has under that peer; what lists do when requests are appended or    *)
(* erased is then three lemmas about lists, and the counters follow from   *)
(* the cardinality of the sets.  A block that is asked for is one nobody   *)
(* owes, which takes the heights FindNextBlocksToDownload looks at to be   *)
(* blocks of the chain.                                                    *)
(***************************************************************************)
EXTENDS BlockDownload, FiniteSetTheorems, SequenceTheorems, TLAPS

\* The state is well typed.
Types ==
    /\ mapNodeState \subseteq Peers
    /\ fDisconnect \subseteq mapNodeState
    /\ fSyncStarted \subseteq mapNodeState
    /\ fPreferredDownload \subseteq mapNodeState
    /\ nStallingSince \subseteq mapNodeState
    /\ vBlocksInFlight \in [Peers -> Seq(Heights)]
    /\ mapBlocksInFlight \in [Heights -> Peers \cup {NoPeer}]
    /\ pindexBestKnownBlock \in [Peers -> 0 .. MaxHeight]
    /\ hashLastUnknownBlock \in [Peers -> 0 .. MaxHeight]
    /\ pindexLastCommonBlock \in [Peers -> 0 .. MaxHeight]
    /\ data \subseteq index /\ index \subseteq Heights
    /\ leaked \in Nat

\* Sequence s lists the elements of A, each once.
Lists(s, A) ==
    /\ \A i, j \in DOMAIN s : s[i] = s[j] => i = j
    /\ \A b : b \in A <=> \E i \in DOMAIN s : s[i] = b

Owed(p) == {b \in Heights : mapBlocksInFlight[b] = p}
Flying == {b \in Heights : mapBlocksInFlight[b] # NoPeer}

\* The map and the lists of the peers are two records of the same flights.
Records ==
    /\ \A p \in Peers : Lists(vBlocksInFlight[p], Owed(p))
    /\ \A b \in Heights : mapBlocksInFlight[b] \in mapNodeState \cup {NoPeer}

Counters ==
    /\ nSyncStarted = Cardinality(fSyncStarted)
    /\ nPreferredDownload = Cardinality(fPreferredDownload)
    /\ nQueuedValidatedHeaders = Cardinality(Flying) + leaked

IInv == Types /\ Records /\ Counters
-----------------------------------------------------------------------------
(* Lists of blocks                                                         *)

\* A list is as long as the set of blocks it lists.
LEMMA ListsCardinality ==
    ASSUME NEW s \in Seq(Heights), NEW A, Lists(s, A)
    PROVE  IsFiniteSet(A) /\ Cardinality(A) = Len(s)
<1>1. Len(s) \in Nat /\ DOMAIN s = 1..Len(s)
  OBVIOUS
<1>2. s \in [1..Len(s) -> A]
  BY <1>1 DEF Lists
<1>3. s \in Injection(1..Len(s), A)
  BY <1>1, <1>2 DEF Lists, Injection, IsInjective
<1>4. s \in Surjection(1..Len(s), A)
  BY <1>1, <1>2 DEF Lists, Surjection
<1>5. ExistsBijection(1..Len(s), A)
  BY <1>3, <1>4 DEF ExistsBijection, Bijection
<1>6. IsFiniteSet(1..Len(s)) /\ Cardinality(1..Len(s)) = Len(s)
  BY <1>1, FS_Interval
<1>. QED BY <1>5, <1>6, FS_Bijection

\* Requests for further blocks go to the end of the list.
LEMMA ListsAppend ==
    ASSUME NEW s \in Seq(Heights), NEW A, Lists(s, A),
           NEW B \in SUBSET Heights, Cardinality(B) \in Nat, A \cap B = {},
           NEW q \in InOrder(B)
    PROVE  s \o q \in Seq(Heights) /\ Lists(s \o q, A \cup B)
<1>. DEFINE n == Cardinality(B)
<1>1. /\ q \in [1..n -> B] /\ \A i, j \in 1..n : q[i] = q[j] => i = j
      /\ \A b \in B : \E i \in 1..n : q[i] = b
  BY DEF InOrder, Bijection, Injection, IsInjective, Surjection
<1>. HIDE DEF n
<1>2. n \in Nat
  BY DEF n
<1>3. q \in Seq(Heights) /\ Len(q) = n
  <2>1. q \in [1..n -> Heights] BY <1>1
  <2>2. q \in Seq(Heights) BY <2>1, <1>2, IsASeq
  <2>3. Len(q) = n BY <2>1, <2>2, <1>2, LenProperties
  <2>. QED BY <2>2, <2>3
<1>. DEFINE r == s \o q
            m == Len(s)
<1>4. /\ r \in Seq(Heights) /\ Len(r) = m + n
      /\ \A i \in 1..(m + n) : r[i] = IF i <= m THEN s[i] ELSE q[i - m]
  BY <1>3, ConcatProperties
<1>5. m \in Nat /\ DOMAIN s = 1..m /\ DOMAIN r = 1..(m + n)
  BY <1>4
<1>. HIDE DEF r, m
<1>6. ASSUME NEW i \in DOMAIN r, i <= m PROVE i \in DOMAIN s /\ r[i] = s[i] /\ r[i] \in A
  <2>1. i \in DOMAIN s /\ r[i] = s[i] BY <1>2, <1>4, <1>5, <1>6
  <2>. QED BY <2>1 DEF Lists
<1>7. ASSUME NEW i \in DOMAIN r, ~(i <= m)
      PROVE  i - m \in 1..n /\ r[i] = q[i - m] /\ r[i] \in B
  <2>1. i - m \in 1..n /\ r[i] = q[i - m] BY <1>2, <1>4, <1>5, <1>7
  <2>. QED BY <2>1, <1>1
<1>8. ASSUME NEW i \in DOMAIN r, NEW j \in DOMAIN r, r[i] = r[j] PROVE i = j
  <2>1. CASE i <= m /\ j <= m BY <2>1, <1>6, <1>8 DEF Lists
  <2>2. CASE ~(i <= m) /\ ~(j <= m)
    <3>1. i - m = j - m BY <2>2, <1>1, <1>7, <1>8
    <3>. QED BY <3>1, <1>2, <1>5
  <2>3. CASE (i <= m) # (j <= m) BY <2>3, <1>6, <1>7, <1>8
  <2>. QED BY <2>1, <2>2, <2>3
<1>9. ASSUME NEW b PROVE b \in A \cup B <=> \E i \in DOMAIN r : r[i] = b
  <2>1. ASSUME b \in A PROVE \E i \in DOMAIN r : r[i] = b
    <3>1. PICK i \in DOMAIN s : s[i] = b BY <2>1 DEF Lists
    <3>2. i \in DOMAIN r /\ r[i] = b BY <3>1, <1>2, <1>4, <1>5
    <3>. QED BY <3>2
  <2>2. ASSUME b \in B PROVE \E i \in DOMAIN r : r[i] = b
    <3>1. PICK i \in 1..n : q[i] = b BY <2>2, <1>1
    <3>2. m + i \in DOMAIN r /\ ~(m + i <= m) /\ (m + i) - m = i BY <1>2, <1>5
    <3>3. r[m + i] = b BY <3>1, <3>2, <1>7
    <3>. QED BY <3>2, <3>3
  <2>3. ASSUME NEW i \in DOMAIN r PROVE r[i] \in A \cup B BY <1>6, <1>7
  <2>. QED BY <2>1, <2>2, <2>3
<1>10. Lists(r, A \cup B)
  BY <1>8, <1>9 DEF Lists
<1>. QED BY <1>4, <1>10 DEF r

\* The request for a block that has come is erased.
LEMMA ListsRemove ==
    ASSUME NEW s \in Seq(Heights), NEW A, Lists(s, A), NEW b \in A,
           NEW k \in 1..Len(s), s[k] = b
    PROVE  RemoveAt(s, k) \in Seq(Heights) /\ Lists(RemoveAt(s, k), A \ {b})
<1>1. k \in Nat /\ k >= 1 /\ k <= Len(s)
  OBVIOUS
<1>2. Len(s) \in Nat /\ DOMAIN s = 1..Len(s)
  OBVIOUS
<1>. DEFINE a == SubSeq(s, 1, k - 1)
            c == SubSeq(s, k + 1, Len(s))
            r == a \o c
            n == Len(s)
<1>3. a \in Seq(Heights) /\ Len(a) = k - 1 /\ \A i \in 1..(k - 1) : a[i] = s[i]
  <2>1. k - 1 \in Nat /\ k - 1 <= Len(s) BY <1>1, <1>2
  <2>. QED BY <2>1
<1>4. c \in Seq(Heights) /\ Len(c) = n - k /\ \A i \in 1..(n - k) : c[i] = s[k + i]
  <2>1. k + 1 \in 1..(Len(s) + 1) BY <1>1, <1>2
  <2>2. c \in Seq(Heights) /\ Len(c) = IF k + 1 <= Len(s) THEN Len(s) - (k + 1) + 1 ELSE 0
    BY <2>1, <1>2, SubSeqProperties
  <2>3. Len(c) = n - k
    <3>. HIDE DEF c
    <3>1. CASE k + 1 <= n
      <4>1. Len(c) = n - (k + 1) + 1 BY <3>1, <2>2
      <4>. QED BY <4>1, <1>1, <1>2
    <3>2. CASE ~(k + 1 <= n)
      <4>1. Len(c) = 0 BY <3>2, <2>2
      <4>2. n \in Int /\ k \in Int /\ k <= n BY <1>1, <1>2
      <4>. HIDE DEF n
      <4>3. n - k = 0 BY <3>2, <4>2
      <4>. QED BY <4>1, <4>3
    <3>. QED BY <3>1, <3>2
  <2>4. \A i \in 1..(n - k) : c[i] = s[k + i] BY <1>1, <1>2
  <2>. QED BY <2>2, <2>3, <2>4
<1>5. RemoveAt(s, k) = r
  BY DEF RemoveAt
<1>. HIDE DEF a, c
<1>6. /\ r \in Seq(Heights) /\ Len(r) = (k - 1) + (n - k)
      /\ \A i \in 1..((k - 1) + (n - k)) : r[i] = IF i <= k - 1 THEN a[i] ELSE c[i - (k - 1)]
  <2>1. /\ a \o c \in Seq(Heights) /\ Len(a \o c) = Len(a) + Len(c)
        /\ \A i \in 1..(Len(a) + Len(c)) :
              (a \o c)[i] = IF i <= Len(a) THEN a[i] ELSE c[i - Len(a)]
    BY <1>3, <1>4, ConcatProperties
  <2>. QED BY <2>1, <1>3, <1>4
<1>. HIDE DEF r, n
<1>7. n \in Nat /\ k \in 1..n /\ DOMAIN s = 1..n /\ DOMAIN r = 1..(n - 1)
  <2>1. n \in Nat /\ k \in 1..n /\ DOMAIN s = 1..n BY <1>1, <1>2 DEF n
  <2>2. (k - 1) + (n - k) = n - 1 BY <2>1
  <2>. QED BY <2>1, <2>2, <1>6
\* Where an element of the new list comes from.
<1>. DEFINE from(i) == IF i < k THEN i ELSE i + 1
<1>8. ASSUME NEW i \in DOMAIN r PROVE from(i) \in DOMAIN s /\ from(i) # k /\ r[i] = s[from(i)]
  <2>0. i \in 1..((k - 1) + (n - k)) BY <1>7
  <2>1. CASE i < k
    <3>1. i \in 1..(k - 1) /\ i <= k - 1 BY <2>1, <1>7
    <3>2. r[i] = s[i] BY <3>1, <2>0, <1>3, <1>6
    <3>3. i \in DOMAIN s /\ i # k BY <2>1, <1>7
    <3>. QED BY <3>2, <3>3, <2>1
  <2>2. CASE ~(i < k)
    <3>1. i - (k - 1) \in 1..(n - k) /\ k + (i - (k - 1)) = i + 1 /\ ~(i <= k - 1)
      BY <2>2, <1>7
    <3>2. r[i] = c[i - (k - 1)] BY <3>1, <2>0, <1>6
    <3>3. r[i] = s[i + 1] BY <3>1, <3>2, <1>4
    <3>4. i + 1 \in DOMAIN s /\ i + 1 # k BY <2>2, <1>7
    <3>. QED BY <3>3, <3>4, <2>2
  <2>. QED BY <2>1, <2>2
<1>9. ASSUME NEW i \in DOMAIN r, NEW j \in DOMAIN r, r[i] = r[j] PROVE i = j
  <2>1. from(i) = from(j)
    <3>. HIDE DEF from
    <3>. QED BY <1>8, <1>9 DEF Lists
  <2>. QED BY <2>1, <1>7
<1>10. ASSUME NEW x PROVE x \in A \ {b} <=> \E i \in DOMAIN r : r[i] = x
  <2>1. ASSUME x \in A \ {b} PROVE \E i \in DOMAIN r : r[i] = x
    <3>1. PICK j \in DOMAIN s : s[j] = x BY <2>1 DEF Lists
    <3>2. j # k BY <3>1, <2>1, <1>1
    <3>3. PICK i \in DOMAIN r : from(i) = j
      <4>1. CASE j < k
        <5>1. j \in DOMAIN r /\ from(j) = j BY <4>1, <1>7
        <5>. QED BY <5>1
      <4>2. CASE j > k
        <5>1. j - 1 \in DOMAIN r /\ from(j - 1) = j BY <4>2, <1>7
        <5>. QED BY <5>1
      <4>3. j < k \/ j > k BY <3>2, <1>7
      <4>. QED BY <4>1, <4>2, <4>3
    <3>. HIDE DEF from
    <3>. QED BY <3>1, <3>3, <1>8
  <2>2. ASSUME NEW i \in DOMAIN r PROVE r[i] \in A \ {b}
    <3>. HIDE DEF from
    <3>. QED BY <1>1, <1>8 DEF Lists
  <2>. QED BY <2>1, <2>2
<1>11. Lists(r, A \ {b})
  BY <1>9, <1>10 DEF Lists
<1>. QED BY <1>5, <1>6, <1>11

-----------------------------------------------------------------------------
(* Heights                                                                 *)

LEMMA MaxOfTwo ==
    ASSUME NEW a \in Int, NEW b \in Int
    PROVE  Max({a, b}) \in {a, b} /\ Max({a, b}) >= a /\ Max({a, b}) >= b
<1>1. \E x \in {a, b} : \A y \in {a, b} : x >= y
  <2>1. CASE a >= b BY <2>1
  <2>2. CASE b >= a BY <2>2
  <2>. QED BY <2>1, <2>2
<1>. QED BY <1>1 DEF Max

\* A set of natural numbers has a least element.
LEMMA LeastNat ==
    ASSUME NEW S \in SUBSET Nat, S # {}
    PROVE  Min(S) \in S /\ \A y \in S : Min(S) <= y
<1>1. PICK x \in S : \A y \in S : ~(<<y, x>> \in OpToRel(<, Nat))
  BY NatLessThanWellFounded, WFMin, Zenon
<1>2. \A y \in S : x <= y
  <2>. SUFFICES ASSUME NEW y \in S, y < x PROVE FALSE
    OBVIOUS
  <2>1. <<y, x>> \in OpToRel(<, Nat) BY DEF OpToRel
  <2>. QED BY <2>1, <1>1, Zenon
<1>. QED BY <1>2 DEF Min

\* The genesis block is stored, so there is a tip.
LEMMA TipHeight ==
    ASSUME ConstantsOK
    PROVE  Tip \in 0..MaxHeight
<1>. DEFINE S == {h \in 0..MaxHeight : 1..h \subseteq data}
            T == {MaxHeight - h : h \in S}
<1>0. MaxHeight \in Nat
  BY DEF ConstantsOK
<1>1. 0 \in S
  BY <1>0
<1>2. T \in SUBSET Nat /\ T # {}
  BY <1>0, <1>1
<1>3. Min(T) \in T /\ \A y \in T : Min(T) <= y
  <2>. HIDE DEF T
  <2>. QED BY <1>2, LeastNat
<1>4. PICK x \in S : Min(T) = MaxHeight - x
  BY <1>3
<1>5. \A y \in S : x >= y
  <2>. SUFFICES ASSUME NEW y \in S PROVE x >= y
    OBVIOUS
  <2>1. MaxHeight - x <= MaxHeight - y BY <1>3, <1>4
  <2>. QED BY <2>1, <1>0
<1>6. Max(S) \in S
  <2>. HIDE DEF S
  <2>. QED BY <1>5 DEF Max
<1>. QED BY <1>6 DEF Tip

\* What FindNextBlocksToDownload looks at are blocks of the chain.
LEMMA WalkHeights ==
    ASSUME ConstantsOK, Types, NEW p \in Peers
    PROVE  /\ BestAfterLookup(p) \in 0..MaxHeight
           /\ UnknownAfterLookup(p) \in 0..MaxHeight
           /\ Common(p) \in 0..MaxHeight
           /\ Max({Common(p), Min({Tip, BestAfterLookup(p), WindowEnd(p) + 1})}) \in 0..MaxHeight
           /\ Walk(p) \subseteq Heights
<1>0. MaxHeight \in Nat /\ Window \in Nat
  BY DEF ConstantsOK
<1>1. /\ pindexBestKnownBlock[p] \in 0..MaxHeight /\ hashLastUnknownBlock[p] \in 0..MaxHeight
      /\ pindexLastCommonBlock[p] \in 0..MaxHeight
  BY DEF Types
<1>2. BestAfterLookup(p) \in 0..MaxHeight /\ UnknownAfterLookup(p) \in 0..MaxHeight
  <2>1. Max({hashLastUnknownBlock[p], pindexBestKnownBlock[p]}) \in 0..MaxHeight
    <3>1. hashLastUnknownBlock[p] \in Int /\ pindexBestKnownBlock[p] \in Int BY <1>1
    <3>. QED BY <3>1, <1>1, MaxOfTwo
  <2>2. 0 \in 0..MaxHeight BY <1>0
  <2>. QED BY <2>1, <2>2, <1>1 DEF BestAfterLookup, UnknownAfterLookup
<1>3. Tip \in 0..MaxHeight
  BY TipHeight
<1>4. Common(p) \in 0..MaxHeight
  <2>1. ASSUME NEW a \in 0..MaxHeight, NEW b \in 0..MaxHeight PROVE Min({a, b}) \in 0..MaxHeight
    <3>1. {a, b} \in SUBSET Nat /\ {a, b} # {} BY <1>0
    <3>2. Min({a, b}) \in {a, b} BY <3>1, LeastNat
    <3>. QED BY <3>2
  <2>. QED BY <2>1, <1>1, <1>2, <1>3 DEF Common
<1>5. WindowEnd(p) \in Nat
  BY <1>0, <1>4 DEF WindowEnd
<1>6. Max({Common(p), Min({Tip, BestAfterLookup(p), WindowEnd(p) + 1})}) \in 0..MaxHeight
  <2>. DEFINE S == {Tip, BestAfterLookup(p), WindowEnd(p) + 1}
              m == Min(S)
  <2>1. S \in SUBSET Nat /\ S # {}
    BY <1>0, <1>2, <1>3, <1>5
  <2>2. m \in S /\ \A y \in S : m <= y
    <3>. HIDE DEF S
    <3>. QED BY <2>1, LeastNat
  <2>3. m \in Nat /\ m <= Tip
    BY <2>1, <2>2
  <2>. HIDE DEF m
  <2>4. m \in 0..MaxHeight
    BY <2>3, <1>0, <1>3
  <2>5. m \in Int /\ Common(p) \in Int
    BY <2>4, <1>4
  <2>6. Max({Common(p), m}) \in {Common(p), m}
    BY <2>5, MaxOfTwo
  <2>7. Max({Common(p), m}) \in 0..MaxHeight
    BY <2>4, <2>6, <1>4
  <2>. QED BY <2>7 DEF m
<1>7. Walk(p) \subseteq Heights
  <2>. DEFINE S == {BestAfterLookup(p), WindowEnd(p) + 1}
              m == Min(S)
  <2>1. S \in SUBSET Nat /\ S # {}
    BY <1>0, <1>2, <1>5
  <2>2. m \in S /\ \A y \in S : m <= y
    <3>. HIDE DEF S
    <3>. QED BY <2>1, LeastNat
  <2>3. m \in Nat /\ m <= BestAfterLookup(p)
    BY <2>1, <2>2
  <2>4. Walk(p) = (Common(p) + 1)..m
    BY DEF Walk
  <2>. HIDE DEF m
  <2>. QED BY <2>3, <2>4, <1>0, <1>2, <1>4 DEF Heights
<1>. QED BY <1>2, <1>4, <1>6, <1>7

\* Blocks are asked for that nobody owes, and the staller is a peer we know.
LEMMA DownloadSets ==
    ASSUME ConstantsOK, Types, Records, NEW p \in Peers
    PROVE  /\ ToDownload(p) \subseteq {b \in Heights : mapBlocksInFlight[b] = NoPeer}
           /\ Staller(p) \subseteq mapNodeState
<1>1. Walk(p) \subseteq Heights
  BY WalkHeights
<1>2. ToDownload(p) \subseteq {b \in Heights : mapBlocksInFlight[b] = NoPeer}
  BY <1>1 DEF ToDownload, Wanted
<1>3. Staller(p) \subseteq mapNodeState
  <2>. DEFINE flying == {b \in Walk(p) : b \notin data /\ mapBlocksInFlight[b] # NoPeer
                                         /\ b < WindowEnd(p) + 1}
  <2>1. flying \in SUBSET Nat
    BY <1>1 DEF Heights
  <2>2. ASSUME flying # {} PROVE mapBlocksInFlight[Min(flying)] \in mapNodeState
    <3>1. Min(flying) \in flying
      <4>. HIDE DEF flying
      <4>. QED BY <2>1, <2>2, LeastNat
    <3>. QED BY <3>1, <1>1 DEF Records
  <2>3. flying # {} \/ Staller(p) = {}
    BY DEF Staller
  <2>4. Staller(p) \subseteq {mapBlocksInFlight[Min(flying)]}
    BY DEF Staller
  <2>. QED BY <2>2, <2>3, <2>4
<1>. QED BY <1>2, <1>3

-----------------------------------------------------------------------------
(* The invariant                                                           *)

\* Counters by sets of at most one peer, as the code adds and subtracts flags.
LEMMA CountOne ==
    ASSUME ConstantsOK, NEW S \in SUBSET Peers, NEW p \in Peers, NEW T
    PROVE  /\ IsFiniteSet(S) /\ Cardinality(S) \in Nat
           /\ p \notin S =>
                 Cardinality(S \cup (T \cap {p})) = Cardinality(S) + Cardinality(T \cap {p})
           /\ p \notin S => Cardinality(S \cup {p}) = Cardinality(S) + 1
           /\ Cardinality(S \ {p}) = Cardinality(S) - Cardinality(S \cap {p})
<1>1. IsFiniteSet(S) /\ Cardinality(S) \in Nat
  BY FS_Subset, FS_CardinalityType DEF ConstantsOK
<1>2. ASSUME p \notin S
      PROVE  /\ Cardinality(S \cup (T \cap {p})) = Cardinality(S) + Cardinality(T \cap {p})
             /\ Cardinality(S \cup {p}) = Cardinality(S) + 1
  <2>1. Cardinality(S \cup {p}) = Cardinality(S) + 1
    BY <1>1, <1>2, FS_AddElement
  <2>2. CASE p \in T
    <3>1. T \cap {p} = {p} /\ Cardinality({p}) = 1 BY <2>2, FS_Singleton
    <3>. QED BY <3>1, <2>1
  <2>3. CASE p \notin T
    <3>1. T \cap {p} = {} /\ S \cup (T \cap {p}) = S BY <2>3
    <3>2. Cardinality(T \cap {p}) = 0 BY <3>1, FS_EmptySet
    <3>3. Cardinality(S \cup (T \cap {p})) = Cardinality(S) BY <3>1
    <3>. QED BY <3>2, <3>3, <2>1, <1>1
  <2>. QED BY <2>2, <2>3
<1>3. Cardinality(S \ {p}) = Cardinality(S) - Cardinality(S \cap {p})
  BY <1>1, FS_Difference
<1>. QED BY <1>1, <1>2, <1>3

LEMMA FlyingFinite ==
    ASSUME ConstantsOK, NEW S \in SUBSET Heights
    PROVE  IsFiniteSet(S) /\ Cardinality(S) \in Nat
<1>1. IsFiniteSet(Heights)
  BY FS_Interval DEF ConstantsOK, Heights
<1>. QED BY <1>1, FS_Subset, FS_CardinalityType

\* Steps that touch no flight, no counter and no connection.
LEMMA SameFlights ==
    ASSUME Records, UNCHANGED <<vBlocksInFlight, mapBlocksInFlight>>,
           mapNodeState \subseteq mapNodeState'
    PROVE  Records' /\ Flying' = Flying
<1>1. Flying' = Flying /\ \A p : Owed(p)' = Owed(p)
  BY DEF Flying, Owed
<1>2. \A p \in Peers : Lists(vBlocksInFlight[p], Owed(p))'
  BY <1>1 DEF Records, Lists
<1>. QED BY <1>1, <1>2 DEF Records

LEMMA InitializeNodeInv ==
    ASSUME ConstantsOK, IInv, NEW p \in Peers, InitializeNode(p)
    PROVE  IInv'
<1>. USE DEF InitializeNode, IInv
<1>1. Types'
  BY DEF Types, ConstantsOK, known, flights, chain
<1>2. Records' /\ Flying' = Flying
  BY SameFlights DEF flights
<1>3. Counters'
  <2>1. nPreferredDownload' = Cardinality(fPreferredDownload')
    <3>1. fPreferredDownload \in SUBSET Peers /\ p \notin fPreferredDownload
      BY DEF Types
    <3>2. Cardinality(fPreferredDownload \cup (Preferred \cap {p}))
             = Cardinality(fPreferredDownload) + Cardinality(Preferred \cap {p})
      BY <3>1, CountOne
    <3>. QED BY <3>2 DEF Counters
  <2>. QED BY <2>1, <1>2 DEF Counters, flights
<1>. QED BY <1>1, <1>2, <1>3

LEMMA LeaveInv ==
    ASSUME ConstantsOK, IInv, NEW p \in Peers, Leave(p) \/ Timeout(p)
    PROVE  IInv'
<1>. USE DEF Leave, Timeout, IInv
<1>1. Types'
  BY DEF Types, known, flights, chain, counted
<1>2. Records' /\ Flying' = Flying
  BY SameFlights DEF flights
<1>3. Counters'
  BY <1>2 DEF Counters, flights, counted
<1>. QED BY <1>1, <1>2, <1>3

LEMMA StartSyncInv ==
    ASSUME ConstantsOK, IInv, NEW p \in Peers, StartSync(p)
    PROVE  IInv'
<1>. USE DEF StartSync, IInv
<1>1. Types'
  BY DEF Types, known, flights, chain
<1>2. Records' /\ Flying' = Flying
  BY SameFlights DEF flights
<1>3. Counters'
  <2>1. nSyncStarted' = Cardinality(fSyncStarted')
    BY CountOne DEF Types, Counters
  <2>. QED BY <2>1, <1>2 DEF Counters, flights
<1>. QED BY <1>1, <1>2, <1>3

LEMMA ReceiveInvInv ==
    ASSUME ConstantsOK, IInv, NEW p \in Peers, NEW b \in Heights, ReceiveInv(p, b)
    PROVE  IInv'
<1>. USE DEF ReceiveInv, IInv
<1>1. Types'
  <2>1. BestAfterLookup(p) \in 0..MaxHeight /\ UnknownAfterLookup(p) \in 0..MaxHeight
    BY WalkHeights
  <2>2. b \in 0..MaxHeight /\ b \in Int /\ BestAfterLookup(p) \in Int
    BY <2>1 DEF Heights
  <2>3. Max({b, BestAfterLookup(p)}) \in 0..MaxHeight
    BY <2>1, <2>2, MaxOfTwo
  <2>4. pindexBestKnownBlock' \in [Peers -> 0..MaxHeight]
    BY <2>1, <2>3 DEF Types
  <2>5. hashLastUnknownBlock' \in [Peers -> 0..MaxHeight]
    BY <2>1, <2>2 DEF Types
  <2>. QED BY <2>4, <2>5 DEF Types, flights, chain, counted
<1>2. Records' /\ Flying' = Flying
  BY SameFlights DEF flights
<1>3. Counters'
  BY <1>2 DEF Counters, flights, counted
<1>. QED BY <1>1, <1>2, <1>3

LEMMA StoreBlockInv ==
    ASSUME ConstantsOK, IInv, NEW b \in Heights, StoreBlock(b)
    PROVE  IInv'
<1>. USE DEF StoreBlock, IInv
<1>1. Types'
  BY DEF Types, known, flights, counted
<1>2. Records' /\ Flying' = Flying
  BY SameFlights DEF flights
<1>3. Counters'
  BY <1>2 DEF Counters, flights, counted
<1>. QED BY <1>1, <1>2, <1>3

\* The list of the peer goes with it, and so do the entries of the map it owes; what
\* nQueuedValidatedHeaders keeps counting is the length of that list.
LEMMA FinalizeNodeInv ==
    ASSUME ConstantsOK, IInv, NEW p \in Peers, FinalizeNode(p)
    PROVE  IInv'
<1>1. /\ p \in mapNodeState
      /\ mapBlocksInFlight' = FlightsWithout(p)
      /\ vBlocksInFlight' = [vBlocksInFlight EXCEPT ![p] = << >>]
      /\ leaked' = leaked + Len(vBlocksInFlight[p])
      /\ mapNodeState' = mapNodeState \ {p}
      /\ fSyncStarted' = fSyncStarted \ {p}
      /\ fPreferredDownload' = fPreferredDownload \ {p}
      /\ nSyncStarted' = nSyncStarted - Cardinality(fSyncStarted \cap {p})
      /\ nPreferredDownload' = nPreferredDownload - Cardinality(fPreferredDownload \cap {p})
      /\ nQueuedValidatedHeaders' = nQueuedValidatedHeaders
  BY DEF FinalizeNode, PreferredAfter
<1>2. /\ fDisconnect' = fDisconnect \ {p} /\ nStallingSince' = nStallingSince \ {p}
      /\ pindexBestKnownBlock' = [pindexBestKnownBlock EXCEPT ![p] = 0]
      /\ hashLastUnknownBlock' = [hashLastUnknownBlock EXCEPT ![p] = 0]
      /\ pindexLastCommonBlock' = [pindexLastCommonBlock EXCEPT ![p] = 0]
      /\ UNCHANGED <<index, data>>
  BY DEF FinalizeNode, chain
<1>3. /\ vBlocksInFlight \in [Peers -> Seq(Heights)] /\ vBlocksInFlight[p] \in Seq(Heights)
      /\ mapBlocksInFlight \in [Heights -> Peers \cup {NoPeer}] /\ NoPeer \notin Peers
      /\ leaked \in Nat /\ MaxHeight \in Nat
  BY DEF IInv, Types, ConstantsOK
<1>4. /\ mapBlocksInFlight' \in [Heights -> Peers \cup {NoPeer}]
      /\ Flying' = Flying \ Owed(p) /\ Owed(p) \subseteq Flying /\ Flying \subseteq Heights
      /\ Owed(p)' = {} /\ \A q \in Peers \ {p} : Owed(q)' = Owed(q)
  BY <1>1, <1>3 DEF FlightsWithout, Flying, Owed
<1>5. Types'
  <2>1. << >> \in Seq(Heights) BY EmptySeq
  <2>2. vBlocksInFlight' \in [Peers -> Seq(Heights)] BY <2>1, <1>1, <1>3
  <2>3. /\ pindexBestKnownBlock' \in [Peers -> 0..MaxHeight]
        /\ hashLastUnknownBlock' \in [Peers -> 0..MaxHeight]
        /\ pindexLastCommonBlock' \in [Peers -> 0..MaxHeight]
    BY <1>2, <1>3 DEF IInv, Types
  <2>4. leaked' \in Nat BY <1>1, <1>3
  <2>. QED BY <2>2, <2>3, <2>4, <1>1, <1>2, <1>4 DEF IInv, Types
<1>6. Records'
  <2>1. ASSUME NEW q \in Peers PROVE Lists(vBlocksInFlight'[q], Owed(q)')
    <3>1. CASE q = p
      <4>1. vBlocksInFlight'[q] = << >> /\ DOMAIN << >> = {} BY <3>1, <1>1, <1>3
      <4>. QED BY <4>1, <3>1, <1>4 DEF Lists
    <3>2. CASE q # p BY <3>2, <1>1, <1>3, <1>4 DEF IInv, Records
    <3>. QED BY <3>1, <3>2
  <2>2. \A b \in Heights : mapBlocksInFlight'[b] \in mapNodeState' \cup {NoPeer}
    BY <1>1 DEF IInv, Records, FlightsWithout
  <2>. QED BY <2>1, <2>2 DEF Records
<1>7. Counters'
  <2>1. nSyncStarted' = Cardinality(fSyncStarted')
    BY <1>1, CountOne DEF IInv, Types, Counters
  <2>2. nPreferredDownload' = Cardinality(fPreferredDownload')
    BY <1>1, CountOne DEF IInv, Types, Counters
  <2>3. nQueuedValidatedHeaders' = Cardinality(Flying') + leaked'
    <3>1. Cardinality(Owed(p)) = Len(vBlocksInFlight[p])
      BY <1>3, ListsCardinality DEF IInv, Records
    <3>2. IsFiniteSet(Flying) /\ Cardinality(Flying) \in Nat
      BY <1>4, FlyingFinite
    <3>3. Cardinality(Flying') = Cardinality(Flying) - Cardinality(Owed(p))
      <4>1. Flying \cap Owed(p) = Owed(p) BY <1>4
      <4>2. Cardinality(Flying \ Owed(p)) = Cardinality(Flying) - Cardinality(Flying \cap Owed(p))
        BY <3>2, FS_Difference
      <4>. QED BY <4>1, <4>2, <1>4
    <3>4. Len(vBlocksInFlight[p]) \in Nat BY <1>3
    <3>. QED BY <3>1, <3>2, <3>3, <3>4, <1>1, <1>3 DEF IInv, Counters
  <2>. QED BY <2>1, <2>2, <2>3 DEF Counters
<1>. QED BY <1>5, <1>6, <1>7 DEF IInv

\* A block has come: its owner, who need not be the sender, no longer owes it.
LEMMA MarkBlockAsReceivedInv ==
    ASSUME ConstantsOK, IInv, NEW b \in Heights, MarkBlockAsReceived(b),
           UNCHANGED <<mapNodeState, fDisconnect, counted, known, leaked>>,
           data' \subseteq index', index' \subseteq Heights
    PROVE  IInv'
<1>0. PICK p : p = mapBlocksInFlight[b]
  OBVIOUS
<1>1. CASE p = NoPeer
  <2>1. UNCHANGED <<vBlocksInFlight, mapBlocksInFlight, nQueuedValidatedHeaders, nStallingSince>>
    BY <1>0, <1>1 DEF MarkBlockAsReceived, flights
  <2>2. Records' /\ Flying' = Flying
    BY <2>1, SameFlights DEF IInv
  <2>3. Types'
    BY <2>1 DEF IInv, Types, counted, known
  <2>4. Counters'
    BY <2>1, <2>2 DEF IInv, Counters, counted
  <2>. QED BY <2>2, <2>3, <2>4 DEF IInv
<1>2. CASE p # NoPeer
  <2>. DEFINE s == vBlocksInFlight[p]
              k == CHOOSE i \in DOMAIN s : s[i] = b
  <2>1. /\ nQueuedValidatedHeaders' = nQueuedValidatedHeaders - 1
        /\ vBlocksInFlight' = [vBlocksInFlight EXCEPT ![p] = RemoveAt(s, k)]
        /\ nStallingSince' = nStallingSince \ {p}
        /\ mapBlocksInFlight' = [mapBlocksInFlight EXCEPT ![b] = NoPeer]
    BY <1>0, <1>2 DEF MarkBlockAsReceived
  <2>2. /\ p \in Peers /\ s \in Seq(Heights) /\ b \in Owed(p) /\ Lists(s, Owed(p))
        /\ vBlocksInFlight \in [Peers -> Seq(Heights)]
        /\ mapBlocksInFlight \in [Heights -> Peers \cup {NoPeer}] /\ NoPeer \notin Peers
    BY <1>0, <1>2 DEF IInv, Types, Records, Owed, ConstantsOK
  <2>3. RemoveAt(s, k) \in Seq(Heights) /\ Lists(RemoveAt(s, k), Owed(p) \ {b})
    <3>1. \E i \in DOMAIN s : s[i] = b BY <2>2 DEF Lists
    <3>2. k \in 1..Len(s) /\ s[k] = b BY <3>1, <2>2
    <3>. HIDE DEF s, k
    <3>. QED BY <3>2, <2>2, ListsRemove
  <2>4. /\ mapBlocksInFlight' \in [Heights -> Peers \cup {NoPeer}]
        /\ Flying' = Flying \ {b} /\ b \in Flying /\ Flying \subseteq Heights
        /\ Owed(p)' = Owed(p) \ {b} /\ \A q \in Peers \ {p} : Owed(q)' = Owed(q)
    BY <2>1, <2>2, <1>0, <1>2 DEF Flying, Owed
  <2>. HIDE DEF k, s
  <2>5. Types'
    <3>1. vBlocksInFlight' \in [Peers -> Seq(Heights)]
      BY <2>1, <2>2, <2>3
    <3>. QED BY <3>1, <2>1, <2>4 DEF IInv, Types, counted, known
  <2>6. Records'
    <3>1. ASSUME NEW q \in Peers PROVE Lists(vBlocksInFlight'[q], Owed(q)')
      <4>1. CASE q = p BY <4>1, <2>1, <2>2, <2>3, <2>4
      <4>2. CASE q # p
        <5>1. vBlocksInFlight'[q] = vBlocksInFlight[q] /\ Owed(q)' = Owed(q)
          BY <4>2, <2>1, <2>2, <2>4
        <5>. QED BY <5>1 DEF IInv, Records
      <4>. QED BY <4>1, <4>2
    <3>2. \A c \in Heights : mapBlocksInFlight'[c] \in mapNodeState' \cup {NoPeer}
      BY <2>1, <2>2 DEF IInv, Records
    <3>. QED BY <3>1, <3>2 DEF Records
  <2>7. Counters'
    <3>1. IsFiniteSet(Flying) /\ Cardinality(Flying) \in Nat
      BY <2>4, FlyingFinite
    <3>2. Cardinality(Flying') = Cardinality(Flying) - 1
      BY <3>1, <2>4, FS_RemoveElement
    <3>3. leaked \in Nat BY DEF IInv, Types
    <3>. QED BY <3>1, <3>2, <3>3, <2>1 DEF IInv, Counters, counted
  <2>. QED BY <2>5, <2>6, <2>7 DEF IInv
<1>. QED BY <1>1, <1>2

LEMMA ReceiveBlockInv ==
    ASSUME ConstantsOK, IInv, NEW p \in Peers, NEW b \in Heights, ReceiveBlock(p, b)
    PROVE  IInv'
<1>1. data' \subseteq index' /\ index' \subseteq Heights
  BY DEF ReceiveBlock, IInv, Types
<1>. QED BY <1>1, MarkBlockAsReceivedInv DEF ReceiveBlock

\* Blocks are asked for: they join the map and the end of the peer's list together.
LEMMA FetchBlocksInv ==
    ASSUME ConstantsOK, IInv, NEW p \in Peers, FetchBlocks(p)
    PROVE  IInv'
<1>1. /\ pindexBestKnownBlock' = [pindexBestKnownBlock EXCEPT ![p] = BestAfterLookup(p)]
      /\ hashLastUnknownBlock' = [hashLastUnknownBlock EXCEPT ![p] = UnknownAfterLookup(p)]
      /\ p \in mapNodeState
      /\ UNCHANGED <<mapNodeState, fDisconnect, fSyncStarted, fPreferredDownload, nSyncStarted,
                     nPreferredDownload, index, data, leaked>>
  BY DEF FetchBlocks, counted, chain
<1>2. /\ pindexBestKnownBlock' \in [Peers -> 0..MaxHeight]
      /\ hashLastUnknownBlock' \in [Peers -> 0..MaxHeight]
  BY <1>1, WalkHeights DEF IInv, Types
<1>3. CASE UNCHANGED <<pindexLastCommonBlock, flights>>
  <2>1. Types'
    BY <1>1, <1>2, <1>3 DEF IInv, Types, flights
  <2>2. Records' /\ Flying' = Flying
    BY <1>1, <1>3, SameFlights DEF IInv, flights
  <2>3. Counters'
    BY <2>2, <1>1, <1>3 DEF IInv, Counters, flights
  <2>. QED BY <2>1, <2>2, <2>3 DEF IInv
<1>4. CASE ~UNCHANGED <<pindexLastCommonBlock, flights>>
  <2>0. PICK S : S = ToDownload(p)
    OBVIOUS
  <2>1. /\ pindexLastCommonBlock' = [pindexLastCommonBlock EXCEPT ![p] =
               Max({Common(p), Min({Tip, BestAfterLookup(p), WindowEnd(p) + 1})})]
        /\ \E v \in InOrder(S) : vBlocksInFlight' = [vBlocksInFlight EXCEPT ![p] = @ \o v]
        /\ mapBlocksInFlight' = [b \in Heights |-> IF b \in S THEN p ELSE mapBlocksInFlight[b]]
        /\ nQueuedValidatedHeaders' = nQueuedValidatedHeaders + Cardinality(S)
        /\ nStallingSince' \subseteq nStallingSince \cup Staller(p)
    BY <2>0, <1>4 DEF FetchBlocks
  <2>2. PICK v \in InOrder(S) : vBlocksInFlight' = [vBlocksInFlight EXCEPT ![p] = @ \o v]
    BY <2>1
  <2>3. /\ S \subseteq {b \in Heights : mapBlocksInFlight[b] = NoPeer}
        /\ Staller(p) \subseteq mapNodeState
    BY <2>0, DownloadSets DEF IInv
  <2>4. /\ vBlocksInFlight \in [Peers -> Seq(Heights)] /\ vBlocksInFlight[p] \in Seq(Heights)
        /\ Lists(vBlocksInFlight[p], Owed(p))
        /\ mapBlocksInFlight \in [Heights -> Peers \cup {NoPeer}] /\ NoPeer \notin Peers
        /\ leaked \in Nat
    BY DEF IInv, Types, Records, ConstantsOK
  <2>5. /\ mapBlocksInFlight' \in [Heights -> Peers \cup {NoPeer}]
        /\ Flying' = Flying \cup S /\ Flying \cap S = {} /\ Flying \subseteq Heights
        /\ Owed(p)' = Owed(p) \cup S /\ Owed(p) \cap S = {} /\ S \subseteq Heights
        /\ \A q \in Peers \ {p} : Owed(q)' = Owed(q)
    BY <2>1, <2>3, <2>4 DEF Flying, Owed
  <2>6. /\ IsFiniteSet(S) /\ Cardinality(S) \in Nat
        /\ IsFiniteSet(Flying) /\ Cardinality(Flying) \in Nat
    BY <2>5, FlyingFinite
  <2>7. /\ vBlocksInFlight[p] \o v \in Seq(Heights)
        /\ Lists(vBlocksInFlight[p] \o v, Owed(p) \cup S)
    BY <2>4, <2>5, <2>6, ListsAppend
  <2>8. Types'
    <3>1. vBlocksInFlight' \in [Peers -> Seq(Heights)]
      BY <2>2, <2>4, <2>7
    <3>2. pindexLastCommonBlock' \in [Peers -> 0..MaxHeight]
      BY <2>1, WalkHeights DEF IInv, Types
    <3>3. nStallingSince' \subseteq mapNodeState'
      BY <2>1, <2>3, <1>1 DEF IInv, Types
    <3>. QED BY <3>1, <3>2, <3>3, <2>5, <1>1, <1>2 DEF IInv, Types
  <2>9. Records'
    <3>1. ASSUME NEW q \in Peers PROVE Lists(vBlocksInFlight'[q], Owed(q)')
      <4>1. CASE q = p
        <5>1. vBlocksInFlight'[q] = vBlocksInFlight[p] \o v BY <4>1, <2>2, <2>4
        <5>. QED BY <5>1, <4>1, <2>5, <2>7
      <4>2. CASE q # p
        <5>1. vBlocksInFlight'[q] = vBlocksInFlight[q] /\ Owed(q)' = Owed(q)
          BY <4>2, <2>2, <2>4, <2>5
        <5>. QED BY <5>1 DEF IInv, Records
      <4>. QED BY <4>1, <4>2
    <3>2. \A c \in Heights : mapBlocksInFlight'[c] \in mapNodeState' \cup {NoPeer}
      BY <2>1, <1>1 DEF IInv, Records
    <3>. QED BY <3>1, <3>2 DEF Records
  <2>10. Counters'
    <3>1. Cardinality(Flying') = Cardinality(Flying) + Cardinality(S)
      <4>1. Cardinality(Flying \cap S) = 0 BY <2>5, FS_EmptySet
      <4>2. Cardinality(Flying \cup S)
               = Cardinality(Flying) + Cardinality(S) - Cardinality(Flying \cap S)
        BY <2>6, FS_Union
      <4>3. Cardinality(Flying \cup S) = Cardinality(Flying) + Cardinality(S)
        BY <4>1, <4>2, <2>6
      <4>. QED BY <4>3, <2>5
    <3>. QED BY <3>1, <2>1, <2>4, <2>6, <1>1 DEF IInv, Counters
  <2>. QED BY <2>8, <2>9, <2>10 DEF IInv
<1>. QED BY <1>3, <1>4

LEMMA InvariantInit ==
    ASSUME ConstantsOK, Init
    PROVE  IInv
<1>. USE DEF Init
<1>1. Types
  BY EmptySeq DEF Types, ConstantsOK
<1>2. Flying = {} /\ \A p \in Peers : Owed(p) = {} /\ DOMAIN vBlocksInFlight[p] = {}
  BY DEF Flying, Owed, ConstantsOK
<1>3. Records
  BY <1>2 DEF Records, Lists
<1>4. Counters
  BY <1>2, FS_EmptySet DEF Counters
<1>. QED BY <1>1, <1>3, <1>4 DEF IInv

LEMMA InvariantStep ==
    ASSUME ConstantsOK, IInv, [Next]_vars
    PROVE  IInv'
<1>1. CASE UNCHANGED vars
  <2>1. Types'
    BY <1>1 DEF vars, IInv, Types
  <2>2. Records' /\ Flying' = Flying
    BY <1>1, SameFlights DEF vars, IInv
  <2>3. Counters'
    BY <2>2, <1>1 DEF vars, IInv, Counters
  <2>. QED BY <2>1, <2>2, <2>3 DEF IInv
<1>2. ASSUME NEW p \in Peers,
             InitializeNode(p) \/ Leave(p) \/ FinalizeNode(p) \/ StartSync(p) \/ Timeout(p)
                \/ FetchBlocks(p)
      PROVE  IInv'
  BY <1>2, InitializeNodeInv, LeaveInv, FinalizeNodeInv, StartSyncInv, FetchBlocksInv
<1>3. ASSUME NEW p \in Peers, NEW b \in Heights, ReceiveInv(p, b) \/ ReceiveBlock(p, b)
      PROVE  IInv'
  BY <1>3, ReceiveInvInv, ReceiveBlockInv
<1>4. ASSUME NEW b \in Heights, StoreBlock(b) PROVE IInv'
  BY <1>4, StoreBlockInv
<1>. QED BY <1>1, <1>2, <1>3, <1>4 DEF Next

LEMMA Invariant ==
    ASSUME ConstantsOK
    PROVE  Spec => []IInv
<1>1. Init => IInv
  BY InvariantInit
<1>2. IInv /\ [Next]_vars => IInv'
  BY InvariantStep
<1>. QED BY <1>1, <1>2, PTL DEF Spec

\* The lists, counted the way FlightsAgree does.
LEMMA RecordsAgree ==
    ASSUME ConstantsOK, IInv
    PROVE  FlightsAgree
<1>1. ASSUME NEW b \in Heights, NEW p \in Peers
      PROVE  Cardinality({i \in DOMAIN vBlocksInFlight[p] : vBlocksInFlight[p][i] = b})
                = IF mapBlocksInFlight[b] = p THEN 1 ELSE 0
  <2>. DEFINE s == vBlocksInFlight[p]
              I == {i \in DOMAIN s : s[i] = b}
  <2>1. Lists(s, Owed(p)) /\ (b \in Owed(p) <=> mapBlocksInFlight[b] = p)
    BY DEF IInv, Records, Owed
  <2>2. CASE mapBlocksInFlight[b] = p
    <3>1. PICK i \in DOMAIN s : s[i] = b
      BY <2>1, <2>2 DEF Lists
    <3>2. I = {i}
      BY <3>1, <2>1 DEF Lists
    <3>. QED BY <3>2, <2>2, FS_Singleton
  <2>3. CASE mapBlocksInFlight[b] # p
    <3>1. I = {}
      BY <2>1, <2>3 DEF Lists
    <3>. QED BY <3>1, <2>3, FS_EmptySet
  <2>. QED BY <2>2, <2>3
<1>. QED BY <1>1 DEF IInv, Records, Counters, Flying, FlightsAgree

(***************************************************************************)
(* The bookkeeping about peers is well typed; a peer that is accused of    *)
(* stalling (State(staller)->nStallingSince) is one that is connected.     *)
(***************************************************************************)
THEOREM TypeCorrect ==
    ASSUME ConstantsOK
    PROVE  Spec => []TypeOK
<1>1. IInv => TypeOK
  <2>. SUFFICES ASSUME IInv PROVE TypeOK
    OBVIOUS
  <2>1. Cardinality(Flying) \in Nat
    BY FlyingFinite DEF Flying
  <2>2. nQueuedValidatedHeaders \in Nat
    BY <2>1 DEF IInv, Types, Counters
  <2>. QED BY <2>2 DEF IInv, Types, TypeOK
<1>. QED BY <1>1, Invariant, PTL

(***************************************************************************)
(* mapBlocksInFlight and the lists vBlocksInFlight are the same flights,   *)
(* and the counters are exact, for any number of peers, any window and any *)
(* number of requests per peer: the iterator that MarkBlockAsReceived      *)
(* erases by is the one entry for the block, in the list of a peer that is *)
(* connected, and nQueuedValidatedHeaders is too high by exactly the       *)
(* flights of the peers that FinalizeNode has seen off.                    *)
(***************************************************************************)
THEOREM FlightRecordsAgree ==
    ASSUME ConstantsOK
    PROVE  Spec => []FlightsAgree
<1>1. IInv => FlightsAgree
  BY RecordsAgree
<1>. QED BY <1>1, Invariant, PTL
=============================================================================
