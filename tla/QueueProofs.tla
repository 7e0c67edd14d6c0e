---------------------------- MODULE QueueProofs -----------------------------
(***************************************************************************)
(* Two queues of a node, for any constants: the orphans that a TX message  *)
(* sets free, and the callbacks of the validation interface.               *)
(*                                                                         *)
(* OrphanPool: the argument is the loop over vWorkQueue.  Each turn keeps  *)
(* every orphan either answered or with a parent still to come in the      *)
(* queue, and at the end none is to come.                                  *)
(*                                                                         *)
(* ValidationInterface: the callbacks run one at a time and in order, for  *)
(* any number of threads: the client implements SerialQueue.               *)
(***************************************************************************)
EXTENDS ValidationInterface, OrphanPool, FiniteSetTheorems, WellFoundedInduction,
        NaturalsInduction, TLAPS

(* OrphanPool *)

(* A set of numbers that is not empty has a least one.                     *)
LEMMA Least ==
    ASSUME NEW S \in SUBSET Nat, S # {}
    PROVE  \E x \in S : \A y \in S : x <= y
<1>1. PICK x \in S : \A y \in S : ~(<<y, x>> \in OpToRel(<, Nat))
  BY NatLessThanWellFounded, WFMin, Zenon
<1>2. \A y \in S : x <= y
  <2>. SUFFICES ASSUME NEW y \in S, y < x PROVE FALSE
    OBVIOUS
  <2>1. <<y, x>> \in OpToRel(<, Nat) BY DEF OpToRel
  <2>. QED BY <2>1, <1>1, Zenon
<1>. QED BY <1>2

(* What holds of 0 and passes from i - 1 to i holds up to n: the induction *)
(* behind every loop.                                                      *)
LEMMA CountUp ==
    ASSUME NEW n \in Nat, NEW S, 0 \in S, \A i \in 1..n : i - 1 \in S => i \in S
    PROVE  \A i \in 0..n : i \in S
<1> SUFFICES ASSUME NEW j \in 0..n, j \notin S PROVE FALSE
  OBVIOUS
<1>1. PICK x \in (0..n) \ S : \A y \in (0..n) \ S : x <= y
  <2>1. (0..n) \ S \in SUBSET Nat /\ (0..n) \ S # {}
    OBVIOUS
  <2> QED BY <2>1, Least, Zenon
<1>2. x # 0 /\ x \in 1..n /\ x - 1 \in 0..n /\ ~(x <= x - 1)
  BY <1>1
<1>3. x - 1 \in S
  BY <1>1, <1>2
<1> QED BY <1>1, <1>2, <1>3

(* F has a step for each of n turns, from states in W to states in W.      *)
Steps(n, W, F) == F \in [1..n -> [W -> W]]

(* There is a run of n turns of F from w.                                  *)
HasRun(n, W, w, F) == \E g \in [0..n -> W] : g[0] = w /\ \A i \in 1..n : g[i] = F[i][g[i - 1]]

(* Every such loop has a run, so a recursive function that is defined by   *)
(* one is what it says.                                                    *)
LEMMA RunExists ==
    ASSUME NEW n \in Nat, NEW W, NEW w \in W, NEW F, Steps(n, W, F)
    PROVE  HasRun(n, W, w, F)
<1> F \in [1..n -> [W -> W]]
  BY DEF Steps
<1> DEFINE Good(k) == \E g \in [0..n -> W] : \A i \in 0..k : g[i] = IF i = 0 THEN w ELSE F[i][g[i - 1]]
           S == {k \in 0..n : Good(k)}
<1>1. 0 \in S
  <2>1. [i \in 0..n |-> w] \in [0..n -> W] /\ \A i \in 0..0 : i = 0 /\ [j \in 0..n |-> w][i] = w
    OBVIOUS
  <2>2. Good(0)
    BY <2>1, Zenon
  <2> QED BY <2>2
<1>2. ASSUME NEW k \in 1..n, k - 1 \in S PROVE k \in S
  <2>1. PICK g \in [0..n -> W] : \A i \in 0..(k - 1) : g[i] = IF i = 0 THEN w ELSE F[i][g[i - 1]]
    BY <1>2
  <2> DEFINE h == [g EXCEPT ![k] = F[k][g[k - 1]]]
  <2>2. h \in [0..n -> W]
    OBVIOUS
  <2>3. ASSUME NEW i \in 0..k PROVE h[i] = IF i = 0 THEN w ELSE F[i][h[i - 1]]
    <3>1. CASE i = k
      BY <3>1
    <3>2. CASE i # k
      BY <2>1, <3>2
    <3> QED BY <3>1, <3>2
  <2>4. Good(k)
    <3> HIDE DEF h
    <3> QED BY <2>2, <2>3, Zenon
  <2> QED BY <2>4
<1>3. n \in S
  <2> HIDE DEF S
  <2>1. \A k \in 1..n : k - 1 \in S => k \in S
    BY <1>2
  <2>2. \A i \in 0..n : i \in S
    BY <1>1, <2>1, CountUp, Zenon
  <2> QED BY <2>2
<1>4. PICK g \in [0..n -> W] : \A i \in 0..n : g[i] = IF i = 0 THEN w ELSE F[i][g[i - 1]]
  BY <1>3
<1>5. g[0] = w /\ \A i \in 1..n : g[i] = F[i][g[i - 1]]
  BY <1>4
<1> QED BY <1>5 DEF HasRun

-----------------------------------------------------------------------------
(* What the TX handler works on: the pool, vWorkQueue and the place in it, *)
(* the orphans to erase, those rejected, the peers punished and the        *)
(* orphans tried again after they were accepted.                           *)
Work == [pool : SUBSET Txs, queue : Seq(Txs), next : Nat \ {0}, erase : SUBSET Txs,
         rejects : SUBSET Txs, guilty : SUBSET (Peers \cup {NoPeer}), again : SUBSET Txs]

(* In the loop, the pool has grown by the queue, which has nothing twice;  *)
(* only invalid, confirmed or twice tried orphans are rejected.            *)
Sound(v) ==
  /\ v \in Work
  /\ v.pool = pool \cup {v.queue[i] : i \in 1..Len(v.queue)}
  /\ v.pool \cap Invalid = {}
  /\ \A i \in 1..Len(v.queue) : v.queue[i] \notin chain
  /\ \A i, j \in 1..Len(v.queue) : v.queue[i] = v.queue[j] => i = j
  /\ v.rejects \subseteq Invalid \cup chain \cup v.again

(* Orphan o needs no more attention: it will be erased, lost a parent      *)
(* otherwise, came from a punished peer or still lacks a parent.           *)
Answered(v, o) ==
  \/ o \in v.erase \cup otherwise
  \/ fromPeer[o] \in v.guilty
  \/ ~(Parents[o] \subseteq v.pool \cup chain)

(* A parent of o is in the queue from the place on.                        *)
Coming(v, o, from) == \E q \in from..Len(v.queue) : v.queue[q] \in Parents[o]

(* The outcomes of TryOrphan.                                              *)
LEMMA TryResult ==
  ASSUME NEW v \in Work, NEW o \in Txs
  PROVE  LET u == TryOrphan(v, o) IN
         \/ fromPeer[o] \in v.guilty /\ u = v
         \/ /\ o \notin v.pool \cup chain \cup Invalid /\ Parents[o] \subseteq v.pool \cup chain
            /\ u = [v EXCEPT !.pool = v.pool \cup {o}, !.queue = Append(v.queue, o), !.erase = v.erase \cup {o}]
         \/ ~(Parents[o] \subseteq v.pool \cup chain) /\ u = v
         \/ \E g \in {{}, {fromPeer[o]}}, a \in {{}, {o}} :
               /\ o \in Invalid \cup chain \cup a
               /\ u = [v EXCEPT !.erase = v.erase \cup {o}, !.rejects = v.rejects \cup {o},
                                !.guilty = v.guilty \cup g, !.again = v.again \cup a]
<1>1. CASE fromPeer[o] \in v.guilty
  BY <1>1 DEF TryOrphan
<1>2. CASE fromPeer[o] \notin v.guilty /\ AcceptToMemoryPool(o, v.pool) = "accepted"
  <2>1. o \notin v.pool \cup chain \cup Invalid /\ Parents[o] \subseteq v.pool \cup chain
    BY <1>2 DEF AcceptToMemoryPool
  <2> QED BY <1>2, <2>1 DEF TryOrphan
<1>3. CASE fromPeer[o] \notin v.guilty /\ AcceptToMemoryPool(o, v.pool) = "missing"
  <2>1. ~(Parents[o] \subseteq v.pool \cup chain)
    BY <1>3 DEF AcceptToMemoryPool
  <2> QED BY <1>3, <2>1 DEF TryOrphan
<1>4. CASE fromPeer[o] \notin v.guilty /\ AcceptToMemoryPool(o, v.pool) \in {"invalid", "known"}
  <2> DEFINE g == IF AcceptToMemoryPool(o, v.pool) = "invalid" /\ o \in Punished THEN {fromPeer[o]} ELSE {}
             a == IF AcceptToMemoryPool(o, v.pool) = "known" THEN {o} ELSE {}
  <2>1. g \in {{}, {fromPeer[o]}} /\ a \in {{}, {o}}
    OBVIOUS
  <2>2. o \in Invalid \cup chain \cup a
    BY <1>4 DEF AcceptToMemoryPool
  <2>3. TryOrphan(v, o) = [v EXCEPT !.erase = v.erase \cup {o}, !.rejects = v.rejects \cup {o},
                                    !.guilty = v.guilty \cup g, !.again = v.again \cup a]
    <3>1. CASE AcceptToMemoryPool(o, v.pool) = "invalid" /\ o \in Punished
      BY <1>4, <3>1 DEF TryOrphan, Work
    <3>2. CASE AcceptToMemoryPool(o, v.pool) = "invalid" /\ o \notin Punished
      BY <1>4, <3>2 DEF TryOrphan, Work
    <3>3. CASE AcceptToMemoryPool(o, v.pool) = "known"
      BY <1>4, <3>3 DEF TryOrphan, Work
    <3> QED BY <1>4, <3>1, <3>2, <3>3
  <2> HIDE DEF g, a
  <2> QED BY <2>1, <2>2, <2>3, Zenon
<1> QED BY <1>1, <1>2, <1>3, <1>4 DEF AcceptToMemoryPool

(* TryOrphan keeps the work sound, answers o, and loses no other orphan.   *)
LEMMA TryKeeps ==
  ASSUME ConstantsOK, OrphanTypeOK, NEW v, Sound(v), v.next <= Len(v.queue), NEW o \in Txs
  PROVE  /\ Sound(TryOrphan(v, o))
         /\ TryOrphan(v, o).next = v.next
         /\ TryOrphan(v, o).next <= Len(TryOrphan(v, o).queue)
         /\ TryOrphan(v, o).queue[v.next] = v.queue[v.next]
         /\ Answered(TryOrphan(v, o), o)
         /\ \A x \in Txs : \/ ~Answered(v, x) /\ ~Coming(v, x, v.next + 1)
                           \/ Answered(TryOrphan(v, o), x)
                           \/ Coming(TryOrphan(v, o), x, v.next + 1)
<1>0. v \in Work /\ fromPeer[o] \in Peers \cup {NoPeer}
  BY DEF Sound, OrphanTypeOK
<1>1. PICK u : u = TryOrphan(v, o)
  OBVIOUS
<1>2. CASE u = v /\ (fromPeer[o] \in v.guilty \/ ~(Parents[o] \subseteq v.pool \cup chain))
  BY <1>1, <1>2 DEF Answered
<1>3. CASE /\ o \notin v.pool \cup chain \cup Invalid /\ Parents[o] \subseteq v.pool \cup chain
           /\ u = [v EXCEPT !.pool = v.pool \cup {o}, !.queue = Append(v.queue, o), !.erase = v.erase \cup {o}]
  <2>1. /\ u.pool = v.pool \cup {o} /\ u.queue = Append(v.queue, o) /\ u.next = v.next
        /\ u.erase = v.erase \cup {o} /\ u.rejects = v.rejects /\ u.guilty = v.guilty /\ u.again = v.again
        /\ u \in Work
    <3>1. v.queue \in Seq(Txs) /\ Append(v.queue, o) \in Seq(Txs)
      BY <1>0 DEF Work
    <3>2. PICK q \in Seq(Txs) : q = Append(v.queue, o)
      BY <3>1
    <3>3. u = [v EXCEPT !.pool = v.pool \cup {o}, !.queue = q, !.erase = v.erase \cup {o}]
      BY <1>3, <3>2
    <3>4. /\ u.pool = v.pool \cup {o} /\ u.queue = q /\ u.next = v.next
          /\ u.erase = v.erase \cup {o} /\ u.rejects = v.rejects /\ u.guilty = v.guilty /\ u.again = v.again
          /\ u \in Work
      BY <1>0, <3>3 DEF Work
    <3> QED BY <3>2, <3>4
  <2>2. /\ Len(u.queue) = Len(v.queue) + 1 /\ u.queue[Len(v.queue) + 1] = o
        /\ \A i \in 1..Len(v.queue) : u.queue[i] = v.queue[i]
        /\ Len(v.queue) \in Nat /\ v.next \in 1..Len(v.queue)
    BY <1>0, <2>1 DEF Work
  <2>3. Sound(u)
    <3>1. {u.queue[i] : i \in 1..Len(u.queue)} = {v.queue[i] : i \in 1..Len(v.queue)} \cup {o}
      <4>1. 1..Len(u.queue) = (1..Len(v.queue)) \cup {Len(v.queue) + 1}
        BY <2>2
      <4>2. {u.queue[i] : i \in 1..Len(u.queue)} = {u.queue[i] : i \in 1..Len(v.queue)} \cup {o}
        BY <2>2, <4>1, Zenon
      <4>3. {u.queue[i] : i \in 1..Len(v.queue)} = {v.queue[i] : i \in 1..Len(v.queue)}
        BY <2>2, Zenon
      <4> QED BY <4>2, <4>3, Zenon
    <3>2. \A i \in 1..Len(u.queue) : u.queue[i] \notin chain
      <4> SUFFICES ASSUME NEW i \in 1..Len(u.queue) PROVE u.queue[i] \notin chain
        OBVIOUS
      <4>1. i \in 1..Len(v.queue) \/ i = Len(v.queue) + 1
        BY <2>2
      <4>2. \A k \in 1..Len(v.queue) : v.queue[k] \notin chain
        BY DEF Sound
      <4> QED BY <1>3, <2>2, <4>1, <4>2, Zenon
    <3>3. \A i \in 1..Len(v.queue) : v.queue[i] # o
      BY <1>3 DEF Sound
    <3>4. \A i, j \in 1..Len(u.queue) : u.queue[i] = u.queue[j] => i = j
      <4> SUFFICES ASSUME NEW i \in 1..Len(u.queue), NEW j \in 1..Len(u.queue), u.queue[i] = u.queue[j] PROVE i = j
        OBVIOUS
      <4>1. CASE i \in 1..Len(v.queue) /\ j \in 1..Len(v.queue)
        BY <2>2, <4>1 DEF Sound
      <4>2. CASE i = Len(v.queue) + 1
        BY <2>2, <3>3, <4>2
      <4>3. CASE j = Len(v.queue) + 1
        BY <2>2, <3>3, <4>3
      <4> QED BY <2>2, <4>1, <4>2, <4>3
    <3> QED BY <1>3, <2>1, <3>1, <3>2, <3>4 DEF Sound
  <2>4. ASSUME NEW x \in Txs, Answered(v, x) PROVE Answered(u, x) \/ Coming(u, x, v.next + 1)
    <3>1. CASE o \in Parents[x]
      BY <2>2, <3>1 DEF Coming
    <3>2. CASE o \notin Parents[x]
      BY <2>1, <2>4, <3>2 DEF Answered
    <3> QED BY <3>1, <3>2
  <2>5. ASSUME NEW x \in Txs, Coming(v, x, v.next + 1) PROVE Coming(u, x, v.next + 1)
    BY <2>2, <2>5 DEF Coming
  <2>6. Answered(u, o)
    BY <2>1 DEF Answered
  <2> QED BY <1>1, <2>1, <2>2, <2>3, <2>4, <2>5, <2>6
<1>4. ASSUME NEW g \in {{}, {fromPeer[o]}}, NEW a \in {{}, {o}}, o \in Invalid \cup chain \cup a,
             u = [v EXCEPT !.erase = v.erase \cup {o}, !.rejects = v.rejects \cup {o},
                           !.guilty = v.guilty \cup g, !.again = v.again \cup a]
      PROVE  /\ Sound(u) /\ u.next = v.next /\ u.queue = v.queue /\ Answered(u, o)
             /\ \A x \in Txs : (Answered(v, x) => Answered(u, x)) /\ (Coming(v, x, v.next + 1) => Coming(u, x, v.next + 1))
  <2>1. /\ u.pool = v.pool /\ u.queue = v.queue /\ u.next = v.next
        /\ u.erase = v.erase \cup {o} /\ u.rejects = v.rejects \cup {o}
        /\ u.guilty = v.guilty \cup g /\ u.again = v.again \cup a
        /\ u \in Work
    BY <1>0, <1>4 DEF Work
  <2>2. Sound(u)
    BY <1>4, <2>1 DEF Sound
  <2>3. Answered(u, o)
    BY <2>1 DEF Answered
  <2>4. \A x \in Txs : (Answered(v, x) => Answered(u, x)) /\ (Coming(v, x, v.next + 1) => Coming(u, x, v.next + 1))
    BY <2>1 DEF Answered, Coming
  <2> QED BY <2>1, <2>2, <2>3, <2>4
<1> QED BY <1>0, <1>1, <1>2, <1>3, <1>4, TryResult

-----------------------------------------------------------------------------
(* Every orphan is answered or has a parent still in the queue.            *)
Served(v) == Sound(v) /\ \A o \in Orphans : Answered(v, o) \/ Coming(v, o, v.next)

(* The same in the middle of a turn of the queue, when the first i         *)
(* transactions were looked at.                                            *)
MidTurn(w, i, v) ==
  /\ Sound(v) /\ v.next = w.next /\ v.next <= Len(v.queue)
  /\ v.queue[v.next] = w.queue[w.next]
  /\ \A o \in Orphans : \/ Answered(v, o)
                        \/ Coming(v, o, v.next + 1)
                        \/ o \in Dependents(w) /\ \E j \in (i + 1)..Len(TxOrder) : TxOrder[j] = o

(* The recursive function of a turn is what it says.                       *)
LEMMA TriedRun ==
  ASSUME ConstantsOK, OrphanTypeOK, NEW w \in Work
  PROVE  \E g : g = [i \in 0..Len(TxOrder) |->
                       IF i = 0 THEN w
                       ELSE IF TxOrder[i] \in Dependents(w) THEN TryOrphan(g[i - 1], TxOrder[i])
                       ELSE g[i - 1]]
<1> DEFINE L == Len(TxOrder)
           F == [i \in 1..L |-> [v \in Work |-> IF TxOrder[i] \in Dependents(w) THEN TryOrphan(v, TxOrder[i]) ELSE v]]
<1>1. L \in Nat /\ \A i \in 1..L : TxOrder[i] \in Txs
  BY DEF ConstantsOK
<1>2. \A v \in Work, o \in Txs : TryOrphan(v, o) \in Work
  <2> SUFFICES ASSUME NEW v \in Work, NEW o \in Txs PROVE TryOrphan(v, o) \in Work
    OBVIOUS
  <2>1. fromPeer[o] \in Peers \cup {NoPeer}
    BY DEF OrphanTypeOK
  <2>2. PICK q \in Seq(Txs) : q = Append(v.queue, o)
    <3>1. v.queue \in Seq(Txs) /\ Append(v.queue, o) \in Seq(Txs)
      BY DEF Work
    <3> QED BY <3>1
  <2>3. [v EXCEPT !.pool = v.pool \cup {o}, !.queue = q, !.erase = v.erase \cup {o}] \in Work
    BY DEF Work
  <2>4. \A g \in {{}, {fromPeer[o]}}, a \in {{}, {o}} :
          [v EXCEPT !.erase = v.erase \cup {o}, !.rejects = v.rejects \cup {o},
                    !.guilty = v.guilty \cup g, !.again = v.again \cup a] \in Work
    BY <2>1 DEF Work
  <2>5. PICK u : u = TryOrphan(v, o)
    OBVIOUS
  <2>6. \/ u = v
        \/ u = [v EXCEPT !.pool = v.pool \cup {o}, !.queue = q, !.erase = v.erase \cup {o}]
        \/ \E g \in {{}, {fromPeer[o]}}, a \in {{}, {o}} :
              u = [v EXCEPT !.erase = v.erase \cup {o}, !.rejects = v.rejects \cup {o},
                            !.guilty = v.guilty \cup g, !.again = v.again \cup a]
    BY <2>2, <2>5, TryResult, Zenon
  <2> QED BY <2>3, <2>4, <2>5, <2>6
<1>3. F \in [1..L -> [Work -> Work]]
  BY <1>1, <1>2
<1>4. PICK g \in [0..L -> Work] : g[0] = w /\ \A i \in 1..L : g[i] = F[i][g[i - 1]]
  <2>1. Steps(L, Work, F)
    BY <1>3, Zenon DEF Steps
  <2>2. HasRun(L, Work, w, F)
    <3> HIDE DEF F, L
    <3> QED BY <1>1, <2>1, RunExists, Zenon
  <2> HIDE DEF F, L
  <2> QED BY <2>2, Zenon DEF HasRun
<1>5. ASSUME NEW i \in 0..L
      PROVE  g[i] = IF i = 0 THEN w
                    ELSE IF TxOrder[i] \in Dependents(w) THEN TryOrphan(g[i - 1], TxOrder[i])
                    ELSE g[i - 1]
  <2>1. CASE i = 0
    BY <1>4, <2>1
  <2>2. CASE i # 0
    <3>1. i \in 1..L /\ i - 1 \in 0..L
      BY <1>1, <2>2
    <3>2. g[i - 1] \in Work
      BY <3>1
    <3> QED BY <1>4, <2>2, <3>1, <3>2
  <2> QED BY <2>1, <2>2
<1>6. g = [i \in 0..L |-> g[i]]
  OBVIOUS
<1> HIDE DEF F
<1> QED BY <1>5, <1>6

(* A turn of the queue keeps every orphan served.                          *)
LEMMA TurnServes ==
  ASSUME ConstantsOK, OrphanTypeOK, OrphansTracked, NEW w, Served(w), w.next <= Len(w.queue)
  PROVE  Served(TryDependents(w)) /\ TryDependents(w).next = w.next + 1
<1> DEFINE L == Len(TxOrder)
           tried[i \in 0..L] ==
             IF i = 0 THEN w
             ELSE IF TxOrder[i] \in Dependents(w) THEN TryOrphan(tried[i - 1], TxOrder[i])
             ELSE tried[i - 1]
<1>0. TryDependents(w) = [tried[L] EXCEPT !.next = @ + 1]
  BY DEF TryDependents
<1>1. tried = [i \in 0..L |->
                 IF i = 0 THEN w
                 ELSE IF TxOrder[i] \in Dependents(w) THEN TryOrphan(tried[i - 1], TxOrder[i])
                 ELSE tried[i - 1]]
  <2>1. w \in Work
    BY DEF Served, Sound
  <2> QED BY <2>1, TriedRun
<1> HIDE DEF tried
<1> DEFINE S == {i \in 0..L : MidTurn(w, i, tried[i])}
<1>2. L \in Nat /\ \A i \in 1..L : TxOrder[i] \in Txs
  BY DEF ConstantsOK
<1>3. w \in Work /\ w.next \in 1..Len(w.queue) /\ w.queue[w.next] \in Txs
  BY DEF Served, Sound, Work
<1>4. Dependents(w) = {o \in Orphans : w.queue[w.next] \in Parents[o]}
  BY <1>3 DEF Dependents, OrphansTracked
<1>5. 0 \in S
  <2>1. tried[0] = w
    BY <1>1, <1>2
  <2>2. ASSUME NEW o \in Orphans, ~Answered(w, o), ~Coming(w, o, w.next + 1)
        PROVE  o \in Dependents(w) /\ \E j \in 1..L : TxOrder[j] = o
    <3>1. PICK q \in w.next..Len(w.queue) : w.queue[q] \in Parents[o]
      BY <2>2 DEF Served, Coming
    <3>2. q = w.next
      BY <1>3, <2>2, <3>1 DEF Coming, Work
    <3>3. \E j \in DOMAIN TxOrder : TxOrder[j] = o
      BY DEF Orphans, Txs, Range
    <3> QED BY <1>4, <3>1, <3>2, <3>3 DEF ConstantsOK
  <2>3. MidTurn(w, 0, w)
    BY <1>3, <2>2 DEF MidTurn, Served
  <2> QED BY <1>2, <2>1, <2>3
<1>6. ASSUME NEW i \in 1..L, i - 1 \in S PROVE i \in S
  <2>0. i \in 0..L /\ i - 1 \in 0..L /\ i # 0 /\ TxOrder[i] \in Txs
    BY <1>2
  <2>1. PICK v : v = tried[i - 1]
    OBVIOUS
  <2>2. MidTurn(w, i - 1, v)
    BY <1>6, <2>1
  <2>3. tried[i] = IF TxOrder[i] \in Dependents(w) THEN TryOrphan(v, TxOrder[i]) ELSE v
    BY <1>1, <2>0, <2>1
  <2>4. CASE TxOrder[i] \in Dependents(w)
    <3>1. PICK u : u = TryOrphan(v, TxOrder[i])
      OBVIOUS
    <3>2. /\ Sound(u) /\ u.next = v.next /\ u.next <= Len(u.queue) /\ u.queue[v.next] = v.queue[v.next]
          /\ Answered(u, TxOrder[i])
          /\ \A x \in Txs : \/ ~Answered(v, x) /\ ~Coming(v, x, v.next + 1)
                            \/ Answered(u, x) \/ Coming(u, x, v.next + 1)
      BY <2>0, <2>2, <3>1, TryKeeps, Zenon DEF MidTurn
    <3>3. ASSUME NEW o \in Orphans, ~Answered(u, o), ~Coming(u, o, u.next + 1)
          PROVE  o \in Dependents(w) /\ \E j \in (i + 1)..L : TxOrder[j] = o
      <4>1. o \in Dependents(w)
        BY <2>2, <3>2, <3>3 DEF MidTurn, Orphans
      <4>2. PICK j \in ((i - 1) + 1)..L : TxOrder[j] = o
        BY <2>2, <3>2, <3>3 DEF MidTurn, Orphans
      <4>3. j # i
        BY <3>2, <3>3, <4>2
      <4> QED BY <1>2, <4>1, <4>2, <4>3
    <3>4. MidTurn(w, i, u)
      BY <2>2, <3>2, <3>3 DEF MidTurn
    <3> QED BY <2>0, <2>3, <2>4, <3>1, <3>4
  <2>5. CASE TxOrder[i] \notin Dependents(w)
    <3>1. ASSUME NEW o \in Orphans, ~Answered(v, o), ~Coming(v, o, v.next + 1)
          PROVE  o \in Dependents(w) /\ \E j \in (i + 1)..L : TxOrder[j] = o
      <4>1. PICK j \in ((i - 1) + 1)..L : TxOrder[j] = o /\ o \in Dependents(w)
        BY <2>2, <3>1 DEF MidTurn
      <4>2. j # i
        BY <2>5, <4>1
      <4> QED BY <1>2, <4>1, <4>2
    <3>2. MidTurn(w, i, v)
      BY <2>2, <3>1 DEF MidTurn
    <3> QED BY <2>0, <2>3, <2>5, <3>2
  <2> QED BY <2>4, <2>5
<1>7. MidTurn(w, L, tried[L])
  <2> HIDE DEF S
  <2>1. \A i \in 1..L : i - 1 \in S => i \in S
    BY <1>6
  <2>2. \A i \in 0..L : i \in S
    BY <1>2, <1>5, <2>1, CountUp, Zenon
  <2>3. L \in S
    BY <1>2, <2>2
  <2> QED BY <2>3 DEF S
<1>8. PICK v : v = tried[L]
  OBVIOUS
<1>9. PICK u : u = [v EXCEPT !.next = @ + 1]
  OBVIOUS
<1>10. v \in Work /\ v.next = w.next /\ Sound(v)
  BY <1>7, <1>8 DEF MidTurn, Sound
<1>11. /\ u.pool = v.pool /\ u.queue = v.queue /\ u.next = v.next + 1
       /\ u.erase = v.erase /\ u.rejects = v.rejects /\ u.guilty = v.guilty /\ u.again = v.again
       /\ u \in Work
  BY <1>9, <1>10 DEF Work
<1>12. Sound(u)
  BY <1>10, <1>11 DEF Sound
<1>13. ASSUME NEW o \in Orphans PROVE Answered(u, o) \/ Coming(u, o, u.next)
  <2>1. Answered(v, o) \/ Coming(v, o, v.next + 1)
    <3>1. ~\E j \in (L + 1)..L : TxOrder[j] = o
      BY <1>2
    <3> QED BY <1>7, <1>8, <3>1 DEF MidTurn
  <2> QED BY <1>11, <2>1 DEF Answered, Coming
<1> QED BY <1>0, <1>8, <1>9, <1>10, <1>11, <1>12, <1>13 DEF Served

(* The queue has nothing twice, so it is no longer than the transactions   *)
(* are many.                                                               *)
LEMMA QueueBounded ==
  ASSUME ConstantsOK, NEW v, Sound(v)
  PROVE  Len(v.queue) \in Nat /\ Len(v.queue) <= Len(TxOrder)
<1>1. v.queue \in Seq(Txs) /\ TxOrder \in Seq(Txs)
  BY DEF Sound, Work, ConstantsOK
<1> DEFINE n == Len(v.queue)
           L == Len(TxOrder)
<1>2. n \in Nat /\ L \in Nat /\ v.queue \in [1..n -> Txs] /\ TxOrder \in [1..L -> Txs]
  BY <1>1
<1>3. IsFiniteSet(Txs) /\ Cardinality(Txs) <= L
  <2>1. TxOrder \in Surjection(1..L, Txs)
    BY <1>2 DEF Surjection, Txs, Range
  <2>2. ExistsSurjection(1..L, Txs)
    BY <2>1, Zenon DEF ExistsSurjection
  <2> QED BY <1>2, <2>2, FS_NatSurjection, FS_SurjCardinalityBound
<1>4. Cardinality(1..n) <= Cardinality(Txs) /\ IsFiniteSet(1..n)
  <2>1. v.queue \in Injection(1..n, Txs)
    BY <1>2 DEF Injection, IsInjective, Sound
  <2>2. PICK S, f : S = 1..n /\ f \in Injection(S, Txs)
    BY <2>1, Zenon
  <2>3. IsFiniteSet(S) /\ Cardinality(S) <= Cardinality(Txs)
    BY <1>3, <2>2, FS_Injection, Zenon
  <2> QED BY <2>2, <2>3, Zenon
<1>5. Cardinality(1..n) = n
  <2>1. PICK k \in Nat : k = n
    BY <1>2
  <2>2. Cardinality(1..k) = k
    BY FS_Interval
  <2> QED BY <2>1, <2>2, Zenon
<1>6. Cardinality(Txs) \in Nat
  BY <1>3, FS_CardinalityType
<1> QED BY <1>2, <1>3, <1>4, <1>5, <1>6

(* The loop over vWorkQueue ends, with every orphan served.                *)
LEMMA QueueEnds ==
  ASSUME ConstantsOK, OrphanTypeOK, OrphansTracked, NEW w, Served(w), w.next = 1
  PROVE  Served(ProcessWorkQueue(w)) /\ ProcessWorkQueue(w).next > Len(ProcessWorkQueue(w).queue)
<1> DEFINE L == Len(TxOrder)
           after[i \in 0..L] == IF i = 0 THEN w ELSE Turn(after[i - 1])
           Ws == {v \in Work : Served(v)}
           F == [i \in 1..L |-> [v \in Ws |-> Turn(v)]]
<1>0. ProcessWorkQueue(w) = after[L]
  BY DEF ProcessWorkQueue
<1>1. L \in Nat /\ w \in Ws
  BY DEF ConstantsOK, Served, Sound
<1>2. \A v \in Ws : Turn(v) \in Ws
  <2> SUFFICES ASSUME NEW v \in Ws PROVE Served(Turn(v))
    BY DEF Served, Sound
  <2>1. v.next \in Nat /\ Len(v.queue) \in Nat
    BY QueueBounded DEF Served, Work
  <2> QED BY <2>1, TurnServes DEF Turn
<1>3. after = [i \in 0..L |-> IF i = 0 THEN w ELSE Turn(after[i - 1])]
  <2>1. F \in [1..L -> [Ws -> Ws]]
    BY <1>2
  <2>2. PICK g \in [0..L -> Ws] : g[0] = w /\ \A i \in 1..L : g[i] = F[i][g[i - 1]]
    <3> HIDE DEF F, L, Ws
    <3>1. Steps(L, Ws, F)
      BY <2>1, Zenon DEF Steps
    <3>2. HasRun(L, Ws, w, F)
      BY <1>1, <3>1, RunExists, Zenon
    <3> QED BY <3>2, Zenon DEF HasRun
  <2>3. ASSUME NEW i \in 0..L PROVE g[i] = IF i = 0 THEN w ELSE Turn(g[i - 1])
    <3>1. CASE i = 0
      BY <2>2, <3>1
    <3>2. CASE i # 0
      <4>1. i \in 1..L /\ i - 1 \in 0..L
        BY <1>1, <3>2
      <4>2. g[i - 1] \in Ws
        BY <4>1
      <4> QED BY <2>2, <3>2, <4>1, <4>2
    <3> QED BY <3>1, <3>2
  <2>4. g = [i \in 0..L |-> IF i = 0 THEN w ELSE Turn(g[i - 1])]
    BY <2>3
  <2> QED BY <2>4
<1> HIDE DEF after
<1> DEFINE S == {i \in 0..L : Served(after[i]) /\ (after[i].next = i + 1 \/ after[i].next > Len(after[i].queue))}
<1>4. 0 \in S
  BY <1>1, <1>3
<1>5. ASSUME NEW i \in 1..L, i - 1 \in S PROVE i \in S
  <2>0. i \in 0..L /\ i - 1 \in 0..L /\ i # 0
    BY <1>1
  <2>1. PICK v : v = after[i - 1]
    OBVIOUS
  <2>2. after[i] = Turn(v)
    BY <1>3, <2>0, <2>1
  <2>3. Served(v) /\ (v.next = i \/ v.next > Len(v.queue))
    BY <1>5, <2>1
  <2>4. v.next \in Nat /\ Len(v.queue) \in Nat
    BY <2>3, QueueBounded DEF Served, Sound, Work
  <2>5. CASE v.next > Len(v.queue)
    BY <2>0, <2>2, <2>3, <2>5 DEF Turn
  <2>6. CASE ~(v.next > Len(v.queue))
    <3>1. Served(TryDependents(v)) /\ TryDependents(v).next = v.next + 1
      BY <2>3, <2>4, <2>6, TurnServes
    <3> QED BY <2>0, <2>2, <2>3, <2>6, <3>1 DEF Turn
  <2> QED BY <2>5, <2>6
<1>6. L \in S
  <2> HIDE DEF S
  <2>1. \A i \in 1..L : i - 1 \in S => i \in S
    BY <1>5
  <2>2. \A i \in 0..L : i \in S
    BY <1>1, <1>4, <2>1, CountUp, Zenon
  <2> QED BY <1>1, <2>2
<1>7. PICK v : v = after[L]
  OBVIOUS
<1>8. Served(v) /\ (v.next = L + 1 \/ v.next > Len(v.queue))
  BY <1>6, <1>7
<1>9. v.next \in Nat /\ Len(v.queue) \in Nat /\ Len(v.queue) <= L
  BY <1>8, QueueBounded DEF Served, Sound, Work
<1> QED BY <1>0, <1>1, <1>7, <1>8, <1>9

-----------------------------------------------------------------------------
(* The transactions are finitely many.                                     *)
LEMMA TxsFinite == ASSUME ConstantsOK PROVE IsFiniteSet(Txs)
<1>1. Len(TxOrder) \in Nat /\ TxOrder \in [1..Len(TxOrder) -> Txs]
  BY DEF ConstantsOK
<1>2. TxOrder \in Surjection(1..Len(TxOrder), Txs)
  BY <1>1 DEF Surjection, Txs, Range
<1>3. ExistsSurjection(1..Len(TxOrder), Txs)
  BY <1>2, Zenon DEF ExistsSurjection
<1> QED BY <1>1, <1>3, FS_NatSurjection

(* mapOrphanTransactionsByPrev lists each orphan under each of its         *)
(* parents, and nothing else.                                              *)
Indexed == \A t \in Txs : mapOrphanTransactionsByPrev[t] = {o \in Orphans : t \in Parents[o]}

(* EraseOrphanTx keeps the index.                                          *)
LEMMA EraseTracks ==
  ASSUME ConstantsOK, OrphanTypeOK, OrphansTracked, NEW gone, EraseOrphanTx(gone)
  PROVE  /\ Orphans' = Orphans \ gone /\ Indexed' /\ Cardinality(Orphans') <= MaxOrphans
         /\ \A o \in Orphans' : fromPeer'[o] = fromPeer[o]
         /\ fromPeer' \in [Txs -> Peers \cup {NoPeer}] /\ mapOrphanTransactionsByPrev' \in [Txs -> SUBSET Txs]
<1>1. fromPeer' = [t \in Txs |-> IF t \in gone THEN NoPeer ELSE fromPeer[t]]
  BY DEF EraseOrphanTx
<1>2. mapOrphanTransactionsByPrev' = [t \in Txs |-> mapOrphanTransactionsByPrev[t] \ gone]
  BY DEF EraseOrphanTx, Unlink
<1>3. Orphans' = Orphans \ gone /\ \A o \in Orphans' : fromPeer'[o] = fromPeer[o]
  BY <1>1 DEF Orphans
<1>4. Indexed'
  BY <1>2, <1>3 DEF Indexed, OrphansTracked
<1>5. Cardinality(Orphans') <= MaxOrphans
  <2>1. IsFiniteSet(Orphans) /\ Orphans' \in SUBSET Orphans
    BY <1>3, TxsFinite, FS_Subset DEF Orphans
  <2>2. Cardinality(Orphans') <= Cardinality(Orphans) /\ Cardinality(Orphans) \in Nat /\ Cardinality(Orphans') \in Nat
    BY <2>1, FS_Subset, FS_CardinalityType
  <2> QED BY <2>2 DEF OrphansTracked, ConstantsOK
<1>6. fromPeer' \in [Txs -> Peers \cup {NoPeer}]
  BY <1>1 DEF OrphanTypeOK
<1>7. mapOrphanTransactionsByPrev' \in [Txs -> SUBSET Txs]
  BY <1>2 DEF OrphanTypeOK
<1> QED BY <1>3, <1>4, <1>5, <1>6, <1>7

(* AddOrphanTx and LimitOrphanTxSize keep the index and the limit.         *)
LEMMA AddTracks ==
  ASSUME ConstantsOK, OrphanTypeOK, OrphansTracked, NEW t \in Txs, NEW peer \in Peers, AddOrphanTx(t, peer)
  PROVE  /\ Orphans' \subseteq Orphans \cup {t} /\ Indexed' /\ Cardinality(Orphans') <= MaxOrphans
         /\ \A o \in Orphans' : (fromPeer'[o] = fromPeer[o] /\ o \in Orphans) \/ (o = t /\ fromPeer'[o] = peer)
         /\ fromPeer' \in [Txs -> Peers \cup {NoPeer}] /\ mapOrphanTransactionsByPrev' \in [Txs -> SUBSET Txs]
<1> DEFINE new  == {t} \ (Orphans \cup Large)
           held == Orphans \cup new
<1>1. PICK gone \in kSubset(Surplus(held), held) :
            /\ fromPeer' = [o \in Txs |-> IF o \in gone THEN NoPeer
                                          ELSE IF o \in new THEN peer ELSE fromPeer[o]]
            /\ mapOrphanTransactionsByPrev' =
                   Unlink([p \in Txs |-> mapOrphanTransactionsByPrev[p] \cup {o \in new : p \in Parents[o]}], gone)
  BY Zenon DEF AddOrphanTx
<1>2. gone \in SUBSET held /\ Cardinality(gone) = Surplus(held)
  BY <1>1 DEF kSubset
<1>3. mapOrphanTransactionsByPrev' = [p \in Txs |-> (mapOrphanTransactionsByPrev[p] \cup {o \in new : p \in Parents[o]}) \ gone]
  BY <1>1 DEF Unlink
<1>4. held \subseteq Txs /\ new \subseteq Txs /\ NoPeer # peer
  BY DEF Orphans, ConstantsOK
<1>5. Orphans' = held \ gone
  BY <1>1, <1>4 DEF Orphans
<1>6. \A o \in Orphans' : (fromPeer'[o] = fromPeer[o] /\ o \in Orphans) \/ (o = t /\ fromPeer'[o] = peer)
  BY <1>1, <1>4, <1>5
<1>7. Indexed'
  BY <1>3, <1>5 DEF Indexed, OrphansTracked
<1>8. Cardinality(Orphans') <= MaxOrphans
  <2>1. IsFiniteSet(held)
    BY <1>4, TxsFinite, FS_Subset
  <2>2. Cardinality(held \ gone) = Cardinality(held) - Cardinality(held \cap gone) /\ held \cap gone = gone
    BY <1>2, <2>1, FS_Difference
  <2>3. Cardinality(held) \in Nat
    BY <2>1, FS_CardinalityType
  <2>4. Cardinality(gone) = IF Cardinality(held) > MaxOrphans THEN Cardinality(held) - MaxOrphans ELSE 0
    BY <1>2 DEF Surplus
  <2> HIDE DEF held
  <2>5. Cardinality(Orphans') = Cardinality(held) - Cardinality(gone)
    BY <1>5, <2>2, Zenon
  <2>6. MaxOrphans \in Nat
    BY DEF ConstantsOK
  <2> QED BY <2>3, <2>4, <2>5, <2>6
<1>9. fromPeer' \in [Txs -> Peers \cup {NoPeer}]
  BY <1>1 DEF OrphanTypeOK
<1>10. mapOrphanTransactionsByPrev' \in [Txs -> SUBSET Txs]
  BY <1>3, <1>4 DEF OrphanTypeOK
<1> QED BY <1>5, <1>6, <1>7, <1>8, <1>9, <1>10

(* When the loop is done no orphan is left that an accepted transaction    *)
(* could have helped.                                                      *)
LEMMA LoopDone ==
  ASSUME ConstantsOK, OrphanTypeOK, OrphansTracked, NoneStranded, NEW t \in Txs, AcceptToMemoryPool(t, pool) = "accepted",
         NEW w, w = ProcessWorkQueue([pool |-> pool \cup {t}, queue |-> <<t>>, next |-> 1,
                                      erase |-> {}, rejects |-> {}, guilty |-> {}, again |-> {}])
  PROVE  Sound(w) /\ \A o \in Orphans : Answered(w, o)
<1>1. t \notin pool \cup chain \cup Invalid
  BY DEF AcceptToMemoryPool
<1>2. PICK v : v = [pool |-> pool \cup {t}, queue |-> <<t>>, next |-> 1,
                    erase |-> {}, rejects |-> {}, guilty |-> {}, again |-> {}]
  OBVIOUS
<1>3. /\ v.pool = pool \cup {t} /\ v.queue = <<t>> /\ v.next = 1 /\ v.erase = {} /\ v.rejects = {} /\ v.guilty = {}
      /\ v.again = {} /\ v \in Work
  <2>1. pool \subseteq Txs
    BY DEF OrphanTypeOK
  <2>2. <<t>> \in Seq(Txs)
    OBVIOUS
  <2> QED BY <1>2, <2>1, <2>2 DEF Work
<1>4. Len(v.queue) = 1 /\ v.queue[1] = t
  BY <1>3
<1>5. Sound(v)
  <2>1. 1..Len(v.queue) = {1}
    BY <1>4
  <2>2. {v.queue[i] : i \in 1..Len(v.queue)} = {t}
    BY <1>4, <2>1
  <2>3. pool \cap Invalid = {}
    BY DEF OrphanTypeOK
  <2>4. \A i \in 1..Len(v.queue) : i = 1 /\ v.queue[i] \notin chain
    BY <1>1, <1>4, <2>1
  <2> QED BY <1>1, <1>3, <2>2, <2>3, <2>4 DEF Sound
<1>6. ASSUME NEW o \in Orphans PROVE Answered(v, o) \/ Coming(v, o, v.next)
  <2>1. o \in otherwise \/ ~(Parents[o] \subseteq pool \cup chain)
    BY DEF NoneStranded, Available
  <2>2. CASE t \in Parents[o]
    <3>1. 1 \in v.next..Len(v.queue) /\ v.queue[1] \in Parents[o]
      BY <1>3, <1>4, <2>2
    <3> QED BY <3>1, Zenon DEF Coming
  <2>3. CASE t \notin Parents[o]
    BY <1>3, <2>1, <2>3, Zenon DEF Answered
  <2> QED BY <2>2, <2>3
<1>7. Served(w) /\ w.next > Len(w.queue)
  BY <1>2, <1>3, <1>5, <1>6, QueueEnds DEF Served
<1>8. w.next \in Nat /\ Len(w.queue) \in Nat
  <2>1. Sound(w)
    BY <1>7 DEF Served
  <2>2. w.next \in Nat
    BY <2>1 DEF Sound, Work
  <2> QED BY <2>1, <2>2, QueueBounded
<1>9. \A o : ~Coming(w, o, w.next)
  <2>1. w.next..Len(w.queue) = {}
    BY <1>7, <1>8
  <2> QED BY <2>1, Zenon DEF Coming
<1> QED BY <1>7, <1>9, Zenon DEF Served

(* The inductive invariant: that no orphan is stranded needs the index to  *)
(* find them.                                                              *)
OrphanInv == OrphanTypeOK /\ OrphansTracked /\ NoneStranded

(* The invariant holds at first.                                           *)
LEMMA OrphanInitially == ASSUME ConstantsOK, OrphanInit PROVE OrphanInv
<1>1. Orphans = {}
  BY DEF OrphanInit, Orphans
<1>2. OrphanTypeOK
  <2>1. sessions \in 0..MaxSessions
    BY DEF OrphanInit, ConstantsOK
  <2>2. fromPeer \in [Txs -> Peers \cup {NoPeer}] /\ mapOrphanTransactionsByPrev \in [Txs -> SUBSET Txs]
    BY DEF OrphanInit
  <2>3. tipChanged \in BOOLEAN
    BY Zenon DEF OrphanInit
  <2> QED BY <1>1, <2>1, <2>2, <2>3 DEF OrphanInit, OrphanTypeOK
<1>3. OrphansTracked
  BY <1>1, FS_EmptySet DEF OrphanInit, OrphansTracked, ConstantsOK
<1>4. NoneStranded
  BY <1>1 DEF OrphanInit, NoneStranded
<1> QED BY <1>2, <1>3, <1>4 DEF OrphanInv

(* What the history says after a step.                                     *)
LEMMA Overlooks ==
  ASSUME OrphanTypeOK, fromPeer' \in [Txs -> Peers \cup {NoPeer}], NEW more \in SUBSET Txs, Overlooked(more)
  PROVE  otherwise' = (otherwise \cup more) \cap Orphans'
  BY DEF Overlooked, OrphanTypeOK, Orphans

(* The TX handler keeps the invariant.                                     *)
LEMMA ReceiveTxStep ==
  ASSUME ConstantsOK, OrphanInv, NEW peer \in Peers, NEW t \in Txs, ReceiveTx(peer, t)
  PROVE  OrphanInv'
<1>0. OrphanTypeOK /\ OrphansTracked /\ NoneStranded
  BY DEF OrphanInv
<1>1. /\ peer \in mapNodeState
      /\ chain' = chain /\ tipChanged' = tipChanged /\ mapNodeState' = mapNodeState /\ sessions' = sessions
  BY Zenon DEF ReceiveTx
<1>2. PICK w : w = ProcessWorkQueue([pool |-> pool \cup {t}, queue |-> <<t>>, next |-> 1,
                                     erase |-> {}, rejects |-> {}, guilty |-> {}, again |-> {}])
  OBVIOUS
<1>3. CASE /\ AcceptToMemoryPool(t, pool) = "accepted"
           /\ pool' = w.pool
           /\ EraseOrphanTx(w.erase)
           /\ recentRejects' = recentRejects \cup w.rejects
           /\ again' = again \cup w.again
           /\ Overlooked({o \in Orphans : o = t \/ fromPeer[o] \in w.guilty})
  <2>1. Sound(w) /\ \A o \in Orphans : Answered(w, o)
    BY <1>0, <1>2, <1>3, LoopDone, Zenon
  <2>2. /\ Orphans' = Orphans \ w.erase /\ Indexed' /\ Cardinality(Orphans') <= MaxOrphans
        /\ \A o \in Orphans' : fromPeer'[o] = fromPeer[o]
        /\ fromPeer' \in [Txs -> Peers \cup {NoPeer}] /\ mapOrphanTransactionsByPrev' \in [Txs -> SUBSET Txs]
    BY <1>0, <1>3, EraseTracks, Zenon
  <2>3. otherwise' = (otherwise \cup {o \in Orphans : o = t \/ fromPeer[o] \in w.guilty}) \cap Orphans'
    <3>1. {o \in Orphans : o = t \/ fromPeer[o] \in w.guilty} \in SUBSET Txs
      BY DEF Orphans
    <3> QED BY <1>0, <1>3, <2>2, <3>1, Overlooks, Zenon
  <2>4. w.pool \subseteq Txs \ Invalid /\ w.pool \cap chain = {} /\ w.rejects \subseteq Txs /\ w.again \subseteq Txs
    <3>1. PICK new, Q : /\ new = w.pool /\ new = pool \cup Q
                        /\ Q = {w.queue[i] : i \in 1..Len(w.queue)}
      BY <2>1 DEF Sound
    <3>2. Q \cap chain = {}
      BY <2>1, <3>1 DEF Sound
    <3>3. w \in Work /\ w.pool \cap Invalid = {}
      BY <2>1 DEF Sound
    <3>4. w.pool \subseteq Txs /\ w.rejects \subseteq Txs /\ w.again \subseteq Txs
      BY <3>3 DEF Work
    <3>5. pool \cap chain = {}
      BY <1>0 DEF OrphanTypeOK
    <3> QED BY <3>1, <3>2, <3>3, <3>4, <3>5
  <2>5. OrphanTypeOK'
    BY <1>0, <1>1, <1>3, <2>2, <2>3, <2>4 DEF OrphanTypeOK
  <2>6. OrphansTracked'
    BY <1>0, <1>1, <2>2 DEF OrphansTracked, Indexed
  <2>7. recentRejects' \subseteq Invalid \cup chain' \cup again'
    BY <1>0, <1>1, <1>3, <2>1 DEF NoneStranded, Sound
  <2>8. \A o \in Orphans' \ otherwise' : ~(Parents[o] \subseteq pool' \cup chain')
    BY <1>1, <1>3, <2>1, <2>2, <2>3 DEF Answered
  <2> QED BY <2>5, <2>6, <2>7, <2>8 DEF OrphanInv, NoneStranded, Available
<1>4. CASE /\ AcceptToMemoryPool(t, pool) = "missing"
           /\ AddOrphanTx(t, peer)
           /\ recentRejects' = recentRejects \cup Rejected(t, AcceptToMemoryPool(t, pool))
           /\ Overlooked({})
           /\ UNCHANGED <<pool, again>>
  <2>1. /\ Orphans' \subseteq Orphans \cup {t} /\ Indexed' /\ Cardinality(Orphans') <= MaxOrphans
        /\ \A o \in Orphans' : (fromPeer'[o] = fromPeer[o] /\ o \in Orphans) \/ (o = t /\ fromPeer'[o] = peer)
        /\ fromPeer' \in [Txs -> Peers \cup {NoPeer}] /\ mapOrphanTransactionsByPrev' \in [Txs -> SUBSET Txs]
    BY <1>0, <1>4, AddTracks, Zenon
  <2>2. otherwise' = otherwise \cap Orphans'
    <3>1. otherwise' = (otherwise \cup {}) \cap Orphans'
      BY <1>0, <1>4, <2>1, Overlooks
    <3> QED BY <3>1
  <2>3. recentRejects' = recentRejects /\ ~(Parents[t] \subseteq pool \cup chain)
    BY <1>4 DEF Rejected, AcceptToMemoryPool
  <2>4. pool' = pool /\ again' = again
    BY <1>4
  <2>5. OrphanTypeOK'
    BY <1>0, <1>1, <2>1, <2>2, <2>3, <2>4 DEF OrphanTypeOK
  <2>6. OrphansTracked'
    BY <1>0, <1>1, <2>1 DEF OrphansTracked, Indexed
  <2>7. NoneStranded'
    BY <1>0, <1>1, <2>1, <2>2, <2>3, <2>4 DEF NoneStranded, Available
  <2> QED BY <2>5, <2>6, <2>7 DEF OrphanInv
<1>5. CASE /\ AcceptToMemoryPool(t, pool) \in {"invalid", "known"}
           /\ recentRejects' = recentRejects \cup Rejected(t, AcceptToMemoryPool(t, pool))
           /\ UNCHANGED <<pool, fromPeer, mapOrphanTransactionsByPrev, again, otherwise>>
  <2>1. Rejected(t, AcceptToMemoryPool(t, pool)) \subseteq (Invalid \cup chain) \cap Txs
    BY <1>5 DEF Rejected, AcceptToMemoryPool
  <2>2. Orphans' = Orphans
    BY <1>5 DEF Orphans
  <2>3. OrphanTypeOK'
    BY <1>0, <1>1, <1>5, <2>1, <2>2 DEF OrphanTypeOK
  <2>4. OrphansTracked'
    BY <1>0, <1>1, <1>5, <2>2 DEF OrphansTracked
  <2>5. NoneStranded'
    BY <1>0, <1>1, <1>5, <2>1, <2>2 DEF NoneStranded, Available
  <2> QED BY <2>3, <2>4, <2>5 DEF OrphanInv
<1> QED BY <1>2, <1>3, <1>4, <1>5, Zenon DEF ReceiveTx

(* What reaches pool or chain by another way keeps the invariant.          *)
LEMMA OtherStep ==
  ASSUME ConstantsOK, OrphanInv, NEW t \in Txs, SubmitTx(t) \/ ConnectBlock(t) \/ DropFromPool(t)
  PROVE  OrphanInv'
<1>0. OrphanTypeOK /\ OrphansTracked /\ NoneStranded
  BY DEF OrphanInv
<1>1. /\ fromPeer' = fromPeer /\ mapOrphanTransactionsByPrev' = mapOrphanTransactionsByPrev
      /\ recentRejects' = recentRejects /\ mapNodeState' = mapNodeState /\ sessions' = sessions /\ again' = again
  BY Zenon DEF SubmitTx, ConnectBlock, DropFromPool
<1>2. Orphans' = Orphans
  BY <1>1 DEF Orphans
<1>3. OrphansTracked'
  BY <1>0, <1>1, <1>2 DEF OrphansTracked
<1>4. CASE SubmitTx(t)
  <2>1. t \notin pool \cup chain \cup Invalid /\ chain' = chain /\ tipChanged' = tipChanged /\ pool' = pool \cup {t}
        /\ otherwise' = otherwise \cup {o \in Orphans : o = t \/ t \in Parents[o]}
    BY <1>4 DEF SubmitTx, AcceptToMemoryPool
  <2>2. OrphanTypeOK'
    BY <1>0, <1>1, <1>2, <2>1 DEF OrphanTypeOK
  <2>3. NoneStranded'
    BY <1>0, <1>1, <1>2, <2>1 DEF NoneStranded, Available
  <2> QED BY <1>3, <2>2, <2>3 DEF OrphanInv
<1>5. CASE ConnectBlock(t)
  <2>1. t \notin chain \cup Invalid /\ chain' = chain \cup {t} /\ pool' = pool \ {t}
    BY <1>5 DEF ConnectBlock, PoolAfterBlock
  <2>2. tipChanged' \in BOOLEAN
    BY <1>5, Zenon DEF ConnectBlock
  <2>3. (otherwise' = otherwise /\ t \in pool) \/ otherwise' = otherwise \cup {o \in Orphans : o = t \/ t \in Parents[o]}
    BY <1>5 DEF ConnectBlock
  <2>4. OrphanTypeOK'
    BY <1>0, <1>1, <1>2, <2>1, <2>2, <2>3 DEF OrphanTypeOK
  <2>5. NoneStranded'
    BY <1>0, <1>1, <1>2, <2>1, <2>3 DEF NoneStranded, Available
  <2> QED BY <1>3, <2>4, <2>5 DEF OrphanInv
<1>6. CASE DropFromPool(t)
  <2>1. chain' = chain /\ tipChanged' = tipChanged /\ otherwise' = otherwise /\ pool' \subseteq pool
    BY <1>6 DEF DropFromPool
  <2>2. OrphanTypeOK'
    BY <1>0, <1>1, <1>2, <2>1 DEF OrphanTypeOK
  <2>3. NoneStranded'
    BY <1>0, <1>1, <1>2, <2>1 DEF NoneStranded, Available
  <2> QED BY <1>3, <2>2, <2>3 DEF OrphanInv
<1> QED BY <1>4, <1>5, <1>6

(* What peers do else keeps the invariant.                                 *)
LEMMA PeerStep ==
  ASSUME ConstantsOK, OrphanInv, NEW peer \in Peers, ReceiveInv(peer) \/ InitializeNode(peer) \/ FinalizeNode(peer)
  PROVE  OrphanInv'
<1>0. OrphanTypeOK /\ OrphansTracked /\ NoneStranded
  BY DEF OrphanInv
<1>1. pool' = pool /\ chain' = chain
  BY Zenon DEF ReceiveInv, InitializeNode, FinalizeNode
<1>2. CASE ReceiveInv(peer)
  <2>1. /\ fromPeer' = fromPeer /\ mapOrphanTransactionsByPrev' = mapOrphanTransactionsByPrev
        /\ mapNodeState' = mapNodeState /\ sessions' = sessions /\ otherwise' = otherwise
        /\ recentRejects' = {} /\ again' = {}
    BY <1>2, Zenon DEF ReceiveInv
  <2>2. tipChanged' \in BOOLEAN
    BY <1>2, Zenon DEF ReceiveInv
  <2>3. Orphans' = Orphans
    BY <2>1 DEF Orphans
  <2>4. OrphanTypeOK'
    BY <1>0, <1>1, <2>1, <2>2, <2>3 DEF OrphanTypeOK
  <2>5. OrphansTracked' /\ NoneStranded'
    BY <1>0, <1>1, <2>1, <2>3 DEF OrphansTracked, NoneStranded, Available
  <2> QED BY <2>4, <2>5 DEF OrphanInv
<1>3. CASE InitializeNode(peer)
  <2>1. /\ fromPeer' = fromPeer /\ mapOrphanTransactionsByPrev' = mapOrphanTransactionsByPrev
        /\ recentRejects' = recentRejects /\ tipChanged' = tipChanged /\ otherwise' = otherwise /\ again' = again
        /\ mapNodeState' = mapNodeState \cup {peer} /\ sessions < MaxSessions /\ sessions' = sessions + 1
    BY <1>3, Zenon DEF InitializeNode
  <2>2. sessions' \in 0..MaxSessions
    BY <1>0, <2>1 DEF OrphanTypeOK, ConstantsOK
  <2>3. Orphans' = Orphans
    BY <2>1 DEF Orphans
  <2>4. OrphanTypeOK'
    BY <1>0, <1>1, <2>1, <2>2, <2>3 DEF OrphanTypeOK
  <2>5. OrphansTracked' /\ NoneStranded'
    BY <1>0, <1>1, <2>1, <2>3 DEF OrphansTracked, NoneStranded, Available
  <2> QED BY <2>4, <2>5 DEF OrphanInv
<1>4. CASE FinalizeNode(peer)
  <2>1. /\ EraseOrphanTx(OrphansOf(peer)) /\ Overlooked({})
        /\ recentRejects' = recentRejects /\ tipChanged' = tipChanged /\ again' = again
        /\ mapNodeState' = mapNodeState \ {peer} /\ sessions' = sessions
    BY <1>4, Zenon DEF FinalizeNode
  <2>2. /\ Orphans' = Orphans \ OrphansOf(peer) /\ Indexed' /\ Cardinality(Orphans') <= MaxOrphans
        /\ \A o \in Orphans' : fromPeer'[o] = fromPeer[o]
        /\ fromPeer' \in [Txs -> Peers \cup {NoPeer}] /\ mapOrphanTransactionsByPrev' \in [Txs -> SUBSET Txs]
    BY <1>0, <2>1, EraseTracks, Zenon
  <2>3. otherwise' = otherwise \cap Orphans'
    <3>1. otherwise' = (otherwise \cup {}) \cap Orphans'
      BY <1>0, <2>1, <2>2, Overlooks
    <3> QED BY <3>1
  <2>4. OrphanTypeOK'
    BY <1>0, <1>1, <2>1, <2>2, <2>3 DEF OrphanTypeOK
  <2>5. OrphansTracked'
    BY <1>0, <2>1, <2>2 DEF OrphansTracked, Indexed, OrphansOf, Orphans
  <2>6. NoneStranded'
    BY <1>0, <1>1, <2>1, <2>2, <2>3 DEF NoneStranded, Available
  <2> QED BY <2>4, <2>5, <2>6 DEF OrphanInv
<1> QED BY <1>2, <1>3, <1>4

(* The invariant holds of every behaviour.                                 *)
LEMMA OrphanInvariant ==
  ASSUME ConstantsOK PROVE OrphanSpec => []OrphanInv
<1>1. OrphanInit => OrphanInv
  BY OrphanInitially
<1>2. OrphanInv /\ [OrphanNext]_orphanVars => OrphanInv'
  <2> SUFFICES ASSUME OrphanInv, [OrphanNext]_orphanVars PROVE OrphanInv'
    OBVIOUS
  <2>1. CASE UNCHANGED orphanVars
    BY <2>1, Zenon DEF orphanVars, OrphanInv, OrphanTypeOK, OrphansTracked, NoneStranded, Orphans,
       Available
  <2> QED BY <2>1, ReceiveTxStep, OtherStep, PeerStep, Zenon DEF OrphanNext
<1> QED BY <1>1, <1>2, PTL DEF OrphanSpec

(* For any transactions, peers and limit: mapOrphanTransactionsByPrev      *)
(* lists exactly the orphans, each is of a connected peer, and there are   *)
(* no more than -maxorphantx (AddOrphanTx, EraseOrphanTx,                  *)
(* LimitOrphanTxSize).                                                     *)
THEOREM OrphansAlwaysTracked ==
  ASSUME ConstantsOK PROVE OrphanSpec => []OrphansTracked
<1>1. OrphanInv => OrphansTracked
  BY DEF OrphanInv
<1> QED BY <1>1, OrphanInvariant, PTL

(* For any transactions and peers: no orphan is left waiting when all its  *)
(* parents came over the network, and recentRejects holds only what was    *)
(* refused, confirmed or tried twice (the loop over vWorkQueue in the TX   *)
(* handler).                                                               *)
THEOREM NoOrphanStranded ==
  ASSUME ConstantsOK PROVE OrphanSpec => []NoneStranded
<1>1. OrphanInv => NoneStranded
  BY DEF OrphanInv
<1> QED BY <1>1, OrphanInvariant, PTL

-----------------------------------------------------------------------------
(* ValidationInterface *)

(* How many callbacks have left the queue.                                 *)
Begun == generated - Len(m_callbacks_pending)

(* Between the two critical sections of ProcessQueue() that write the flag.*)
InCallback(p) == pc[p] \in {"call", "reset"}

Syncing == {p \in Producers : pc[p] = "syncAdd"}

(* The flag keeps all but one thread out of the callbacks.                 *)
Alone ==
  /\ ~m_are_callbacks_running => \A p \in Procs : ~InCallback(p)
  /\ \A p, q \in Procs : InCallback(p) /\ InCallback(q) => p = q

(* What was generated is finished, being executed or queued, in this order.*)
InOrder ==
  /\ Len(m_callbacks_pending) <= generated
  /\ \A i \in 1 .. Len(m_callbacks_pending) : m_callbacks_pending[i] = Begun + i
  /\ Executing = {} => finished = 1 .. Begun
  /\ \A p \in Executing : callback[p] = Begun /\ finished = 1 .. Begun - 1

(* There is room for the callbacks that Sync... is about to add.           *)
Room == generated + Cardinality(Syncing) <= MaxCallbacks

(* What a producer in Sync... waits for was generated after it came in.    *)
Promised(p) ==
  /\ pc[p] \in {"idle", "syncAdd"} => promise[p] = 0
  /\ pc[p] = "syncAdd" => entered[p] <= generated
  /\ promise[p] # 0 => entered[p] < promise[p] /\ promise[p] <= generated
  /\ pc[p] = "synced" /\ promise[p] # 0 => promise[p] \in finished

IInv ==
  /\ TypeOK
  /\ Alone
  /\ InOrder
  /\ Room
  /\ \A p \in Producers : Promised(p)

-----------------------------------------------------------------------------
(* The initial state.                                                       *)
LEMMA InitCorrect == Init => IInv
<1> SUFFICES ASSUME Init PROVE IInv
  OBVIOUS
<1> USE ProcAssumption DEF Init
<1>1. TypeOK
  <2>1. pc \in [Procs -> Places] /\ callback \in [Procs -> {0} \cup Callbacks]
    BY DEF Places
  <2>2. \A p \in Procs : callback[p] # 0 <=> pc[p] = "call"
    OBVIOUS
  <2>3. /\ promise \in [Producers -> {0} \cup Callbacks]
        /\ entered \in [Producers -> 0 .. MaxCallbacks]
    OBVIOUS
  <2>4. m_callbacks_pending \in Seq(Callbacks) /\ scheduled \in Nat
    OBVIOUS
  <2>5. generated \in 0 .. MaxCallbacks /\ finished \subseteq 1 .. generated
    OBVIOUS
  <2>6. m_are_callbacks_running \in BOOLEAN /\ interrupted \in BOOLEAN
    OBVIOUS
  <2> HIDE DEF Init
  <2> QED BY <2>1, <2>2, <2>3, <2>4, <2>5, <2>6 DEF TypeOK
<1>2. Alone
  BY DEF Alone, InCallback
<1>3. InOrder
  BY DEF InOrder, Begun, Executing
<1>4. Room
  <2>1. Syncing = {}
    BY DEF Syncing, Procs
  <2> QED BY <2>1, FS_EmptySet DEF Room
<1>5. \A p \in Producers : Promised(p)
  BY DEF Promised, Procs
<1> QED BY <1>1, <1>2, <1>3, <1>4, <1>5 DEF IInv

(* The producers are finitely many, so those in Sync... can be counted.    *)
LEMMA SyncingFinite == IsFiniteSet(Syncing) /\ Cardinality(Syncing) \in Nat
BY ProcAssumption, FS_Subset, FS_CardinalityType DEF Syncing

(* A promise stays sound while its producer stays where it is, whether or  *)
(* not another callback is generated.                                      *)
LEMMA PromiseHeld ==
  ASSUME NEW q, Promised(q), pc'[q] = pc[q], promise'[q] = promise[q], entered'[q] = entered[q],
         finished' = finished, generated' = generated \/ generated' = generated + 1,
         generated \in Nat, promise[q] \in Nat, entered[q] \in Nat
  PROVE  Promised(q)'
<1>1. generated' \in Nat /\ generated <= generated'
  OBVIOUS
<1>2. PICK g \in Nat, h \in Nat : g = generated /\ h = generated' /\ g <= h
  BY <1>1, Zenon
<1>3. PICK pr \in Nat, en \in Nat : pr = promise[q] /\ en = entered[q]
  BY Zenon
<1>4. /\ pc[q] \in {"idle", "syncAdd"} => pr = 0
      /\ pc[q] = "syncAdd" => en <= g
      /\ pr # 0 => en < pr /\ pr <= g
      /\ pc[q] = "synced" /\ pr # 0 => pr \in finished
  BY <1>2, <1>3, Zenon DEF Promised
<1>5. (en <= g => en <= h) /\ (pr <= g => pr <= h)
  BY <1>2
<1> QED BY <1>2, <1>3, <1>4, <1>5, Zenon DEF Promised

(* A step to a place other than "syncAdd" needs no more room.              *)
LEMMA RoomKept ==
  ASSUME IInv, NEW p \in Procs, NEW place \in Places,
         Goto(p, place), place # "syncAdd", UNCHANGED generated
  PROVE  Room'
<1>1. Syncing' \in SUBSET Syncing
  BY DEF Syncing, Goto, IInv, TypeOK, Procs
<1>2. Cardinality(Syncing') <= Cardinality(Syncing) /\ Cardinality(Syncing') \in Nat
  BY <1>1, SyncingFinite, FS_Subset, FS_CardinalityType
<1> QED BY <1>2, SyncingFinite, ProcAssumption DEF IInv, Room, TypeOK

(* A step that leaves the queue and the callbacks alone, and begins or     *)
(* ends none, changes nothing about their order.                           *)
LEMMA QuietStep ==
  ASSUME IInv, NEW p \in Procs, NEW place \in Places,
         Goto(p, place), ~InCallback(p), place \notin {"call", "reset"},
         UNCHANGED <<queueVars, callback, generated, finished>>
  PROVE  /\ Alone' /\ InOrder'
         /\ pc' \in [Procs -> Places]
         /\ \A q \in Procs : callback'[q] # 0 <=> pc'[q] = "call"
<1> USE DEF IInv, TypeOK, Goto, InCallback, queueVars
<1>1. Executing' = Executing
  BY DEF Executing
<1>2. Alone'
  BY DEF Alone
<1>3. InOrder'
  BY <1>1 DEF InOrder, Begun, Executing
<1>4. pc' \in [Procs -> Places]
  OBVIOUS
<1>5. \A q \in Procs : callback'[q] # 0 <=> pc'[q] = "call"
  OBVIOUS
<1> QED BY <1>2, <1>3, <1>4, <1>5

(* AddToProcessQueue() puts the newest callback last.                      *)
LEMMA AddStep ==
  ASSUME IInv, NEW p \in Procs, AddToProcessQueue(p), ~InCallback(p),
         generated < MaxCallbacks
  PROVE  /\ Alone' /\ InOrder'
         /\ pc' \in [Procs -> Places]
         /\ \A q \in Procs : callback'[q] # 0 <=> pc'[q] = "call"
         /\ m_callbacks_pending' \in Seq(Callbacks)
         /\ generated' \in 0 .. MaxCallbacks /\ finished' \subseteq 1 .. generated'
<1> USE ProcAssumption DEF IInv, TypeOK, Goto, InCallback, AddToProcessQueue
<1>1. Executing' = Executing
  BY DEF Executing
<1>2. Alone'
  BY DEF Alone
<1>3. generated' \in 0 .. MaxCallbacks /\ finished' \subseteq 1 .. generated'
  OBVIOUS
<1>4. m_callbacks_pending' \in Seq(Callbacks)
  BY DEF Callbacks
<1>5. /\ Len(m_callbacks_pending') = Len(m_callbacks_pending) + 1
      /\ Begun' = Begun
  BY DEF Begun
<1>6. \A i \in 1 .. Len(m_callbacks_pending') : m_callbacks_pending'[i] = Begun' + i
  BY <1>5 DEF InOrder, Begun
<1>7. InOrder'
  BY <1>1, <1>5, <1>6 DEF InOrder, Executing
<1>8. pc' \in [Procs -> Places]
  BY DEF Places
<1>9. \A q \in Procs : callback'[q] # 0 <=> pc'[q] = "call"
  OBVIOUS
<1> QED BY <1>2, <1>3, <1>4, <1>7, <1>8, <1>9

(* The refinement mapping: what the abstract queue counts as finished.     *)
LEMMA FinishedCount ==
  ASSUME IInv
  PROVE  Cardinality(finished) = IF Executing = {} THEN Begun ELSE Begun - 1
<1> USE DEF IInv, TypeOK, InOrder
<1>1. Begun \in Nat
  BY DEF Begun
<1>2. CASE Executing = {}
  BY <1>1, <1>2, FS_Interval
<1>3. CASE Executing # {}
  <2>1. PICK p \in Executing : TRUE
    BY <1>3
  <2>2. callback[p] # 0 /\ callback[p] = Begun /\ finished = 1 .. Begun - 1
    BY <2>1 DEF Executing
  <2>3. Cardinality(1 .. Begun - 1) = IF 1 > Begun - 1 THEN 0 ELSE Begun - 1 - 1 + 1
    BY <1>1, FS_Interval
  <2>4. Cardinality(1 .. Begun - 1) = Begun - 1
    BY <1>1, <2>2, <2>3
  <2> QED BY <1>3, <2>2, <2>4
<1> QED BY <1>2, <1>3

-----------------------------------------------------------------------------
(* One step of the refinement: a step of SerialQueue or a stutter.         *)
Refined == [Abstract!Next]_(Abstract!vars)

(* A step that does not change what the abstract queue is read off.        *)
LEMMA Stutters ==
  ASSUME UNCHANGED <<generated, m_callbacks_pending, finished>>
  PROVE  Refined
BY DEF Refined, Abstract!vars

(* AddToProcessQueue() adds a callback to the abstract queue.              *)
LEMMA AddRefines ==
  ASSUME IInv, NEW p \in Procs, AddToProcessQueue(p)
  PROVE  Refined
<1>1. Len(m_callbacks_pending') = Len(m_callbacks_pending) + 1
  BY DEF IInv, TypeOK, AddToProcessQueue
<1>2. Abstract!Add
  BY <1>1 DEF Abstract!Add, AddToProcessQueue, IInv, TypeOK
<1> QED BY <1>2 DEF Refined, Abstract!Next

-----------------------------------------------------------------------------
(* The actions                                                              *)

(* A thread moves, and the rest of the state is left alone but for what    *)
(* the scheduler and the shutdown are told.                                *)
LEMMA MoveStep ==
  ASSUME IInv, NEW p \in Procs, NEW place \in Places,
         Goto(p, place), ~InCallback(p), place \notin {"call", "reset", "syncAdd"},
         UNCHANGED <<queueVars, callback, generated, finished, syncVars>>,
         scheduled' \in Nat, interrupted' \in BOOLEAN,
         p \in Producers /\ place = "idle" => promise[p] = 0,
         p \in Producers /\ place = "synced" /\ promise[p] # 0 => promise[p] \in finished
  PROVE  IInv' /\ Refined
<1>1. /\ Alone' /\ InOrder'
      /\ pc' \in [Procs -> Places]
      /\ \A q \in Procs : callback'[q] # 0 <=> pc'[q] = "call"
  BY QuietStep
<1>2. TypeOK'
  BY <1>1 DEF IInv, TypeOK, queueVars, syncVars
<1>3. Room'
  BY RoomKept
<1>4. ASSUME NEW q \in Producers PROVE Promised(q)'
  BY DEF IInv, Promised, TypeOK, Goto, syncVars, Procs
<1>5. Refined
  BY Stutters DEF queueVars
<1> QED BY <1>1, <1>2, <1>3, <1>4, <1>5 DEF IInv

(* Where a thread returns to from AddToProcessQueue() or ProcessQueue().   *)
LEMMA CallerFacts ==
  ASSUME NEW p \in Procs
  PROVE  /\ Caller(p) \in Places \ {"call", "reset", "syncAdd", "synced"}
         /\ p \in Producers /\ Caller(p) = "idle" => promise[p] = 0
BY ProcAssumption DEF Caller, Places

(* MaybeScheduleProcessQueue() and schedule() only move the thread.        *)
LEMMA MaybePreserves ==
  ASSUME IInv, NEW p \in Procs, MaybeScheduleProcessQueue(p) \/ ScheduleTask(p)
  PROVE  IInv' /\ Refined
<1> DEFINE place == IF pc[p] = "maybe" /\ ShouldSchedule THEN "schedule" ELSE Caller(p)
<1> USE DEF MaybeScheduleProcessQueue, ScheduleTask
<1>1. Goto(p, place) /\ ~InCallback(p)
  BY DEF InCallback
<1>2. /\ place \in Places \ {"call", "reset", "syncAdd", "synced"}
      /\ p \in Producers /\ place = "idle" => promise[p] = 0
  BY CallerFacts DEF Places
<1>3. UNCHANGED <<queueVars, callback, generated, finished, syncVars>>
  OBVIOUS
<1>4. scheduled' \in Nat /\ interrupted' \in BOOLEAN
  BY DEF IInv, TypeOK
<1> HIDE DEF place, MaybeScheduleProcessQueue, ScheduleTask
<1> QED BY <1>1, <1>2, <1>3, <1>4, MoveStep

(* A queue without its first element.                                      *)
LEMMA TailFacts ==
  ASSUME NEW S, NEW s \in Seq(S), s # << >>
  PROVE  /\ Tail(s) \in Seq(S) /\ Len(Tail(s)) = Len(s) - 1
         /\ \A i \in 1 .. Len(Tail(s)) : Tail(s)[i] = s[i + 1]
         /\ Len(s) \in Nat \ {0} /\ Head(s) = s[1] /\ Head(s) \in S
OBVIOUS

(* ProcessQueue() takes the next callback, or returns.                     *)
LEMMA ProcessPreserves ==
  ASSUME IInv, NEW p \in Procs, ProcessQueue(p)
  PROVE  IInv' /\ Refined
<1> USE DEF ProcessQueue
<1>1. CASE ~MayProcess
  <2>1. Goto(p, Caller(p)) /\ ~InCallback(p)
    BY <1>1 DEF InCallback
  <2>2. UNCHANGED <<queueVars, callback, generated, finished, syncVars>>
    BY <1>1
  <2>3. scheduled' \in Nat /\ interrupted' \in BOOLEAN
    BY DEF IInv, TypeOK
  <2> QED BY <2>1, <2>2, <2>3, CallerFacts, MoveStep
<1>2. CASE MayProcess
  <2> USE <1>2 DEF MayProcess, IInv
  <2>1. /\ m_callbacks_pending \in Seq(Callbacks) /\ m_callbacks_pending # << >>
        /\ generated \in Nat /\ pc \in [Procs -> Places] /\ pc[p] = "process"
        /\ callback \in [Procs -> {0} \cup Callbacks]
    BY ProcAssumption DEF TypeOK
  <2>2. /\ m_callbacks_pending' \in Seq(Callbacks)
        /\ Len(m_callbacks_pending') = Len(m_callbacks_pending) - 1
        /\ \A i \in 1 .. Len(m_callbacks_pending') :
               m_callbacks_pending'[i] = m_callbacks_pending[i + 1]
        /\ Len(m_callbacks_pending) \in Nat \ {0}
        /\ Head(m_callbacks_pending) = m_callbacks_pending[1]
        /\ Head(m_callbacks_pending) \in Callbacks
    <3>1. m_callbacks_pending' = Tail(m_callbacks_pending)
      OBVIOUS
    <3> QED BY <2>1, <3>1, TailFacts
  <2>3. Executing = {} /\ Executing' = {p}
    BY <2>1 DEF Alone, InCallback, Executing, Goto
  <2>4. Begun \in Nat /\ Begun' = Begun + 1 /\ generated' = generated
    BY <2>1, <2>2 DEF Begun, InOrder
  <2>5. callback'[p] = Begun'
    BY <2>1, <2>2, <2>4 DEF InOrder
  <2>6. InOrder'
    <3>1. Len(m_callbacks_pending') <= generated'
      BY <2>1, <2>2 DEF InOrder
    <3>2. \A i \in 1 .. Len(m_callbacks_pending') : m_callbacks_pending'[i] = Begun' + i
      BY <2>1, <2>2, <2>4 DEF InOrder
    <3>3. finished' = 1 .. Begun' - 1
      BY <2>3, <2>4 DEF InOrder
    <3> QED BY <2>3, <2>5, <3>1, <3>2, <3>3 DEF InOrder
  <2>7. Alone'
    BY <2>1 DEF Alone, InCallback, Goto
  <2>8. TypeOK'
    <3>1. pc' \in [Procs -> Places] /\ callback' \in [Procs -> {0} \cup Callbacks]
      BY <2>1, <2>2 DEF Goto, Places
    <3>2. \A q \in Procs : callback'[q] # 0 <=> pc'[q] = "call"
      <4> SUFFICES ASSUME NEW q \in Procs PROVE callback'[q] # 0 <=> pc'[q] = "call"
        OBVIOUS
      <4>1. /\ callback'[q] = IF q = p THEN Head(m_callbacks_pending) ELSE callback[q]
            /\ pc'[q] = IF q = p THEN "call" ELSE pc[q]
        BY <2>1 DEF Goto
      <4>2. Head(m_callbacks_pending) # 0
        BY <2>2 DEF Callbacks
      <4>3. callback[q] # 0 <=> pc[q] = "call"
        BY DEF TypeOK
      <4> QED BY <4>1, <4>2, <4>3
    <3> QED BY <2>2, <3>1, <3>2 DEF TypeOK, syncVars
  <2>9. Room'
    BY RoomKept DEF Places
  <2>10. ASSUME NEW q \in Producers PROVE Promised(q)'
    BY <2>1 DEF Promised, Goto, syncVars, Procs
  <2>11. Refined
    <3>1. Cardinality(finished) = Begun
      BY <2>3, FinishedCount
    <3>2. Abstract!Begin
      BY <2>1, <2>2, <2>4, <3>1 DEF Abstract!Begin, Begun
    <3> QED BY <3>2 DEF Refined, Abstract!Next
  <2> QED BY <2>6, <2>7, <2>8, <2>9, <2>10, <2>11
<1> QED BY <1>1, <1>2

(* The callback returns.                                                   *)
LEMMA ReturnPreserves ==
  ASSUME IInv, NEW p \in Procs, CallbackReturns(p)
  PROVE  IInv' /\ Refined
<1> USE DEF CallbackReturns, IInv
<1>1. /\ pc \in [Procs -> Places] /\ callback \in [Procs -> {0} \cup Callbacks]
      /\ pc[p] = "call" /\ generated \in Nat /\ Len(m_callbacks_pending) \in Nat
      /\ callback[p] \in Nat \ {0}
  BY ProcAssumption DEF TypeOK, Callbacks
<1>2. Executing = {p} /\ Executing' = {}
  BY <1>1 DEF Alone, InCallback, Executing, Goto
<1>3. Begun' = Begun /\ callback[p] = Begun /\ finished = 1 .. Begun - 1
  BY <1>2 DEF InOrder, Begun, queueVars
<1>4. finished' = 1 .. Begun
  BY <1>1, <1>3
<1>5. InOrder'
  BY <1>2, <1>3, <1>4 DEF InOrder, queueVars
<1>6. Alone'
  BY <1>1 DEF Alone, InCallback, Goto, queueVars
<1>7. TypeOK'
  <2>1. pc' \in [Procs -> Places] /\ callback' \in [Procs -> {0} \cup Callbacks]
    BY <1>1 DEF Goto, Places
  <2>2. \A q \in Procs : callback'[q] # 0 <=> pc'[q] = "call"
    BY <1>1 DEF Goto, TypeOK
  <2>3. finished' \subseteq 1 .. generated'
    BY <1>1, <1>4 DEF Begun
  <2> QED BY <2>1, <2>2, <2>3 DEF TypeOK, queueVars, syncVars
<1>8. Room'
  BY RoomKept DEF Places
<1>9. ASSUME NEW q \in Producers PROVE Promised(q)'
  BY <1>1 DEF Promised, Goto, syncVars, Procs
<1>10. Refined
  <2>1. Cardinality(finished) = Begun - 1
    BY <1>2, FinishedCount
  <2>2. Cardinality(finished') = Begun
    <3>1. Begun \in Nat \ {0}
      BY <1>1, <1>3
    <3>2. Cardinality(1 .. Begun) = IF 1 > Begun THEN 0 ELSE Begun - 1 + 1
      BY <3>1, FS_Interval
    <3>3. Cardinality(1 .. Begun) = Begun
      BY <3>1, <3>2
    <3> QED BY <1>4, <3>3
  <2>3. Abstract!End
    BY <1>1, <1>3, <2>1, <2>2 DEF Abstract!End, Begun, queueVars
  <2> QED BY <2>3 DEF Refined, Abstract!Next
<1> QED BY <1>5, <1>6, <1>7, <1>8, <1>9, <1>10

(* RAIICallbacksRunning resets the flag of the only thread in a callback.  *)
LEMMA ResetPreserves ==
  ASSUME IInv, NEW p \in Procs, ResetRunning(p)
  PROVE  IInv' /\ Refined
<1> USE DEF ResetRunning, IInv
<1>1. pc \in [Procs -> Places] /\ pc[p] = "reset"
  BY DEF TypeOK
<1>2. Executing = {} /\ Executing' = {}
  BY <1>1 DEF Alone, InCallback, Executing, Goto
<1>3. InOrder'
  BY <1>2 DEF InOrder, Begun
<1>4. Alone'
  BY <1>1 DEF Alone, InCallback, Goto
<1>5. TypeOK'
  <2>1. pc' \in [Procs -> Places]
    BY <1>1 DEF Goto, Places
  <2>2. \A q \in Procs : callback'[q] # 0 <=> pc'[q] = "call"
    BY <1>1 DEF Goto, TypeOK
  <2> QED BY <2>1, <2>2 DEF TypeOK, syncVars
<1>6. Room'
  BY RoomKept DEF Places
<1>7. ASSUME NEW q \in Producers PROVE Promised(q)'
  BY <1>1 DEF Promised, Goto, syncVars, Procs
<1>8. Refined
  BY Stutters
<1> QED BY <1>3, <1>4, <1>5, <1>6, <1>7, <1>8

(* A scheduler thread takes a task; a thread leaves.                       *)
LEMMA TakeLeavePreserves ==
  ASSUME IInv, NEW p \in Procs, TakeTask(p) \/ Leave(p)
  PROVE  IInv' /\ Refined
<1> USE DEF TakeTask, Leave
<1>1. PICK place \in {"process", "left"} : Goto(p, place)
  OBVIOUS
<1>2. /\ ~InCallback(p) /\ place \in Places
      /\ place \notin {"call", "reset", "syncAdd", "idle", "synced"}
  BY DEF InCallback, Places
<1>3. UNCHANGED <<queueVars, callback, generated, finished, syncVars>>
  OBVIOUS
<1>4. scheduled' \in Nat /\ interrupted' \in BOOLEAN
  BY DEF IInv, TypeOK
<1> HIDE DEF TakeTask, Leave
<1> QED BY <1>1, <1>2, <1>3, <1>4, MoveStep

(* An event is generated by a producer, or by the last FlushStateToDisk(). *)
LEMMA GeneratePreserves ==
  ASSUME IInv, NEW p \in Procs, pc[p] \in {"idle", "flush"}, HasRoom,
         AddToProcessQueue(p), UNCHANGED promise
  PROVE  IInv' /\ Refined
<1>0. generated \in Nat /\ generated + Cardinality(Syncing) < MaxCallbacks
  BY ProcAssumption DEF HasRoom, Syncing, IInv, TypeOK
<1>1. generated < MaxCallbacks /\ ~InCallback(p)
  BY <1>0, SyncingFinite, ProcAssumption DEF InCallback
<1>2. /\ Alone' /\ InOrder'
      /\ pc' \in [Procs -> Places]
      /\ \A q \in Procs : callback'[q] # 0 <=> pc'[q] = "call"
      /\ m_callbacks_pending' \in Seq(Callbacks)
      /\ generated' \in 0 .. MaxCallbacks /\ finished' \subseteq 1 .. generated'
  BY <1>1, AddStep
<1>3. TypeOK'
  BY <1>2 DEF IInv, TypeOK, AddToProcessQueue
<1>4. Room'
  <2>1. Syncing' \in SUBSET Syncing
    BY DEF Syncing, Goto, IInv, TypeOK, Procs, AddToProcessQueue
  <2>2. Cardinality(Syncing') <= Cardinality(Syncing) /\ Cardinality(Syncing') \in Nat
    BY <2>1, SyncingFinite, FS_Subset, FS_CardinalityType
  <2> QED BY <1>0, <2>2, SyncingFinite, ProcAssumption DEF Room, AddToProcessQueue
<1>5. ASSUME NEW q \in Producers PROVE Promised(q)'
  <2>1. generated' = generated + 1 /\ finished' = finished /\ entered' = entered
    BY DEF AddToProcessQueue
  <2>2. promise[q] \in Nat /\ entered[q] \in Nat
    BY ProcAssumption DEF IInv, TypeOK, Callbacks
  <2>3. pc'[q] = IF q = p THEN "maybe" ELSE pc[q]
    BY DEF AddToProcessQueue, Goto, IInv, TypeOK, Procs
  <2>4. Promised(q) /\ promise'[q] = promise[q] /\ entered'[q] = entered[q]
    BY <2>1 DEF IInv
  <2>5. CASE q = p
    <3>1. pc'[q] = "maybe"
      BY <2>3, <2>5
    <3>2. promise[q] # 0 => entered[q] < promise[q] /\ promise[q] <= generated
      BY <2>4, Zenon DEF Promised
    <3>3. promise'[q] # 0 => entered'[q] < promise'[q] /\ promise'[q] <= generated'
      BY <1>0, <2>1, <2>2, <2>4, <3>2
    <3> QED BY <3>1, <3>3 DEF Promised
  <2>6. CASE q # p
    <3>1. pc'[q] = pc[q]
      BY <2>3, <2>6
    <3> QED BY <1>0, <2>1, <2>2, <2>4, <3>1, PromiseHeld
  <2> QED BY <2>5, <2>6
<1>6. Refined
  BY AddRefines
<1> QED BY <1>2, <1>3, <1>4, <1>5, <1>6 DEF IInv

(* SyncWithValidationInterfaceQueue() finds the queue empty or goes on.    *)
LEMMA SyncEnterPreserves ==
  ASSUME IInv, NEW p \in Producers, SyncEnter(p)
  PROVE  IInv' /\ Refined
<1> DEFINE place == IF m_callbacks_pending = << >> THEN "synced" ELSE "syncAdd"
<1>0. p \in Procs /\ place \in Places /\ place \in {"synced", "syncAdd"}
  BY DEF Procs, Places
<1>1. /\ Goto(p, place) /\ ~InCallback(p) /\ pc[p] = "idle"
      /\ UNCHANGED <<queueVars, callback, generated, finished>>
      /\ UNCHANGED <<scheduled, promise, interrupted>>
      /\ entered' = [entered EXCEPT ![p] = generated]
  BY DEF SyncEnter, InCallback
<1>2. generated \in 0 .. MaxCallbacks /\ generated + Cardinality(Syncing) < MaxCallbacks
  BY DEF HasRoom, Syncing, IInv, TypeOK, SyncEnter
<1> HIDE DEF place
<1>3. /\ Alone' /\ InOrder'
      /\ pc' \in [Procs -> Places]
      /\ \A q \in Procs : callback'[q] # 0 <=> pc'[q] = "call"
  BY <1>0, <1>1, QuietStep
<1>4. TypeOK'
  <2>1. entered' \in [Producers -> 0 .. MaxCallbacks]
    BY <1>1, <1>2 DEF IInv, TypeOK
  <2> QED BY <1>1, <1>3, <2>1 DEF IInv, TypeOK, queueVars
<1>5. Room'
  <2>1. Syncing' \in SUBSET (Syncing \cup {p})
    BY <1>0, <1>1 DEF Syncing, Goto, IInv, TypeOK, Procs
  <2>2. /\ IsFiniteSet(Syncing \cup {p})
        /\ Cardinality(Syncing \cup {p}) <= Cardinality(Syncing) + 1
        /\ Cardinality(Syncing \cup {p}) \in Nat
    <3>1. IsFiniteSet(Syncing) /\ Cardinality(Syncing) \in Nat
      BY SyncingFinite, FS_CardinalityType
    <3>2. /\ IsFiniteSet(Syncing \cup {p})
          /\ \/ Cardinality(Syncing \cup {p}) = Cardinality(Syncing)
             \/ Cardinality(Syncing \cup {p}) = Cardinality(Syncing) + 1
      BY <3>1, FS_AddElement, Zenon
    <3> QED BY <3>1, <3>2
  <2>3. /\ Cardinality(Syncing') <= Cardinality(Syncing \cup {p})
        /\ Cardinality(Syncing') \in Nat
    BY <2>1, <2>2, FS_Subset, FS_CardinalityType
  <2> QED BY <1>1, <1>2, <2>2, <2>3, SyncingFinite, ProcAssumption DEF Room
<1>6. ASSUME NEW q \in Producers PROVE Promised(q)'
  <2>1. entered[q] \in Nat /\ generated \in Nat /\ promise[q] \in Nat
    BY <1>2, ProcAssumption DEF IInv, TypeOK, Callbacks
  <2>2. /\ pc'[q] = IF q = p THEN place ELSE pc[q]
        /\ entered'[q] = IF q = p THEN generated ELSE entered[q]
    BY <1>0, <1>1 DEF Goto, IInv, TypeOK, Procs
  <2>3. Promised(p) /\ promise[p] = 0 /\ Promised(q)
    BY <1>1 DEF IInv, Promised
  <2>4. finished' = finished /\ generated' = generated /\ promise' = promise
    BY <1>1
  <2>5. CASE q = p
    <3>1. pc'[q] \in {"synced", "syncAdd"} /\ entered'[q] = generated
      BY <1>0, <2>2, <2>5, Zenon
    <3>2. promise'[q] = 0
      BY <2>3, <2>4, <2>5, Zenon
    <3>3. generated <= generated'
      BY <2>1, <2>4
    <3> QED BY <3>1, <3>2, <3>3, Zenon DEF Promised
  <2>6. CASE q # p
    <3>1. pc'[q] = pc[q] /\ entered'[q] = entered[q] /\ promise'[q] = promise[q]
      BY <2>2, <2>4, <2>6
    <3> QED BY <2>1, <2>3, <2>4, <3>1, PromiseHeld
  <2> QED BY <2>5, <2>6
<1>7. Refined
  BY <1>1, Stutters DEF queueVars
<1> QED BY <1>3, <1>4, <1>5, <1>6, <1>7 DEF IInv

(* It adds its own callback, for which it has reserved the room.           *)
LEMMA SyncAddPreserves ==
  ASSUME IInv, NEW p \in Producers, SyncAdd(p)
  PROVE  IInv' /\ Refined
<1>0. p \in Procs /\ pc[p] = "syncAdd" /\ p \in Syncing
  BY DEF Procs, SyncAdd, Syncing
<1>1. /\ AddToProcessQueue(p) /\ promise' = [promise EXCEPT ![p] = generated + 1]
      /\ generated \in Nat /\ generated' = generated + 1
  <2>1. AddToProcessQueue(p) /\ promise' = [promise EXCEPT ![p] = generated + 1]
    BY Zenon DEF SyncAdd
  <2>2. generated' = generated + 1
    BY <2>1, Zenon DEF AddToProcessQueue
  <2>3. generated \in Nat
    BY ProcAssumption DEF IInv, TypeOK
  <2> QED BY <2>1, <2>2, <2>3
<1>2. /\ Cardinality(Syncing) \in Nat \ {0}
      /\ Cardinality(Syncing \ {p}) = Cardinality(Syncing) - 1
  BY <1>0, SyncingFinite, FS_RemoveElement, FS_EmptySet
<1>3. generated < MaxCallbacks /\ ~InCallback(p)
  BY <1>0, <1>1, <1>2, ProcAssumption DEF InCallback, IInv, Room
<1>4. /\ Alone' /\ InOrder'
      /\ pc' \in [Procs -> Places]
      /\ \A q \in Procs : callback'[q] # 0 <=> pc'[q] = "call"
      /\ m_callbacks_pending' \in Seq(Callbacks)
      /\ generated' \in 0 .. MaxCallbacks /\ finished' \subseteq 1 .. generated'
  BY <1>0, <1>1, <1>3, AddStep
<1>5. TypeOK'
  <2>1. promise' \in [Producers -> {0} \cup Callbacks]
    BY <1>1, <1>3, ProcAssumption DEF IInv, TypeOK, Callbacks
  <2> QED BY <1>1, <1>4, <2>1 DEF IInv, TypeOK, AddToProcessQueue
<1>6. Room'
  <2>1. Syncing' = Syncing \ {p}
    BY <1>0, <1>1 DEF Syncing, Goto, IInv, TypeOK, Procs, AddToProcessQueue
  <2>2. Cardinality(Syncing') = Cardinality(Syncing) - 1
    BY <1>2, <2>1
  <2> QED BY <1>1, <1>2, <2>2, ProcAssumption DEF IInv, Room
<1>7. ASSUME NEW q \in Producers PROVE Promised(q)'
  <2>1. finished' = finished /\ entered' = entered
    BY <1>1 DEF AddToProcessQueue
  <2>2. promise[q] \in Nat /\ entered[q] \in Nat
    BY ProcAssumption DEF IInv, TypeOK, Callbacks
  <2>3. /\ pc'[q] = IF q = p THEN "maybe" ELSE pc[q]
        /\ promise'[q] = IF q = p THEN generated + 1 ELSE promise[q]
    BY <1>1 DEF AddToProcessQueue, Goto, IInv, TypeOK, Procs
  <2>4. Promised(p) /\ Promised(q) /\ entered[p] \in Nat
    BY ProcAssumption DEF IInv, TypeOK
  <2>5. CASE q = p
    <3>1. PICK g \in Nat, en \in Nat : g = generated /\ en = entered[p] /\ en <= g
      BY <1>0, <1>1, <2>4, Zenon DEF Promised
    <3>2. pc'[q] = "maybe" /\ promise'[q] = g + 1 /\ generated' = g + 1 /\ entered'[q] = en
      BY <1>1, <2>1, <2>3, <2>5, <3>1, Zenon
    <3>3. en < g + 1 /\ g + 1 <= g + 1
      BY <3>1
    <3> QED BY <3>2, <3>3, Zenon DEF Promised
  <2>6. CASE q # p
    <3>1. pc'[q] = pc[q] /\ promise'[q] = promise[q] /\ entered'[q] = entered[q]
      BY <2>1, <2>3, <2>6
    <3> QED BY <1>1, <2>1, <2>2, <2>4, <3>1, PromiseHeld
  <2> QED BY <2>5, <2>6
<1>8. Refined
  BY <1>0, <1>1, AddRefines
<1> QED BY <1>4, <1>5, <1>6, <1>7, <1>8 DEF IInv

(* The promise is set; SyncWithValidationInterfaceQueue() returns.         *)
LEMMA SyncEndPreserves ==
  ASSUME IInv, NEW p \in Producers, FutureReady(p) \/ SyncReturns(p)
  PROVE  IInv' /\ Refined
<1>0. p \in Procs /\ "synced" \in Places /\ "idle" \in Places
  BY DEF Procs, Places
<1>1. CASE FutureReady(p)
  <2>1. /\ Goto(p, "synced") /\ ~InCallback(p)
        /\ UNCHANGED <<queueVars, callback, generated, finished, syncVars>>
        /\ scheduled' \in Nat /\ interrupted' \in BOOLEAN
        /\ promise[p] \in finished
    BY <1>1 DEF FutureReady, InCallback, IInv, TypeOK
  <2> QED BY <1>0, <2>1, MoveStep
<1>2. CASE SyncReturns(p)
  <2>1. /\ Goto(p, "idle") /\ ~InCallback(p)
        /\ UNCHANGED <<queueVars, callback, generated, finished>>
        /\ UNCHANGED <<scheduled, interrupted>>
        /\ promise' = [promise EXCEPT ![p] = 0]
        /\ entered' = [entered EXCEPT ![p] = 0]
    BY <1>2 DEF SyncReturns, InCallback
  <2>2. /\ Alone' /\ InOrder'
        /\ pc' \in [Procs -> Places]
        /\ \A q \in Procs : callback'[q] # 0 <=> pc'[q] = "call"
    BY <1>0, <2>1, QuietStep
  <2>3. TypeOK'
    <3>1. promise' \in [Producers -> {0} \cup Callbacks]
      BY <2>1 DEF IInv, TypeOK
    <3>2. entered' \in [Producers -> 0 .. MaxCallbacks]
      BY <2>1, ProcAssumption DEF IInv, TypeOK
    <3> QED BY <2>1, <2>2, <3>1, <3>2 DEF IInv, TypeOK, queueVars
  <2>4. Room'
    BY <1>0, <2>1, RoomKept
  <2>5. ASSUME NEW q \in Producers PROVE Promised(q)'
    BY <2>1 DEF Promised, Goto, IInv, TypeOK, Procs
  <2>6. Refined
    BY <2>1, Stutters DEF queueVars
  <2> QED BY <2>2, <2>3, <2>4, <2>5, <2>6 DEF IInv
<1> QED BY <1>1, <1>2

(* The steps of PrepareShutdown().                                         *)
LEMMA MainPreserves ==
  ASSUME IInv, StartShutdown \/ MainStep
  PROVE  IInv' /\ Refined
<1>0. Main \in Procs /\ Main \notin Producers
  BY ProcAssumption DEF Procs
<1> DEFINE Empty == /\ pc[Main] = "flush" /\ Goto(Main, "process")
                    /\ UNCHANGED <<queueVars, scheduled, callback, generated, finished,
                                   syncVars, interrupted>>
<1>1. CASE pc[Main] = "flush" /\ HasRoom /\ AddToProcessQueue(Main) /\ UNCHANGED promise
  BY <1>0, <1>1, GeneratePreserves
<1>2. CASE StartShutdown \/ InterruptAll \/ JoinAll \/ EmptyQueue \/ Empty
  <2> USE DEF StartShutdown, InterruptAll, JoinAll, EmptyQueue
  <2>1. PICK place \in {"stopping", "joining", "flush", "process", "done"} : Goto(Main, place)
    BY <1>2
  <2>2. /\ ~InCallback(Main) /\ place \in Places
        /\ place \notin {"call", "reset", "syncAdd"}
    BY <1>2 DEF InCallback, Places
  <2>3. UNCHANGED <<queueVars, callback, generated, finished, syncVars>>
    BY <1>2
  <2>4. scheduled' \in Nat /\ interrupted' \in BOOLEAN
    BY <1>2 DEF IInv, TypeOK
  <2> HIDE DEF StartShutdown, InterruptAll, JoinAll, EmptyQueue, Empty
  <2> QED BY <1>0, <2>1, <2>2, <2>3, <2>4, MoveStep
<1> QED BY <1>1, <1>2 DEF MainStep, ShutdownFlush

-----------------------------------------------------------------------------
(* Every step preserves the invariant and is one of the abstract queue.    *)
LEMMA StepCorrect ==
  ASSUME IInv, [Next]_vars
  PROVE  IInv' /\ Refined
<1>1. CASE UNCHANGED vars
  <2> USE <1>1 DEF vars, queueVars, syncVars
  <2>1. TypeOK' /\ Room'
    BY DEF IInv, TypeOK, Room, Syncing
  <2>2. Alone' /\ InOrder'
    BY DEF IInv, Alone, InCallback, InOrder, Begun, Executing
  <2>3. \A p \in Producers : Promised(p)'
    BY DEF IInv, Promised
  <2>4. Refined
    BY Stutters
  <2> QED BY <2>1, <2>2, <2>3, <2>4 DEF IInv
<1>2. ASSUME NEW p \in Procs, Process(p) PROVE IInv' /\ Refined
  BY <1>2, MaybePreserves, ProcessPreserves, ReturnPreserves, ResetPreserves DEF Process
<1>3. ASSUME NEW p \in Procs, Leave(p) PROVE IInv' /\ Refined
  BY <1>3, TakeLeavePreserves
<1>4. ASSUME NEW w \in Workers, TakeTask(w) PROVE IInv' /\ Refined
  BY <1>4, TakeLeavePreserves DEF Procs
<1>5. ASSUME NEW p \in Producers, Generate(p) PROVE IInv' /\ Refined
  BY <1>5, GeneratePreserves DEF Generate, Procs
<1>6. ASSUME NEW p \in Producers, SyncEnter(p) \/ SyncStep(p) PROVE IInv' /\ Refined
  BY <1>6, SyncEnterPreserves, SyncAddPreserves, SyncEndPreserves DEF SyncStep
<1>7. CASE StartShutdown \/ MainStep
  BY <1>7, MainPreserves
<1> QED BY <1>1, <1>2, <1>3, <1>4, <1>5, <1>6, <1>7 DEF Next

LEMMA Invariance == Spec => []IInv
<1>1. IInv /\ [Next]_vars => IInv'
  BY StepCorrect
<1> QED BY <1>1, InitCorrect, PTL DEF Spec

(***************************************************************************)
(* The queue's state is well typed for any number of threads, and a        *)
(* thread has a callback exactly while it executes one.                    *)
(***************************************************************************)
THEOREM TypeCorrect == Spec => []TypeOK
<1>1. IInv => TypeOK
  BY DEF IInv
<1> QED BY <1>1, Invariance, PTL

(***************************************************************************)
(* Callbacks are executed one at a time, and in the order in which they    *)
(* were added, however many threads call ProcessQueue().                   *)
(***************************************************************************)
THEOREM OneAtATime == Spec => []Serial
<1>1. IInv => Serial
  <2> SUFFICES ASSUME IInv PROVE Serial
    OBVIOUS
  <2>1. Cardinality(Executing) <= 1
    <3>1. CASE Executing = {}
      BY <3>1, FS_EmptySet
    <3>2. CASE Executing # {}
      <4>1. PICK p \in Executing : Executing = {p}
        BY <3>2 DEF IInv, Alone, InCallback, Executing
      <4>2. Cardinality({p}) = 1
        BY FS_Singleton
      <4> QED BY <4>1, <4>2
    <3> QED BY <3>1, <3>2
  <2>2. m_callbacks_pending = [i \in 1 .. Len(m_callbacks_pending) |->
                                  generated - Len(m_callbacks_pending) + i]
    BY DEF IInv, TypeOK, InOrder, Begun
  <2>3. \A p \in Executing : /\ callback[p] = generated - Len(m_callbacks_pending)
                            /\ finished = 1 .. callback[p] - 1
    BY DEF IInv, InOrder, Begun
  <2> QED BY <2>1, <2>2, <2>3 DEF Serial
<1> QED BY <1>1, Invariance, PTL

(***************************************************************************)
(* Whoever was released by its own callback at the end of the queue is     *)
(* past every callback that was generated before it came in.               *)
(***************************************************************************)
THEOREM PromisesKept == Spec => []PromiseMeansFinished
<1>1. IInv => PromiseMeansFinished
  <2> SUFFICES ASSUME IInv, NEW p \in Producers, pc[p] = "synced", promise[p] # 0
               PROVE  1 .. entered[p] \subseteq finished
    BY DEF PromiseMeansFinished
  <2>1. promise[p] \in finished /\ entered[p] < promise[p]
    BY DEF IInv, Promised
  <2>2. entered[p] \in Nat /\ promise[p] \in Nat
    BY ProcAssumption DEF IInv, TypeOK, Callbacks
  <2>3. \E k \in Int : finished = 1 .. k
    <3>1. Begun \in Int
      BY DEF IInv, TypeOK, Begun
    <3> QED BY <3>1 DEF IInv, InOrder
  <2>4. PICK en \in Nat, pr \in Nat, k \in Int :
          en = entered[p] /\ pr = promise[p] /\ finished = 1 .. k /\ pr \in 1 .. k /\ en < pr
    BY <2>1, <2>2, <2>3, Zenon
  <2>5. 1 .. en \subseteq 1 .. k
    BY <2>4
  <2> QED BY <2>4, <2>5, Zenon
<1> QED BY <1>1, Invariance, PTL

(***************************************************************************)
(* SingleThreadedSchedulerClient implements SerialQueue.                   *)
(***************************************************************************)
THEOREM QueueIsSerial == Spec => ImplementsSerialQueue
<1>1. Init => Abstract!Init
  <2>1. Cardinality({}) = 0
    BY FS_EmptySet
  <2>2. ASSUME Init
        PROVE  /\ generated = 0 /\ generated - Len(m_callbacks_pending) = 0
               /\ Cardinality(finished) = 0
    <3>1. generated = 0
      BY <2>2 DEF Init
    <3>2. Len(m_callbacks_pending) = 0
      BY <2>2 DEF Init
    <3>3. Cardinality(finished) = 0
      BY <2>1, <2>2, Zenon DEF Init
    <3>4. generated - Len(m_callbacks_pending) = 0
      BY <3>1, <3>2
    <3> QED BY <3>1, <3>3, <3>4
  <2> QED BY <2>2 DEF Abstract!Init
<1>2. IInv /\ [Next]_vars => [Abstract!Next]_(Abstract!vars)
  BY StepCorrect DEF Refined
<1> QED BY <1>1, <1>2, Invariance, PTL DEF Spec, ImplementsSerialQueue, Abstract!Spec
=============================================================================
