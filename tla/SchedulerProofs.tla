--------------------------- MODULE SchedulerProofs ---------------------------
(***************************************************************************)
(* Proofs about Scheduler, for any number of threads and tasks, any        *)
(* periods and any end of the clock.                                       *)
(*                                                                         *)
(* A task is in one place at a time: with its owner, in the queue or with  *)
(* one thread.  CalledOnce counts those places; what the invariant adds is *)
(* that the queue stays sorted and without a task twice when the multimap  *)
(* emplaces and erases, and, for the thread that is alone, that it waits   *)
(* for the first task of the queue or for a later time, since a task that  *)
(* is scheduled while it waits can only come in front.                     *)
(***************************************************************************)
EXTENDS Scheduler, FiniteSetTheorems, SequenceTheorems, TLAPS

Entry == [task : Tasks, t : Nat]

\* Of a queue: ordered by time, no task twice, and task k is in it.
Sorted(q)   == \A i, j \in DOMAIN q : i < j => q[i].t <= q[j].t
Distinct(q) == \A i, j \in DOMAIN q : q[i].task = q[j].task => i = j
Has(q, k)   == \E i \in DOMAIN q : q[i].task = k

Places == {"start", "top", "seed", "wait", "timed", "run", "left"}

\* The state is well typed and the counter of threads is right.
Types ==
    /\ now \in 0 .. MaxTime
    /\ taskQueue \in Seq(Entry) /\ Sorted(taskQueue)
    /\ pc \in [Threads -> Places]
    /\ deadline \in [Threads -> Nat]
    /\ current \in [Threads -> Seq(Entry)]
    /\ \A t \in Threads : Len(current[t]) = IF pc[t] = "run" THEN 1 ELSE 0
    /\ nThreadsServicingQueue = Cardinality(InService)
    /\ stopRequested \in BOOLEAN /\ stopWhenEmpty \in BOOLEAN /\ interrupted \in BOOLEAN
    /\ woken \subseteq {t \in Threads : Waiting(t)}
    /\ notify \in [one : Nat, all : BOOLEAN]
    /\ unscheduled \subseteq Tasks
    /\ ran \in [Tasks -> Nat]

InQueue(k) == Has(taskQueue, k)
Runs(t, k) == pc[t] = "run" /\ current[t][1].task = k

\* A task is in one place.
OnePlace ==
    /\ Distinct(taskQueue)
    /\ \A k \in Tasks :
          /\ InQueue(k) => k \notin unscheduled
          /\ \A t \in Threads : Runs(t, k) => k \notin unscheduled /\ ~InQueue(k)
          /\ \A t, u \in Threads : Runs(t, k) /\ Runs(u, k) => t = u

\* A task that is not repeated was called if it has left the queue; a repeated one
\* is somewhere, unless a thread that ran it was interrupted.
Counted ==
    \A k \in Tasks :
        /\ Period[k] = 0 => ran[k] = IF k \in unscheduled \/ InQueue(k) THEN 0 ELSE 1
        /\ Period[k] # 0 /\ ~interrupted =>
              k \in unscheduled \/ InQueue(k) \/ \E t \in Threads : Runs(t, k)

Alone(t) == \A u \in Threads \ {t} : pc[u] = "start"

\* The only thread in service waits for the first task, or for one that is due later,
\* and has taken none before its time.
InTime ==
    \A t \in Threads :
        Alone(t) =>
            /\ pc[t] = "timed" => taskQueue # << >> /\ taskQueue[1].t <= deadline[t]
            /\ pc[t] = "run" => current[t][1].t <= now

IInv == Types /\ OnePlace /\ Counted /\ InTime
-----------------------------------------------------------------------------
(* The queue                                                               *)

\* In a sorted queue the tasks that are due no later than e come first.
LEMMA PlaceOf ==
    ASSUME NEW q \in Seq(Entry), Sorted(q), NEW e \in Entry,
           NEW n, n = Cardinality({i \in DOMAIN q : q[i].t <= e.t})
    PROVE  n \in 0..Len(q) /\ \A i \in DOMAIN q : q[i].t <= e.t <=> i <= n
<1>. DEFINE S == {i \in DOMAIN q : q[i].t <= e.t}
<1>1. Len(q) \in Nat /\ DOMAIN q = 1..Len(q) /\ \A i \in DOMAIN q : q[i].t \in Nat
  <2>1. \A i \in DOMAIN q : q[i] \in Entry BY ElementOfSeq
  <2>2. \A x \in Entry : x.t \in Nat BY DEF Entry
  <2>. QED BY <2>1, <2>2
<1>2. e.t \in Nat
  BY DEF Entry
<1>3. /\ IsFiniteSet(1..Len(q)) /\ Cardinality(1..Len(q)) = Len(q)
  BY <1>1, FS_Interval
<1>4. IsFiniteSet(S) /\ n \in Nat /\ n <= Len(q)
  <2>1. S \in SUBSET (1..Len(q)) BY <1>1
  <2>. QED BY <2>1, <1>3, FS_Subset, FS_CardinalityType
<1>5. \A i \in S : 1..i \subseteq S
  <2>. SUFFICES ASSUME NEW i \in S, NEW j \in 1..i PROVE j \in S
    OBVIOUS
  <2>1. j \in DOMAIN q /\ q[j].t <= q[i].t
    BY <1>1 DEF Sorted
  <2>. QED BY <2>1, <1>1, <1>2
<1>6. ASSUME NEW i \in S PROVE i <= n
  <2>1. 1..i \in SUBSET S /\ i \in Nat BY <1>1, <1>5
  <2>2. Cardinality(1..i) = i BY <2>1, <1>1, FS_Interval
  <2>. QED BY <2>1, <2>2, <1>4, FS_Subset
<1>7. ASSUME NEW i \in DOMAIN q, i <= n, i \notin S PROVE FALSE
  <2>1. S \in SUBSET (1..(i - 1))
    <3>. SUFFICES ASSUME NEW j \in S PROVE j \in 1..(i - 1)
      OBVIOUS
    <3>1. i \notin 1..j BY <1>5, <1>7
    <3>. QED BY <3>1, <1>1
  <2>2. IsFiniteSet(1..(i - 1)) /\ Cardinality(1..(i - 1)) = i - 1
    <3>1. i - 1 \in Int /\ i - 1 >= 0 BY <1>1
    <3>. QED BY <3>1, FS_Interval
  <2>3. Cardinality(S) <= i - 1
    BY <2>1, <2>2, FS_Subset
  <2>. QED BY <2>3, <1>1, <1>4, <1>7
<1>. QED BY <1>1, <1>4, <1>6, <1>7

\* The queue after emplace: e stands behind the tasks due no later, before the others.
LEMMA EmplaceSeq ==
    ASSUME NEW q \in Seq(Entry), Sorted(q), NEW e \in Entry
    PROVE  \E n \in 0..Len(q) :
             /\ \A i \in DOMAIN q : q[i].t <= e.t <=> i <= n
             /\ Emplace(q, e) \in Seq(Entry) /\ Len(Emplace(q, e)) = Len(q) + 1
             /\ \A i \in 1..(Len(q) + 1) :
                   Emplace(q, e)[i] =
                       IF i <= n THEN q[i] ELSE IF i = n + 1 THEN e ELSE q[i - 1]
<1>. DEFINE n == Cardinality({i \in DOMAIN q : q[i].t <= e.t})
<1>1. n \in 0..Len(q) /\ \A i \in DOMAIN q : q[i].t <= e.t <=> i <= n
  BY PlaceOf
<1>. DEFINE a == SubSeq(q, 1, n)
            b == SubSeq(q, n + 1, Len(q))
<1>2. Emplace(q, e) = InsertAt(q, 1 + n, e)
  BY DEF Emplace
<1>. HIDE DEF n
<1>3. InsertAt(q, 1 + n, e) = a \o <<e>> \o b
  <2>1. (1 + n) - 1 = n /\ 1 + n = n + 1 BY <1>1
  <2>. QED BY <2>1 DEF InsertAt
<1>4. a \in Seq(Entry) /\ Len(a) = n /\ \A i \in 1..n : a[i] = q[i]
  BY <1>1
<1>5. b \in Seq(Entry) /\ Len(b) = Len(q) - n /\ \A i \in 1..(Len(q) - n) : b[i] = q[n + i]
  BY <1>1
<1>. HIDE DEF a, b
<1>6. /\ a \o <<e>> \in Seq(Entry) /\ Len(a \o <<e>>) = n + 1
      /\ \A i \in 1..n : (a \o <<e>>)[i] = q[i]
      /\ (a \o <<e>>)[n + 1] = e
  BY <1>1, <1>4
<1>. DEFINE c == a \o <<e>>
<1>. HIDE DEF c
<1>7. /\ c \in Seq(Entry) /\ Len(c) = n + 1 /\ c[n + 1] = e
      /\ \A i \in 1..n : c[i] = q[i]
  BY <1>6 DEF c
<1>8. /\ c \o b \in Seq(Entry) /\ Len(c \o b) = Len(q) + 1
      /\ \A i \in 1..(Len(q) + 1) : (c \o b)[i] = IF i <= n + 1 THEN c[i] ELSE b[i - (n + 1)]
  <2>1. /\ c \o b \in Seq(Entry) /\ Len(c \o b) = Len(c) + Len(b)
        /\ \A i \in 1..(Len(c) + Len(b)) :
              (c \o b)[i] = IF i <= Len(c) THEN c[i] ELSE b[i - Len(c)]
    BY <1>5, <1>7, ConcatProperties
  <2>2. Len(c) + Len(b) = Len(q) + 1
    BY <1>1, <1>5, <1>7
  <2>. QED BY <2>1, <2>2, <1>7
<1>9. \A i \in 1..(Len(q) + 1) :
         (c \o b)[i] = IF i <= n THEN q[i] ELSE IF i = n + 1 THEN e ELSE q[i - 1]
  <2>. SUFFICES ASSUME NEW i \in 1..(Len(q) + 1)
               PROVE  (c \o b)[i] = IF i <= n THEN q[i] ELSE IF i = n + 1 THEN e ELSE q[i - 1]
    OBVIOUS
  <2>1. CASE i <= n BY <2>1, <1>1, <1>7, <1>8
  <2>2. CASE i = n + 1 BY <2>2, <1>1, <1>7, <1>8
  <2>3. CASE i > n + 1
    <3>1. i - (n + 1) \in 1..(Len(q) - n) /\ n + (i - (n + 1)) = i - 1
      BY <2>3, <1>1
    <3>2. b[i - (n + 1)] = q[i - 1]
      BY <3>1, <1>5
    <3>. QED BY <3>2, <2>3, <1>1, <1>8
  <2>4. i <= n \/ i = n + 1 \/ i > n + 1 BY <1>1
  <2>. QED BY <2>1, <2>2, <2>3, <2>4
<1>10. Emplace(q, e) = c \o b
  BY <1>2, <1>3 DEF c
<1>. QED BY <1>1, <1>8, <1>9, <1>10

\* emplace keeps the order, and adds the one task.
LEMMA EmplaceQueue ==
    ASSUME NEW q \in Seq(Entry), Sorted(q), Distinct(q),
           NEW e \in Entry, ~Has(q, e.task)
    PROVE  LET r == Emplace(q, e)
           IN /\ r \in Seq(Entry) /\ Sorted(r) /\ Distinct(r)
              /\ \A k : Has(r, k) <=> Has(q, k) \/ k = e.task
              /\ r # << >>
              /\ q # << >> => r[1].t <= q[1].t
<1>. DEFINE r == Emplace(q, e)
<1>1. PICK n \in 0..Len(q) :
         /\ \A i \in DOMAIN q : q[i].t <= e.t <=> i <= n
         /\ r \in Seq(Entry) /\ Len(r) = Len(q) + 1
         /\ \A i \in 1..(Len(q) + 1) :
               r[i] = IF i <= n THEN q[i] ELSE IF i = n + 1 THEN e ELSE q[i - 1]
  BY EmplaceSeq
<1>. HIDE DEF r
<1>2. /\ Len(q) \in Nat /\ n \in Nat /\ n <= Len(q)
      /\ DOMAIN q = 1..Len(q) /\ DOMAIN r = 1..(Len(q) + 1)
  BY <1>1
<1>3. (\A i \in DOMAIN q : q[i].t \in Nat) /\ e.t \in Nat
  <2>1. \A i \in DOMAIN q : q[i] \in Entry BY ElementOfSeq
  <2>2. \A x \in Entry : x.t \in Nat BY DEF Entry
  <2>. QED BY <2>1, <2>2
\* Where an element of the new queue comes from.
<1>. DEFINE from(i) == IF i <= n THEN i ELSE i - 1
<1>4. ASSUME NEW i \in DOMAIN r, i # n + 1
      PROVE  from(i) \in DOMAIN q /\ r[i] = q[from(i)]
  <2>1. CASE i <= n BY <2>1, <1>1, <1>2
  <2>2. CASE i > n + 1 BY <2>2, <1>1, <1>2
  <2>3. i <= n \/ i > n + 1 BY <1>2, <1>4
  <2>. QED BY <2>1, <2>2, <2>3
<1>5. n + 1 \in DOMAIN r /\ r[n + 1] = e
  BY <1>1, <1>2
<1>6. Sorted(r)
  <2>. SUFFICES ASSUME NEW i \in DOMAIN r, NEW j \in DOMAIN r, i < j
               PROVE  r[i].t <= r[j].t
    BY DEF Sorted
  <2>1. CASE i = n + 1
    <3>1. from(j) \in DOMAIN q /\ r[j] = q[from(j)] /\ ~(from(j) <= n)
      BY <2>1, <1>2, <1>4
    <3>2. ~(q[from(j)].t <= e.t) BY <3>1, <1>1
    <3>. QED BY <3>1, <3>2, <2>1, <1>3, <1>5
  <2>2. CASE j = n + 1
    <3>1. from(i) \in DOMAIN q /\ r[i] = q[from(i)] /\ from(i) <= n
      BY <2>2, <1>2, <1>4
    <3>2. q[from(i)].t <= e.t BY <3>1, <1>1
    <3>. QED BY <3>1, <3>2, <2>2, <1>5
  <2>3. CASE i # n + 1 /\ j # n + 1
    <3>1. from(i) < from(j) BY <2>3, <1>2
    <3>2. from(i) \in DOMAIN q /\ r[i] = q[from(i)] BY <2>3, <1>4
    <3>3. from(j) \in DOMAIN q /\ r[j] = q[from(j)] BY <2>3, <1>4
    <3>. HIDE DEF from
    <3>. QED BY <3>1, <3>2, <3>3 DEF Sorted
  <2>. QED BY <2>1, <2>2, <2>3
<1>7. Distinct(r)
  <2>. SUFFICES ASSUME NEW i \in DOMAIN r, NEW j \in DOMAIN r, r[i].task = r[j].task
               PROVE  i = j
    BY DEF Distinct
  <2>1. ASSUME NEW x \in DOMAIN r, x # n + 1 PROVE r[x].task # e.task
    <3>. HIDE DEF from
    <3>. QED BY <2>1, <1>4 DEF Has
  <2>2. CASE i = n + 1 \/ j = n + 1 BY <2>2, <2>1, <1>5
  <2>3. CASE i # n + 1 /\ j # n + 1
    <3>1. from(i) \in DOMAIN q /\ r[i] = q[from(i)] BY <2>3, <1>4
    <3>2. from(j) \in DOMAIN q /\ r[j] = q[from(j)] BY <2>3, <1>4
    <3>3. from(i) = from(j)
      <4>. HIDE DEF from
      <4>. QED BY <3>1, <3>2 DEF Distinct
    <3>. QED BY <3>3, <2>3, <1>2
  <2>. QED BY <2>2, <2>3
<1>8. ASSUME NEW k PROVE Has(r, k) <=> Has(q, k) \/ k = e.task
  <2>1. ASSUME Has(r, k), k # e.task PROVE Has(q, k)
    <3>1. PICK i \in DOMAIN r : r[i].task = k BY <2>1 DEF Has
    <3>2. from(i) \in DOMAIN q /\ r[i] = q[from(i)] BY <3>1, <2>1, <1>4, <1>5
    <3>. HIDE DEF from
    <3>. QED BY <3>1, <3>2 DEF Has
  <2>2. ASSUME Has(q, k) PROVE Has(r, k)
    <3>1. PICK i \in DOMAIN q : q[i].task = k BY <2>2 DEF Has
    <3>2. CASE i <= n
      <4>1. i \in DOMAIN r /\ r[i] = q[i] BY <3>2, <1>1, <1>2
      <4>. QED BY <4>1, <3>1 DEF Has
    <3>3. CASE i > n
      <4>1. i + 1 \in DOMAIN r /\ r[i + 1] = q[i] BY <3>3, <1>1, <1>2
      <4>. QED BY <4>1, <3>1 DEF Has
    <3>. QED BY <3>2, <3>3, <1>2
  <2>3. k = e.task => Has(r, k) BY <1>5 DEF Has
  <2>. QED BY <2>1, <2>2, <2>3
<1>9. r # << >> /\ (q # << >> => r[1].t <= q[1].t)
  <2>1. Len(r) # 0 BY <1>1, <1>2
  <2>2. ASSUME q # << >> PROVE r[1].t <= q[1].t
    <3>1. 1 \in DOMAIN q /\ 1 \in DOMAIN r BY <2>2, <1>2
    <3>2. CASE n = 0
      <4>1. ~(q[1].t <= e.t) /\ r[1] = e BY <3>1, <3>2, <1>1, <1>2
      <4>. QED BY <4>1, <3>1, <1>3
    <3>3. CASE n # 0
      <4>1. r[1] = q[1] BY <3>1, <3>3, <1>1, <1>2
      <4>. QED BY <4>1, <3>1, <1>3
    <3>. QED BY <3>2, <3>3
  <2>. QED BY <2>1, <2>2
<1>. QED BY <1>1, <1>6, <1>7, <1>8, <1>9 DEF r

\* erase(begin) keeps the order, and removes the one task.
LEMMA TailQueue ==
    ASSUME NEW q \in Seq(Entry), Sorted(q), Distinct(q), q # << >>
    PROVE  /\ Head(q) = q[1] /\ Head(q) \in Entry /\ Has(q, Head(q).task)
           /\ Tail(q) \in Seq(Entry) /\ Sorted(Tail(q)) /\ Distinct(Tail(q))
           /\ \A k : Has(Tail(q), k) <=> Has(q, k) /\ k # Head(q).task
<1>. DEFINE r == Tail(q)
<1>1. /\ Head(q) = q[1] /\ Head(q) \in Entry /\ r \in Seq(Entry)
      /\ Len(r) = Len(q) - 1 /\ \A i \in 1..Len(r) : r[i] = q[i + 1]
  BY HeadTailProperties
<1>2. Len(q) \in Nat /\ Len(q) >= 1 /\ DOMAIN q = 1..Len(q) /\ DOMAIN r = 1..(Len(q) - 1)
  BY <1>1
<1>. HIDE DEF r
<1>3. ASSUME NEW i \in DOMAIN r PROVE i + 1 \in DOMAIN q /\ r[i] = q[i + 1]
  BY <1>1, <1>2
<1>4. Sorted(r)
  <2>. SUFFICES ASSUME NEW i \in DOMAIN r, NEW j \in DOMAIN r, i < j
               PROVE  r[i].t <= r[j].t
    BY DEF Sorted
  <2>1. i + 1 < j + 1 BY <1>2
  <2>. QED BY <2>1, <1>3 DEF Sorted
<1>5. Distinct(r)
  <2>. SUFFICES ASSUME NEW i \in DOMAIN r, NEW j \in DOMAIN r, r[i].task = r[j].task
               PROVE  i = j
    BY DEF Distinct
  <2>1. i + 1 = j + 1 BY <1>3 DEF Distinct
  <2>. QED BY <2>1, <1>2
<1>6. 1 \in DOMAIN q
  BY <1>2
<1>7. ASSUME NEW k PROVE Has(r, k) <=> Has(q, k) /\ k # q[1].task
  <2>1. ASSUME Has(r, k) PROVE Has(q, k) /\ k # q[1].task
    <3>1. PICK i \in DOMAIN r : r[i].task = k BY <2>1 DEF Has
    <3>2. i + 1 \in DOMAIN q /\ q[i + 1].task = k /\ i + 1 # 1 BY <3>1, <1>2, <1>3
    <3>. QED BY <3>2, <1>6 DEF Has, Distinct
  <2>2. ASSUME Has(q, k), k # q[1].task PROVE Has(r, k)
    <3>1. PICK i \in DOMAIN q : q[i].task = k BY <2>2 DEF Has
    <3>2. i - 1 \in DOMAIN r /\ (i - 1) + 1 = i BY <3>1, <2>2, <1>2
    <3>3. r[i - 1] = q[i] BY <3>2, <1>3
    <3>. QED BY <3>1, <3>2, <3>3 DEF Has
  <2>. QED BY <2>1, <2>2
<1>8. Has(q, q[1].task)
  BY <1>6 DEF Has
<1>. QED BY <1>1, <1>4, <1>5, <1>7, <1>8 DEF r

-----------------------------------------------------------------------------
(* The threads                                                             *)

\* A notification that has not been delivered is counted or noted.
LEMMA Notifications ==
    ASSUME notify \in [one : Nat, all : BOOLEAN]
    PROVE  /\ [notify EXCEPT !.one = @ + 1] \in [one : Nat, all : BOOLEAN]
           /\ notify.one > 0 => [notify EXCEPT !.one = @ - 1] \in [one : Nat, all : BOOLEAN]
           /\ [notify EXCEPT !.all = TRUE] \in [one : Nat, all : BOOLEAN]
           /\ [notify EXCEPT !.all = FALSE] \in [one : Nat, all : BOOLEAN]
<1>1. notify.one \in Nat
  OBVIOUS
<1>2. notify.one + 1 \in Nat /\ (notify.one > 0 => notify.one - 1 \in Nat)
  BY <1>1
<1>. QED BY <1>2

\* ++nThreadsServicingQueue and --nThreadsServicingQueue.
LEMMA ServiceCount ==
    ASSUME pc \in [Threads -> Places], NEW t \in Threads, NEW p \in Places,
           pc' = [pc EXCEPT ![t] = p]
    PROVE  /\ Cardinality(InService) \in Nat
           /\ pc[t] = "start" /\ p = "top"
                 => Cardinality(InService') = Cardinality(InService) + 1
           /\ pc[t] \notin {"start", "left"} /\ p = "left"
                 => Cardinality(InService') = Cardinality(InService) - 1
           /\ pc[t] \notin {"start", "left"} /\ p \notin {"start", "left"}
                 => InService' = InService
<1>1. IsFiniteSet(InService)
  <2>1. InService \in SUBSET Threads BY DEF InService
  <2>. QED BY <2>1, TimeAssumption, FS_Subset
<1>2. ASSUME pc[t] = "start", p = "top" PROVE Cardinality(InService') = Cardinality(InService) + 1
  <2>1. InService' = InService \cup {t} /\ t \notin InService
    BY <1>2 DEF InService
  <2>. QED BY <2>1, <1>1, FS_AddElement
<1>3. ASSUME pc[t] \notin {"start", "left"}, p = "left"
      PROVE  Cardinality(InService') = Cardinality(InService) - 1
  <2>1. InService' = InService \ {t} /\ t \in InService
    BY <1>3 DEF InService
  <2>. QED BY <2>1, <1>1, FS_RemoveElement
<1>4. ASSUME pc[t] \notin {"start", "left"}, p \notin {"start", "left"}
      PROVE  InService' = InService
  BY <1>4 DEF InService
<1>. QED BY <1>1, <1>2, <1>3, <1>4, FS_CardinalityType

\* A thread that runs has one task of the queue.
LEMMA CurrentTask ==
    ASSUME Types, NEW t \in Threads, pc[t] = "run"
    PROVE  current[t][1] \in Entry /\ current[t][1].task \in Tasks /\ current[t][1].t \in Nat
<1>1. current[t] \in Seq(Entry)
  BY DEF Types
<1>2. Len(current[t]) = 1
  BY DEF Types
<1>3. 1 \in 1..Len(current[t])
  BY <1>2
<1>4. current[t][1] \in Entry
  BY <1>1, <1>3, ElementOfSeq
<1>. QED BY <1>4 DEF Entry

\* Nobody goes back to "start": the thread that has moved may be alone, no other is.
LEMMA OnlyMover ==
    ASSUME pc \in [Threads -> Places], NEW t \in Threads, NEW p \in Places, p # "start",
           pc' = [pc EXCEPT ![t] = p], NEW u \in Threads, Alone(u)'
    PROVE  u = t /\ Alone(t)
BY DEF Alone

\* Neither the queue nor the threads change: clocks, flags and notifications.
LEMMA QuietStep ==
    ASSUME IInv, Types',
           UNCHANGED <<unscheduled, taskQueue, threadVars, ran>>,
           interrupted => interrupted', now' >= now
    PROVE  IInv'
<1>1. /\ \A k : InQueue(k)' <=> InQueue(k)
      /\ \A u, k : Runs(u, k)' <=> Runs(u, k)
      /\ \A u : Alone(u)' <=> Alone(u)
  BY DEF InQueue, Runs, Alone, threadVars
<1>2. OnePlace'
  BY <1>1 DEF IInv, OnePlace
<1>3. Counted'
  BY <1>1 DEF IInv, Counted
<1>4. InTime'
  <2>. SUFFICES ASSUME NEW u \in Threads, Alone(u)
               PROVE  /\ pc[u] = "timed" => taskQueue # << >> /\ taskQueue[1].t <= deadline[u]
                      /\ pc[u] = "run" => current[u][1].t <= now'
    BY <1>1 DEF InTime, threadVars
  <2>1. /\ pc[u] = "timed" => taskQueue # << >> /\ taskQueue[1].t <= deadline[u]
        /\ pc[u] = "run" => current[u][1].t <= now
    BY DEF IInv, InTime
  <2>2. pc[u] = "run" => current[u][1].t \in Nat
    BY CurrentTask DEF IInv
  <2>3. now \in Nat /\ now' \in Nat
    BY TimeAssumption DEF IInv, Types
  <2>. QED BY <2>1, <2>2, <2>3
<1>. QED BY <1>2, <1>3, <1>4 DEF IInv

\* A thread that runs no task goes elsewhere in serviceQueue(), and takes none.
LEMMA MoveStep ==
    ASSUME IInv, NEW t \in Threads, NEW p \in Places, p \notin {"start", "run"}, pc[t] # "run",
           pc' = [pc EXCEPT ![t] = p],
           UNCHANGED <<now, unscheduled, taskQueue, current, stopVars, ran>>,
           nThreadsServicingQueue' = Cardinality(InService'),
           deadline' \in [Threads -> Nat],
           p = "timed" => taskQueue # << >> /\ deadline'[t] = taskQueue[1].t,
           notify' \in [one : Nat, all : BOOLEAN], woken' = woken \ {t}
    PROVE  IInv'
<1>1. /\ \A k : InQueue(k)' <=> InQueue(k)
      /\ \A u \in Threads : \A k : Runs(u, k)' <=> Runs(u, k)
  BY DEF IInv, Types, InQueue, Runs
<1>2. Types'
  <2>1. now' \in 0..MaxTime /\ taskQueue' \in Seq(Entry) /\ Sorted(taskQueue)'
    BY DEF IInv, Types, Sorted
  <2>2. pc' \in [Threads -> Places] /\ current' \in [Threads -> Seq(Entry)]
    BY DEF IInv, Types
  <2>3. \A u \in Threads : Len(current'[u]) = IF pc'[u] = "run" THEN 1 ELSE 0
    BY DEF IInv, Types
  <2>4. stopRequested' \in BOOLEAN /\ stopWhenEmpty' \in BOOLEAN /\ interrupted' \in BOOLEAN
    BY DEF IInv, Types, stopVars
  <2>5. woken' \subseteq {u \in Threads : Waiting(u)'}
    BY DEF IInv, Types, Waiting
  <2>6. unscheduled' \subseteq Tasks /\ ran' \in [Tasks -> Nat]
    BY DEF IInv, Types
  <2>. QED BY <2>1, <2>2, <2>3, <2>4, <2>5, <2>6 DEF Types
<1>3. OnePlace'
  BY <1>1 DEF IInv, OnePlace, Distinct
<1>4. Counted'
  BY <1>1 DEF IInv, Counted, stopVars
<1>5. InTime'
  <2>. SUFFICES ASSUME NEW u \in Threads, Alone(u)'
               PROVE  /\ pc'[u] = "timed" => taskQueue' # << >> /\ taskQueue'[1].t <= deadline'[u]
                      /\ pc'[u] = "run" => current'[u][1].t <= now'
    BY DEF InTime
  <2>1. u = t /\ pc'[t] = p
    BY OnlyMover DEF IInv, Types
  <2>. QED BY <2>1
<1>. QED BY <1>2, <1>3, <1>4, <1>5 DEF IInv

\* A thread leaves the queue, or waits or sleeps: lines 32 to 50 of serviceQueue().
LEMMA LoopStep ==
    ASSUME IInv, NEW t \in Threads, pc[t] \in {"top", "seed", "wait", "timed"},
           LoopTop(t) \/ WaitForTask(t),
           UNCHANGED <<clockVars, stopVars>>, woken' = woken \ {t}
    PROVE  IInv'
<1>. /\ pc \in [Threads -> Places] /\ deadline \in [Threads -> Nat]
     /\ notify \in [one : Nat, all : BOOLEAN]
     /\ nThreadsServicingQueue = Cardinality(InService)
  BY DEF IInv, Types
<1>0. UNCHANGED <<now, unscheduled, stopVars>>
  BY DEF clockVars
<1>1. CASE Leave(t)
  <2>1. /\ pc' = [pc EXCEPT ![t] = "left"] /\ "left" \in Places
        /\ UNCHANGED <<deadline, current, taskQueue, ran>>
        /\ nThreadsServicingQueue' = nThreadsServicingQueue - 1
        /\ notify' = [notify EXCEPT !.one = @ + 1]
    BY <1>1 DEF Leave, Places
  <2>2. nThreadsServicingQueue' = Cardinality(InService')
    BY <2>1, ServiceCount
  <2>3. notify' \in [one : Nat, all : BOOLEAN]
    BY <2>1, Notifications
  <2>. QED BY <2>1, <2>2, <2>3, <1>0, MoveStep
<1>2. ASSUME NEW p \in {"seed", "wait"}, GoTo(t, p) PROVE IInv'
  <2>1. /\ pc' = [pc EXCEPT ![t] = p] /\ p \in Places
        /\ UNCHANGED <<deadline, current, nThreadsServicingQueue, taskQueue, notify, ran>>
    BY <1>2 DEF GoTo, Places
  <2>2. nThreadsServicingQueue' = Cardinality(InService')
    BY <2>1, <1>2, ServiceCount
  <2>. QED BY <2>1, <2>2, <1>0, MoveStep
<1>3. ASSUME taskQueue # << >>, WaitForFirst(t) PROVE IInv'
  <2>1. /\ pc' = [pc EXCEPT ![t] = "timed"] /\ "timed" \in Places
        /\ UNCHANGED <<current, nThreadsServicingQueue, taskQueue, notify, ran>>
        /\ deadline' = [deadline EXCEPT ![t] = Head(taskQueue).t]
    BY <1>3 DEF WaitForFirst, Places
  <2>2. nThreadsServicingQueue' = Cardinality(InService')
    BY <2>1, ServiceCount
  <2>3. Head(taskQueue) = taskQueue[1] /\ Head(taskQueue) \in Entry
    BY <1>3, TailQueue DEF IInv, Types, OnePlace
  <2>4. Head(taskQueue).t \in Nat
    BY <2>3 DEF Entry
  <2>5. deadline' \in [Threads -> Nat] /\ deadline'[t] = taskQueue[1].t
    BY <2>1, <2>3, <2>4
  <2>. QED BY <2>1, <2>2, <2>5, <1>3, <1>0, MoveStep
<1>. QED BY <1>1, <1>2, <1>3 DEF LoopTop, WaitForTask

LEMMA EnterStep ==
    ASSUME IInv, NEW t \in Threads, Enter(t)
    PROVE  IInv'
<1>1. /\ pc \in [Threads -> Places] /\ deadline \in [Threads -> Nat]
      /\ notify \in [one : Nat, all : BOOLEAN]
      /\ nThreadsServicingQueue = Cardinality(InService)
      /\ woken \subseteq {u \in Threads : Waiting(u)}
  BY DEF IInv, Types
<1>2. /\ pc[t] = "start" /\ pc' = [pc EXCEPT ![t] = "top"] /\ "top" \in Places
      /\ nThreadsServicingQueue' = nThreadsServicingQueue + 1
      /\ UNCHANGED <<now, unscheduled, taskQueue, deadline, current, stopVars, woken, notify, ran>>
  BY DEF Enter, Places, clockVars
<1>3. nThreadsServicingQueue' = Cardinality(InService')
  BY <1>1, <1>2, ServiceCount
<1>4. woken' = woken \ {t}
  BY <1>1, <1>2 DEF Waiting
<1>. QED BY <1>1, <1>2, <1>3, <1>4, MoveStep

\* The owner of a task hands it over: it goes from unscheduled to the queue.
LEMMA ScheduleStep ==
    ASSUME IInv, NEW k \in Tasks, Schedule(k)
    PROVE  IInv'
<1>1. PICK at \in now..MaxTime : schedule([task |-> k, t |-> at])
  BY DEF Schedule
<1>. DEFINE e == [task |-> k, t |-> at]
<1>2. /\ k \in unscheduled /\ unscheduled' = unscheduled \ {k}
      /\ taskQueue' = Emplace(taskQueue, e) /\ notify' = [notify EXCEPT !.one = @ + 1]
      /\ UNCHANGED <<now, pc, deadline, current, nThreadsServicingQueue, stopVars, woken, ran>>
  BY <1>1 DEF Schedule, schedule, threadVars
<1>3. e \in Entry /\ e.task = k
  BY TimeAssumption DEF Entry, IInv, Types
<1>. HIDE DEF e
<1>4. /\ taskQueue \in Seq(Entry) /\ Sorted(taskQueue) /\ Distinct(taskQueue)
      /\ ~Has(taskQueue, k)
  BY <1>2 DEF IInv, Types, OnePlace, InQueue
<1>5. /\ taskQueue' \in Seq(Entry) /\ Sorted(taskQueue') /\ Distinct(taskQueue')
      /\ \A j : Has(taskQueue', j) <=> Has(taskQueue, j) \/ j = k
      /\ taskQueue' # << >>
      /\ taskQueue # << >> => taskQueue'[1].t <= taskQueue[1].t
  BY <1>2, <1>3, <1>4, EmplaceQueue
<1>6. /\ \A j : InQueue(j)' <=> InQueue(j) \/ j = k
      /\ \A u, j : Runs(u, j)' <=> Runs(u, j)
      /\ \A u : Alone(u)' <=> Alone(u)
  BY <1>2, <1>5 DEF InQueue, Runs, Alone
<1>7. Types'
  <2>1. notify' \in [one : Nat, all : BOOLEAN]
    BY <1>2, Notifications DEF IInv, Types
  <2>2. InService' = InService /\ \A u : Waiting(u)' <=> Waiting(u)
    BY <1>2 DEF InService, Waiting
  <2>3. stopRequested' \in BOOLEAN /\ stopWhenEmpty' \in BOOLEAN /\ interrupted' \in BOOLEAN
    BY <1>2 DEF IInv, Types, stopVars
  <2>. QED BY <2>1, <2>2, <2>3, <1>2, <1>5 DEF IInv, Types
<1>8. OnePlace'
  BY <1>2, <1>5, <1>6 DEF IInv, OnePlace
<1>9. Counted'
  BY <1>2, <1>6 DEF IInv, Counted, stopVars
<1>10. InTime'
  <2>. SUFFICES ASSUME NEW u \in Threads, Alone(u)
               PROVE  /\ pc[u] = "timed" => taskQueue' # << >> /\ taskQueue'[1].t <= deadline[u]
                      /\ pc[u] = "run" => current[u][1].t <= now
    BY <1>2, <1>6 DEF InTime
  <2>1. /\ pc[u] = "timed" => taskQueue # << >> /\ taskQueue[1].t <= deadline[u]
        /\ pc[u] = "run" => current[u][1].t <= now
    BY DEF IInv, InTime
  <2>2. deadline[u] \in Nat
    BY DEF IInv, Types
  <2>3. taskQueue # << >> => taskQueue[1].t \in Nat /\ taskQueue'[1].t \in Nat
    <3>1. ASSUME NEW q \in Seq(Entry), q # << >> PROVE q[1].t \in Nat
      <4>1. q[1] \in Entry BY <3>1, ElementOfSeq
      <4>. QED BY <4>1 DEF Entry
    <3>. QED BY <3>1, <1>4, <1>5
  <2>. QED BY <2>1, <2>2, <2>3, <1>5
<1>. QED BY <1>7, <1>8, <1>9, <1>10 DEF IInv

\* A thread takes the first task: it goes from the queue to the thread.
LEMMA TakeFirstStep ==
    ASSUME IInv, NEW t \in Threads, pc[t] = "timed", deadline[t] <= now,
           taskQueue # << >>, TakeFirst(t),
           UNCHANGED <<clockVars, stopVars>>, woken' = woken \ {t}
    PROVE  IInv'
<1>. DEFINE h == Head(taskQueue)
<1>1. /\ pc' = [pc EXCEPT ![t] = "run"]
      /\ current' = [current EXCEPT ![t] = <<h>>]
      /\ taskQueue' = Tail(taskQueue)
      /\ ran' = [ran EXCEPT ![h.task] = @ + 1]
      /\ UNCHANGED <<deadline, nThreadsServicingQueue, notify, now, unscheduled, stopVars>>
  BY DEF TakeFirst, clockVars
<1>2. /\ h = taskQueue[1] /\ h \in Entry /\ Has(taskQueue, h.task)
      /\ taskQueue' \in Seq(Entry) /\ Sorted(taskQueue') /\ Distinct(taskQueue')
      /\ \A j : Has(taskQueue', j) <=> Has(taskQueue, j) /\ j # h.task
  BY <1>1, TailQueue DEF IInv, Types, OnePlace
<1>. HIDE DEF h
<1>3. h.task \in Tasks /\ h.t \in Nat /\ <<h>> \in Seq(Entry) /\ Len(<<h>>) = 1 /\ <<h>>[1] = h
  BY <1>2 DEF Entry
<1>4. /\ pc \in [Threads -> Places] /\ current \in [Threads -> Seq(Entry)]
      /\ ran \in [Tasks -> Nat]
  BY DEF IInv, Types
<1>5. /\ pc'[t] = "run" /\ current'[t] = <<h>>
      /\ \A u \in Threads \ {t} : pc'[u] = pc[u] /\ current'[u] = current[u]
  BY <1>1, <1>4
<1>6. /\ \A j : InQueue(j)' <=> InQueue(j) /\ j # h.task
      /\ \A u \in Threads \ {t} : \A j : Runs(u, j)' <=> Runs(u, j)
      /\ \A j : Runs(t, j)' <=> j = h.task
      /\ \A j : ~Runs(t, j)
      /\ InQueue(h.task)
  BY <1>2, <1>3, <1>5 DEF InQueue, Runs
<1>7. Types'
  <2>1. pc' \in [Threads -> Places] /\ current' \in [Threads -> Seq(Entry)]
    BY <1>1, <1>3, <1>4 DEF Places
  <2>2. \A u \in Threads : Len(current'[u]) = IF pc'[u] = "run" THEN 1 ELSE 0
    BY <1>3, <1>5 DEF IInv, Types
  <2>3. nThreadsServicingQueue' = Cardinality(InService)'
    <3>1. InService' = InService BY <1>1, <1>4, <1>5 DEF InService
    <3>. QED BY <3>1, <1>1 DEF IInv, Types
  <2>4. stopRequested' \in BOOLEAN /\ stopWhenEmpty' \in BOOLEAN /\ interrupted' \in BOOLEAN
    BY <1>1 DEF IInv, Types, stopVars
  <2>5. woken' \subseteq {u \in Threads : Waiting(u)'}
    BY <1>5 DEF IInv, Types, Waiting
  <2>6. ran' \in [Tasks -> Nat]
    BY <1>1, <1>3, <1>4
  <2>7. /\ now' \in 0..MaxTime /\ deadline' \in [Threads -> Nat]
        /\ notify' \in [one : Nat, all : BOOLEAN] /\ unscheduled' \subseteq Tasks
    BY <1>1 DEF IInv, Types
  <2>. QED BY <2>1, <2>2, <2>3, <2>4, <2>5, <2>6, <2>7, <1>2 DEF Types
<1>8. OnePlace'
  <2>. SUFFICES ASSUME NEW j \in Tasks
               PROVE  /\ InQueue(j)' => j \notin unscheduled'
                      /\ \A u \in Threads : Runs(u, j)' => j \notin unscheduled' /\ ~InQueue(j)'
                      /\ \A u, v \in Threads : Runs(u, j)' /\ Runs(v, j)' => u = v
    BY <1>2 DEF OnePlace
  <2>1. /\ InQueue(j) => j \notin unscheduled
        /\ \A u \in Threads : Runs(u, j) => j \notin unscheduled /\ ~InQueue(j)
        /\ \A u, v \in Threads : Runs(u, j) /\ Runs(v, j) => u = v
    BY DEF IInv, OnePlace
  <2>. QED BY <2>1, <1>1, <1>6
<1>9. Counted'
  <2>. SUFFICES ASSUME NEW j \in Tasks
               PROVE  /\ Period[j] = 0 =>
                            ran'[j] = IF j \in unscheduled' \/ InQueue(j)' THEN 0 ELSE 1
                      /\ Period[j] # 0 /\ ~interrupted' =>
                            j \in unscheduled' \/ InQueue(j)' \/ \E u \in Threads : Runs(u, j)'
    BY DEF Counted
  <2>1. /\ Period[j] = 0 => ran[j] = IF j \in unscheduled \/ InQueue(j) THEN 0 ELSE 1
        /\ Period[j] # 0 /\ ~interrupted =>
              j \in unscheduled \/ InQueue(j) \/ \E u \in Threads : Runs(u, j)
    BY DEF IInv, Counted
  <2>2. interrupted' = interrupted /\ unscheduled' = unscheduled
    BY <1>1 DEF stopVars
  <2>3. CASE j = h.task
    <3>1. j \notin unscheduled /\ InQueue(j) /\ ~InQueue(j)' /\ Runs(t, j)'
      BY <2>3, <1>6 DEF IInv, OnePlace
    <3>2. ran'[j] = ran[j] + 1
      BY <2>3, <1>1, <1>4
    <3>. QED BY <3>1, <3>2, <2>1, <2>2
  <2>4. CASE j # h.task
    <3>1. ran'[j] = ran[j]
      BY <2>4, <1>1, <1>4
    <3>. QED BY <3>1, <2>1, <2>2, <2>4, <1>6
  <2>. QED BY <2>3, <2>4
<1>10. InTime'
  <2>. SUFFICES ASSUME NEW u \in Threads, Alone(u)'
               PROVE  /\ pc'[u] = "timed" => taskQueue' # << >> /\ taskQueue'[1].t <= deadline'[u]
                      /\ pc'[u] = "run" => current'[u][1].t <= now'
    BY DEF InTime
  <2>1. u = t /\ Alone(t)
    <3>1. "run" \in Places /\ "run" # "start" BY DEF Places
    <3>. QED BY <3>1, <1>1, <1>4, OnlyMover
  <2>2. h.t <= deadline[t]
    BY <2>1, <1>2 DEF IInv, InTime
  <2>3. deadline[t] \in Nat /\ now \in Nat
    BY TimeAssumption DEF IInv, Types
  <2>. QED BY <2>1, <2>2, <2>3, <1>1, <1>3, <1>5
<1>. QED BY <1>7, <1>8, <1>9, <1>10 DEF IInv

\* A task ends: the thread gives it up, and Repeat() has put it back into the queue.
LEMMA ReturnStep ==
    ASSUME IInv, NEW t \in Threads, Return(t)
    PROVE  IInv'
<1>. DEFINE k == current[t][1].task
            e == [task |-> k, t |-> now + Period[k]]
<1>1. /\ pc[t] = "run" /\ pc' = [pc EXCEPT ![t] = "top"]
      /\ current' = [current EXCEPT ![t] = << >>]
      /\ IF Period[k] = 0 THEN UNCHANGED <<taskQueue, notify>>
         ELSE taskQueue' = Emplace(taskQueue, e) /\ notify' = [notify EXCEPT !.one = @ + 1]
      /\ UNCHANGED <<now, unscheduled, deadline, nThreadsServicingQueue, stopVars, woken, ran>>
  BY DEF Return, schedule, clockVars
<1>2. k \in Tasks
  BY <1>1, CurrentTask DEF IInv
<1>3. Runs(t, k) /\ \A j : Runs(t, j) => j = k
  BY <1>1 DEF Runs
<1>4. e \in Entry /\ e.task = k
  <2>1. Period[k] \in Nat /\ now \in Nat BY <1>2, TimeAssumption DEF IInv, Types
  <2>2. now + Period[k] \in Nat BY <2>1
  <2>. QED BY <2>2, <1>2 DEF Entry
<1>. HIDE DEF k, e
<1>5. /\ taskQueue \in Seq(Entry) /\ Sorted(taskQueue) /\ Distinct(taskQueue)
      /\ ~Has(taskQueue, k)
  BY <1>2, <1>3 DEF IInv, Types, OnePlace, InQueue
<1>6. /\ pc \in [Threads -> Places] /\ current \in [Threads -> Seq(Entry)]
      /\ notify \in [one : Nat, all : BOOLEAN]
  BY DEF IInv, Types
<1>7. /\ taskQueue' \in Seq(Entry) /\ Sorted(taskQueue') /\ Distinct(taskQueue')
      /\ \A j : Has(taskQueue', j) <=> Has(taskQueue, j) \/ (j = k /\ Period[k] # 0)
      /\ notify' \in [one : Nat, all : BOOLEAN]
  <2>1. CASE Period[k] = 0 BY <2>1, <1>1, <1>5, <1>6
  <2>2. CASE Period[k] # 0
    <3>1. taskQueue' = Emplace(taskQueue, e) /\ notify' = [notify EXCEPT !.one = @ + 1]
      BY <2>2, <1>1
    <3>2. /\ taskQueue' \in Seq(Entry) /\ Sorted(taskQueue') /\ Distinct(taskQueue')
          /\ \A j : Has(taskQueue', j) <=> Has(taskQueue, j) \/ j = k
      BY <3>1, <1>4, <1>5, EmplaceQueue
    <3>3. notify' \in [one : Nat, all : BOOLEAN]
      BY <3>1, <1>6, Notifications
    <3>. QED BY <3>2, <3>3, <2>2
  <2>. QED BY <2>1, <2>2
<1>8. /\ pc'[t] = "top" /\ current'[t] = << >>
      /\ \A u \in Threads \ {t} : pc'[u] = pc[u] /\ current'[u] = current[u]
  BY <1>1, <1>6
<1>9. /\ \A j : InQueue(j)' <=> InQueue(j) \/ (j = k /\ Period[k] # 0)
      /\ \A u \in Threads : \A j : Runs(u, j)' <=> Runs(u, j) /\ u # t
  BY <1>7, <1>8 DEF InQueue, Runs
<1>10. Types'
  <2>1. pc' \in [Threads -> Places] /\ current' \in [Threads -> Seq(Entry)]
    BY <1>1, <1>6 DEF Places
  <2>2. \A u \in Threads : Len(current'[u]) = IF pc'[u] = "run" THEN 1 ELSE 0
    <3>1. Len(current'[t]) = IF pc'[t] = "run" THEN 1 ELSE 0
      BY <1>8, EmptySeq
    <3>2. \A u \in Threads \ {t} : Len(current'[u]) = IF pc'[u] = "run" THEN 1 ELSE 0
      BY <1>8 DEF IInv, Types
    <3>. QED BY <3>1, <3>2
  <2>3. nThreadsServicingQueue' = Cardinality(InService)'
    <3>1. InService' = InService BY <1>1, <1>8 DEF InService
    <3>. QED BY <3>1, <1>1 DEF IInv, Types
  <2>4. stopRequested' \in BOOLEAN /\ stopWhenEmpty' \in BOOLEAN /\ interrupted' \in BOOLEAN
    BY <1>1 DEF IInv, Types, stopVars
  <2>5. woken' \subseteq {u \in Threads : Waiting(u)'}
    BY <1>1, <1>8 DEF IInv, Types, Waiting
  <2>6. /\ now' \in 0..MaxTime /\ deadline' \in [Threads -> Nat]
        /\ unscheduled' \subseteq Tasks /\ ran' \in [Tasks -> Nat]
    BY <1>1 DEF IInv, Types
  <2>. QED BY <2>1, <2>2, <2>3, <2>4, <2>5, <2>6, <1>7 DEF Types
<1>11. OnePlace'
  <2>. SUFFICES ASSUME NEW j \in Tasks
               PROVE  /\ InQueue(j)' => j \notin unscheduled'
                      /\ \A u \in Threads : Runs(u, j)' => j \notin unscheduled' /\ ~InQueue(j)'
                      /\ \A u, v \in Threads : Runs(u, j)' /\ Runs(v, j)' => u = v
    BY <1>7 DEF OnePlace
  <2>1. /\ InQueue(j) => j \notin unscheduled
        /\ \A u \in Threads : Runs(u, j) => j \notin unscheduled /\ ~InQueue(j)
        /\ \A u, v \in Threads : Runs(u, j) /\ Runs(v, j) => u = v
    BY DEF IInv, OnePlace
  <2>. QED BY <2>1, <1>1, <1>3, <1>9
<1>12. Counted'
  <2>. SUFFICES ASSUME NEW j \in Tasks
               PROVE  /\ Period[j] = 0 =>
                            ran'[j] = IF j \in unscheduled' \/ InQueue(j)' THEN 0 ELSE 1
                      /\ Period[j] # 0 /\ ~interrupted' =>
                            j \in unscheduled' \/ InQueue(j)' \/ \E u \in Threads : Runs(u, j)'
    BY DEF Counted
  <2>1. /\ Period[j] = 0 => ran[j] = IF j \in unscheduled \/ InQueue(j) THEN 0 ELSE 1
        /\ Period[j] # 0 /\ ~interrupted =>
              j \in unscheduled \/ InQueue(j) \/ \E u \in Threads : Runs(u, j)
    BY DEF IInv, Counted
  <2>2. interrupted' = interrupted /\ unscheduled' = unscheduled /\ ran' = ran
    BY <1>1 DEF stopVars
  <2>. QED BY <2>1, <2>2, <1>3, <1>9
<1>13. InTime'
  <2>1. "top" \in Places /\ "top" # "start" BY DEF Places
  <2>2. \A u \in Threads : Alone(u)' => pc'[u] = "top"
    BY <2>1, <1>1, <1>6, <1>8, OnlyMover
  <2>. QED BY <2>2 DEF InTime
<1>. QED BY <1>10, <1>11, <1>12, <1>13 DEF IInv

\* A thread is interrupted in a wait, a sleep or a task, and leaves.
LEMMA InterruptedStep ==
    ASSUME IInv, NEW t \in Threads, Interrupted(t)
    PROVE  IInv'
<1>1. /\ interrupted /\ pc[t] \in {"seed", "wait", "timed", "run"}
      /\ pc' = [pc EXCEPT ![t] = "left"]
      /\ current' = [current EXCEPT ![t] = << >>]
      /\ nThreadsServicingQueue' = nThreadsServicingQueue - 1
      /\ woken' = woken \ {t}
      /\ UNCHANGED <<now, unscheduled, taskQueue, deadline, stopVars, notify, ran>>
  BY DEF Interrupted, clockVars
<1>2. /\ pc \in [Threads -> Places] /\ current \in [Threads -> Seq(Entry)]
      /\ nThreadsServicingQueue = Cardinality(InService)
  BY DEF IInv, Types
<1>3. /\ pc'[t] = "left" /\ current'[t] = << >>
      /\ \A u \in Threads \ {t} : pc'[u] = pc[u] /\ current'[u] = current[u]
  BY <1>1, <1>2
<1>4. "left" \in Places /\ "left" # "start"
  BY DEF Places
<1>5. /\ \A j : InQueue(j)' <=> InQueue(j)
      /\ \A u \in Threads : \A j : Runs(u, j)' => Runs(u, j)
  BY <1>1, <1>3 DEF InQueue, Runs
<1>6. Types'
  <2>1. pc' \in [Threads -> Places] /\ current' \in [Threads -> Seq(Entry)]
    BY <1>1, <1>2, <1>4
  <2>2. \A u \in Threads : Len(current'[u]) = IF pc'[u] = "run" THEN 1 ELSE 0
    <3>1. Len(current'[t]) = IF pc'[t] = "run" THEN 1 ELSE 0
      BY <1>3, EmptySeq
    <3>2. \A u \in Threads \ {t} : Len(current'[u]) = IF pc'[u] = "run" THEN 1 ELSE 0
      BY <1>3 DEF IInv, Types
    <3>. QED BY <3>1, <3>2
  <2>3. nThreadsServicingQueue' = Cardinality(InService)'
    BY <1>1, <1>2, <1>4, ServiceCount
  <2>4. stopRequested' \in BOOLEAN /\ stopWhenEmpty' \in BOOLEAN /\ interrupted' \in BOOLEAN
    BY <1>1 DEF IInv, Types, stopVars
  <2>5. woken' \subseteq {u \in Threads : Waiting(u)'}
    BY <1>1, <1>3 DEF IInv, Types, Waiting
  <2>6. /\ now' \in 0..MaxTime /\ taskQueue' \in Seq(Entry) /\ Sorted(taskQueue)'
        /\ deadline' \in [Threads -> Nat] /\ notify' \in [one : Nat, all : BOOLEAN]
        /\ unscheduled' \subseteq Tasks /\ ran' \in [Tasks -> Nat]
    BY <1>1 DEF IInv, Types, Sorted
  <2>. QED BY <2>1, <2>2, <2>3, <2>4, <2>5, <2>6 DEF Types
<1>7. OnePlace'
  BY <1>1, <1>5 DEF IInv, OnePlace, Distinct
<1>8. Counted'
  BY <1>1, <1>5 DEF IInv, Counted, stopVars
<1>9. InTime'
  <2>1. \A u \in Threads : Alone(u)' => pc'[u] = "left"
    BY <1>1, <1>2, <1>3, <1>4, OnlyMover
  <2>. QED BY <2>1 DEF InTime
<1>. QED BY <1>6, <1>7, <1>8, <1>9 DEF IInv

\* The clock, the flags and the notifications.
LEMMA OtherSteps ==
    ASSUME IInv,
           Tick \/ (\E drain \in BOOLEAN : stop(drain)) \/ InterruptAll \/ NotifyOne \/ NotifyAll
    PROVE  IInv'
<1>1. /\ UNCHANGED <<unscheduled, taskQueue, threadVars, ran>>
      /\ pc' = pc /\ InService' = InService
  BY DEF Tick, stop, InterruptAll, NotifyOne, NotifyAll, clockVars, threadVars, InService
<1>2. interrupted => interrupted'
  BY DEF Tick, stop, InterruptAll, NotifyOne, NotifyAll, stopVars
<1>3. now' >= now /\ now' \in 0..MaxTime
  <2>1. now \in Nat /\ MaxTime \in Nat /\ now <= MaxTime
    BY TimeAssumption DEF IInv, Types
  <2>2. now' = now \/ (now < MaxTime /\ now' = now + 1)
    BY DEF Tick, stop, InterruptAll, NotifyOne, NotifyAll, clockVars
  <2>. QED BY <2>1, <2>2
<1>4. stopRequested' \in BOOLEAN /\ stopWhenEmpty' \in BOOLEAN /\ interrupted' \in BOOLEAN
  <2>1. stopRequested \in BOOLEAN /\ stopWhenEmpty \in BOOLEAN /\ interrupted \in BOOLEAN
    BY DEF IInv, Types
  <2>2. CASE UNCHANGED stopVars BY <2>1, <2>2 DEF stopVars
  <2>3. ASSUME NEW drain \in BOOLEAN, stop(drain)
        PROVE  stopRequested' \in BOOLEAN /\ stopWhenEmpty' \in BOOLEAN /\ interrupted' \in BOOLEAN
    BY <2>1, <2>3, Zenon DEF stop
  <2>4. CASE InterruptAll BY <2>1, <2>4 DEF InterruptAll
  <2>. QED BY <2>2, <2>3, <2>4 DEF Tick, NotifyOne, NotifyAll
<1>5. notify' \in [one : Nat, all : BOOLEAN]
  BY Notifications DEF IInv, Types, Tick, stop, InterruptAll, NotifyOne, NotifyAll
<1>6. woken' \subseteq {t \in Threads : Waiting(t)'}
  <2>1. woken \subseteq {t \in Threads : Waiting(t)} /\ \A t : Waiting(t)' <=> Waiting(t)
    BY <1>1 DEF IInv, Types, Waiting
  <2>2. woken' \subseteq woken \cup {t \in Threads : Waiting(t)}
    BY <2>1 DEF Tick, stop, InterruptAll, NotifyOne, NotifyAll
  <2>. QED BY <2>1, <2>2
<1>7. Types'
  BY <1>1, <1>3, <1>4, <1>5, <1>6 DEF IInv, Types, threadVars
<1>. QED BY <1>1, <1>2, <1>3, <1>7, QuietStep
-----------------------------------------------------------------------------
(* The invariant                                                           *)

LEMMA InvariantInit == Init => IInv
<1>. SUFFICES ASSUME Init PROVE IInv
  OBVIOUS
<1>1. /\ taskQueue \in Seq(Entry) /\ DOMAIN taskQueue = {} /\ \A k : ~InQueue(k)
  BY EmptySeq DEF Init, InQueue, Has
<1>2. (\A t \in Threads : pc[t] = "start") /\ \A t \in Threads : \A k : ~Runs(t, k)
  BY DEF Init, Runs
<1>3. Types
  <2>1. nThreadsServicingQueue = Cardinality(InService)
    <3>1. InService = {} BY <1>2 DEF InService
    <3>. QED BY <3>1, FS_EmptySet DEF Init
  <2>2. current \in [Threads -> Seq(Entry)] /\ \A t \in Threads : Len(current[t]) = 0
    BY EmptySeq DEF Init
  <2>3. stopRequested \in BOOLEAN /\ stopWhenEmpty \in BOOLEAN /\ interrupted \in BOOLEAN
    BY DEF Init
  <2>4. pc \in [Threads -> Places] /\ deadline \in [Threads -> Nat] /\ now \in 0..MaxTime
    BY TimeAssumption DEF Init, Places
  <2>5. notify \in [one : Nat, all : BOOLEAN] /\ ran \in [Tasks -> Nat]
    BY DEF Init
  <2>. QED BY <1>1, <1>2, <2>1, <2>2, <2>3, <2>4, <2>5 DEF Types, Init, Sorted
<1>4. OnePlace
  BY <1>1, <1>2 DEF OnePlace, Distinct
<1>5. Counted
  BY DEF Counted, Init
<1>6. InTime
  BY <1>2 DEF InTime
<1>. QED BY <1>3, <1>4, <1>5, <1>6 DEF IInv

LEMMA ThreadInv ==
    ASSUME IInv, NEW t \in Threads, ThreadStep(t) \/ SpuriousWake(t)
    PROVE  IInv'
<1>0. woken \subseteq {u \in Threads : Waiting(u)}
  BY DEF IInv, Types
<1>1. CASE Enter(t) BY <1>1, EnterStep
<1>2. CASE Top(t)
  <2>1. woken' = woken \ {t} BY <1>0, <1>2 DEF Top, Waiting
  <2>. QED BY <2>1, <1>2, LoopStep DEF Top
<1>3. CASE Seeded(t)
  <2>1. woken' = woken \ {t} BY <1>0, <1>3 DEF Seeded, Waiting
  <2>. QED BY <2>1, <1>3, LoopStep DEF Seeded
<1>4. CASE WakeIdle(t) BY <1>4, LoopStep DEF WakeIdle
<1>5. CASE WakeTimed(t) BY <1>5, LoopStep DEF WakeTimed
<1>6. CASE Timeout(t)
  <2>1. CASE LoopTop(t) BY <2>1, <1>6, LoopStep DEF Timeout
  <2>2. CASE taskQueue # << >> /\ TakeFirst(t) BY <2>2, <1>6, TakeFirstStep DEF Timeout
  <2>. QED BY <2>1, <2>2, <1>6 DEF Timeout
<1>7. CASE Return(t) BY <1>7, ReturnStep
<1>8. CASE Interrupted(t) BY <1>8, InterruptedStep
<1>. QED BY <1>1, <1>2, <1>3, <1>4, <1>5, <1>6, <1>7, <1>8 DEF ThreadStep, SpuriousWake

LEMMA InvariantStep == IInv /\ [Next]_vars => IInv'
<1>. SUFFICES ASSUME IInv, [Next]_vars PROVE IInv'
  OBVIOUS
<1>1. CASE UNCHANGED vars
  <2>1. /\ UNCHANGED <<now, unscheduled, taskQueue, threadVars, ran, woken, notify>>
        /\ UNCHANGED <<stopRequested, stopWhenEmpty, interrupted>>
    BY <1>1 DEF vars, clockVars, stopVars
  <2>2. InService' = InService /\ \A t : Waiting(t)' <=> Waiting(t)
    BY <2>1 DEF threadVars, InService, Waiting
  <2>3. Types'
    BY <2>1, <2>2 DEF IInv, Types, threadVars
  <2>4. now' >= now
    BY <2>1, TimeAssumption DEF IInv, Types
  <2>. QED BY <2>1, <2>3, <2>4, QuietStep
<1>2. ASSUME NEW k \in Tasks, Schedule(k) PROVE IInv'
  BY <1>2, ScheduleStep
<1>3. ASSUME NEW t \in Threads, ThreadStep(t) \/ SpuriousWake(t) PROVE IInv'
  BY <1>3, ThreadInv
<1>. QED BY <1>1, <1>2, <1>3, OtherSteps DEF Next

LEMMA Invariant == Spec => []IInv
BY InvariantInit, InvariantStep, PTL DEF Spec
-----------------------------------------------------------------------------
\* The invariant says how often a task is in flight.
LEMMA InFlight ==
    ASSUME IInv
    PROVE  CalledOnce
<1>1. ASSUME NEW k \in Tasks, NEW a \in Nat, NEW b \in Nat, NEW c \in Nat,
             a = IF k \in unscheduled THEN 1 ELSE 0,
             b = Cardinality(Queued(k)), c = Cardinality(Running(k))
      PROVE  /\ a + b + c <= 1
             /\ a + b + c = 0 <=> k \notin unscheduled /\ ~InQueue(k)
                                   /\ \A t \in Threads : ~Runs(t, k)
  <2>0. /\ InQueue(k) => k \notin unscheduled
        /\ \A t \in Threads : Runs(t, k) => k \notin unscheduled /\ ~InQueue(k)
        /\ \A t, u \in Threads : Runs(t, k) /\ Runs(u, k) => t = u
        /\ Distinct(taskQueue)
    BY DEF IInv, OnePlace
  <2>1. b = IF InQueue(k) THEN 1 ELSE 0
    <3>1. CASE InQueue(k)
      <4>1. PICK i \in DOMAIN taskQueue : taskQueue[i].task = k
        BY <3>1 DEF InQueue, Has
      <4>2. Queued(k) = {i}
        BY <4>1, <2>0 DEF Queued, Distinct
      <4>. QED BY <4>2, <3>1, <1>1, FS_Singleton
    <3>2. CASE ~InQueue(k)
      <4>1. Queued(k) = {} BY <3>2 DEF Queued, InQueue, Has
      <4>. QED BY <4>1, <3>2, <1>1, FS_EmptySet
    <3>. QED BY <3>1, <3>2
  <2>2. c = IF \E t \in Threads : Runs(t, k) THEN 1 ELSE 0
    <3>1. ASSUME NEW t \in Threads, Runs(t, k) PROVE c = 1
      <4>1. Running(k) = {t} BY <3>1, <2>0 DEF Running, Runs
      <4>. QED BY <4>1, <1>1, FS_Singleton
    <3>2. ASSUME \A t \in Threads : ~Runs(t, k) PROVE c = 0
      <4>1. Running(k) = {} BY <3>2 DEF Running, Runs
      <4>. QED BY <4>1, <1>1, FS_EmptySet
    <3>. QED BY <3>1, <3>2
  <2>. QED BY <2>0, <2>1, <2>2, <1>1
<1>2. ASSUME NEW k \in Tasks
      PROVE  LET inFlight == (IF k \in unscheduled THEN 1 ELSE 0)
                             + Cardinality(Queued(k)) + Cardinality(Running(k))
             IN /\ inFlight <= 1
                /\ Period[k] = 0 => ran[k] <= 1
                /\ Period[k] = 0 /\ inFlight = 0 => ran[k] = 1
                /\ Period[k] # 0 /\ ~interrupted => inFlight = 1
  <2>. DEFINE a == IF k \in unscheduled THEN 1 ELSE 0
              b == Cardinality(Queued(k))
              c == Cardinality(Running(k))
  <2>1. a \in Nat /\ b \in Nat /\ c \in Nat
    <3>1. IsFiniteSet(Queued(k))
      <4>1. DOMAIN taskQueue = 1..Len(taskQueue) /\ Len(taskQueue) \in Nat
        BY DEF IInv, Types
      <4>2. IsFiniteSet(1..Len(taskQueue)) BY <4>1, FS_Interval
      <4>3. Queued(k) \in SUBSET (1..Len(taskQueue)) BY <4>1 DEF Queued
      <4>. QED BY <4>2, <4>3, FS_Subset
    <3>2. IsFiniteSet(Running(k))
      <4>1. Running(k) \in SUBSET Threads BY DEF Running
      <4>. QED BY <4>1, TimeAssumption, FS_Subset
    <3>. QED BY <3>1, <3>2, FS_CardinalityType
  <2>2. /\ a + b + c <= 1
        /\ a + b + c = 0 <=> k \notin unscheduled /\ ~InQueue(k) /\ \A t \in Threads : ~Runs(t, k)
    BY <2>1, <1>1
  <2>3. /\ Period[k] = 0 => ran[k] = IF k \in unscheduled \/ InQueue(k) THEN 0 ELSE 1
        /\ Period[k] # 0 /\ ~interrupted =>
              k \in unscheduled \/ InQueue(k) \/ \E t \in Threads : Runs(t, k)
    BY DEF IInv, Counted
  <2>4. /\ a + b + c <= 1
        /\ Period[k] = 0 => ran[k] <= 1
        /\ Period[k] = 0 /\ a + b + c = 0 => ran[k] = 1
        /\ Period[k] # 0 /\ ~interrupted => a + b + c = 1
    <3>. HIDE DEF a, b, c
    <3>. QED BY <2>1, <2>2, <2>3
  <2>. QED BY <2>4
<1>3. ASSUME NEW t \in Threads, pc[t] = "run", \A u \in Threads \ {t} : pc[u] = "start"
      PROVE  current[t][1].t <= now
  BY <1>3 DEF IInv, InTime, Alone
<1>. QED BY <1>2, <1>3 DEF CalledOnce

(***************************************************************************)
(* The state stays well typed, and the multimap of tasks ordered by time.  *)
(***************************************************************************)
THEOREM TypeCorrect == Spec => []TypeOK
<1>1. IInv => TypeOK
  <2>. SUFFICES ASSUME IInv PROVE TypeOK
    OBVIOUS
  <2>1. InService \in SUBSET Threads
    BY DEF InService
  <2>2. nThreadsServicingQueue \in Nat
    BY <2>1, TimeAssumption, FS_Subset, FS_CardinalityType DEF IInv, Types
  <2>. QED BY <2>2 DEF IInv, Types, TypeOK, Entry, Sorted, Places
<1>. QED BY <1>1, Invariant, PTL

(***************************************************************************)
(* nThreadsServicingQueue is the number of threads inside serviceQueue(),  *)
(* whichever way they leave it, by a return or an exception: the assertion *)
(* of ~CScheduler, that it is 0, holds once they have all left.            *)
(***************************************************************************)
THEOREM ThreadsCounted == Spec => [](nThreadsServicingQueue = Cardinality(InService))
<1>1. IInv => nThreadsServicingQueue = Cardinality(InService)
  BY DEF IInv, Types
<1>. QED BY <1>1, Invariant, PTL

(***************************************************************************)
(* serviceQueue() calls a task once for every time it is scheduled, for    *)
(* any number of threads and tasks and any periods, and a thread that is   *)
(* alone calls none before its time.                                       *)
(***************************************************************************)
THEOREM TasksCalledOnce == Spec => []CalledOnce
<1>1. IInv => CalledOnce
  BY InFlight
<1>. QED BY <1>1, Invariant, PTL
=============================================================================
