---------------------------- MODULE ThreadsProofs ----------------------------
(***************************************************************************)
(* Proofs about CheckQueue, for every number of workers, every set of      *)
(* checks and every batch size, and about TxRequests, which MCThreads      *)
(* checks beside it.                                                       *)
(*                                                                         *)
(* For transactions the invariant is about the requests still to be sent:  *)
(* whoever they will go to, their times are two minutes apart and two      *)
(* minutes after the last request, and mapAlreadyAskedFor has the latest.  *)
(***************************************************************************)
EXTENDS CheckQueue, FiniteSetTheorems, WellFoundedInduction, NaturalsInduction, TLAPS

(* Threads with a batch whose result is not accounted yet.                 *)
Busy == {t \in Threads : batch[t] # {}}

(* Threads counted in nIdle because they are inside cond.wait.             *)
Waiting == {t \in Threads : pc[t] \in {"wait", "awake"}}

(* A control object is alive and has not returned its verdict.             *)
Active == ctl \in {"adding", "wait", "dtor"}

(* Where a thread can be, and when it holds a batch.                       *)
Places ==
  /\ \A t \in Threads : pc[t] = "work" => batch[t] # {}
  /\ \A t \in Threads : pc[t] \notin {"work", "top"} => batch[t] = {}
  /\ (pc[Master] = "start") <=> ctl \notin {"wait", "dtor"}
  /\ pc[Master] # "dead"

(* The two thread counters: they differ by the busy threads, and nIdle     *)
(* covers at least the threads still inside cond.wait.                     *)
Counters ==
  /\ nTotal = nIdle + Cardinality(Busy)
  /\ Cardinality(Waiting) <= nIdle

(* What fAllOk and the threads' local verdicts know about the block.       *)
Knowledge ==
  /\ Outstanding \subseteq added
  /\ executed \subseteq added
  /\ ~Active => fAllOk /\ Outstanding = {}
  /\ ~fAllOk => added \cap bad # {}
  /\ \A t \in Threads : batch[t] # {} /\ ~fOk[t] => added \cap bad # {}
  /\ \A t \in Threads : pc[t] = "top" /\ fOk[t] => batch[t] \subseteq executed \ bad
  /\ Active /\ fAllOk => added \ Outstanding \subseteq executed \ bad

(* The inductive invariant.                                                *)
IInv ==
  /\ TypeOK
  /\ TodoAccounting
  /\ Places
  /\ Counters
  /\ Knowledge
  /\ VerdictSound
  /\ AcceptedMeansExecuted

-----------------------------------------------------------------------------
(* Finite sets                                                              *)

(* Every set of checks or threads the invariant counts is finite.          *)
LEMMA Finiteness ==
  ASSUME TypeOK
  PROVE  /\ IsFiniteSet(Threads)
         /\ \A S : S \subseteq Threads => IsFiniteSet(S) /\ Cardinality(S) \in Nat
         /\ \A S : S \subseteq Checks => IsFiniteSet(S) /\ Cardinality(S) \in Nat
<1>1. IsFiniteSet(Threads)
  BY ThreadsAssumption, FS_AddElement DEF Threads
<1>2. \A S : S \subseteq Threads => IsFiniteSet(S) /\ Cardinality(S) \in Nat
  BY <1>1, FS_Subset, FS_CardinalityType
<1>3. \A S : S \subseteq Checks => IsFiniteSet(S) /\ Cardinality(S) \in Nat
  BY ChecksAssumption, FS_Subset, FS_CardinalityType
<1> QED BY <1>1, <1>2, <1>3

(* Removing a part removes its cardinality.                                *)
LEMMA CardinalityRemove ==
  ASSUME NEW S, NEW T, IsFiniteSet(S), T \subseteq S
  PROVE  Cardinality(S \ T) = Cardinality(S) - Cardinality(T)
<1>1. S \cap T = T
  OBVIOUS
<1> QED BY <1>1, FS_Difference

(* The invariant holds initially.                                          *)
LEMMA InitIInv == Init => IInv
<1> SUFFICES ASSUME Init PROVE IInv
  OBVIOUS
<1> USE DEF Init
<1>1. TypeOK
  BY DEF TypeOK, PCs, Ctls
<1>2. Outstanding = {}
  BY DEF Outstanding
<1>3. TodoAccounting
  BY <1>2, FS_EmptySet DEF TodoAccounting
<1>4. Places
  BY DEF Places, Threads
<1>5. Busy = {} /\ Waiting = {}
  BY DEF Busy, Waiting
<1>6. Counters
  BY <1>5, FS_EmptySet DEF Counters
<1>7. Knowledge
  BY <1>2 DEF Knowledge, Active
<1>8. VerdictSound /\ AcceptedMeansExecuted
  BY DEF VerdictSound, AcceptedMeansExecuted
<1> QED BY <1>1, <1>3, <1>4, <1>6, <1>7, <1>8 DEF IInv

-----------------------------------------------------------------------------
(* The critical section                                                     *)

(* What Enter and Wake have in common: thread t holds the mutex, its batch  *)
(* is accounted in allOk, todo, total and idle, and the while loop runs.   *)
LEMMA LoopPreserves ==
  ASSUME IInv, NEW t \in Threads, pc[t] \in {"top", "awake"},
         NEW p \in [Threads -> PCs], NEW allOk \in BOOLEAN,
         NEW todo, NEW total, NEW idle \in Nat,
         p[t] = pc[t],
         \A u \in Threads : p[u] = pc[u] \/ (pc[u] = "wait" /\ p[u] = "awake"),
         todo = nTodo - Cardinality(batch[t]),
         total = idle + Cardinality(Busy \ {t}) + 1,
         Cardinality(Waiting \ {t}) <= idle,
         allOk => fAllOk /\ batch[t] \subseteq executed \ bad,
         ~allOk => added \cap bad # {},
         batch[t] = {} => allOk = fAllOk,
         nTodo' = todo,
         LoopOutcome(t, p, allOk, todo, total, idle),
         UNCHANGED <<interrupted, added, bad, executed>>
  PROVE  IInv'
<1> DEFINE rest == Outstanding \ batch[t]
<1> USE DEF IInv
<1>0. /\ IsFiniteSet(Outstanding) /\ Outstanding \subseteq Checks
      /\ batch[t] \subseteq Outstanding /\ queue \subseteq Outstanding
      /\ IsFiniteSet(batch[t])
  <2>1. Outstanding \subseteq Checks
    BY DEF TypeOK, Outstanding
  <2>2. batch[t] \subseteq Outstanding /\ queue \subseteq Outstanding
    BY DEF Outstanding
  <2> QED BY <2>1, <2>2, Finiteness
<1>1. /\ todo = Cardinality(rest)
      /\ todo \in Nat
  <2>1. nTodo = Cardinality(Outstanding)
    BY DEF TodoAccounting
  <2>2. Cardinality(rest) = Cardinality(Outstanding) - Cardinality(batch[t])
    BY <1>0, CardinalityRemove
  <2>3. Cardinality(rest) \in Nat
    BY <1>0, FS_Difference, FS_CardinalityType
  <2> QED BY <2>1, <2>2, <2>3
<1>2. todo = 0 <=> rest = {}
  BY <1>0, <1>1, FS_Difference, FS_EmptySet
<1>3. rest = queue \cup UNION {batch[u] : u \in Threads \ {t}}
  BY DEF TodoAccounting, Outstanding
<1>4. /\ IsFiniteSet(Busy) /\ IsFiniteSet(Busy \ {t}) /\ Cardinality(Busy \ {t}) \in Nat
      /\ IsFiniteSet(Waiting) /\ IsFiniteSet(Waiting \ {t})
      /\ Cardinality(Waiting \ {t}) \in Nat
      /\ Cardinality((Waiting \ {t}) \cup {t}) = Cardinality(Waiting \ {t}) + 1
      /\ Cardinality((Busy \ {t}) \cup {t}) = Cardinality(Busy \ {t}) + 1
  <2>1. Busy \subseteq Threads /\ Waiting \subseteq Threads
    BY DEF Busy, Waiting
  <2>2. /\ IsFiniteSet(Busy) /\ IsFiniteSet(Busy \ {t}) /\ Cardinality(Busy \ {t}) \in Nat
        /\ IsFiniteSet(Waiting) /\ IsFiniteSet(Waiting \ {t})
        /\ Cardinality(Waiting \ {t}) \in Nat
    BY <2>1, Finiteness
  <2> QED BY <2>2, FS_AddElement
<1>5. total \in Nat
  BY <1>4
<1>6. ctl \in {"wait", "dtor"} \/ t # Master
  BY DEF Places
<1>p. Master \in Threads
  BY DEF Threads
<1>7. CASE LoopReturn(t, p, allOk, todo, total) /\ nIdle' = idle
  <2> USE <1>7 DEF LoopReturn, MayReturn
  <2>1. TypeOK'
    BY <1>1, <1>4 DEF TypeOK, PCs, Ctls
  <2>2. batch'[t] = {} /\ \A u \in Threads \ {t} : batch'[u] = batch[u]
    BY DEF TypeOK
  <2>3. Outstanding' = rest
    <3>1. Outstanding' = queue' \cup UNION {batch'[u] : u \in Threads}
      BY DEF Outstanding
    <3> QED BY <3>1, <2>2, <1>3
  <2>4. rest = {}
    BY <1>2
  <2>5. TodoAccounting'
    BY <1>1, <2>2, <2>3 DEF TodoAccounting
  <2>6. Places'
    BY <1>6, <2>2 DEF Places, TypeOK
  <2>7. Busy' = Busy \ {t} /\ Waiting' = Waiting \ {t}
    BY <2>2 DEF Busy, Waiting, TypeOK
  <2>8. Counters'
    BY <1>4, <2>7 DEF Counters
  <2>9. \A u \in Threads : batch'[u] = {}
    BY <1>3, <2>2, <2>4
  <2>10. added \subseteq batch[t] \cup (added \ Outstanding)
    BY <2>4
  <2>11. Active
    BY <1>6 DEF Active
  <2>12. allOk => added \subseteq executed \ bad
    BY <2>10, <2>11 DEF Knowledge
  <2>13. Knowledge'
    BY <2>3, <2>4, <2>9, <2>12 DEF Knowledge, Active
  <2>14. VerdictSound' /\ AcceptedMeansExecuted'
    BY <2>12 DEF VerdictSound, AcceptedMeansExecuted, Knowledge
  <2> QED BY <2>1, <2>5, <2>6, <2>8, <2>13, <2>14
<1>8. CASE LoopWait(t, p, allOk, todo, total) /\ nIdle' = idle + 1
  <2> USE <1>8 DEF LoopWait
  <2>1. TypeOK'
    BY <1>1, <1>5 DEF TypeOK, PCs
  <2>2. batch'[t] = {} /\ \A u \in Threads \ {t} : batch'[u] = batch[u]
    BY DEF TypeOK
  <2>3. Outstanding' = rest
    <3>1. Outstanding' = queue' \cup UNION {batch'[u] : u \in Threads}
      BY DEF Outstanding
    <3> QED BY <3>1, <2>2, <1>3
  <2>5. TodoAccounting'
    BY <1>1, <2>2, <2>3 DEF TodoAccounting
  <2>p. pc'[t] = "wait" /\ \A u \in Threads \ {t} : pc'[u] = p[u]
    OBVIOUS
  <2>6. Places'
    BY <1>6, <1>p, <2>2, <2>p DEF Places
  <2>7. Busy' = Busy \ {t} /\ Waiting' = (Waiting \ {t}) \cup {t}
    BY <2>2 DEF Busy, Waiting, TypeOK
  <2>8. Counters'
    BY <1>4, <2>7 DEF Counters
  <2>13. Knowledge'
    <3>1. (~Active => fAllOk /\ Outstanding = {})'
      BY <1>0, <2>3 DEF Knowledge, Active
    <3>2. (Active /\ fAllOk => added \ Outstanding \subseteq executed \ bad)'
      BY <2>3 DEF Knowledge, Active
    <3> QED BY <1>0, <2>2, <2>3, <2>p, <3>1, <3>2 DEF Knowledge
  <2>14. VerdictSound' /\ AcceptedMeansExecuted'
    BY DEF VerdictSound, AcceptedMeansExecuted
  <2> QED BY <2>1, <2>5, <2>6, <2>8, <2>13, <2>14
<1>9. CASE LoopTake(t, p, allOk, total, idle) /\ nIdle' = idle
  <2> USE <1>9
  <2>0. PICK B \in SUBSET queue :
          /\ Cardinality(B) = NowSize(Cardinality(queue), total, idle)
          /\ batch' = [batch EXCEPT ![t] = B]
          /\ queue' = queue \ B
    BY DEF LoopTake
  <2>1. B # {}
    <3>1. NowSize(Cardinality(queue), total, idle) # 0
      <4>1. Cardinality(queue) \in Nat
        BY Finiteness DEF TypeOK
      <4> QED BY <4>1, <1>5, BatchAssumption DEF NowSize
    <3> QED BY <2>0, <3>1, FS_EmptySet
  <2> USE DEF LoopTake
  <2>2. TypeOK'
    BY <1>1, <1>5, <2>0 DEF TypeOK, PCs
  <2>3. batch'[t] = B /\ \A u \in Threads \ {t} : batch'[u] = batch[u]
    BY <2>0 DEF TypeOK
  <2>4. Outstanding' = rest
    <3>1. Outstanding' = queue' \cup UNION {batch'[u] : u \in Threads}
      BY DEF Outstanding
    <3> QED BY <3>1, <2>0, <2>3, <1>3
  <2>5. TodoAccounting'
    <3>1. (\A u \in Threads : batch[u] \cap queue = {})'
      BY <2>0, <2>3 DEF TodoAccounting
    <3>2. (\A u, v \in Threads : u # v => batch[u] \cap batch[v] = {})'
      BY <2>0, <2>3 DEF TodoAccounting
    <3> QED BY <1>1, <2>4, <3>1, <3>2 DEF TodoAccounting
  <2>p. pc'[t] = "work" /\ \A u \in Threads \ {t} : pc'[u] = p[u]
    OBVIOUS
  <2>6. Places'
    BY <1>6, <1>p, <2>1, <2>3, <2>p DEF Places
  <2>7. Busy' = (Busy \ {t}) \cup {t} /\ Waiting' = Waiting \ {t}
    BY <2>1, <2>3 DEF Busy, Waiting, TypeOK
  <2>8. Counters'
    BY <1>4, <2>7 DEF Counters
  <2>13. Knowledge'
    <3>1. fOk'[t] = allOk /\ \A u \in Threads \ {t} : fOk'[u] = fOk[u]
      BY DEF TypeOK
    <3>2. (~Active => fAllOk /\ Outstanding = {})'
      BY <1>0, <2>4 DEF Knowledge, Active
    <3>3. (Active /\ fAllOk => added \ Outstanding \subseteq executed \ bad)'
      BY <2>4 DEF Knowledge, Active
    <3> QED BY <1>0, <2>3, <2>4, <2>p, <3>1, <3>2, <3>3 DEF Knowledge
  <2>14. VerdictSound' /\ AcceptedMeansExecuted'
    BY DEF VerdictSound, AcceptedMeansExecuted
  <2> QED BY <2>2, <2>5, <2>6, <2>8, <2>13, <2>14
<1> QED BY <1>7, <1>8, <1>9 DEF LoopOutcome

(* A thread enters the critical section at the top of the do loop.         *)
LEMMA EnterPreserves ==
  ASSUME IInv, NEW t \in Threads, Enter(t)
  PROVE  IInv'
<1> DEFINE total == IF batch[t] # {} THEN nTotal ELSE nTotal + 1
<1> USE DEF IInv
<1>1. /\ AccountNotify(t) \in [Threads -> PCs]
      /\ AccountNotify(t)[t] = pc[t]
      /\ \A u \in Threads : \/ AccountNotify(t)[u] = pc[u]
                            \/ pc[u] = "wait" /\ AccountNotify(t)[u] = "awake"
  BY DEF Enter, AccountNotify, Awaken, TypeOK, PCs
<1>2. /\ total = nIdle + Cardinality(Busy \ {t}) + 1
      /\ Cardinality(Waiting \ {t}) <= nIdle
  <2>1. IsFiniteSet(Busy) /\ Cardinality(Busy) \in Nat
    BY Finiteness DEF Busy
  <2>2. t \in Busy => Cardinality(Busy \ {t}) = Cardinality(Busy) - 1
    BY <2>1, FS_RemoveElement
  <2>3. t \notin Busy => Busy \ {t} = Busy
    OBVIOUS
  <2>4. Waiting \ {t} = Waiting
    BY DEF Enter, Waiting
  <2>5. t \in Busy <=> batch[t] # {}
    BY DEF Busy
  <2>6. nTotal = nIdle + Cardinality(Busy) /\ Cardinality(Waiting) <= nIdle /\ nIdle \in Nat
    BY DEF Counters, TypeOK
  <2>7. CASE batch[t] # {}
    BY <2>1, <2>2, <2>4, <2>5, <2>6, <2>7
  <2>8. CASE batch[t] = {}
    <3>1. Cardinality(Busy \ {t}) = Cardinality(Busy)
      BY <2>3, <2>5, <2>8
    <3> QED BY <2>1, <2>4, <2>6, <2>8, <3>1
  <2> QED BY <2>7, <2>8
<1>3. /\ AccountOk(t) \in BOOLEAN
      /\ AccountOk(t) => fAllOk /\ batch[t] \subseteq executed \ bad
      /\ ~AccountOk(t) => added \cap bad # {}
      /\ batch[t] = {} => AccountOk(t) = fAllOk
  BY DEF AccountOk, Knowledge, TypeOK, Enter
<1>4. /\ nTodo' = AccountTodo(t)
      /\ AccountTodo(t) = nTodo - Cardinality(batch[t])
      /\ LoopOutcome(t, AccountNotify(t), AccountOk(t), AccountTodo(t), total, nIdle)
      /\ UNCHANGED <<interrupted, added, bad, executed>>
      /\ pc[t] \in {"top", "awake"}
      /\ nIdle \in Nat
  BY DEF Enter, AccountTodo, TypeOK
<1> QED BY <1>1, <1>2, <1>3, <1>4, LoopPreserves

(* A thread returns from cond.wait.                                        *)
LEMMA WakePreserves ==
  ASSUME IInv, NEW t \in Threads, Wake(t)
  PROVE  IInv'
<1> USE DEF IInv
<1>1. batch[t] = {} /\ Cardinality(batch[t]) = 0
  BY FS_EmptySet DEF Places, Wake
<1>2. /\ IsFiniteSet(Waiting) /\ t \in Waiting
      /\ Cardinality(Waiting \ {t}) = Cardinality(Waiting) - 1
      /\ Cardinality(Waiting \ {t}) \in Nat
  <2>1. IsFiniteSet(Waiting) /\ t \in Waiting
    BY Finiteness DEF Waiting, Wake
  <2> QED BY <2>1, FS_RemoveElement, FS_CardinalityType
<1>3. Busy \ {t} = Busy
  BY <1>1 DEF Busy
<1>4. /\ IdleAfterWake \in Nat
      /\ nTotal = IdleAfterWake + Cardinality(Busy \ {t}) + 1
      /\ Cardinality(Waiting \ {t}) <= IdleAfterWake
      /\ nTodo = nTodo - Cardinality(batch[t])
  <2>1. Cardinality(Busy) \in Nat /\ Cardinality(Waiting) \in Nat
    BY Finiteness DEF Busy, Waiting
  <2>2. nTotal = nIdle + Cardinality(Busy) /\ Cardinality(Waiting) <= nIdle /\ nIdle \in Nat
    BY DEF Counters, TypeOK
  <2>3. Cardinality(Busy \ {t}) = Cardinality(Busy)
    BY <1>3
  <2> QED BY <1>1, <1>2, <2>1, <2>2, <2>3 DEF TypeOK, IdleAfterWake
<1>5. /\ pc \in [Threads -> PCs] /\ fAllOk \in BOOLEAN
      /\ ~fAllOk => added \cap bad # {}
      /\ nTodo' = nTodo
      /\ LoopOutcome(t, pc, fAllOk, nTodo, nTotal, IdleAfterWake)
      /\ UNCHANGED <<interrupted, added, bad, executed>>
      /\ pc[t] \in {"top", "awake"}
  BY DEF Wake, TypeOK, Knowledge
<1> QED BY <1>1, <1>4, <1>5, LoopPreserves

-----------------------------------------------------------------------------
(* The other steps of a thread                                              *)

(* Running the batch outside the mutex.                                    *)
LEMMA ExecutePreserves ==
  ASSUME IInv, NEW t \in Threads, Execute(t)
  PROVE  IInv'
<1> USE DEF IInv, Execute
<1>1. TypeOK'
  BY DEF TypeOK, PCs, poolVars
<1>2. UNCHANGED <<queue, nIdle, nTotal, nTodo, batch, ctl, added, bad, verdict, fAllOk>>
  BY DEF poolVars
<1>3. Outstanding' = Outstanding
  BY <1>2 DEF Outstanding
<1>4. TodoAccounting'
  BY <1>2, <1>3 DEF TodoAccounting
<1>5. pc'[t] = "top" /\ \A u \in Threads \ {t} : pc'[u] = pc[u]
  BY DEF TypeOK
<1>6. Places'
  <2>1. Master \in Threads
    BY DEF Threads
  <2> QED BY <1>2, <1>5, <2>1 DEF Places
<1>7. Busy' = Busy /\ Waiting' = Waiting
  BY <1>2, <1>5 DEF Busy, Waiting
<1>8. Counters'
  BY <1>2, <1>7 DEF Counters
<1>9. /\ batch[t] \subseteq added
      /\ executed \subseteq executed' /\ executed' \subseteq executed \cup batch[t]
      /\ \A u \in Threads \ {t} : fOk'[u] = fOk[u]
      /\ fOk'[t] => batch[t] \subseteq executed' \ bad
      /\ ~fOk'[t] => added \cap bad # {}
  <2>1. batch[t] \subseteq added
    BY DEF Knowledge, Outstanding
  <2>2. batch[t] # {}
    BY DEF Places
  <2> QED BY <2>1, <2>2 DEF Knowledge, TypeOK
<1>10. Knowledge'
  <2>1. (\A u \in Threads : batch[u] # {} /\ ~fOk[u] => added \cap bad # {})'
    BY <1>2, <1>9 DEF Knowledge
  <2>2. (\A u \in Threads : pc[u] = "top" /\ fOk[u] => batch[u] \subseteq executed \ bad)'
    BY <1>2, <1>5, <1>9 DEF Knowledge
  <2>3. Active' = Active
    BY <1>2 DEF Active
  <2>4. (Active /\ fAllOk => added \ Outstanding \subseteq executed \ bad)'
    BY <1>2, <1>3, <1>9, <2>3 DEF Knowledge
  <2> QED BY <1>2, <1>3, <1>9, <2>1, <2>2, <2>3, <2>4 DEF Knowledge
<1>11. VerdictSound' /\ AcceptedMeansExecuted'
  <2>1. ctl # "done"
    BY <1>9 DEF Knowledge, Active, Places, Outstanding
  <2> QED BY <1>2, <2>1 DEF VerdictSound, AcceptedMeansExecuted
<1> QED BY <1>1, <1>4, <1>6, <1>8, <1>10, <1>11

(* A spurious wake-up moves a waiter, which stays counted in nIdle.        *)
LEMMA SpuriousWakePreserves ==
  ASSUME IInv, NEW t \in Threads, SpuriousWake(t)
  PROVE  IInv'
<1> USE DEF IInv, SpuriousWake, poolVars, blockVars
<1>1. TypeOK'
  BY DEF TypeOK, PCs
<1>2. Outstanding' = Outstanding
  BY DEF Outstanding
<1>3. pc'[t] = "awake" /\ \A u \in Threads \ {t} : pc'[u] = pc[u]
  BY DEF TypeOK
<1>4. Busy' = Busy /\ Waiting' = Waiting
  BY <1>3 DEF Busy, Waiting
<1>5. TodoAccounting' /\ Counters'
  BY <1>2, <1>4 DEF TodoAccounting, Counters
<1>6. Places'
  <2>1. Master \in Threads
    BY DEF Threads
  <2> QED BY <1>3, <2>1 DEF Places
<1>7. Knowledge'
  BY <1>2, <1>3 DEF Knowledge, Active
<1>8. VerdictSound' /\ AcceptedMeansExecuted'
  BY DEF VerdictSound, AcceptedMeansExecuted
<1> QED BY <1>1, <1>5, <1>6, <1>7, <1>8

(* An interruption inside cond.wait leaves nIdle one too high, which        *)
(* Counters allows.                                                        *)
LEMMA InterruptedPreserves ==
  ASSUME IInv, NEW t \in Threads, Interrupted(t)
  PROVE  IInv'
<1> USE DEF IInv, Interrupted, poolVars
<1>1. TypeOK'
  BY DEF TypeOK, PCs, Ctls
<1>2. Outstanding' = Outstanding
  BY DEF Outstanding
<1>3. /\ pc'[t] = IF t = Master THEN "top" ELSE "dead"
      /\ \A u \in Threads \ {t} : pc'[u] = pc[u]
      /\ batch[t] = {}
  BY DEF TypeOK, Places
<1>4. Busy' = Busy /\ Waiting' = Waiting \ {t} /\ Waiting \subseteq Threads
  BY <1>3 DEF Busy, Waiting
<1>5. Counters'
  <2>1. IsFiniteSet(Waiting)
    BY <1>4, Finiteness
  <2>2. Cardinality(Waiting \ {t}) <= Cardinality(Waiting)
    BY <2>1, FS_Subset
  <2>3. Cardinality(Waiting \ {t}) \in Nat /\ Cardinality(Waiting) \in Nat
    BY <1>4, Finiteness
  <2> QED BY <1>4, <2>2, <2>3 DEF Counters, TypeOK
<1>6. TodoAccounting'
  BY <1>2 DEF TodoAccounting
<1>7. t = Master => ctl \in {"wait", "dtor"}
  BY DEF Places
<1>8. Places'
  <2>1. Master \in Threads
    BY DEF Threads
  <2> QED BY <1>3, <1>7, <2>1 DEF Places
<1>9. Knowledge'
  <2>1. Active' = Active
    BY <1>7 DEF Active
  <2> QED BY <1>2, <1>3, <2>1 DEF Knowledge
<1>10. VerdictSound' /\ AcceptedMeansExecuted'
  BY <1>7 DEF VerdictSound, AcceptedMeansExecuted
<1> QED BY <1>1, <1>5, <1>6, <1>8, <1>9, <1>10

-----------------------------------------------------------------------------
(* The master outside Loop                                                  *)

(* The constructor starts a new block with nothing outstanding.            *)
LEMMA ConstructPreserves ==
  ASSUME IInv, Construct
  PROVE  IInv'
<1> USE DEF IInv, Construct, poolVars, threadVars
<1>1. TypeOK'
  BY DEF TypeOK, Ctls
<1>2. Outstanding' = Outstanding /\ Outstanding = {} /\ fAllOk
  BY DEF Outstanding, Knowledge, Active
<1>3. Busy' = Busy /\ Waiting' = Waiting
  BY DEF Busy, Waiting
<1>4. TodoAccounting' /\ Counters' /\ Places'
  BY <1>2, <1>3 DEF TodoAccounting, Counters, Places
<1>5. \A t \in Threads : batch[t] = {}
  BY <1>2 DEF Outstanding
<1>6. Knowledge'
  BY <1>2, <1>5 DEF Knowledge, Active
<1>7. VerdictSound' /\ AcceptedMeansExecuted'
  BY DEF VerdictSound, AcceptedMeansExecuted
<1> QED BY <1>1, <1>4, <1>6, <1>7

(* Add puts new checks in the queue and counts them.                       *)
LEMMA AddPreserves ==
  ASSUME IInv, NEW S \in SUBSET (Checks \ added), Add(S)
  PROVE  IInv'
<1> USE DEF IInv, Add
<1>1. /\ pc' \in [Threads -> PCs]
      /\ \A u \in Threads : pc'[u] = pc[u] \/ (pc[u] = "wait" /\ pc'[u] = "awake")
      /\ pc'[Master] = pc[Master]
  <2>1. Master \in Threads /\ Master \notin Workers /\ Workers \subseteq Threads
    BY ThreadsAssumption DEF Threads
  <2>2. \A W \in SUBSET Workers :
          /\ Awaken(pc, W) \in [Threads -> PCs]
          /\ \A u \in Threads : \/ Awaken(pc, W)[u] = pc[u]
                                \/ pc[u] = "wait" /\ Awaken(pc, W)[u] = "awake"
          /\ Awaken(pc, W)[Master] = pc[Master]
    BY <2>1 DEF Awaken, TypeOK, PCs
  <2>3. Notified(S) \subseteq SUBSET Workers
    <3> DEFINE sleeping == {w \in Workers : pc[w] = "wait"}
    <3>1. {{w} : w \in sleeping} \subseteq SUBSET Workers
      OBVIOUS
    <3>2. {sleeping} \subseteq SUBSET Workers /\ {{}} \subseteq SUBSET Workers
      OBVIOUS
    <3>3. Notified(S) \in {{{w} : w \in sleeping}, {sleeping}, {{}}}
      BY DEF Notified
    <3> QED BY <3>1, <3>2, <3>3
  <2>4. PICK W \in Notified(S) : pc' = Awaken(pc, W)
    OBVIOUS
  <2>5. W \in SUBSET Workers
    BY <2>3
  <2> QED BY <2>2, <2>4, <2>5
<1>2. IsFiniteSet(S) /\ Cardinality(S) \in Nat
  BY Finiteness
<1>3. TypeOK'
  BY <1>1, <1>2 DEF TypeOK
<1>4. Outstanding' = Outstanding \cup S /\ Outstanding \cap S = {}
  <2>1. Outstanding' = Outstanding \cup S
    BY DEF Outstanding
  <2>2. Outstanding \cap S = {}
    BY DEF Knowledge
  <2> QED BY <2>1, <2>2
<1>5. TodoAccounting'
  <2>1. Outstanding \subseteq Checks
    BY DEF Outstanding, TypeOK
  <2>2. IsFiniteSet(Outstanding) /\ Cardinality(Outstanding) \in Nat
    BY <2>1, Finiteness
  <2>3. Cardinality(Outstanding \cup S) = Cardinality(Outstanding) + Cardinality(S)
    <3>1. Cardinality(Outstanding \cap S) = 0
      BY <1>4, FS_EmptySet
    <3>2. Cardinality(Outstanding \cup S)
            = Cardinality(Outstanding) + Cardinality(S) - Cardinality(Outstanding \cap S)
      BY <1>2, <2>2, FS_Union
    <3> QED BY <1>2, <2>2, <3>1, <3>2
  <2>4. \A t \in Threads : batch[t] \cap S = {}
    BY <1>4 DEF Outstanding
  <2> QED BY <1>4, <2>3, <2>4 DEF TodoAccounting
<1>6. Busy' = Busy /\ Waiting' = Waiting
  BY <1>1 DEF Busy, Waiting
<1>7. Counters'
  BY <1>6 DEF Counters
<1>8. Places'
  BY <1>1 DEF Places
<1>9. Knowledge'
  BY <1>1, <1>4 DEF Knowledge, Active
<1>10. VerdictSound' /\ AcceptedMeansExecuted'
  BY DEF VerdictSound, AcceptedMeansExecuted
<1> QED BY <1>3, <1>5, <1>7, <1>8, <1>9, <1>10

(* The master joins the pool.                                              *)
LEMMA CallWaitPreserves ==
  ASSUME IInv, CallWait
  PROVE  IInv'
<1> USE DEF IInv, CallWait, poolVars
<1>1. TypeOK'
  BY DEF TypeOK, PCs, Ctls
<1>2. Outstanding' = Outstanding
  BY DEF Outstanding
<1>3. /\ Master \in Threads /\ batch[Master] = {}
      /\ pc'[Master] = "top" /\ \A u \in Threads \ {Master} : pc'[u] = pc[u]
      /\ pc[Master] = "start"
  BY DEF TypeOK, Threads, Places
<1>4. Busy' = Busy /\ Waiting' = Waiting
  BY <1>3 DEF Busy, Waiting
<1>5. TodoAccounting' /\ Counters'
  BY <1>2, <1>4 DEF TodoAccounting, Counters
<1>6. Places'
  BY <1>3 DEF Places
<1>7. Knowledge'
  BY <1>2, <1>3 DEF Knowledge, Active
<1>8. VerdictSound' /\ AcceptedMeansExecuted'
  BY DEF VerdictSound, AcceptedMeansExecuted
<1> QED BY <1>1, <1>5, <1>6, <1>7, <1>8

(* The destructor, and the interruption requests of the shutdown.          *)
LEMMA DestroyPreserves ==
  ASSUME IInv, Destroy \/ InterruptAll \/ UNCHANGED vars
  PROVE  IInv'
<1> USE DEF IInv, Destroy, InterruptAll, vars, poolVars, threadVars, blockVars
<1>0. Master \in Threads /\ Workers \subseteq Threads
  BY DEF Threads
<1>1. TypeOK'
  BY <1>0 DEF TypeOK, Ctls
<1>2. Outstanding' = Outstanding /\ Busy' = Busy /\ Waiting' = Waiting
  BY DEF Outstanding, Busy, Waiting
<1>3. TodoAccounting' /\ Counters' /\ Places'
  BY <1>2 DEF TodoAccounting, Counters, Places
<1>4. Knowledge'
  <2>1. CASE Destroy
    BY <1>2, <2>1 DEF Knowledge, Active
  <2>2. CASE InterruptAll
    BY <1>2, <2>2 DEF Knowledge, Active
  <2>3. CASE UNCHANGED vars
    BY <1>2, <2>3 DEF Knowledge, Active
  <2> QED BY <2>1, <2>2, <2>3
<1>5. VerdictSound' /\ AcceptedMeansExecuted'
  BY DEF VerdictSound, AcceptedMeansExecuted
<1> QED BY <1>1, <1>3, <1>4, <1>5

-----------------------------------------------------------------------------
(* The theorems                                                             *)

(* IInv is inductive: every critical section, every step outside the mutex *)
(* and every interruption preserves it.                                    *)
LEMMA Inductive == Spec => []IInv
<1>1. IInv /\ [Next]_vars => IInv'
  <2> SUFFICES ASSUME IInv, [Next]_vars PROVE IInv'
    OBVIOUS
  <2>1. ASSUME NEW t \in Threads, LoopStep(t) PROVE IInv'
    BY <2>1, EnterPreserves, WakePreserves, ExecutePreserves DEF LoopStep
  <2>2. ASSUME NEW t \in Threads, SpuriousWake(t) \/ Interrupted(t) PROVE IInv'
    BY <2>2, SpuriousWakePreserves, InterruptedPreserves
  <2>3. ASSUME NEW S \in SUBSET (Checks \ added), Add(S) PROVE IInv'
    BY <2>3, AddPreserves
  <2>4. CASE Construct \/ CallWait \/ Destroy \/ InterruptAll \/ UNCHANGED vars
    BY <2>4, ConstructPreserves, CallWaitPreserves, DestroyPreserves
  <2> QED BY <2>1, <2>2, <2>3, <2>4 DEF Next
<1> QED BY <1>1, InitIInv, PTL DEF Spec

(* The variables keep their types: in particular the unsigned counters     *)
(* nTodo, nIdle and nTotal of checkqueue.h never go below zero.            *)
THEOREM TypeCorrect == Spec => []TypeOK
<1>1. IInv => TypeOK
  BY DEF IInv
<1> QED BY <1>1, Inductive, PTL

(* nTodo counts exactly the checks in the queue and in the batches, for    *)
(* any number of workers and checks (checkqueue.h, Loop and Add).          *)
THEOREM NothingLost == Spec => []TodoAccounting
<1>1. IInv => TodoAccounting
  BY DEF IInv
<1> QED BY <1>1, Inductive, PTL

(* The assertion of the CCheckQueueControl constructor never fails.        *)
THEOREM ControlAssertion == Spec => []ControlFindsIdle
<1>1. IInv => ControlFindsIdle
  <2> SUFFICES ASSUME IInv, ctl = "none" PROVE IsIdle
    BY DEF ControlFindsIdle
  <2>1. Outstanding = {} /\ fAllOk
    BY DEF IInv, Knowledge, Active
  <2>2. Busy = {}
    BY <2>1 DEF Outstanding, Busy
  <2>3. Cardinality(Outstanding) = 0 /\ Cardinality(Busy) = 0
    BY <2>1, <2>2, FS_EmptySet
  <2> QED BY <2>1, <2>3 DEF IInv, TodoAccounting, Counters, TypeOK, IsIdle
<1> QED BY <1>1, Inductive, PTL

(* What Wait() returns is the truth about the block's checks.              *)
THEOREM WaitVerdict == Spec => []VerdictSound
<1>1. IInv => VerdictSound
  BY DEF IInv
<1> QED BY <1>1, Inductive, PTL

(* Wait() returns true only when every check was run.                      *)
THEOREM WaitExecuted == Spec => []AcceptedMeansExecuted
<1>1. IInv => AcceptedMeansExecuted
  BY DEF IInv
<1> QED BY <1>1, Inductive, PTL

-----------------------------------------------------------------------------
(***************************************************************************)
(* TxRequests, for any peers and transactions, any time between requests   *)
(* and any size of mapAlreadyAskedFor that holds an entry besides the one  *)
(* insert drops.                                                           *)
(***************************************************************************)
CONSTANTS Peers, Honest, Txs, Retry, MaxAsked, MaxAskFor, MaxInv

VARIABLES
    mapAlreadyAskedFor, mapAskFor, requested, have, announced, connected, since, forgotten

Requests == INSTANCE TxRequests

\* What mapAlreadyAskedFor holds: Tick keeps no time that is older than Retry.
Entries == [tx : Txs, time : {i \in Int : i >= -Retry}]

\* The state is well typed, and nothing is to be asked of a peer that has gone.
RequestTypes ==
    /\ mapAlreadyAskedFor \subseteq Entries /\ IsFiniteSet(mapAlreadyAskedFor)
    /\ \A e, f \in mapAlreadyAskedFor : e.tx = f.tx => e = f
    /\ Cardinality(mapAlreadyAskedFor) < MaxAsked
    /\ mapAskFor \in [Peers -> SUBSET [tx : Txs, time : Nat]]
    /\ \A p \in Peers \ connected : mapAskFor[p] = {}
    /\ requested \subseteq connected \X Txs
    /\ have \subseteq Txs /\ forgotten \subseteq Txs /\ connected \subseteq Peers
    /\ announced \in [Peers -> [Txs -> 0..MaxInv]]
    /\ since \in [Txs -> 0..Retry]

\* The times AskFor has given out for a transaction and SendMessages has not come to
\* yet, to whichever peers, are Retry apart.
Apart(t) ==
    \A p, q \in Peers : \A e \in mapAskFor[p], f \in mapAskFor[q] :
        e.tx = t /\ f.tx = t =>
            (p = q /\ e = f) \/ e.time + Retry <= f.time \/ f.time + Retry <= e.time

\* None of these times comes within Retry of the last request.
NotSoon(t) ==
    \A p \in Peers : \A e \in mapAskFor[p] : e.tx = t => e.time + since[t] >= Retry

\* mapAlreadyAskedFor knows the last of them, which is not before the last request.
LastKnown(t) ==
    /\ \A p \in Peers : \A e \in mapAskFor[p] :
           e.tx = t => \E a \in mapAlreadyAskedFor : a.tx = t /\ a.time >= e.time
    /\ \A a \in mapAlreadyAskedFor : a.tx = t => a.time + since[t] >= 0
    /\ since[t] = Retry \/ \E a \in mapAlreadyAskedFor : a.tx = t

Spaced(t) == Apart(t) /\ NotSoon(t) /\ LastKnown(t)

\* It is so for a transaction that has not come and was not forgotten.
RequestInv == RequestTypes /\ \A t \in Txs \ (forgotten \cup have) : Spaced(t)

\* What is at most n is below what n is below.
LEMMA StillBelow ==
    ASSUME NEW m \in Nat, NEW n \in Nat, NEW k \in Nat, m <= n, n < k PROVE m < k
OBVIOUS

\* A time that is r or more away from 0 is r or later.
LEMMA NotBefore ==
    ASSUME NEW n \in Nat, NEW r \in Nat, n + r <= 0 \/ 0 + r <= n PROVE n >= r
OBVIOUS

\* Two times stay apart when both come nearer.
LEMMA BothNearer ==
    ASSUME NEW i \in Nat \ {0}, NEW j \in Nat \ {0}, NEW r \in Nat, i + r <= j \/ j + r <= i
    PROVE  (i - 1) + r <= j - 1 \/ (j - 1) + r <= i - 1
OBVIOUS

\* TxRequests counts with the same Cardinality.
LEMMA SameCount == \A S : Requests!Cardinality(S) = Cardinality(S)
BY DEF Requests!Cardinality, Cardinality

\* A part of a finite set has no more elements.
LEMMA Smaller ==
    ASSUME NEW M, IsFiniteSet(M), NEW S, S \subseteq M
    PROVE  IsFiniteSet(S) /\ Cardinality(S) \in Nat /\ Cardinality(S) <= Cardinality(M)
           /\ Cardinality(M) \in Nat
BY FS_Subset, FS_CardinalityType

\* A set of natural numbers has a least element.
LEMMA Least ==
    ASSUME NEW S \in SUBSET Nat, S # {}
    PROVE  \E x \in S : \A y \in S : x <= y
<1>1. PICK x \in S : \A y \in S : ~(<<y, x>> \in OpToRel(<, Nat))
  BY NatLessThanWellFounded, WFMin, Zenon
<1>2. \A y \in S : x <= y
  <2>. SUFFICES ASSUME NEW y \in S, y < x PROVE FALSE
    OBVIOUS
  <2>1. <<y, x>> \in OpToRel(<, Nat) BY DEF OpToRel
  <2>. QED BY <2>1, <1>1, Zenon
<1>. QED BY <1>2

\* insert finds an entry to drop.
LEMMA LeastTime ==
    ASSUME Requests!ConstantsOK, NEW M \in SUBSET Entries, M # {}
    PROVE  \E e \in M : \A f \in M : e.time <= f.time
<1> DEFINE S == {e.time + Retry : e \in M}
<1>1. S \in SUBSET Nat /\ S # {}
  BY DEF Entries, Requests!ConstantsOK
<1>2. PICK x \in S : \A y \in S : x <= y
  BY <1>1, Least, Zenon
<1>3. PICK e \in M : x = e.time + Retry
  BY <1>2
<1>4. ASSUME NEW f \in M PROVE e.time <= f.time
  <2>1. f.time + Retry \in S
    OBVIOUS
  <2> QED BY <1>2, <1>3, <2>1 DEF Entries, Requests!ConstantsOK
<1> QED BY <1>4

\* What AskFor does to mapAlreadyAskedFor.
LEMMA AskedAfter ==
    ASSUME Requests!ConstantsOK, RequestTypes, NEW x \in Entries,
           IF \E e \in mapAlreadyAskedFor : e.tx = x.tx THEN Requests!Update(x) ELSE Requests!Insert(x)
    PROVE  /\ mapAlreadyAskedFor' \subseteq Entries /\ IsFiniteSet(mapAlreadyAskedFor')
           /\ \A e, f \in mapAlreadyAskedFor' : e.tx = f.tx => e = f
           /\ Cardinality(mapAlreadyAskedFor') < MaxAsked
           /\ x \in mapAlreadyAskedFor'
           /\ forgotten \subseteq forgotten' /\ forgotten' \subseteq Txs
           /\ \A e \in mapAlreadyAskedFor :
                 e.tx = x.tx \/ e.tx \in forgotten' \/ e \in mapAlreadyAskedFor'
           /\ \A e \in mapAlreadyAskedFor' : e = x \/ (e.tx # x.tx /\ e \in mapAlreadyAskedFor)
<1> DEFINE M == mapAlreadyAskedFor
<1>0. /\ M \subseteq Entries /\ IsFiniteSet(M) /\ Cardinality(M) \in Nat /\ Cardinality(M) < MaxAsked
      /\ \A e, f \in M : e.tx = f.tx => e = f
      /\ forgotten \subseteq Txs
  BY FS_CardinalityType DEF RequestTypes
<1>1. CASE \E e \in M : e.tx = x.tx
  <2>1. PICK a \in M : a.tx = x.tx
    BY <1>1
  <2>2. M' = (M \ {a}) \cup {x} /\ forgotten' = forgotten
    BY <1>0, <1>1, <2>1 DEF Requests!Update
  <2>3. IsFiniteSet(M \ {a}) /\ Cardinality(M \ {a}) = Cardinality(M) - 1
    BY <1>0, <2>1, FS_RemoveElement
  <2>4. x \notin M \ {a}
    BY <1>0, <2>1
  <2>5. IsFiniteSet(M') /\ Cardinality(M') = Cardinality(M)
    BY <1>0, <2>2, <2>3, <2>4, FS_AddElement
  <2> QED BY <1>0, <2>1, <2>2, <2>5
<1>2. CASE ~ \E e \in M : e.tx = x.tx
  <2>1. PICK gone \in IF Requests!Victims(M, x) = {} THEN {{}} ELSE {{e} : e \in Requests!Victims(M, x)} :
           /\ M' = (M \ gone) \cup {x}
           /\ forgotten' = forgotten \cup {e.tx : e \in gone}
    BY <1>2 DEF Requests!Insert
  <2>2. gone \subseteq M
    BY <2>1 DEF Requests!Victims
  <2>3. x \notin M \ gone /\ IsFiniteSet(M \ gone) /\ Cardinality(M \ gone) \in Nat
    BY <1>0, <1>2, Smaller
  <2>4. IsFiniteSet(M') /\ Cardinality(M') = Cardinality(M \ gone) + 1
    BY <2>1, <2>3, FS_AddElement, Zenon
  <2>5. Cardinality(M \ gone) + 1 < MaxAsked
    <3>1. CASE Cardinality(M) + 1 # MaxAsked
      BY <1>0, <2>3, <3>1, Smaller DEF Requests!ConstantsOK
    <3>2. CASE Cardinality(M) + 1 = MaxAsked
      <4>1. M # {}
        BY <3>2, FS_EmptySet DEF Requests!ConstantsOK
      <4>2. PICK v \in M : gone = {v}
        <5>1. PICK V : /\ V = {e \in M : \A f \in M : e.time <= f.time}
                       /\ gone \in IF V = {} THEN {{}} ELSE {{e} : e \in V}
          BY <2>1, <3>2, SameCount DEF Requests!Victims
        <5>2. V # {}
          BY <1>0, <4>1, <5>1, LeastTime
        <5> QED BY <5>1, <5>2, Zenon
      <4>3. Cardinality(M \ gone) = Cardinality(M) - 1
        BY <1>0, <4>2, FS_RemoveElement, Zenon
      <4> QED BY <1>0, <3>2, <4>3 DEF Requests!ConstantsOK
    <3> QED BY <3>1, <3>2
  <2>6. {e.tx : e \in gone} \subseteq Txs
    BY <1>0, <2>2 DEF Entries
  <2> QED BY <1>0, <1>2, <2>1, <2>2, <2>4, <2>5, <2>6
<1> QED BY <1>1, <1>2

-----------------------------------------------------------------------------
\* The INV handler.
LEMMA AskForKeeps ==
    ASSUME Requests!ConstantsOK, RequestInv, NEW p \in Peers, NEW t \in Txs, Requests!AskFor(p, t)
    PROVE  RequestInv'
<1>0. /\ p \in connected /\ announced[p][t] < MaxInv
      /\ announced' = [announced EXCEPT ![p][t] = @ + 1]
      /\ UNCHANGED <<requested, have, connected, since>>
  BY DEF Requests!AskFor
<1>a. announced' \in [Peers -> [Txs -> 0..MaxInv]]
  BY <1>0 DEF RequestInv, RequestTypes, Requests!ConstantsOK
<1>1. CASE UNCHANGED <<mapAlreadyAskedFor, mapAskFor, forgotten>>
  <2>1. RequestTypes'
    BY <1>0, <1>a, <1>1 DEF RequestInv, RequestTypes
  <2> QED BY <1>0, <1>1, <2>1 DEF RequestInv, Spaced, Apart, NotSoon, LastKnown
<1>2. CASE t \notin have /\ ~UNCHANGED <<mapAlreadyAskedFor, mapAskFor, forgotten>>
  <2> DEFINE x == [tx |-> t, time |-> Requests!RequestTime(t)]
  <2>1. /\ IF \E e \in mapAlreadyAskedFor : e.tx = t THEN Requests!Update(x) ELSE Requests!Insert(x)
        /\ mapAskFor' = [mapAskFor EXCEPT ![p] = @ \cup {x}]
    BY <1>2 DEF Requests!AskFor
  <2>2. /\ Requests!RequestTime(t) \in Nat
        /\ \A a \in mapAlreadyAskedFor : a.tx = t => Requests!RequestTime(t) >= a.time + Retry
        /\ (\A a \in mapAlreadyAskedFor : a.tx # t) => Requests!RequestTime(t) = 0
    <3>1. CASE \A a \in mapAlreadyAskedFor : a.tx # t
      <4>1. {e \in mapAlreadyAskedFor : e.tx = t} = {}
        BY <3>1
      <4> QED BY <3>1, <4>1 DEF Requests!RequestTime
    <3>2. CASE ~ \A a \in mapAlreadyAskedFor : a.tx # t
      <4>1. PICK a \in mapAlreadyAskedFor : a.tx = t
        BY <3>2
      <4>2. {e \in mapAlreadyAskedFor : e.tx = t} = {a} /\ a.time \in Int
        BY <4>1 DEF RequestInv, RequestTypes, Entries
      <4>3. Requests!RequestTime(t) = Requests!Larger(a.time + Retry, 0)
        BY <4>2 DEF Requests!RequestTime
      <4> QED BY <4>1, <4>2, <4>3 DEF Requests!Larger, Requests!ConstantsOK
    <3> QED BY <3>1, <3>2
  <2>3. x \in Entries /\ x \in [tx : Txs, time : Nat] /\ x.tx = t /\ x.time = Requests!RequestTime(t)
    BY <2>2 DEF Entries, Requests!ConstantsOK
  <2> HIDE DEF x
  <2>4. /\ mapAlreadyAskedFor' \subseteq Entries /\ IsFiniteSet(mapAlreadyAskedFor')
        /\ \A e, f \in mapAlreadyAskedFor' : e.tx = f.tx => e = f
        /\ Cardinality(mapAlreadyAskedFor') < MaxAsked
        /\ x \in mapAlreadyAskedFor'
        /\ forgotten \subseteq forgotten' /\ forgotten' \subseteq Txs
        /\ \A e \in mapAlreadyAskedFor :
              e.tx = x.tx \/ e.tx \in forgotten' \/ e \in mapAlreadyAskedFor'
        /\ \A e \in mapAlreadyAskedFor' : e = x \/ (e.tx # x.tx /\ e \in mapAlreadyAskedFor)
    BY <2>1, <2>3, AskedAfter DEF RequestInv
  <2>5. /\ mapAskFor' \in [Peers -> SUBSET [tx : Txs, time : Nat]]
        /\ mapAskFor'[p] = mapAskFor[p] \cup {x}
        /\ \A q \in Peers \ {p} : mapAskFor'[q] = mapAskFor[q]
    BY <2>1, <2>3 DEF RequestInv, RequestTypes
  <2>6. RequestTypes'
    <3>1. \A q \in Peers \ connected' : mapAskFor'[q] = {}
      BY <1>0, <2>5 DEF RequestInv, RequestTypes
    <3> QED BY <1>0, <1>a, <2>4, <2>5, <3>1 DEF RequestInv, RequestTypes
  <2>7. ASSUME NEW u \in Txs \ (forgotten' \cup have') PROVE Spaced(u)'
    <3>1. Spaced(u) /\ u \in Txs
      BY <1>0, <2>4 DEF RequestInv
    <3>2. CASE u # t
      <4>1. \A q \in Peers : \A e \in mapAskFor'[q] : e.tx = u => e \in mapAskFor[q]
        BY <2>3, <2>5, <3>2
      <4>2. \A a : a.tx = u => (a \in mapAlreadyAskedFor <=> a \in mapAlreadyAskedFor')
        BY <2>3, <2>4, <3>2
      <4>3. Apart(u)' /\ NotSoon(u)'
        BY <1>0, <3>1, <4>1 DEF Spaced, Apart, NotSoon
      <4>4. LastKnown(u)'
        BY <1>0, <3>1, <4>1, <4>2 DEF Spaced, LastKnown
      <4> QED BY <4>3, <4>4 DEF Spaced
    <3>3. CASE u = t
      <4>0. since[t] \in 0..Retry /\ Retry \in Nat
        BY DEF RequestInv, RequestTypes, Requests!ConstantsOK
      <4>1. \A q \in Peers : \A e \in mapAskFor[q] : e.tx = t => e.time \in Nat /\ e.time + Retry <= x.time
        <5> SUFFICES ASSUME NEW q \in Peers, NEW e \in mapAskFor[q], e.tx = t
                     PROVE  e.time \in Nat /\ e.time + Retry <= x.time
          OBVIOUS
        <5>1. PICK a \in mapAlreadyAskedFor : a.tx = t /\ a.time >= e.time
          BY <3>1, <3>3 DEF Spaced, LastKnown
        <5>2. a.time \in Int /\ e.time \in Nat
          BY DEF RequestInv, RequestTypes, Entries
        <5>3. PICK n \in Nat, m \in Int : n = e.time /\ m = a.time /\ m >= n
          BY <5>1, <5>2, Zenon
        <5>4. x.time >= m + Retry /\ x.time \in Nat
          BY <2>2, <2>3, <5>1, <5>3
        <5>5. n + Retry <= x.time
          BY <4>0, <5>3, <5>4
        <5> QED BY <5>3, <5>5, Zenon
      <4>2. x.time + since[t] >= Retry
        <5>1. CASE \A a \in mapAlreadyAskedFor : a.tx # t
          <6>1. since[t] = Retry
            BY <3>1, <3>3, <5>1, Zenon DEF Spaced, LastKnown
          <6>2. x.time \in Nat
            BY <2>3
          <6> QED BY <4>0, <6>1, <6>2
        <5>2. CASE ~ \A a \in mapAlreadyAskedFor : a.tx # t
          <6>1. PICK a \in mapAlreadyAskedFor : a.tx = t
            BY <5>2
          <6>2. a.time \in Int /\ a.time + since[t] >= 0
            BY <3>1, <3>3, <6>1 DEF Spaced, LastKnown, RequestInv, RequestTypes, Entries
          <6>3. PICK n \in Int, s \in 0..Retry : n = a.time /\ s = since[t] /\ n + s >= 0
            BY <4>0, <6>2, Zenon
          <6>4. x.time >= n + Retry /\ x.time \in Nat
            BY <2>2, <2>3, <6>1, <6>3
          <6> QED BY <4>0, <6>3, <6>4
        <5> QED BY <5>1, <5>2
      <4>3. \A q \in Peers : \A e \in mapAskFor'[q] : (q = p /\ e = x) \/ e \in mapAskFor[q]
        BY <2>5
      <4>4. Apart(t)'
        BY <2>3, <3>1, <3>3, <4>1, <4>3 DEF Spaced, Apart
      <4>5. NotSoon(t)'
        BY <1>0, <3>1, <3>3, <4>2, <4>3 DEF Spaced, NotSoon
      <4>6. LastKnown(t)'
        <5>0. x.time \in Nat /\ x.time >= x.time
          BY <2>3
        <5>1. \A q \in Peers : \A e \in mapAskFor'[q] : e.tx = t => x.time >= e.time
          <6>1. \A i \in Nat : i + Retry <= x.time => x.time >= i
            BY <4>0, <5>0
          <6> QED BY <4>1, <4>3, <5>0, <6>1, Zenon
        <5>2. \A a \in mapAlreadyAskedFor' : a.tx = t => a = x
          BY <2>3, <2>4
        <5> QED BY <1>0, <2>3, <2>4, <4>0, <5>1, <5>2 DEF LastKnown
      <4> QED BY <3>3, <4>4, <4>5, <4>6 DEF Spaced
    <3> QED BY <3>2, <3>3
  <2> QED BY <2>6, <2>7 DEF RequestInv
<1> QED BY <1>1, <1>2 DEF Requests!AskFor

\* A step that asks for nothing, forgets nothing and lets no time pass.
LEMMA QuietKeeps ==
    ASSUME Requests!ConstantsOK, RequestInv, NEW S \in SUBSET Txs,
           mapAskFor' \in [Peers -> SUBSET [tx : Txs, time : Nat]],
           \A p \in Peers : mapAskFor'[p] \subseteq mapAskFor[p],
           \A p \in Peers \ connected' : mapAskFor'[p] = {},
           mapAlreadyAskedFor' = {e \in mapAlreadyAskedFor : e.tx \notin S},
           have' = have \cup S, connected' \subseteq connected,
           requested' \subseteq connected' \X Txs,
           UNCHANGED <<announced, since, forgotten>>
    PROVE  RequestInv'
<1>1. IsFiniteSet(mapAlreadyAskedFor') /\ Cardinality(mapAlreadyAskedFor') < MaxAsked
  <2>1. IsFiniteSet(mapAlreadyAskedFor) /\ Cardinality(mapAlreadyAskedFor) < MaxAsked
    BY DEF RequestInv, RequestTypes
  <2>2. mapAlreadyAskedFor' \subseteq mapAlreadyAskedFor
    OBVIOUS
  <2>3. PICK m \in Nat, n \in Nat :
          /\ m = Cardinality(mapAlreadyAskedFor') /\ n = Cardinality(mapAlreadyAskedFor) /\ m <= n
          /\ IsFiniteSet(mapAlreadyAskedFor')
    BY <2>1, <2>2, Smaller, Zenon
  <2>4. n < MaxAsked /\ MaxAsked \in Nat
    BY <2>1, <2>3, Zenon DEF Requests!ConstantsOK
  <2>5. m < MaxAsked
    BY <2>3, <2>4, StillBelow, Zenon
  <2> QED BY <2>3, <2>5, Zenon
<1>2. RequestTypes'
  BY <1>1 DEF RequestInv, RequestTypes
<1>3. ASSUME NEW t \in Txs \ (forgotten' \cup have') PROVE Spaced(t)'
  <2>1. Spaced(t) /\ t \notin S
    BY DEF RequestInv
  <2>2. \A a : a.tx = t => (a \in mapAlreadyAskedFor <=> a \in mapAlreadyAskedFor')
    BY <2>1
  <2>3. Apart(t)' /\ NotSoon(t)'
    BY <2>1 DEF Spaced, Apart, NotSoon
  <2>4. LastKnown(t)'
    BY <2>1, <2>2, Zenon DEF Spaced, LastKnown
  <2> QED BY <2>3, <2>4 DEF Spaced
<1> QED BY <1>2, <1>3, Zenon DEF RequestInv

\* The TX handler.
LEMMA ReceiveTxKeeps ==
    ASSUME Requests!ConstantsOK, RequestInv, NEW p \in Peers, NEW t \in Txs, Requests!ReceiveTx(p, t)
    PROVE  RequestInv'
<1>1. /\ mapAlreadyAskedFor' = {e \in mapAlreadyAskedFor : e.tx \notin {t}}
      /\ have' = have \cup {t}
      /\ UNCHANGED <<mapAskFor, announced, connected, since, forgotten>>
      /\ requested' \subseteq requested
  BY DEF Requests!ReceiveTx
<1>2. requested' \subseteq connected' \X Txs
  BY <1>1 DEF RequestInv, RequestTypes
<1>3. /\ mapAskFor' \in [Peers -> SUBSET [tx : Txs, time : Nat]]
      /\ \A q \in Peers : mapAskFor'[q] \subseteq mapAskFor[q]
      /\ \A q \in Peers \ connected' : mapAskFor'[q] = {}
  BY <1>1 DEF RequestInv, RequestTypes
<1>4. {t} \in SUBSET Txs /\ connected' \subseteq connected
  BY <1>1
<1> QED BY <1>1, <1>2, <1>3, <1>4, QuietKeeps, Zenon

\* A connection ends.
LEMMA DisconnectKeeps ==
    ASSUME Requests!ConstantsOK, RequestInv, NEW p \in Peers, Requests!Disconnect(p)
    PROVE  RequestInv'
<1>1. /\ connected' = connected \ {p}
      /\ mapAskFor' = [mapAskFor EXCEPT ![p] = {}]
      /\ requested' = {r \in requested : r[1] # p}
      /\ UNCHANGED <<mapAlreadyAskedFor, have, announced, since, forgotten>>
  BY DEF Requests!Disconnect
<1>2. requested' \subseteq connected' \X Txs
  BY <1>1 DEF RequestInv, RequestTypes
<1>3. /\ mapAskFor' \in [Peers -> SUBSET [tx : Txs, time : Nat]]
      /\ \A q \in Peers : mapAskFor'[q] \subseteq mapAskFor[q]
      /\ \A q \in Peers \ connected' : mapAskFor'[q] = {}
  BY <1>1 DEF RequestInv, RequestTypes
<1>4. have' = have \cup {} /\ mapAlreadyAskedFor' = {e \in mapAlreadyAskedFor : e.tx \notin {}}
  BY <1>1
<1> QED BY <1>1, <1>2, <1>3, <1>4, QuietKeeps

\* What is sent was due two minutes after the last request.
LEMMA SentSpaced ==
    ASSUME Requests!ConstantsOK, RequestInv, NEW p \in Peers, NEW e \in Requests!Sent(p), e.tx \notin forgotten
    PROVE  e \in mapAskFor[p] /\ e.tx \in Txs /\ e.time = 0 /\ since[e.tx] = Retry /\ Spaced(e.tx)
<1>1. e \in mapAskFor[p] /\ e.time <= 0 /\ e.tx \notin have
  BY DEF Requests!Sent, Requests!Due
<1>2. e.tx \in Txs /\ e.time \in Nat /\ since[e.tx] \in 0..Retry
  BY <1>1 DEF RequestInv, RequestTypes
<1>3. Spaced(e.tx)
  BY <1>1, <1>2 DEF RequestInv
<1>4. e.time + since[e.tx] >= Retry
  BY <1>1, <1>3 DEF Spaced, NotSoon
<1> QED BY <1>1, <1>2, <1>3, <1>4 DEF Requests!ConstantsOK

\* The getdata part of SendMessages: the other times given out for what is asked now
\* are Retry away from this one.
LEMMA SendMessagesKeeps ==
    ASSUME Requests!ConstantsOK, RequestInv, NEW p \in Peers, Requests!SendMessages(p)
    PROVE  RequestInv'
<1>0. /\ p \in connected
      /\ UNCHANGED <<mapAlreadyAskedFor, have, announced, connected, forgotten>>
  BY DEF Requests!SendMessages
<1>1. /\ mapAskFor' \in [Peers -> SUBSET [tx : Txs, time : Nat]]
      /\ mapAskFor'[p] = mapAskFor[p] \ Requests!Due(p)
      /\ \A q \in Peers : mapAskFor'[q] \subseteq mapAskFor[q]
  <2>1. /\ mapAskFor' = [mapAskFor EXCEPT ![p] = @ \ Requests!Due(p)]
        /\ mapAskFor \in [Peers -> SUBSET [tx : Txs, time : Nat]]
    BY DEF Requests!SendMessages, RequestInv, RequestTypes
  <2> QED BY <2>1
<1>4. /\ since \in [Txs -> 0..Retry]
      /\ since' = [t \in Txs |-> IF \E e \in Requests!Sent(p) : e.tx = t THEN 0 ELSE since[t]]
  BY DEF Requests!SendMessages, RequestInv, RequestTypes
<1>2. RequestTypes'
  <2>1. \A e \in Requests!Sent(p) : e.tx \in Txs
    BY DEF Requests!Sent, Requests!Due, RequestInv, RequestTypes
  <2>2. requested \subseteq connected \X Txs
    BY DEF RequestInv, RequestTypes
  <2>3. requested' = requested \cup {<<p, e.tx>> : e \in Requests!Sent(p)}
    BY DEF Requests!SendMessages
  <2>4. requested' \subseteq connected' \X Txs
    BY <1>0, <2>1, <2>2, <2>3
  <2>5. since' \in [Txs -> 0..Retry]
    BY <1>4 DEF Requests!ConstantsOK
  <2> QED BY <1>0, <1>1, <2>4, <2>5 DEF RequestInv, RequestTypes
<1>3. ASSUME NEW t \in Txs \ (forgotten' \cup have') PROVE Spaced(t)'
  <2>1. Spaced(t) /\ t \in Txs
    BY <1>0 DEF RequestInv
  <2>2. Apart(t)'
    BY <1>1, <2>1 DEF Spaced, Apart
  <2>3. CASE \A e \in Requests!Sent(p) : e.tx # t
    <3>1. since'[t] = since[t]
      BY <1>4, <2>3
    <3>2. NotSoon(t)'
      BY <1>1, <2>1, <3>1, Zenon DEF Spaced, NotSoon
    <3>3. LastKnown(t)'
      <4>1. UNCHANGED mapAlreadyAskedFor
        BY <1>0
      <4> QED BY <1>1, <2>1, <3>1, <4>1 DEF Spaced, LastKnown
    <3> QED BY <2>2, <3>2, <3>3 DEF Spaced
  <2>4. CASE ~ \A e \in Requests!Sent(p) : e.tx # t
    <3>1. PICK s \in Requests!Sent(p) : s.tx = t
      BY <2>4
    <3>2. s \in mapAskFor[p] /\ s.time = 0 /\ s \notin mapAskFor'[p]
      <4>1. s.tx \notin forgotten /\ s \in Requests!Due(p)
        BY <1>0, <3>1 DEF Requests!Sent
      <4>2. s \in mapAskFor[p] /\ s.time = 0
        BY <3>1, <4>1, SentSpaced, Zenon
      <4> QED BY <1>1, <4>1, <4>2
    <3>3. since'[t] = 0
      BY <1>4, <3>1
    <3>4. NotSoon(t)'
      <4> SUFFICES ASSUME NEW q \in Peers, NEW e \in mapAskFor'[q], e.tx = t
                   PROVE  e.time >= Retry
        <5>1. ASSUME NEW q \in Peers, NEW e \in mapAskFor'[q], e.tx = t, e.time >= Retry
              PROVE  e.time + since'[t] >= Retry
          <6>0. e \in [tx : Txs, time : Nat]
            BY <1>1, <5>1
          <6>1. e.time \in Nat
            BY <6>0
          <6> QED BY <3>3, <5>1, <6>1
        <5> QED BY <5>1, Zenon DEF NotSoon
      <4>0. e \in [tx : Txs, time : Nat] /\ e \in mapAskFor[q]
        BY <1>1
      <4>1. e \in mapAskFor[q] /\ e.time \in Nat
        BY <4>0
      <4>2. ~(p = q /\ e = s)
        BY <3>2, Zenon
      <4>3. e.time + Retry <= s.time \/ s.time + Retry <= e.time
        BY <2>1, <3>1, <3>2, <4>1, <4>2 DEF Spaced, Apart
      <4>4. PICK n \in Nat, r \in Nat : n = e.time /\ r = Retry /\ (n + r <= 0 \/ 0 + r <= n)
        BY <3>2, <4>1, <4>3, Zenon DEF Requests!ConstantsOK
      <4>5. n >= r
        BY <4>4, NotBefore, Zenon
      <4> QED BY <4>4, <4>5, Zenon
    <3>5. PICK a \in mapAlreadyAskedFor : a.tx = t /\ a.time >= 0
      BY <2>1, <3>1, <3>2 DEF Spaced, LastKnown
    <3>6. \A b \in mapAlreadyAskedFor : b.tx = t => b = a
      BY <3>5 DEF RequestInv, RequestTypes
    <3>7. LastKnown(t)'
      <4>1. a.time + since'[t] >= 0
        <5>1. a.time \in Int
          BY DEF RequestInv, RequestTypes, Entries
        <5> QED BY <3>3, <3>5, <5>1
      <4>2. \A q \in Peers : \A e \in mapAskFor'[q] :
               e.tx = t => \E b \in mapAlreadyAskedFor : b.tx = t /\ b.time >= e.time
        BY <1>1, <2>1 DEF Spaced, LastKnown
      <4> QED BY <1>0, <3>5, <3>6, <4>1, <4>2 DEF LastKnown
    <3> QED BY <2>2, <3>4, <3>7 DEF Spaced
  <2> QED BY <2>3, <2>4
<1> QED BY <1>2, <1>3 DEF RequestInv

\* Time goes on.
LEMMA TickKeeps ==
    ASSUME Requests!ConstantsOK, RequestInv, Requests!Tick
    PROVE  RequestInv'
<1> DEFINE Later(e) == [e EXCEPT !.time = @ - 1]
           Aged(e) == [e EXCEPT !.time = Requests!Larger(@ - 1, -Retry)]
<1>0. UNCHANGED <<requested, have, announced, connected, forgotten>> /\ Retry \in Nat
  BY DEF Requests!Tick, Requests!ConstantsOK
<1>1. mapAskFor' = [p \in Peers |-> {Later(e) : e \in mapAskFor[p]}]
  BY DEF Requests!Tick
<1>2. mapAlreadyAskedFor' = {Aged(e) : e \in mapAlreadyAskedFor}
  BY DEF Requests!Tick
<1>3. \A p \in Peers : \A e \in mapAskFor[p] :
         /\ e \in [tx : Txs, time : Nat] /\ e.time > 0
         /\ Later(e) \in [tx : Txs, time : Nat] /\ Later(e).tx = e.tx /\ Later(e).time = e.time - 1
  <2>1. \A p \in connected : Requests!Due(p) = {}
    BY DEF Requests!Tick
  <2>2. \A p \in Peers : \A e \in mapAskFor[p] : e \in [tx : Txs, time : Nat] /\ e.time > 0
    BY <2>1 DEF RequestInv, RequestTypes, Requests!Due
  <2> QED BY <2>2
<1>4. \A e \in Entries : /\ Aged(e) \in Entries /\ Aged(e).tx = e.tx
                         /\ Aged(e).time = Requests!Larger(e.time - 1, -Retry)
  BY <1>0 DEF Entries, Requests!Larger
<1>5. mapAlreadyAskedFor \subseteq Entries /\ IsFiniteSet(mapAlreadyAskedFor)
  BY DEF RequestInv, RequestTypes
<1> HIDE DEF Later, Aged
<1>6. since' = [t \in Txs |-> IF since[t] < Retry THEN since[t] + 1 ELSE Retry]
  BY DEF Requests!Tick
<1>7. RequestTypes'
  <2>1. mapAlreadyAskedFor' \subseteq Entries
    BY <1>2, <1>4, <1>5
  <2>2. IsFiniteSet(mapAlreadyAskedFor') /\ Cardinality(mapAlreadyAskedFor') < MaxAsked
    <3> DEFINE f == [e \in mapAlreadyAskedFor |-> Aged(e)]
    <3>1. f \in Surjection(mapAlreadyAskedFor, mapAlreadyAskedFor')
      BY <1>2 DEF Surjection
    <3>2. /\ IsFiniteSet(mapAlreadyAskedFor')
          /\ Cardinality(mapAlreadyAskedFor') <= Cardinality(mapAlreadyAskedFor)
      BY <1>5, <3>1, FS_Surjection
    <3>3. Cardinality(mapAlreadyAskedFor) \in Nat /\ Cardinality(mapAlreadyAskedFor') \in Nat
      BY <1>5, <3>2, FS_CardinalityType
    <3>4. Cardinality(mapAlreadyAskedFor) < MaxAsked /\ MaxAsked \in Nat
      BY DEF RequestInv, RequestTypes, Requests!ConstantsOK
    <3> QED BY <3>2, <3>3, <3>4
  <2>3. \A e, f \in mapAlreadyAskedFor' : e.tx = f.tx => e = f
    <3>1. \A e, f \in mapAlreadyAskedFor : e.tx = f.tx => e = f
      BY DEF RequestInv, RequestTypes
    <3> SUFFICES ASSUME NEW e \in mapAlreadyAskedFor', NEW f \in mapAlreadyAskedFor', e.tx = f.tx
                 PROVE  e = f
      OBVIOUS
    <3>2. PICK d \in mapAlreadyAskedFor, c \in mapAlreadyAskedFor : e = Aged(d) /\ f = Aged(c)
      BY <1>2, Zenon
    <3>3. d.tx = c.tx
      BY <1>4, <1>5, <3>2, Zenon
    <3> QED BY <3>1, <3>2, <3>3, Zenon
  <2>4. mapAskFor' \in [Peers -> SUBSET [tx : Txs, time : Nat]]
    BY <1>1, <1>3
  <2>5. \A p \in Peers \ connected' : mapAskFor'[p] = {}
    BY <1>0, <1>1 DEF RequestInv, RequestTypes
  <2>6. since' \in [Txs -> 0..Retry]
    <3>1. since \in [Txs -> 0..Retry]
      BY DEF RequestInv, RequestTypes
    <3> QED BY <1>0, <1>6, <3>1
  <2> QED BY <1>0, <2>1, <2>2, <2>3, <2>4, <2>5, <2>6 DEF RequestInv, RequestTypes
<1>8. ASSUME NEW t \in Txs \ (forgotten' \cup have') PROVE Spaced(t)'
  <2>1. Spaced(t) /\ t \in Txs
    BY <1>0 DEF RequestInv
  <2>2. since[t] \in 0..Retry /\ since'[t] = IF since[t] < Retry THEN since[t] + 1 ELSE Retry
    BY <1>6, <2>1 DEF RequestInv, RequestTypes
  <2>3. \A p \in Peers : \A e \in mapAskFor'[p] : \E d \in mapAskFor[p] :
           e = Later(d) /\ e.tx = d.tx /\ e.time = d.time - 1 /\ d.time \in Nat \ {0}
    BY <1>1, <1>3
  <2>4. \A a \in mapAlreadyAskedFor : /\ Aged(a) \in mapAlreadyAskedFor' /\ a.time \in Int
                                     /\ Aged(a).tx = a.tx /\ Aged(a).time >= a.time - 1
                                     /\ Aged(a).time >= -Retry /\ Aged(a).time \in Int
    BY <1>0, <1>2, <1>4, <1>5 DEF Entries, Requests!Larger
  <2>5. Apart(t)'
    <3> SUFFICES ASSUME NEW p \in Peers, NEW q \in Peers,
                        NEW e \in mapAskFor'[p], NEW f \in mapAskFor'[q], e.tx = t, f.tx = t
                 PROVE  (p = q /\ e = f) \/ e.time + Retry <= f.time \/ f.time + Retry <= e.time
      BY DEF Apart
    <3>1. PICK d \in mapAskFor[p] :
             e = Later(d) /\ e.tx = d.tx /\ e.time = d.time - 1 /\ d.time \in Nat \ {0}
      BY <2>3
    <3>2. PICK c \in mapAskFor[q] :
             f = Later(c) /\ f.tx = c.tx /\ f.time = c.time - 1 /\ c.time \in Nat \ {0}
      BY <2>3
    <3>3. (p = q /\ d = c) \/ d.time + Retry <= c.time \/ c.time + Retry <= d.time
      BY <2>1, <3>1, <3>2 DEF Spaced, Apart
    <3>4. CASE p = q /\ d = c
      BY <3>1, <3>2, <3>4, Zenon
    <3>5. CASE d.time + Retry <= c.time \/ c.time + Retry <= d.time
      <4>1. PICK i \in Nat \ {0}, j \in Nat \ {0} :
              /\ i = d.time /\ j = c.time /\ e.time = i - 1 /\ f.time = j - 1
              /\ i + Retry <= j \/ j + Retry <= i
        BY <3>1, <3>2, <3>5, Zenon
      <4>2. (i - 1) + Retry <= j - 1 \/ (j - 1) + Retry <= i - 1
        BY <1>0, <4>1, BothNearer, Zenon
      <4> QED BY <4>1, <4>2, Zenon
    <3> QED BY <3>3, <3>4, <3>5
  <2>6. NotSoon(t)'
    <3> SUFFICES ASSUME NEW p \in Peers, NEW e \in mapAskFor'[p], e.tx = t
                 PROVE  e.time + since'[t] >= Retry
      BY DEF NotSoon
    <3>1. PICK d \in mapAskFor[p] :
             e = Later(d) /\ e.tx = d.tx /\ e.time = d.time - 1 /\ d.time \in Nat \ {0}
      BY <2>3
    <3>2. d.time + since[t] >= Retry
      BY <2>1, <3>1 DEF Spaced, NotSoon
    <3>3. PICK n \in Nat \ {0}, s \in 0..Retry : n = d.time /\ s = since[t] /\ n + s >= Retry
      BY <2>2, <3>1, <3>2, Zenon
    <3>4. e.time = n - 1 /\ since'[t] = IF s < Retry THEN s + 1 ELSE Retry
      BY <2>2, <3>1, <3>3, Zenon
    <3>5. Retry \in Nat
      BY <1>0
    <3> QED BY <3>3, <3>4, <3>5
  <2>7. LastKnown(t)'
    <3>1. ASSUME NEW p \in Peers, NEW e \in mapAskFor'[p], e.tx = t
          PROVE  \E a \in mapAlreadyAskedFor' : a.tx = t /\ a.time >= e.time
      <4>1. PICK d \in mapAskFor[p] :
               e = Later(d) /\ e.tx = d.tx /\ e.time = d.time - 1 /\ d.time \in Nat \ {0}
        BY <2>3
      <4>2. PICK a \in mapAlreadyAskedFor : a.tx = t /\ a.time >= d.time
        BY <2>1, <3>1, <4>1 DEF Spaced, LastKnown
      <4> QED BY <2>4, <4>1, <4>2
    <3>2. ASSUME NEW a \in mapAlreadyAskedFor', a.tx = t PROVE a.time + since'[t] >= 0
      <4>1. PICK b \in mapAlreadyAskedFor : a = Aged(b)
        BY <1>2
      <4>2. b.tx = t /\ b.time + since[t] >= 0
        BY <2>1, <2>4, <3>2, <4>1 DEF Spaced, LastKnown
      <4> QED BY <1>0, <2>2, <2>4, <4>1, <4>2
    <3>3. since'[t] = Retry \/ \E a \in mapAlreadyAskedFor' : a.tx = t
      <4>1. CASE since[t] = Retry
        BY <1>0, <2>2, <4>1
      <4>2. CASE \E a \in mapAlreadyAskedFor : a.tx = t
        BY <2>4, <4>2
      <4> QED BY <2>1, <4>1, <4>2, Zenon DEF Spaced, LastKnown
    <3> QED BY <3>1, <3>2, <3>3 DEF LastKnown
  <2> QED BY <2>5, <2>6, <2>7 DEF Spaced
<1> QED BY <1>7, <1>8 DEF RequestInv

\* Nothing has been asked for at first.
LEMMA RequestsInit ==
    ASSUME Requests!ConstantsOK, Requests!Init
    PROVE  RequestInv
<1>1. IsFiniteSet({}) /\ Cardinality({}) = 0
  BY FS_EmptySet
<1>2. RequestTypes
  BY <1>1 DEF Requests!Init, RequestTypes, Requests!ConstantsOK, Entries
<1>3. \A t \in Txs : Spaced(t)
  BY DEF Requests!Init, Spaced, Apart, NotSoon, LastKnown
<1> QED BY <1>2, <1>3 DEF RequestInv

\* Every step keeps the invariant.
LEMMA RequestsNext ==
    ASSUME Requests!ConstantsOK, RequestInv, [Requests!Next]_(Requests!vars)
    PROVE  RequestInv'
<1>1. CASE UNCHANGED Requests!vars
  <2>1. RequestTypes'
    BY <1>1 DEF Requests!vars, RequestInv, RequestTypes
  <2>2. ASSUME NEW t \in Txs \ (forgotten \cup have) PROVE Spaced(t)'
    BY <1>1, Zenon DEF Requests!vars, RequestInv, Spaced, Apart, NotSoon, LastKnown
  <2>3. forgotten' = forgotten /\ have' = have
    BY <1>1 DEF Requests!vars
  <2> QED BY <2>1, <2>2, <2>3, Zenon DEF RequestInv
<1>2. CASE Requests!Next
  BY <1>2, AskForKeeps, ReceiveTxKeeps, SendMessagesKeeps, DisconnectKeeps, TickKeeps DEF Requests!Next
<1> QED BY <1>1, <1>2

(***************************************************************************)
(* What Requests!AskFor gives out is well typed, and mapAlreadyAskedFor has one     *)
(* entry for a transaction and fewer entries than its maximum, whatever is *)
(* announced: limitedmap::insert always finds one to drop.                 *)
(***************************************************************************)
THEOREM RequestsTyped ==
    ASSUME Requests!ConstantsOK
    PROVE  Requests!Spec => []Requests!TypeOK
<1>1. ASSUME RequestInv PROVE Requests!TypeOK
  <2>1. /\ \A e \in mapAlreadyAskedFor : e.tx \in Txs /\ e.time \in Int
        /\ \A p \in Peers : \A e \in mapAskFor[p] : e.tx \in Txs /\ e.time \in Nat
    BY <1>1 DEF RequestInv, RequestTypes, Entries
  <2> QED BY <1>1, <2>1, SameCount, Zenon DEF RequestInv, RequestTypes, Requests!TypeOK
<1> QED BY RequestsInit, RequestsNext, <1>1, PTL DEF Requests!Spec

\* Only SendMessages asks for anything.
LEMMA OnlySendRequests ==
    ASSUME RequestInv, Requests!Next, NEW p \in Peers, NEW t \in Txs, <<p, t>> \in requested' \ requested
    PROVE  \E e \in Requests!Sent(p) : e.tx = t
<1>1. PICK q \in Peers : Requests!SendMessages(q)
  <2>1. ASSUME NEW q \in Peers, NEW u \in Txs, Requests!AskFor(q, u) \/ Requests!ReceiveTx(q, u) PROVE FALSE
    BY <2>1 DEF Requests!AskFor, Requests!ReceiveTx
  <2>2. ASSUME NEW q \in Peers, Requests!Disconnect(q) PROVE FALSE
    BY <2>2 DEF Requests!Disconnect
  <2>3. ASSUME Requests!Tick PROVE FALSE
    BY <2>3 DEF Requests!Tick
  <2> QED BY <2>1, <2>2, <2>3, Zenon DEF Requests!Next
<1>2. <<p, t>> \in {<<q, e.tx>> : e \in Requests!Sent(q)}
  BY <1>1, Zenon DEF Requests!SendMessages
<1> QED BY <1>2

(***************************************************************************)
(* No getdata for a transaction follows the last one within two minutes,   *)
(* for any number of peers that announce it, in any order and any number   *)
(* of times, unless mapAlreadyAskedFor had to forget it (Requests!AskFor, the       *)
(* getdata part of Requests!SendMessages).                                          *)
(***************************************************************************)
THEOREM RequestsApart ==
    ASSUME Requests!ConstantsOK
    PROVE  Requests!Spec => [][Requests!RequestsSpaced]_(Requests!vars)
<1>1. ASSUME RequestInv, [Requests!Next]_(Requests!vars) PROVE [Requests!RequestsSpaced]_(Requests!vars)
  <2>1. ASSUME Requests!Next, NEW t \in Txs \ forgotten, NEW p \in Peers, <<p, t>> \in requested' \ requested
        PROVE  since[t] = Retry
    <3>1. PICK e \in Requests!Sent(p) : e.tx = t
      BY <1>1, <2>1, OnlySendRequests
    <3> QED BY <1>1, <2>1, <3>1, SentSpaced
  <2> QED BY <1>1, <2>1, Zenon DEF Requests!RequestsSpaced
<1> QED BY RequestsInit, RequestsNext, <1>1, PTL DEF Requests!Spec
=============================================================================
