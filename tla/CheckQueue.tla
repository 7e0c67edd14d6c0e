----------------------------- MODULE CheckQueue -----------------------------
(***************************************************************************)
(* CCheckQueue<T> and CCheckQueueControl<T> (src/src/checkqueue.h), the     *)
(* pool of script-verification threads that ConnectBlock uses.             *)
(*                                                                         *)
(* The master (the thread that connects a block) adds checks and then      *)
(* joins the pool until all of them are done; the workers are the          *)
(* ThreadScriptCheck threads.  One action is one critical section of the   *)
(* mutex, or the work done outside of it.  The queue is a set: the order   *)
(* in which checks are taken does not matter to the code.                  *)
(***************************************************************************)
EXTENDS Integers, FiniteSets

CONSTANTS Workers,     \* the ThreadScriptCheck threads
          Master,      \* the thread that connects blocks
          Checks,      \* identities of the script checks of one block
          nBatchSize   \* the most checks a thread takes at once

ASSUME ThreadsAssumption == IsFiniteSet(Workers) /\ Master \notin Workers
ASSUME ChecksAssumption == IsFiniteSet(Checks)
ASSUME BatchAssumption == nBatchSize \in Nat \ {0}

Threads == Workers \cup {Master}

VARIABLES
  queue,        \* checks nobody has taken yet
  nIdle,        \* threads in cond.wait (and the ones interrupted there)
  nTotal,       \* threads inside Loop (and the ones interrupted there)
  fAllOk,       \* the evaluation result so far
  nTodo,        \* checks whose result has not been accounted yet
  pc,           \* pc[t]: where thread t is in Loop
  batch,        \* batch[t]: the checks t took; nNow is its cardinality
  fOk,          \* fOk[t]: the local verdict of t on its batch
  interrupted,  \* threads with a pending boost interruption request
  ctl,          \* life cycle of the CCheckQueueControl of the master
  added,        \* history: the checks of the current block
  bad,          \* the checks of the current block that fail when run
  executed,     \* history: the checks of the current block that ran
  verdict       \* what the last Wait() returned

poolVars == <<queue, nIdle, nTotal, fAllOk, nTodo>>
threadVars == <<pc, batch, fOk, interrupted>>
blockVars == <<ctl, added, bad, executed, verdict>>
vars == <<poolVars, threadVars, blockVars>>

(* "start": not in Loop yet (for the master: not inside Wait); "top": about *)
(* to enter the critical section of the do loop; "wait": inside cond.wait;  *)
(* "awake": notified, about to reacquire the mutex; "work": running its     *)
(* batch; "dead": unwound by an interruption.                               *)
PCs == {"start", "top", "wait", "awake", "work", "dead"}

(* "none": no control object; "adding": constructed; "wait": Wait() called; *)
(* "dtor": the destructor called Wait(); "done": Wait() returned.           *)
Ctls == {"none", "adding", "wait", "dtor", "done"}

TypeOK ==
  /\ queue \subseteq Checks
  /\ nIdle \in Nat /\ nTotal \in Nat /\ nTodo \in Nat
  /\ fAllOk \in BOOLEAN
  /\ pc \in [Threads -> PCs]
  /\ batch \in [Threads -> SUBSET Checks]
  /\ fOk \in [Threads -> BOOLEAN]
  /\ interrupted \subseteq Threads
  /\ ctl \in Ctls
  /\ added \subseteq Checks /\ bad \subseteq Checks /\ executed \subseteq Checks
  /\ verdict \in BOOLEAN

Init ==
  /\ queue = {} /\ nIdle = 0 /\ nTotal = 0 /\ fAllOk = TRUE /\ nTodo = 0
  /\ pc = [t \in Threads |-> IF t = Master THEN "start" ELSE "top"]
  /\ batch = [t \in Threads |-> {}]
  /\ fOk = [t \in Threads |-> TRUE]
  /\ interrupted = {}
  /\ ctl = "none" /\ added = {} /\ bad = {} /\ executed = {}
  /\ verdict = TRUE

-----------------------------------------------------------------------------
(* Loop                                                                     *)

(* The number of checks to take: between 1 and nBatchSize, smaller when     *)
(* more threads share the work.                                            *)
NowSize(size, total, idle) ==
  LET share == size \div (total + idle + 1)
      capped == IF share < nBatchSize THEN share ELSE nBatchSize
  IN IF capped < 1 THEN 1 ELSE capped

(* p with every thread of W that is inside cond.wait moved to "awake". *)
Awaken(p, W) == [t \in Threads |-> IF t \in W /\ p[t] = "wait" THEN "awake" ELSE p[t]]

(* Only the master leaves Loop, and only when nothing is left to do (fQuit  *)
(* is never set).                                                          *)
MayReturn(t, todo) == t = Master /\ todo = 0

(* Accounting for the batch a thread just ran: the verdict so far ...      *)
AccountOkOverwrites(t) == IF batch[t] # {} THEN fOk[t] ELSE fAllOk

AccountOk(t) == IF batch[t] # {} THEN fAllOk /\ fOk[t] ELSE fAllOk

(* ... the number of checks still to do ...                                *)
AccountTodo(t) == nTodo - Cardinality(batch[t])

(* ... and, after the last one, a notification for the master.             *)
AccountNotifyNever(t) == pc

AccountNotify(t) ==
  IF batch[t] # {} /\ AccountTodo(t) = 0 /\ t # Master
    THEN Awaken(pc, {Master}) ELSE pc

(* The while loop of the critical section, entered with the queue empty:   *)
(* the master returns and resets the result for the next block ...         *)
LoopReturn(t, p, allOk, todo, total) ==
  /\ queue = {}
  /\ MayReturn(t, todo)
  /\ nTotal' = total - 1
  /\ verdict' = allOk
  /\ fAllOk' = TRUE
  /\ ctl' = IF ctl = "wait" THEN "done" ELSE "none"
  /\ pc' = [p EXCEPT ![t] = "start"]
  /\ batch' = [batch EXCEPT ![t] = {}]
  /\ UNCHANGED <<queue, fOk>>

(* ... and everybody else, and the master before that, blocks.             *)
LoopWait(t, p, allOk, todo, total) ==
  /\ queue = {}
  /\ ~MayReturn(t, todo)
  /\ nTotal' = total
  /\ fAllOk' = allOk
  /\ pc' = [p EXCEPT ![t] = "wait"]
  /\ batch' = [batch EXCEPT ![t] = {}]
  /\ UNCHANGED <<queue, fOk, ctl, verdict>>

(* With work in the queue the thread takes a share of it.                  *)
LoopTake(t, p, allOk, total, idle) ==
  /\ queue # {}
  /\ \E B \in SUBSET queue :
       /\ Cardinality(B) = NowSize(Cardinality(queue), total, idle)
       /\ batch' = [batch EXCEPT ![t] = B]
       /\ queue' = queue \ B
  /\ nTotal' = total
  /\ fAllOk' = allOk
  /\ fOk' = [fOk EXCEPT ![t] = allOk]
  /\ pc' = [p EXCEPT ![t] = "work"]
  /\ UNCHANGED <<ctl, verdict>>

(* The rest of the critical section once the thread holds the mutex.       *)
LoopOutcome(t, p, allOk, todo, total, idle) ==
  \/ LoopReturn(t, p, allOk, todo, total) /\ nIdle' = idle
  \/ LoopWait(t, p, allOk, todo, total) /\ nIdle' = idle + 1
  \/ LoopTake(t, p, allOk, total, idle) /\ nIdle' = idle

(* The critical section: account for the previous batch (or count the      *)
(* thread in on its first iteration), then loop.                           *)
Enter(t) ==
  /\ pc[t] = "top"
  /\ nTodo' = AccountTodo(t)
  /\ LoopOutcome(t, AccountNotify(t), AccountOk(t), AccountTodo(t),
                 IF batch[t] # {} THEN nTotal ELSE nTotal + 1, nIdle)
  /\ UNCHANGED <<interrupted, added, bad, executed>>

(* cond.wait returns with the mutex held; the while loop tests again.      *)
IdleAfterWake == nIdle - 1

Wake(t) ==
  /\ pc[t] = "awake"
  /\ LoopOutcome(t, pc, fAllOk, nTodo, nTotal, IdleAfterWake)
  /\ UNCHANGED <<nTodo, interrupted, added, bad, executed>>

(* Outside the mutex: run the batch, stopping at the first failure and     *)
(* running nothing when a failure was already known.                       *)
Execute(t) ==
  /\ pc[t] = "work"
  /\ \/ /\ fOk[t] /\ batch[t] \cap bad = {}
        /\ executed' = executed \cup batch[t]
        /\ fOk' = fOk
     \/ /\ fOk[t]
        /\ \E b \in batch[t] \cap bad : \E G \in SUBSET (batch[t] \ bad) :
             executed' = executed \cup G \cup {b}
        /\ fOk' = [fOk EXCEPT ![t] = FALSE]
     \/ /\ ~fOk[t]
        /\ UNCHANGED <<executed, fOk>>
  /\ pc' = [pc EXCEPT ![t] = "top"]
  /\ UNCHANGED <<poolVars, batch, interrupted, ctl, added, bad, verdict>>

(* A condition variable may wake a waiter without a notification.          *)
SpuriousWake(t) ==
  /\ pc[t] = "wait"
  /\ pc' = [pc EXCEPT ![t] = "awake"]
  /\ UNCHANGED <<poolVars, batch, fOk, interrupted, blockVars>>

(* boost::thread_interrupted leaves cond.wait, which is an interruption    *)
(* point: nIdle and nTotal stay counted.  A worker ends; the master        *)
(* unwinds into ~CCheckQueueControl, which calls Wait() again.             *)
Interrupted(t) ==
  /\ t \in interrupted
  /\ pc[t] \in {"wait", "awake"}
  /\ interrupted' = interrupted \ {t}
  /\ pc' = [pc EXCEPT ![t] = IF t = Master THEN "top" ELSE "dead"]
  /\ ctl' = IF t = Master THEN "dtor" ELSE ctl
  /\ UNCHANGED <<poolVars, batch, fOk, added, bad, executed, verdict>>

-----------------------------------------------------------------------------
(* The master: CCheckQueueControl as ConnectBlock uses it                   *)

IsIdle == nTotal = nIdle /\ nTodo = 0 /\ fAllOk

(* The constructor (its assertion is the property ControlFindsIdle).       *)
Construct ==
  /\ ctl = "none"
  /\ ctl' = "adding"
  /\ added' = {} /\ executed' = {}
  /\ bad' \in SUBSET Checks
  /\ UNCHANGED <<poolVars, threadVars, verdict>>

(* The workers Add may notify: one check wakes one worker, several wake    *)
(* all of them.                                                            *)
Notified(S) ==
  LET sleeping == {w \in Workers : pc[w] = "wait"}
  IN CASE Cardinality(S) = 1 /\ sleeping # {} -> {{w} : w \in sleeping}
       [] Cardinality(S) > 1 -> {sleeping}
       [] OTHER -> {{}}

Add(S) ==
  /\ ctl = "adding"
  /\ queue' = queue \cup S
  /\ nTodo' = nTodo + Cardinality(S)
  /\ added' = added \cup S
  /\ \E W \in Notified(S) : pc' = Awaken(pc, W)
  /\ UNCHANGED <<nIdle, nTotal, fAllOk, batch, fOk, interrupted, ctl, bad, executed, verdict>>

(* Wait() from ConnectBlock, or from the destructor when ConnectBlock      *)
(* returned early because the block is invalid for another reason.         *)
CallWait ==
  /\ ctl = "adding"
  /\ ctl' \in {"wait", "dtor"}
  /\ pc' = [pc EXCEPT ![Master] = "top"]
  /\ UNCHANGED <<poolVars, batch, fOk, interrupted, added, bad, executed, verdict>>

(* The destructor after Wait() returned (fDone is set).                    *)
Destroy ==
  /\ ctl = "done"
  /\ ctl' = "none"
  /\ UNCHANGED <<poolVars, threadVars, added, bad, executed, verdict>>

(* Shutdown: threadGroup.interrupt_all().  The workers are in the group;   *)
(* the master is when it is the block-import thread.                       *)
InterruptAll ==
  /\ \E M \in SUBSET {Master} :
       interrupted' = {t \in Workers \cup M : pc[t] # "dead"}
  /\ \A w \in Workers : pc[w] # "dead"
  /\ interrupted = {}
  /\ UNCHANGED <<poolVars, pc, batch, fOk, blockVars>>

LoopStep(t) == Enter(t) \/ Wake(t) \/ Execute(t)

Next ==
  \/ \E t \in Threads : LoopStep(t) \/ SpuriousWake(t) \/ Interrupted(t)
  \/ Construct
  \/ \E S \in SUBSET (Checks \ added) : Add(S)
  \/ CallWait
  \/ Destroy
  \/ InterruptAll

Spec == Init /\ [][Next]_vars

(* The operating system schedules every runnable thread eventually.        *)
FairSpec == Spec /\ \A t \in Threads : WF_vars(LoopStep(t))

-----------------------------------------------------------------------------
(* Properties                                                               *)

Outstanding == queue \cup UNION {batch[t] : t \in Threads}

(* No check is lost or accounted twice: nTodo (checkqueue.h, lines 53-58)   *)
(* is the number of checks in the queue and in the threads' own batches,   *)
(* and no two of those overlap.                                            *)
TodoAccounting ==
  /\ nTodo = Cardinality(Outstanding)
  /\ \A t \in Threads : batch[t] \cap queue = {}
  /\ \A t, u \in Threads : t # u => batch[t] \cap batch[u] = {}

(* The assertion of the CCheckQueueControl constructor: whenever the        *)
(* master has no control object the queue is idle, also after early        *)
(* returns and after threads were interrupted inside cond.wait.            *)
ControlFindsIdle == ctl = "none" => IsIdle

(* Wait() returns true exactly when every check added for this block is    *)
(* good; ConnectBlock accepts or rejects the block on this value alone.    *)
VerdictSound == ctl = "done" => (verdict <=> added \cap bad = {})

(* A block is never accepted with a check that nobody ran.                 *)
AcceptedMeansExecuted == (ctl = "done" /\ verdict) => executed = added

(* The master, once it called Wait(), gets out of it (no lost wake-up, no   *)
(* everybody-waits-on-everybody), even when workers are interrupted.       *)
WaitReturns == []<>(ctl \notin {"wait", "dtor"})
=============================================================================
