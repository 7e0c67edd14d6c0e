------------------------ MODULE ValidationInterface ------------------------
(***************************************************************************)
(* How validation events reach their listeners: CMainSignals               *)
(* (validationinterface.cpp) hands every event to the queue of a           *)
(* SingleThreadedSchedulerClient (scheduler.cpp), which asks CScheduler    *)
(* for calls of ProcessQueue().  Threads that generate events, threads     *)
(* that service the scheduler and the shutdown sequence of init.cpp run    *)
(* concurrently; SyncWithValidationInterfaceQueue() waits for the queue.   *)
(*                                                                         *)
(* m_cs_callbacks_pending is held for one action at a time.  Callbacks are *)
(* numbered in the order in which they enter the queue.  The scheduler is  *)
(* what module Scheduler says of tasks that are due at once.               *)
(***************************************************************************)
EXTENDS Integers, Sequences, FiniteSets

CONSTANTS
    Workers,        \* threads in CScheduler::serviceQueue()
    Producers,      \* threads that generate events or wait for the queue
    Importers,      \* those of them that are joined with the workers, as
                    \*   ThreadImport and ThreadStakeMinter are
    Main,           \* the thread that runs PrepareShutdown()
    PendingLimit,   \* CallbacksPending() above which ActivateBestChain waits
    MaxCallbacks    \* bound on the number of callbacks

ASSUME ProcAssumption ==
    /\ Importers \subseteq Producers /\ Workers \cap Producers = {}
    /\ Main \notin Workers \cup Producers
    /\ IsFiniteSet(Producers)
    /\ PendingLimit \in Nat /\ MaxCallbacks \in Nat

VARIABLES
    m_callbacks_pending,
    m_are_callbacks_running,
    scheduled,      \* ProcessQueue tasks in the scheduler
    pc,
    callback,       \* of each thread: the callback it executes, or 0
    generated,      \* number of callbacks added so far
    finished,       \* the set of the callbacks that have returned
    promise,        \* of each producer: the callback it waits for, or 0
    entered,        \* of each producer in SyncWith...: generated at its entry
    interrupted     \* threadGroup.interrupt_all() was called

queueVars == <<m_callbacks_pending, m_are_callbacks_running>>
syncVars  == <<promise, entered>>
vars == <<queueVars, scheduled, pc, callback, generated, finished, syncVars, interrupted>>

Procs == Workers \cup Producers \cup {Main}

Callbacks == 1 .. MaxCallbacks

\* Where a thread can be; the second line is Sync..., the third PrepareShutdown().
Places == {"idle", "maybe", "schedule", "process", "call", "reset", "left",
           "syncAdd", "future", "synced",
           "stopping", "joining", "flush", "test", "done"}

Goto(p, place) == pc' = [pc EXCEPT ![p] = place]

\* Where p goes when AddToProcessQueue() or ProcessQueue() returns.
Caller(p) ==
    IF p = Main THEN "test"
    ELSE IF p \in Producers /\ promise[p] # 0 THEN "future" ELSE "idle"

\* There is room for another callback, those promised to Sync included.
HasRoom == generated + Cardinality({p \in Producers : pc[p] = "syncAdd"}) < MaxCallbacks
-----------------------------------------------------------------------------
Init ==
    /\ m_callbacks_pending = << >> /\ m_are_callbacks_running = FALSE
    /\ scheduled = 0
    /\ pc = [p \in Procs |-> "idle"]
    /\ callback = [p \in Procs |-> 0]
    /\ generated = 0 /\ finished = {}
    /\ promise = [p \in Producers |-> 0] /\ entered = [p \in Producers |-> 0]
    /\ interrupted = FALSE

(***************************************************************************)
(* AddToProcessQueue() and MaybeScheduleProcessQueue(), in every thread.   *)
(***************************************************************************)
AddToProcessQueue(p) ==
    /\ m_callbacks_pending' = Append(m_callbacks_pending, generated + 1)
    /\ generated' = generated + 1
    /\ Goto(p, "maybe")
    /\ UNCHANGED <<m_are_callbacks_running, scheduled, callback, finished, entered, interrupted>>

\* Mutant: a thread that adds a callback leaves the scheduling to the others.
ShouldScheduleIfIdle == ~m_are_callbacks_running /\ Len(m_callbacks_pending) = 1

\* The two early returns of MaybeScheduleProcessQueue().
ShouldSchedule == ~m_are_callbacks_running /\ m_callbacks_pending # << >>

MaybeScheduleProcessQueue(p) ==
    /\ pc[p] = "maybe"
    /\ Goto(p, IF ShouldSchedule THEN "schedule" ELSE Caller(p))
    /\ UNCHANGED <<queueVars, scheduled, callback, generated, finished, syncVars, interrupted>>

\* m_pscheduler->schedule(), after the lock is released.
ScheduleTask(p) ==
    /\ pc[p] = "schedule"
    /\ scheduled' = scheduled + 1
    /\ Goto(p, Caller(p))
    /\ UNCHANGED <<queueVars, callback, generated, finished, syncVars, interrupted>>

(***************************************************************************)
(* ProcessQueue(), in a scheduler thread or in EmptyQueue().               *)
(***************************************************************************)

\* The two early returns of ProcessQueue().
MayProcess == ~m_are_callbacks_running /\ m_callbacks_pending # << >>

\* Take the first callback, or return.
ProcessQueue(p) ==
    /\ pc[p] = "process"
    /\ IF MayProcess
       THEN /\ m_are_callbacks_running' = TRUE
            /\ callback' = [callback EXCEPT ![p] = Head(m_callbacks_pending)]
            /\ m_callbacks_pending' = Tail(m_callbacks_pending)
            /\ Goto(p, "call")
       ELSE Goto(p, Caller(p)) /\ UNCHANGED <<queueVars, callback>>
    /\ UNCHANGED <<scheduled, generated, finished, syncVars, interrupted>>

\* callback() returns; one added by Sync... has set its promise.
CallbackReturns(p) ==
    /\ pc[p] = "call"
    /\ finished' = finished \cup {callback[p]}
    /\ callback' = [callback EXCEPT ![p] = 0]
    /\ Goto(p, "reset")
    /\ UNCHANGED <<queueVars, scheduled, generated, syncVars, interrupted>>

\* ~RAIICallbacksRunning, before its call of MaybeScheduleProcessQueue().
ResetRunning(p) ==
    /\ pc[p] = "reset"
    /\ m_are_callbacks_running' = FALSE
    /\ Goto(p, "maybe")
    /\ UNCHANGED <<m_callbacks_pending, scheduled, callback, generated, finished, syncVars,
                   interrupted>>

Process(p) ==
    \/ MaybeScheduleProcessQueue(p)
    \/ ScheduleTask(p)
    \/ ProcessQueue(p)
    \/ CallbackReturns(p)
    \/ ResetRunning(p)

(***************************************************************************)
(* The scheduler threads.                                                  *)
(***************************************************************************)

\* serviceQueue(): erase the first task, then call it.
TakeTask(w) ==
    /\ w \in Workers /\ pc[w] = "idle" /\ scheduled > 0
    /\ scheduled' = scheduled - 1
    /\ Goto(w, "process")
    /\ UNCHANGED <<queueVars, callback, generated, finished, syncVars, interrupted>>

\* A thread leaves at an interruption point or, if it serves peers or RPC,
\* when PrepareShutdown() stops those.
Leave(p) ==
    /\ p \in Procs \ {Main} /\ pc[p] = "idle"
    /\ IF p \in Workers \cup Importers THEN interrupted ELSE pc[Main] # "idle"
    /\ Goto(p, "left")
    /\ UNCHANGED <<queueVars, scheduled, callback, generated, finished, syncVars, interrupted>>

(***************************************************************************)
(* The producers: events, and SyncWithValidationInterfaceQueue().          *)
(***************************************************************************)
Generate(p) ==
    /\ p \in Producers /\ pc[p] = "idle" /\ HasRoom
    /\ AddToProcessQueue(p)
    /\ UNCHANGED promise

\* The queue is asked for its length first: "do not wait for nothing".
\* ActivateBestChain, in the importers, calls only above the limit.
SyncEnter(p) ==
    /\ p \in Producers /\ pc[p] = "idle" /\ HasRoom
    /\ p \in Importers => Len(m_callbacks_pending) > PendingLimit
    /\ entered' = [entered EXCEPT ![p] = generated]
    /\ Goto(p, IF m_callbacks_pending = << >> THEN "synced" ELSE "syncAdd")
    /\ UNCHANGED <<queueVars, scheduled, callback, generated, finished, promise, interrupted>>

\* CallFunctionInValidationInterfaceQueue() with the promise.
SyncAdd(p) ==
    /\ pc[p] = "syncAdd"
    /\ promise' = [promise EXCEPT ![p] = generated + 1]
    /\ AddToProcessQueue(p)

\* Mutant: the wait has a timeout.
FutureReadyOrTimeout(p) ==
    /\ pc[p] = "future"
    /\ Goto(p, "synced")
    /\ UNCHANGED <<queueVars, scheduled, callback, generated, finished, syncVars, interrupted>>

\* promise.get_future().wait(), which no interruption ends.
FutureReady(p) ==
    /\ pc[p] = "future" /\ promise[p] \in finished
    /\ Goto(p, "synced")
    /\ UNCHANGED <<queueVars, scheduled, callback, generated, finished, syncVars, interrupted>>

SyncReturns(p) ==
    /\ pc[p] = "synced"
    /\ promise' = [promise EXCEPT ![p] = 0]
    /\ entered' = [entered EXCEPT ![p] = 0]
    /\ Goto(p, "idle")
    /\ UNCHANGED <<queueVars, scheduled, callback, generated, finished, interrupted>>

SyncStep(p) == SyncAdd(p) \/ FutureReady(p) \/ SyncReturns(p)

(***************************************************************************)
(* PrepareShutdown().                                                      *)
(***************************************************************************)
StartShutdown ==
    /\ pc[Main] = "idle"
    /\ Goto(Main, "stopping")
    /\ UNCHANGED <<queueVars, scheduled, callback, generated, finished, syncVars, interrupted>>

\* The RPC, HTTP and network threads have ended: interrupt_all().
InterruptAll ==
    /\ pc[Main] = "stopping" /\ \A p \in Producers \ Importers : pc[p] = "left"
    /\ interrupted' = TRUE
    /\ Goto(Main, "joining")
    /\ UNCHANGED <<queueVars, scheduled, callback, generated, finished, syncVars>>

\* join_all()
JoinAll ==
    /\ pc[Main] = "joining" /\ \A p \in Workers \cup Importers : pc[p] = "left"
    /\ Goto(Main, "flush")
    /\ UNCHANGED <<queueVars, scheduled, callback, generated, finished, syncVars, interrupted>>

\* FlushStateToDisk() generates a SetBestChain event, if the last one is old
\* enough; EmptyQueue() comes next.
ShutdownFlush ==
    /\ pc[Main] = "flush"
    /\ \/ HasRoom /\ AddToProcessQueue(Main) /\ UNCHANGED promise
       \/ /\ Goto(Main, "process")
          /\ UNCHANGED <<queueVars, scheduled, callback, generated, finished, syncVars,
                         interrupted>>

\* Mutants: EmptyQueue() drops what is left, or processes one callback only.
EmptyQueueDrops ==
    /\ pc[Main] = "test"
    /\ Goto(Main, "done")
    /\ m_callbacks_pending' = << >>
    /\ UNCHANGED <<m_are_callbacks_running, scheduled, callback, generated, finished, syncVars,
                   interrupted>>

EmptyQueueOnce ==
    /\ pc[Main] = "test"
    /\ Goto(Main, "done")
    /\ UNCHANGED <<queueVars, scheduled, callback, generated, finished, syncVars, interrupted>>

\* The loop of EmptyQueue().
EmptyQueue ==
    /\ pc[Main] = "test"
    /\ Goto(Main, IF m_callbacks_pending = << >> THEN "done" ELSE "process")
    /\ UNCHANGED <<queueVars, scheduled, callback, generated, finished, syncVars, interrupted>>

MainStep == InterruptAll \/ JoinAll \/ ShutdownFlush \/ EmptyQueue

Next ==
    \/ \E p \in Procs : Process(p) \/ Leave(p)
    \/ \E w \in Workers : TakeTask(w)
    \/ \E p \in Producers : Generate(p) \/ SyncEnter(p) \/ SyncStep(p)
    \/ StartShutdown
    \/ MainStep

Spec == Init /\ [][Next]_vars

\* Every thread goes on with what it has begun; no event, no call of Sync...
\* and no shutdown has to come.  A thread that is told to leave starts only
\* finitely many more things: the servers refuse new requests (Interrupt),
\* and ActivateBestChain's loop tests for interruption and shutdown.
FairSpec ==
    /\ Spec
    /\ \A p \in Procs : WF_vars(Process(p)) /\ SF_vars(Leave(p))
    /\ \A w \in Workers : WF_vars(TakeTask(w))
    /\ \A p \in Producers : WF_vars(SyncStep(p))
    /\ WF_vars(MainStep)
-----------------------------------------------------------------------------
Executing == {p \in Procs : pc[p] = "call"}

(***************************************************************************)
(* The state is well typed.                                                *)
(***************************************************************************)
TypeOK ==
    /\ m_callbacks_pending \in Seq(Callbacks)
    /\ m_are_callbacks_running \in BOOLEAN /\ interrupted \in BOOLEAN
    /\ scheduled \in Nat
    /\ pc \in [Procs -> Places]
    /\ callback \in [Procs -> {0} \cup Callbacks]
    /\ \A p \in Procs : callback[p] # 0 <=> pc[p] = "call"
    /\ generated \in 0 .. MaxCallbacks
    /\ finished \subseteq 1 .. generated
    /\ promise \in [Producers -> {0} \cup Callbacks]
    /\ entered \in [Producers -> 0 .. MaxCallbacks]

(***************************************************************************)
(* "No two jobs will be executed at the same time" (scheduler.h:92), and   *)
(* they are executed in the order in which they were added: the client     *)
(* implements SerialQueue, with what has begun read off the queue.         *)
(***************************************************************************)
Abstract == INSTANCE SerialQueue WITH
    added    <- generated,
    begun    <- generated - Len(m_callbacks_pending),
    finished <- Cardinality(finished)

ImplementsSerialQueue == Abstract!Spec

Serial ==
    /\ Cardinality(Executing) <= 1
    /\ m_callbacks_pending =
           [i \in 1 .. Len(m_callbacks_pending) |->
                generated - Len(m_callbacks_pending) + i]
    /\ \A p \in Executing :
           /\ callback[p] = generated - Len(m_callbacks_pending)
           /\ finished = 1 .. callback[p] - 1

(***************************************************************************)
(* A function called in the queue finds "any callbacks generated prior to  *)
(* now" finished (validationinterface.h:38-39): whoever was released by    *)
(* its promise is past everything generated before.                        *)
(***************************************************************************)
PromiseMeansFinished ==
    \A p \in Producers :
        pc[p] = "synced" /\ promise[p] # 0 => 1 .. entered[p] \subseteq finished

(***************************************************************************)
(* Every callback is executed: the two checks of m_are_callbacks_running   *)
(* never leave one in the queue without a ProcessQueue() to come, and at   *)
(* shutdown EmptyQueue() takes what the scheduler no longer does.          *)
(***************************************************************************)
AllDelivered == \A c \in Callbacks : []<>(generated >= c => c \in finished)

(***************************************************************************)
(* "A clean exit happens when StartShutdown() or the SIGTERM signal        *)
(* handler sets fRequestShutdown" (init.cpp:139): a shutdown that was      *)
(* begun ends, with nothing left in the queue.                             *)
(***************************************************************************)
CleanExit == []<>(pc[Main] = "idle" \/ (pc[Main] = "done" /\ m_callbacks_pending = << >>))
=============================================================================
