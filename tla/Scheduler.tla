----------------------------- MODULE Scheduler -----------------------------
(***************************************************************************)
(* CScheduler (scheduler.cpp): threads that sit in serviceQueue() and run  *)
(* the tasks of a queue ordered by time, waiting on one condition variable.*)
(*                                                                         *)
(* newTaskMutex is held from one wait, or one call of a task, to the next, *)
(* so that stretch is one action.  Notifications are sent after the mutex  *)
(* is released and are delivered by an action of their own.  Waits end     *)
(* spuriously too.  The clock stops at MaxTime; a task for a later time    *)
(* stays in the queue.                                                     *)
(***************************************************************************)
EXTENDS Integers, Sequences, FiniteSets, SequencesExt

CONSTANTS
    Threads,    \* threads that call serviceQueue()
    Tasks,      \* tasks that may be scheduled, each once by its owner
    Period,     \* of a task: 0, or the delay after which Repeat runs it again
    MaxTime     \* the end of the clock

ASSUME TimeAssumption ==
    MaxTime \in Nat /\ Period \in [Tasks -> Nat] /\ IsFiniteSet(Threads)

VARIABLES
    now,            \* boost::chrono::system_clock::now()
    taskQueue,      \* sequence of [task, t], in the multimap's order
    pc,             \* where each thread is in serviceQueue()
    deadline,       \* of each thread in wait_until: the time it waits for
    current,        \* of each thread that runs one: the task it took
    nThreadsServicingQueue,
    stopRequested, stopWhenEmpty,
    interrupted,    \* threadGroup.interrupt_all() was called
    woken,          \* threads that a notification has chosen
    notify,         \* [one |-> notify_one calls, all |-> notify_all called]
                    \*   that have not reached the condition variable yet
    unscheduled,    \* tasks whose owner has not called schedule() yet
    ran             \* how often each task was called

threadVars == <<pc, deadline, current, nThreadsServicingQueue>>
stopVars   == <<stopRequested, stopWhenEmpty, interrupted>>
clockVars  == <<now, unscheduled>>
vars == <<clockVars, taskQueue, threadVars, stopVars, woken, notify, ran>>

Waiting(t) == pc[t] \in {"wait", "timed"}

\* The threads between ++nThreadsServicingQueue and its --.
InService == {t \in Threads : pc[t] \notin {"start", "left"}}

\* std::multimap::emplace: after the tasks for the same time.
Emplace(q, e) == InsertAt(q, 1 + Cardinality({i \in DOMAIN q : q[i].t <= e.t}), e)

shouldStop == stopRequested \/ (stopWhenEmpty /\ taskQueue = << >>)
-----------------------------------------------------------------------------
Init ==
    /\ now = 0
    /\ taskQueue = << >>
    /\ pc = [t \in Threads |-> "start"]
    /\ deadline = [t \in Threads |-> 0]
    /\ current = [t \in Threads |-> << >>]
    /\ nThreadsServicingQueue = 0
    /\ stopRequested = FALSE /\ stopWhenEmpty = FALSE /\ interrupted = FALSE
    /\ woken = {}
    /\ notify = [one |-> 0, all |-> FALSE]
    /\ unscheduled = Tasks
    /\ ran = [k \in Tasks |-> 0]

Tick ==
    /\ now < MaxTime
    /\ now' = now + 1
    /\ UNCHANGED <<unscheduled, taskQueue, threadVars, stopVars, woken, notify, ran>>

(***************************************************************************)
(* The clients of the scheduler.                                           *)
(***************************************************************************)

\* Mutant: the waiting threads are not told.
ScheduleSilently(e) ==
    /\ taskQueue' = Emplace(taskQueue, e)
    /\ UNCHANGED notify

\* schedule: emplace under the mutex, notify_one after it.
schedule(e) ==
    /\ taskQueue' = Emplace(taskQueue, e)
    /\ notify' = [notify EXCEPT !.one = @ + 1]

\* schedule, scheduleFromNow and the first run of scheduleEvery.
Schedule(k) ==
    /\ k \in unscheduled
    /\ unscheduled' = unscheduled \ {k}
    /\ \E t \in now .. MaxTime : schedule([task |-> k, t |-> t])
    /\ UNCHANGED <<now, threadVars, stopVars, woken, ran>>

\* Mutant: the threads are left asleep.
stopSilently(drain) ==
    /\ ~(IF drain THEN stopWhenEmpty ELSE stopRequested)
    /\ stopWhenEmpty' = (stopWhenEmpty \/ drain)
    /\ stopRequested' = (stopRequested \/ ~drain)
    /\ UNCHANGED <<clockVars, taskQueue, threadVars, interrupted, woken, notify, ran>>

\* stop: one of the two flags under the mutex, notify_all after it.  Nobody
\* calls it twice with the same argument.
stop(drain) ==
    /\ ~(IF drain THEN stopWhenEmpty ELSE stopRequested)
    /\ stopWhenEmpty' = (stopWhenEmpty \/ drain)
    /\ stopRequested' = (stopRequested \/ ~drain)
    /\ notify' = [notify EXCEPT !.all = TRUE]
    /\ UNCHANGED <<clockVars, taskQueue, threadVars, interrupted, woken, ran>>

\* Shutdown: threadGroup.interrupt_all().
InterruptAll ==
    /\ ~interrupted
    /\ interrupted' = TRUE
    /\ UNCHANGED <<clockVars, taskQueue, threadVars, stopRequested, stopWhenEmpty,
                   woken, notify, ran>>

(***************************************************************************)
(* The condition variable: a notification chooses a thread that waits and  *)
(* has not been chosen, and is lost if there is none.                      *)
(***************************************************************************)
NotifyOne ==
    /\ notify.one > 0
    /\ notify' = [notify EXCEPT !.one = @ - 1]
    /\ LET asleep == {t \in Threads : Waiting(t)} \ woken
       IN IF asleep = {} THEN UNCHANGED woken
          ELSE \E t \in asleep : woken' = woken \cup {t}
    /\ UNCHANGED <<clockVars, taskQueue, threadVars, stopVars, ran>>

NotifyAll ==
    /\ notify.all
    /\ notify' = [notify EXCEPT !.all = FALSE]
    /\ woken' = {t \in Threads : Waiting(t)}
    /\ UNCHANGED <<clockVars, taskQueue, threadVars, stopVars, ran>>

(***************************************************************************)
(* serviceQueue().  The operators say where thread t gets to, from the     *)
(* place in the loop that it has reached, before it gives up the mutex.    *)
(***************************************************************************)
GoTo(t, place) ==
    /\ pc' = [pc EXCEPT ![t] = place]
    /\ UNCHANGED <<deadline, current, nThreadsServicingQueue, taskQueue, notify, ran>>

Leave(t) ==
    /\ pc' = [pc EXCEPT ![t] = "left"]
    /\ nThreadsServicingQueue' = nThreadsServicingQueue - 1
    /\ notify' = [notify EXCEPT !.one = @ + 1]
    /\ UNCHANGED <<deadline, current, taskQueue, ran>>

\* Line 49: wait_until the time of the first task.
WaitForFirst(t) ==
    /\ pc' = [pc EXCEPT ![t] = "timed"]
    /\ deadline' = [deadline EXCEPT ![t] = Head(taskQueue).t]
    /\ UNCHANGED <<current, nThreadsServicingQueue, taskQueue, notify, ran>>

\* Lines 32 and 34: the top of the loop.
LoopTop(t) ==
    \/ shouldStop /\ Leave(t)
    \/ ~shouldStop /\ taskQueue = << >> /\ GoTo(t, "seed")
    \/ ~shouldStop /\ taskQueue # << >> /\ WaitForFirst(t)

\* Line 39: wait until there is something to do.
WaitForTask(t) ==
    \/ shouldStop /\ Leave(t)
    \/ ~shouldStop /\ taskQueue = << >> /\ GoTo(t, "wait")
    \/ ~shouldStop /\ taskQueue # << >> /\ WaitForFirst(t)

\* Mutant: the first task is copied but erased only if it was waited for.
TakeFirstErasesDue(t) ==
    /\ pc' = [pc EXCEPT ![t] = "run"]
    /\ current' = [current EXCEPT ![t] = <<Head(taskQueue)>>]
    /\ taskQueue' = IF Head(taskQueue).t = deadline[t] THEN Tail(taskQueue) ELSE taskQueue
    /\ ran' = [ran EXCEPT ![Head(taskQueue).task] = @ + 1]
    /\ UNCHANGED <<deadline, nThreadsServicingQueue, notify>>

\* Lines 58 and 59: copy the first task, then erase it.
TakeFirst(t) ==
    /\ pc' = [pc EXCEPT ![t] = "run"]
    /\ current' = [current EXCEPT ![t] = <<Head(taskQueue)>>]
    /\ taskQueue' = Tail(taskQueue)
    /\ ran' = [ran EXCEPT ![Head(taskQueue).task] = @ + 1]
    /\ UNCHANGED <<deadline, nThreadsServicingQueue, notify>>

\* A thread calls serviceQueue(), or comes back from a task: in both cases
\* it is about to take the mutex at the top of the loop.
Enter(t) ==
    /\ pc[t] = "start"
    /\ pc' = [pc EXCEPT ![t] = "top"]
    /\ nThreadsServicingQueue' = nThreadsServicingQueue + 1
    /\ UNCHANGED <<clockVars, taskQueue, deadline, current, stopVars, woken, notify, ran>>

Top(t) ==
    /\ pc[t] = "top"
    /\ LoopTop(t)
    /\ UNCHANGED <<clockVars, stopVars, woken>>

\* RandAddSeedSleep() is over.
Seeded(t) ==
    /\ pc[t] = "seed"
    /\ WaitForTask(t)
    /\ UNCHANGED <<clockVars, stopVars, woken>>

\* A wait without a time ends, notified or spuriously.
WakeIdle(t) ==
    /\ pc[t] = "wait"
    /\ woken' = woken \ {t}
    /\ WaitForTask(t)
    /\ UNCHANGED <<clockVars, stopVars>>

\* wait_until ends before its time, notified or spuriously.
WakeTimed(t) ==
    /\ pc[t] = "timed"
    /\ woken' = woken \ {t}
    /\ LoopTop(t)
    /\ UNCHANGED <<clockVars, stopVars>>

\* wait_until times out; a notification that chose the thread is used up.
Timeout(t) ==
    /\ pc[t] = "timed" /\ deadline[t] <= now
    /\ woken' = woken \ {t}
    /\ IF shouldStop \/ taskQueue = << >> THEN LoopTop(t) ELSE TakeFirst(t)
    /\ UNCHANGED <<clockVars, stopVars>>

\* The task returns.  Repeat() schedules itself again before it does.
Return(t) ==
    /\ pc[t] = "run"
    /\ pc' = [pc EXCEPT ![t] = "top"]
    /\ current' = [current EXCEPT ![t] = << >>]
    /\ LET k == current[t][1].task
       IN IF Period[k] = 0 THEN UNCHANGED <<taskQueue, notify>>
          ELSE schedule([task |-> k, t |-> now + Period[k]])
    /\ UNCHANGED <<clockVars, deadline, nThreadsServicingQueue, stopVars, woken, ran>>

\* boost::thread_interrupted leaves a wait, a sleep or a task, and the
\* handler passes it on: no notification, and Repeat() does not go on.
Interrupted(t) ==
    /\ interrupted /\ pc[t] \in {"seed", "wait", "timed", "run"}
    /\ pc' = [pc EXCEPT ![t] = "left"]
    /\ current' = [current EXCEPT ![t] = << >>]
    /\ nThreadsServicingQueue' = nThreadsServicingQueue - 1
    /\ woken' = woken \ {t}
    /\ UNCHANGED <<clockVars, taskQueue, deadline, stopVars, notify, ran>>

\* What a thread does without a spurious wake-up.
ThreadStep(t) ==
    \/ Enter(t)
    \/ Top(t)
    \/ Seeded(t)
    \/ t \in woken /\ (WakeIdle(t) \/ WakeTimed(t))
    \/ Timeout(t)
    \/ Return(t)
    \/ Interrupted(t)

SpuriousWake(t) == t \notin woken /\ (WakeIdle(t) \/ WakeTimed(t))

Next ==
    \/ Tick
    \/ \E k \in Tasks : Schedule(k)
    \/ \E drain \in BOOLEAN : stop(drain)
    \/ InterruptAll
    \/ NotifyOne
    \/ NotifyAll
    \/ \E t \in Threads : ThreadStep(t) \/ SpuriousWake(t)

Spec == Init /\ [][Next]_vars

\* The clock runs, notifications arrive, and a thread that can go on does:
\* the mutex is never held across a wait or a task, and tasks return.
FairSpec ==
    /\ Spec
    /\ WF_vars(Tick) /\ WF_vars(NotifyOne) /\ WF_vars(NotifyAll)
    /\ \A t \in Threads : WF_vars(ThreadStep(t))
-----------------------------------------------------------------------------
Queued(k)  == {i \in DOMAIN taskQueue : taskQueue[i].task = k}
Running(k) == {t \in Threads : pc[t] = "run" /\ current[t][1].task = k}

(***************************************************************************)
(* The state is well typed, and the queue is ordered by time.              *)
(***************************************************************************)
TypeOK ==
    /\ now \in 0 .. MaxTime
    /\ taskQueue \in Seq([task : Tasks, t : Nat])
    /\ \A i, j \in DOMAIN taskQueue : i < j => taskQueue[i].t <= taskQueue[j].t
    /\ pc \in [Threads -> {"start", "top", "seed", "wait", "timed", "run", "left"}]
    /\ deadline \in [Threads -> Nat]
    /\ \A t \in Threads : Len(current[t]) = IF pc[t] = "run" THEN 1 ELSE 0
    /\ nThreadsServicingQueue \in Nat
    /\ {stopRequested, stopWhenEmpty, interrupted} \subseteq BOOLEAN
    /\ woken \subseteq {t \in Threads : Waiting(t)}
    /\ notify \in [one : Nat, all : BOOLEAN]
    /\ unscheduled \subseteq Tasks
    /\ ran \in [Tasks -> Nat]

(***************************************************************************)
(* A task is called once for every time it was scheduled, whichever        *)
(* threads waited for it: it is with its owner, in the queue, with one     *)
(* thread or done, and a repeated task never has two runs in flight.  And  *)
(* "at/after time t" (scheduler.h:47): the only thread that services the   *)
(* queue, as in this node, runs no task before its time.  (Of two threads  *)
(* that wait for the same task, the one that comes second takes the next   *)
(* task, due or not.)                                                      *)
(***************************************************************************)
CalledOnce ==
    /\ \A k \in Tasks :
          LET inFlight == (IF k \in unscheduled THEN 1 ELSE 0)
                          + Cardinality(Queued(k)) + Cardinality(Running(k))
          IN /\ inFlight <= 1
             /\ Period[k] = 0 => ran[k] <= 1
             /\ Period[k] = 0 /\ inFlight = 0 => ran[k] = 1
             /\ Period[k] # 0 /\ ~interrupted => inFlight = 1
    /\ \A t \in Threads :
          pc[t] = "run" /\ (\A u \in Threads \ {t} : pc[u] = "start")
              => current[t][1].t <= now

(***************************************************************************)
(* A task that is due is called, unless the threads are told to stop, or   *)
(* had left an empty queue before: the notification for it is not lost,    *)
(* whoever else waits or wakes up.                                         *)
(***************************************************************************)
ServesDue ==
    \A k \in Tasks :
        []<>(\/ \A i \in Queued(k) : taskQueue[i].t > MaxTime
             \/ stopRequested \/ interrupted
             \/ \A t \in Threads : pc[t] = "left")

(***************************************************************************)
(* stop(false) and interruption end all threads, and so does stop(true)    *)
(* unless a repeated task keeps the queue from getting empty.  (The three  *)
(* flags are never cleared.)                                               *)
(***************************************************************************)
AllStop ==
    []<>(\/ ~(stopRequested \/ interrupted \/ stopWhenEmpty)
         \/ InService = {}
         \/ /\ ~stopRequested /\ ~interrupted
            /\ \E k \in Tasks \ unscheduled : Period[k] # 0)
=============================================================================
