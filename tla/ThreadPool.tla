------------------------------ MODULE ThreadPool ------------------------------
(***************************************************************************)
(* my_net::ThreadPool: a fixed number of threads that run Runner over a    *)
(* queue of tasks guarded by one mutex and one condition variable.         *)
(*                                                                         *)
(* What a thread does between taking and releasing the mutex is one action.*)
(* Start, AddTask and the two critical sections of Stop are called by any  *)
(* thread; the join between the latter is the guard of StopReturns.  A     *)
(* waiting thread may also wake with no notification, as the C++ standard  *)
(* allows.                                                                 *)
(***************************************************************************)
EXTENDS Naturals, Sequences, FiniteSets

CONSTANTS
    Workers,  \* the threads Start creates, _Size of them
    Tasks,    \* the tasks; each is given to AddTask once at most
    None      \* no task

ASSUME PoolAssumption ==
    /\ IsFiniteSet(Workers)
    /\ Workers # {}
    /\ None \notin Tasks

VARIABLES
    running,   \* _Running
    queue,     \* _TaskQueue
    worker,    \* where each thread of _Pool is
    task,      \* the task each thread runs
    added,     \* tasks given to AddTask
    owed,      \* those of them given while the pool was RUNNING
    done       \* tasks whose Run has returned

vars == <<running, queue, worker, task, added, owed, done>>

Places == {"none",      \* not created, or joined and cleared from _Pool
           "lock",      \* at the mutex of the first loop of Runner
           "waiting",   \* in _ConditionVariable.wait
           "run",       \* in task->Run(), from the first loop
           "drain",     \* at the mutex of the second loop
           "drainrun",  \* in task->Run(), from the second loop
           "exited"}    \* Runner has returned

TypeOK ==
    /\ running \in {"STOP", "RUNNING", "STOPPING"}
    /\ queue \in Seq(Tasks)
    /\ worker \in [Workers -> Places]
    /\ task \in [Workers -> Tasks \cup {None}]
    /\ added \subseteq Tasks
    /\ owed \subseteq added
    /\ done \subseteq added

Init ==
    /\ running = "STOP"
    /\ queue = <<>>
    /\ worker = [w \in Workers |-> "none"]
    /\ task = [w \in Workers |-> None]
    /\ added = {}
    /\ owed = {}
    /\ done = {}

At(place) == {w \in Workers : worker[w] = place}

-----------------------------------------------------------------------------
(* The callers.                                                            *)

Start ==
    /\ running = "STOP"
    /\ running' = "RUNNING"
    /\ worker' = [w \in Workers |-> "lock"]
    /\ UNCHANGED <<queue, task, added, owed, done>>

\* Mutant: no thread is notified of a task.
NotifyNobody == worker' = worker

\* notify_one wakes one waiting thread, any of them.
NotifyOne ==
    IF At("waiting") = {}
      THEN worker' = worker
      ELSE \E w \in At("waiting") : worker' = [worker EXCEPT ![w] = "lock"]

\* The task is queued in every state of the pool.
AddTask(t) ==
    /\ t \notin added
    /\ queue' = Append(queue, t)
    /\ NotifyOne
    /\ added' = added \cup {t}
    /\ owed' = IF running = "RUNNING" THEN owed \cup {t} ELSE owed
    /\ UNCHANGED <<running, task, done>>

\* Mutant: Stop notifies one thread.
StopMutant ==
    /\ running = "RUNNING"
    /\ running' = "STOPPING"
    /\ NotifyOne
    /\ UNCHANGED <<queue, task, added, owed, done>>

\* Stop, its first critical section: notify_all.
Stop ==
    /\ running = "RUNNING"
    /\ running' = "STOPPING"
    /\ worker' = [w \in Workers |-> IF worker[w] = "waiting" THEN "lock" ELSE worker[w]]
    /\ UNCHANGED <<queue, task, added, owed, done>>

\* Stop has joined every thread; its second critical section.
StopReturns ==
    /\ running = "STOPPING"
    /\ \A w \in Workers : worker[w] = "exited"
    /\ running' = "STOP"
    /\ worker' = [w \in Workers |-> "none"]
    /\ UNCHANGED <<queue, task, added, owed, done>>

-----------------------------------------------------------------------------
(* Runner.                                                                 *)

\* The queue is empty and the pool runs: the thread waits.
Wait(w) ==
    /\ worker[w] = "lock"
    /\ queue = <<>> /\ running = "RUNNING"
    /\ worker' = [worker EXCEPT ![w] = "waiting"]
    /\ UNCHANGED <<running, queue, task, added, owed, done>>

\* Mutant: "if" in place of "while" around the wait: the thread goes on to pop.
WakeMutant(w) ==
    /\ worker[w] = "waiting"
    /\ worker' = [worker EXCEPT ![w] = "run"]
    /\ UNCHANGED <<running, queue, task, added, owed, done>>

\* A spurious wake-up: the thread takes the mutex and tests its condition again.
Wake(w) ==
    /\ worker[w] = "waiting"
    /\ worker' = [worker EXCEPT ![w] = "lock"]
    /\ UNCHANGED <<running, queue, task, added, owed, done>>

\* Mutant: the task is copied and not popped.
TakeMutant(w, from, to) ==
    /\ worker[w] = from
    /\ queue # <<>>
    /\ task' = [task EXCEPT ![w] = Head(queue)]
    /\ queue' = IF Len(queue) = 1 THEN queue ELSE Tail(queue)
    /\ worker' = [worker EXCEPT ![w] = to]
    /\ UNCHANGED <<running, added, owed, done>>

\* A thread at "from" pops the first task and goes on to run it at "to".
Take(w, from, to) ==
    /\ worker[w] = from
    /\ queue # <<>>
    /\ task' = [task EXCEPT ![w] = Head(queue)]
    /\ queue' = Tail(queue)
    /\ worker' = [worker EXCEPT ![w] = to]
    /\ UNCHANGED <<running, added, owed, done>>

TakeTask(w) == running = "RUNNING" /\ Take(w, "lock", "run")

\* Mutant: a thread that sees the pool stopping ends at once.
LeaveMutant(w) ==
    /\ worker[w] = "lock"
    /\ running # "RUNNING"
    /\ worker' = [worker EXCEPT ![w] = "exited"]
    /\ UNCHANGED <<running, queue, task, added, owed, done>>

\* The pool is stopping: on to the second loop.
Leave(w) ==
    /\ worker[w] = "lock"
    /\ running # "RUNNING"
    /\ worker' = [worker EXCEPT ![w] = "drain"]
    /\ UNCHANGED <<running, queue, task, added, owed, done>>

DrainTask(w) == Take(w, "drain", "drainrun")

Exit(w) ==
    /\ worker[w] = "drain"
    /\ queue = <<>>
    /\ worker' = [worker EXCEPT ![w] = "exited"]
    /\ UNCHANGED <<running, queue, task, added, owed, done>>

\* task->Run() returns.
FinishTask(w) ==
    /\ worker[w] \in {"run", "drainrun"}
    /\ done' = done \cup {task[w]}
    /\ task' = [task EXCEPT ![w] = None]
    /\ worker' = [worker EXCEPT ![w] = IF worker[w] = "run" THEN "lock" ELSE "drain"]
    /\ UNCHANGED <<running, queue, added, owed>>

\* What a thread does by itself; its waking up needs a notification.
Run(w) == Wait(w) \/ TakeTask(w) \/ Leave(w) \/ DrainTask(w) \/ Exit(w)

Next ==
    \/ Start \/ Stop \/ StopReturns
    \/ \E t \in Tasks : AddTask(t)
    \/ \E w \in Workers : Run(w) \/ Wake(w) \/ FinishTask(w)

Spec == Init /\ [][Next]_vars

\* Every thread that can run does, the join returns, and every task ends.
FairSpec ==
    /\ Spec
    /\ WF_vars(StopReturns)
    /\ \A w \in Workers : WF_vars(Run(w)) /\ WF_vars(FinishTask(w))

-----------------------------------------------------------------------------
(* Properties.                                                             *)

\* A task is in one place at a time: once in the queue, with one thread, or done.
\* No task runs twice or in two threads (Runner, both loops).
RunsOnce ==
    /\ \A i, j \in 1 .. Len(queue) : queue[i] = queue[j] => i = j
    /\ \A i \in 1 .. Len(queue) : queue[i] \notin done
    /\ \A w \in Workers : \A i \in 1 .. Len(queue) : task[w] # queue[i]
    /\ \A v, w \in Workers : task[v] = task[w] /\ task[v] # None => v = w
    /\ \A w \in Workers : task[w] \notin done

\* When Stop has returned, every task added to the running pool has run: none is
\* left behind between the two loops of Runner (thread_pool.cc:39-54, the comment
\* at 41; tests/test_thread_pool.h:15-24).
StopDrains == running = "STOP" => owed \subseteq done

\* While some thread waits, there are at least as many threads on their way to
\* the queue as tasks in it: notify_one loses no wake-up, and tasks that never
\* end (the event loops) do not keep another one from a thread that is free.
NoLostWakeup ==
    At("waiting") # {} => Len(queue) <= Cardinality(At("lock"))

\* Stop always returns when the tasks do, whatever is added meanwhile.
StopTerminates == (running = "STOPPING") ~> (running = "STOP")

\* A task added to the running pool runs, whether or not the pool is stopped.
OwedIsDone == \A t \in Tasks : (t \in owed) ~> (t \in done)

=============================================================================
