--------------------------- MODULE ThreadPoolProofs ---------------------------
(***************************************************************************)
(* Proofs about ThreadPool, for every number of threads and of tasks.      *)
(***************************************************************************)
EXTENDS ThreadPool, FiniteSetTheorems, SequenceTheorems, TLAPS

(* Type correctness, and where the threads are in each state of the pool.  *)

\* A thread has a task exactly while it runs one, and its place fits _Running.
PoolInv ==
    /\ TypeOK
    /\ \A w \in Workers : task[w] # None <=> worker[w] \in {"run", "drainrun"}
    /\ \A i \in 1 .. Len(queue) : queue[i] \in added
    /\ \A w \in Workers :
          /\ task[w] \in added \cup {None}
          /\ running = "STOP" => worker[w] = "none"
          /\ running = "RUNNING" => worker[w] \in {"lock", "waiting", "run"}
          /\ running = "STOPPING" =>
                worker[w] \in {"lock", "run", "drain", "drainrun", "exited"}

\* A new pool satisfies the invariant.
LEMMA PoolInvInit == Init => PoolInv
  BY PoolAssumption, EmptySeq DEF Init, PoolInv, TypeOK, Places

\* Every step of the pool keeps the invariant (Start, AddTask, Stop, Runner).
LEMMA PoolInvStep ==
    ASSUME PoolInv, [Next]_vars
    PROVE  PoolInv'
<1> USE PoolAssumption DEF PoolInv, TypeOK, Places
<1>1. CASE Start
  BY <1>1 DEF Start
<1>2. CASE Stop
  BY <1>2 DEF Stop
<1>3. CASE StopReturns
  BY <1>3 DEF StopReturns
<1>4. ASSUME NEW t \in Tasks, AddTask(t)
      PROVE  PoolInv'
  <2>1. queue' \in Seq(Tasks) /\ \A i \in 1 .. Len(queue') : queue'[i] \in added'
    BY <1>4, AppendProperties DEF AddTask
  <2>2. CASE worker' = worker
    BY <1>4, <2>1, <2>2 DEF AddTask
  <2>3. ASSUME NEW w \in At("waiting"), worker' = [worker EXCEPT ![w] = "lock"]
        PROVE  PoolInv'
    BY <1>4, <2>1, <2>3 DEF AddTask, At
  <2> QED
    BY <1>4, <2>2, <2>3 DEF AddTask, NotifyOne
<1>5. ASSUME NEW w \in Workers, Wait(w)
      PROVE  PoolInv'
  BY <1>5 DEF Wait
<1>6. ASSUME NEW w \in Workers, Wake(w)
      PROVE  PoolInv'
  BY <1>6 DEF Wake
<1>7. ASSUME NEW w \in Workers, TakeTask(w) \/ DrainTask(w)
      PROVE  PoolInv'
  <2>1. queue \in Seq(Tasks) /\ queue # <<>> /\ Len(queue) \in Nat \ {0}
    BY <1>7, EmptySeq DEF TakeTask, DrainTask, Take
  <2>2. /\ Head(queue) = queue[1]
        /\ Head(queue) \in Tasks
        /\ Tail(queue) \in Seq(Tasks)
        /\ Len(Tail(queue)) = Len(queue) - 1
        /\ \A i \in 1 .. Len(Tail(queue)) : Tail(queue)[i] = queue[i + 1]
    BY <2>1, HeadTailProperties
  <2>3. Head(queue) \in added /\ \A i \in 1 .. Len(Tail(queue)) : Tail(queue)[i] \in added
    BY <2>1, <2>2
  <2>4. CASE TakeTask(w)
    BY <2>2, <2>3, <2>4 DEF TakeTask, Take
  <2>5. CASE DrainTask(w)
    BY <2>2, <2>3, <2>5 DEF DrainTask, Take
  <2> QED
    BY <1>7, <2>4, <2>5
<1>8. ASSUME NEW w \in Workers, Leave(w)
      PROVE  PoolInv'
  BY <1>8 DEF Leave
<1>9. ASSUME NEW w \in Workers, Exit(w)
      PROVE  PoolInv'
  BY <1>9 DEF Exit
<1>10. ASSUME NEW w \in Workers, FinishTask(w)
       PROVE  PoolInv'
  BY <1>10 DEF FinishTask
<1>11. CASE UNCHANGED vars
  BY <1>11 DEF vars
<1> QED
  BY <1>1, <1>2, <1>3, <1>4, <1>5, <1>6, <1>7, <1>8, <1>9, <1>10, <1>11 DEF Next, Run

\* The variables of the pool keep their types.
THEOREM PoolTypeCorrect == Spec => []TypeOK
<1>1. PoolInv /\ [Next]_vars => PoolInv'
  BY PoolInvStep
<1>2. PoolInv => TypeOK
  BY DEF PoolInv
<1> QED
  BY <1>1, <1>2, PoolInvInit, PTL DEF Spec

-----------------------------------------------------------------------------
(* No wake-up is lost.                                                      *)

\* The threads at a place can be counted.
LEMMA AtFinite ==
    ASSUME NEW place
    PROVE  IsFiniteSet(At(place)) /\ Cardinality(At(place)) \in Nat
<1>1. At(place) \in SUBSET Workers
  BY DEF At
<1> QED
  BY <1>1, PoolAssumption, FS_Subset, FS_CardinalityType

\* One thread comes to a place, or leaves it.
LEMMA Arrives ==
    ASSUME PoolInv, PoolInv', NEW w \in Workers, NEW from, NEW to, from # to,
           worker[w] = from, worker' = [worker EXCEPT ![w] = to]
    PROVE  /\ Cardinality(At(to)') = Cardinality(At(to)) + 1
           /\ Cardinality(At(from)') = Cardinality(At(from)) - 1
<1> USE DEF PoolInv, TypeOK
<1>1. At(to)' = At(to) \cup {w} /\ w \notin At(to)
  BY DEF At
<1>2. At(from)' = At(from) \ {w} /\ w \in At(from)
  BY DEF At
<1>3. Cardinality(At(to)') = Cardinality(At(to)) + 1
  <2>1. IsFiniteSet(At(to))
    BY AtFinite
  <2>2. Cardinality(At(to) \cup {w}) = Cardinality(At(to)) + 1
    BY <1>1, <2>1, FS_AddElement
  <2> QED
    BY <1>1, <2>2
<1>4. Cardinality(At(from)') = Cardinality(At(from)) - 1
  <2>1. IsFiniteSet(At(from))
    BY AtFinite
  <2>2. Cardinality(At(from) \ {w}) = Cardinality(At(from)) - 1
    BY <1>2, <2>1, FS_RemoveElement
  <2> QED
    BY <1>2, <2>2
<1> QED
  BY <1>3, <1>4

WakeInv == PoolInv /\ NoLostWakeup

\* No step leaves a waiting thread behind a task that nobody comes for.
LEMMA WakeInvStep ==
    ASSUME WakeInv, [Next]_vars
    PROVE  WakeInv'
<1>1. PoolInv /\ PoolInv'
  BY PoolInvStep DEF WakeInv
<1>2. queue \in Seq(Tasks) /\ Len(queue) \in Nat /\ worker \in [Workers -> Places]
  BY <1>1 DEF PoolInv, TypeOK
<1>3. /\ Cardinality(At("lock")) \in Nat
      /\ IsFiniteSet(At("lock"))
  BY AtFinite
<1> SUFFICES NoLostWakeup'
  BY <1>1 DEF WakeInv
<1>4. ASSUME At("waiting")' = {} PROVE NoLostWakeup'
  BY <1>4 DEF NoLostWakeup
<1>5. CASE Start \/ Stop \/ StopReturns
  <2>1. At("waiting")' = {}
    BY <1>2, <1>5 DEF Start, Stop, StopReturns, At
  <2> QED
    BY <1>4, <2>1
<1>6. ASSUME NEW t \in Tasks, AddTask(t)
      PROVE  NoLostWakeup'
  <2>1. Len(queue') = Len(queue) + 1
    BY <1>2, <1>6, AppendProperties DEF AddTask
  <2>2. CASE At("waiting") = {}
    <3>1. At("waiting")' = {}
      BY <1>6, <2>2 DEF AddTask, NotifyOne, At
    <3> QED
      BY <1>4, <3>1
  <2>3. CASE At("waiting") # {}
    <3>1. Len(queue) <= Cardinality(At("lock"))
      BY <2>3 DEF WakeInv, NoLostWakeup
    <3>2. PICK w \in At("waiting") : worker' = [worker EXCEPT ![w] = "lock"]
      BY <1>6, <2>3 DEF AddTask, NotifyOne
    <3>3. Cardinality(At("lock")') = Cardinality(At("lock")) + 1
      <4>1. w \in Workers /\ worker[w] = "waiting"
        BY DEF At
      <4> QED
        BY <1>1, <3>2, <4>1, Arrives
    <3> QED
      BY <1>2, <1>3, <2>1, <3>1, <3>3 DEF NoLostWakeup
  <2> QED
    BY <2>2, <2>3
<1>7. ASSUME NEW w \in Workers, Wait(w)
      PROVE  NoLostWakeup'
  <2>1. queue' = <<>> /\ Len(queue') = 0
    BY <1>7 DEF Wait
  <2>2. Cardinality(At("lock")') \in Nat
    <3>1. At("lock")' = At("lock") \ {w}
      BY <1>2, <1>7 DEF Wait, At
    <3> QED
      BY <1>3, <3>1, FS_RemoveElement, FS_CardinalityType
  <2> QED
    BY <2>1, <2>2 DEF NoLostWakeup
<1>8. ASSUME NEW w \in Workers, Wake(w)
      PROVE  NoLostWakeup'
  <2>1. Len(queue) <= Cardinality(At("lock"))
    BY <1>8 DEF WakeInv, NoLostWakeup, Wake, At
  <2>2. Cardinality(At("lock")') = Cardinality(At("lock")) + 1 /\ queue' = queue
    BY <1>1, <1>8, Arrives DEF Wake
  <2> QED
    BY <1>2, <1>3, <2>1, <2>2 DEF NoLostWakeup
<1>9. ASSUME NEW w \in Workers, TakeTask(w)
      PROVE  NoLostWakeup'
  <2>1. worker[w] = "lock" /\ worker' = [worker EXCEPT ![w] = "run"]
    BY <1>9 DEF TakeTask, Take
  <2>2. /\ Cardinality(At("lock")') = Cardinality(At("lock")) - 1
        /\ At("waiting")' = At("waiting")
    <3>1. Cardinality(At("lock")') = Cardinality(At("lock")) - 1
      BY <1>1, <2>1, Arrives
    <3>2. At("waiting")' = At("waiting")
      BY <1>2, <2>1 DEF At
    <3> QED
      BY <3>1, <3>2
  <2>3. queue' = Tail(queue) /\ queue # <<>>
    BY <1>9 DEF TakeTask, Take
  <2>4. Len(queue') = Len(queue) - 1
    BY <1>2, <2>3, HeadTailProperties
  <2> QED
    BY <1>2, <1>3, <2>2, <2>4 DEF WakeInv, NoLostWakeup
<1>10. ASSUME NEW w \in Workers, FinishTask(w)
       PROVE  NoLostWakeup'
  <2>1. CASE worker[w] = "run"
    <3>1. /\ Cardinality(At("lock")') = Cardinality(At("lock")) + 1
          /\ At("waiting")' = At("waiting")
          /\ queue' = queue
      <4>1. worker' = [worker EXCEPT ![w] = "lock"] /\ queue' = queue
        BY <1>10, <2>1 DEF FinishTask
      <4>2. Cardinality(At("lock")') = Cardinality(At("lock")) + 1
        BY <1>1, <2>1, <4>1, Arrives
      <4>3. At("waiting")' = At("waiting")
        BY <1>2, <2>1, <4>1 DEF At
      <4> QED
        BY <4>1, <4>2, <4>3
    <3> QED
      BY <1>2, <1>3, <3>1 DEF WakeInv, NoLostWakeup
  <2>2. CASE worker[w] = "drainrun"
    <3>1. At("lock")' = At("lock") /\ At("waiting")' = At("waiting") /\ queue' = queue
      BY <1>2, <1>10, <2>2 DEF FinishTask, At
    <3> QED
      BY <3>1 DEF WakeInv, NoLostWakeup
  <2> QED
    BY <1>10, <2>1, <2>2 DEF FinishTask
<1>11. ASSUME NEW w \in Workers, Leave(w) \/ DrainTask(w) \/ Exit(w)
       PROVE  NoLostWakeup'
  <2>1. running # "RUNNING"
    BY <1>1, <1>11 DEF Leave, DrainTask, Take, Exit, PoolInv
  <2>2. At("waiting") = {}
    BY <1>1, <2>1 DEF PoolInv, TypeOK, At
  <2>3. At("waiting")' = {}
    BY <1>2, <1>11, <2>2 DEF Leave, DrainTask, Take, Exit, At
  <2> QED
    BY <1>4, <2>3
<1>12. CASE UNCHANGED vars
  BY <1>12 DEF vars, WakeInv, NoLostWakeup, At
<1> QED
  BY <1>5, <1>6, <1>7, <1>8, <1>9, <1>10, <1>11, <1>12 DEF Next, Run

\* While a thread waits there are as many threads on their way to the queue as
\* tasks in it, for any number of threads (AddTask, Runner).
THEOREM NoWakeupIsLost == Spec => []NoLostWakeup
<1>1. Init => WakeInv
  <2>1. Init => At("waiting") = {}
    BY DEF Init, At
  <2> QED
    BY <2>1, PoolInvInit DEF WakeInv, NoLostWakeup
<1>2. WakeInv /\ [Next]_vars => WakeInv'
  BY WakeInvStep
<1>3. WakeInv => NoLostWakeup
  BY DEF WakeInv
<1> QED
  BY <1>1, <1>2, <1>3, PTL DEF Spec

-----------------------------------------------------------------------------
(* Stop leaves no task behind.                                             *)

Queued(t) == \E i \in 1 .. Len(queue) : queue[i] = t
Held(t) == \E w \in Workers : task[w] = t

\* An owed task is queued, held by a thread or done; a thread leaves the second
\* loop only when no owed task is queued, and none is added after that.
DrainInv ==
    /\ PoolInv
    /\ \A t \in owed : t \in done \/ Queued(t) \/ Held(t)
    /\ (\E w \in Workers : worker[w] \in {"exited", "none"}) => \A t \in owed : ~Queued(t)

\* Every step keeps a task that is owed in the queue, with a thread or done, and someone
\* to drain the queue.
LEMMA DrainInvStep ==
    ASSUME DrainInv, [Next]_vars
    PROVE  DrainInv'
<1>1. PoolInv /\ PoolInv'
  BY PoolInvStep DEF DrainInv
<1>2. /\ queue \in Seq(Tasks) /\ Len(queue) \in Nat
      /\ worker \in [Workers -> Places] /\ task \in [Workers -> Tasks \cup {None}]
      /\ owed \subseteq Tasks
  BY <1>1 DEF PoolInv, TypeOK
<1> DEFINE Safe == \A t \in owed : t \in done \/ Queued(t) \/ Held(t)
           Empty == (\E w \in Workers : worker[w] \in {"exited", "none"}) =>
                        \A t \in owed : ~Queued(t)
<1>3. Safe /\ Empty
  BY DEF DrainInv
<1> SUFFICES Safe' /\ Empty'
  BY <1>1 DEF DrainInv
<1>4. ASSUME UNCHANGED <<queue, task, owed, done>>,
             \/ \A w \in Workers : worker'[w] \notin {"exited", "none"}
             \/ \E w \in Workers : worker[w] \in {"exited", "none"}
             \/ queue = <<>>
      PROVE  Safe' /\ Empty'
  <2>1. Safe'
    BY <1>3, <1>4 DEF Queued, Held
  <2>2. Empty'
    BY <1>3, <1>4 DEF Queued
  <2> QED
    BY <2>1, <2>2
<1>5. CASE Start \/ Stop \/ StopReturns
  <2>1. CASE Start
    BY <1>4, <2>1 DEF Start
  <2>2. CASE Stop
    BY <1>1, <1>4, <2>2 DEF Stop, PoolInv
  <2>3. CASE StopReturns
    BY <1>4, <2>3, PoolAssumption DEF StopReturns
  <2> QED
    BY <1>5, <2>1, <2>2, <2>3
<1>6. ASSUME NEW t \in Tasks, AddTask(t)
      PROVE  Safe' /\ Empty'
  <2>1. /\ Len(queue') = Len(queue) + 1
        /\ queue'[Len(queue) + 1] = t
        /\ \A i \in 1 .. Len(queue) : queue'[i] = queue[i]
        /\ t \notin owed
    BY <1>1, <1>2, <1>6, AppendProperties DEF AddTask, PoolInv, TypeOK
  <2>2. \A u : Queued(u)' <=> Queued(u) \/ u = t
    BY <1>2, <2>1 DEF Queued
  <2>3. \A u : Held(u)' <=> Held(u)
    BY <1>6 DEF AddTask, Held
  <2>4. Safe'
    BY <1>3, <1>6, <2>2, <2>3 DEF AddTask
  <2>5. Empty'
    <3>1. CASE running = "RUNNING"
      BY <1>1, <1>6, <3>1 DEF AddTask, PoolInv
    <3>2. CASE running # "RUNNING"
      <4>1. owed' = owed
        BY <1>6, <3>2 DEF AddTask
      <4>2. At("waiting") = {}
        BY <1>1, <3>2 DEF At, PoolInv, TypeOK
      <4>3. worker' = worker
        BY <1>6, <4>2 DEF AddTask, NotifyOne
      <4> QED
        BY <1>3, <2>1, <2>2, <4>1, <4>3
    <3> QED
      BY <3>1, <3>2
  <2> QED
    BY <2>4, <2>5
<1>7. ASSUME NEW w \in Workers, Wait(w) \/ Wake(w) \/ Leave(w) \/ Exit(w)
      PROVE  Safe' /\ Empty'
  <2>1. CASE Exit(w)
    BY <1>4, <2>1 DEF Exit
  <2>2. CASE Wait(w) \/ Wake(w) \/ Leave(w)
    <3>1. PICK place \in {"waiting", "lock", "drain"} : worker' = [worker EXCEPT ![w] = place]
      BY <2>2 DEF Wait, Wake, Leave
    <3>2. \A v \in Workers : worker'[v] \in {"exited", "none"} => worker[v] \in {"exited", "none"}
      BY <1>2, <3>1
    <3> QED
      BY <1>4, <2>2, <3>2 DEF Wait, Wake, Leave
  <2> QED
    BY <1>7, <2>1, <2>2
<1>8. ASSUME NEW w \in Workers, TakeTask(w) \/ DrainTask(w)
      PROVE  Safe' /\ Empty'
  <2>1. /\ queue # <<>> /\ queue' = Tail(queue)
        /\ task' = [task EXCEPT ![w] = Head(queue)]
        /\ UNCHANGED <<owed, done>>
        /\ task[w] = None
        /\ \A v \in Workers : worker'[v] \in {"exited", "none"} => worker[v] \in {"exited", "none"}
    BY <1>1, <1>2, <1>8 DEF TakeTask, DrainTask, Take, PoolInv
  <2>2. /\ Head(queue) = queue[1]
        /\ Len(Tail(queue)) = Len(queue) - 1
        /\ \A i \in 1 .. Len(Tail(queue)) : Tail(queue)[i] = queue[i + 1]
        /\ Len(queue) # 0
    BY <1>2, <2>1, HeadTailProperties, EmptySeq
  <2>3. \A t : Queued(t) => Queued(t)' \/ t = queue[1]
    <3> SUFFICES ASSUME NEW t, NEW i \in 1 .. Len(queue), queue[i] = t, i # 1
                 PROVE  Queued(t)'
      BY DEF Queued
    <3>1. i - 1 \in 1 .. Len(queue') /\ queue'[i - 1] = t
      BY <1>2, <2>1, <2>2
    <3> QED
      BY <3>1 DEF Queued
  <2>4. \A t : Queued(t)' => Queued(t)
    <3> SUFFICES ASSUME NEW t, NEW i \in 1 .. Len(queue'), queue'[i] = t
                 PROVE  Queued(t)
      BY DEF Queued
    <3>1. i + 1 \in 1 .. Len(queue) /\ queue[i + 1] = t
      BY <1>2, <2>1, <2>2
    <3> QED
      BY <3>1 DEF Queued
  <2>5. \A t \in owed : Held(t) => Held(t)'
    <3> SUFFICES ASSUME NEW t \in owed, NEW v \in Workers, task[v] = t
                 PROVE  Held(t)'
      BY DEF Held
    <3>1. t # None
      BY <1>2, PoolAssumption
    <3>2. v # w /\ task'[v] = t
      BY <1>2, <2>1, <3>1
    <3> QED
      BY <3>2 DEF Held
  <2>6. task'[w] = queue[1]
    BY <1>2, <2>1, <2>2
  <2>7. \A t : t = queue[1] => Held(t)'
    BY <2>6 DEF Held
  <2>8. Safe'
    BY <1>3, <2>1, <2>3, <2>5, <2>7
  <2>9. Empty'
    BY <1>3, <2>1, <2>4
  <2> QED
    BY <2>8, <2>9
<1>9. ASSUME NEW w \in Workers, FinishTask(w)
      PROVE  Safe' /\ Empty'
  <2>1. /\ UNCHANGED <<queue, owed>>
        /\ done' = done \cup {task[w]}
        /\ \A v \in Workers : v # w => task'[v] = task[v]
        /\ \A v \in Workers : worker'[v] \in {"exited", "none"} => worker[v] \in {"exited", "none"}
    BY <1>2, <1>9 DEF FinishTask
  <2>2. \A t : Queued(t)' <=> Queued(t)
    BY <2>1 DEF Queued
  <2>3. \A t : Held(t) => Held(t)' \/ t \in done'
    BY <2>1 DEF Held
  <2>4. Safe'
    BY <1>3, <2>1, <2>2, <2>3
  <2>5. Empty'
    BY <1>3, <2>1, <2>2
  <2> QED
    BY <2>4, <2>5
<1>10. CASE UNCHANGED vars
  BY <1>3, <1>10 DEF vars, Queued, Held
<1> QED
  BY <1>5, <1>6, <1>7, <1>8, <1>9, <1>10 DEF Next, Run

\* When Stop has returned every task added to the running pool has run, for any
\* number of threads and tasks and however Stop meets them (Runner, Stop).
THEOREM StopLeavesNothing == Spec => []StopDrains
<1>1. Init => DrainInv
  BY PoolInvInit DEF Init, DrainInv
<1>2. DrainInv /\ [Next]_vars => DrainInv'
  BY DrainInvStep
<1>3. DrainInv => StopDrains
  <2> SUFFICES ASSUME DrainInv, running = "STOP", NEW t \in owed PROVE t \in done
    BY DEF StopDrains
  <2>1. \A w \in Workers : worker[w] = "none" /\ task[w] = None
    BY DEF DrainInv, PoolInv
  <2>2. ~Queued(t)
    BY <2>1, PoolAssumption DEF DrainInv
  <2>3. ~Held(t)
    BY <2>1, PoolAssumption DEF Held, DrainInv, PoolInv, TypeOK
  <2> QED
    BY <2>2, <2>3 DEF DrainInv
<1> QED
  BY <1>1, <1>2, <1>3, PTL DEF Spec

-----------------------------------------------------------------------------
(* No task runs twice.                                                     *)

\* Every step keeps a task in one place at a time: it is new when it is queued, and
\* a thread that takes it has none (AddTask, Runner).
LEMMA RunsOnceStep ==
    ASSUME PoolInv, RunsOnce, [Next]_vars
    PROVE  RunsOnce'
<1>1. /\ queue \in Seq(Tasks) /\ Len(queue) \in Nat
      /\ worker \in [Workers -> Places] /\ task \in [Workers -> Tasks \cup {None}]
      /\ done \subseteq added /\ added \subseteq Tasks
      /\ \A i \in 1 .. Len(queue) : queue[i] \in added /\ queue[i] \in Tasks
  BY DEF PoolInv, TypeOK
<1>2. ASSUME UNCHANGED <<queue, task, done>> PROVE RunsOnce'
  BY <1>2 DEF RunsOnce
<1>3. CASE Start \/ Stop \/ StopReturns
  BY <1>2, <1>3 DEF Start, Stop, StopReturns
<1>4. ASSUME NEW t \in Tasks, AddTask(t)
      PROVE  RunsOnce'
  <2>1. /\ Len(queue') = Len(queue) + 1
        /\ queue'[Len(queue) + 1] = t
        /\ \A i \in 1 .. Len(queue) : queue'[i] = queue[i]
        /\ t \notin added
        /\ UNCHANGED <<task, done>>
    BY <1>1, <1>4, AppendProperties DEF AddTask
  <2>2. \A i \in 1 .. Len(queue') : i \in 1 .. Len(queue) \/ i = Len(queue) + 1
    BY <1>1, <2>1
  <2>3. \A i, j \in 1 .. Len(queue') : queue'[i] = queue'[j] => i = j
    BY <1>1, <2>1, <2>2 DEF RunsOnce
  <2>4. \A i \in 1 .. Len(queue') : queue'[i] \notin done
    BY <1>1, <2>1, <2>2 DEF RunsOnce
  <2>5. \A w \in Workers : \A i \in 1 .. Len(queue') : task[w] # queue'[i]
    <3>1. \A w \in Workers : task[w] # t
      BY <2>1, PoolAssumption DEF PoolInv
    <3> QED
      BY <1>1, <2>1, <2>2, <3>1 DEF RunsOnce
  <2> QED
    BY <2>1, <2>3, <2>4, <2>5 DEF RunsOnce
<1>5. ASSUME NEW w \in Workers, Wait(w) \/ Wake(w) \/ Leave(w) \/ Exit(w)
      PROVE  RunsOnce'
  BY <1>2, <1>5 DEF Wait, Wake, Leave, Exit
<1>6. ASSUME NEW w \in Workers, TakeTask(w) \/ DrainTask(w)
      PROVE  RunsOnce'
  <2>1. /\ queue # <<>> /\ queue' = Tail(queue)
        /\ task' = [task EXCEPT ![w] = Head(queue)]
        /\ UNCHANGED done
    BY <1>6 DEF TakeTask, DrainTask, Take
  <2>2. /\ Head(queue) = queue[1]
        /\ Len(queue') = Len(queue) - 1
        /\ \A i \in 1 .. Len(queue') : queue'[i] = queue[i + 1]
        /\ 1 \in 1 .. Len(queue)
    BY <1>1, <2>1, HeadTailProperties, EmptySeq
  <2>3. \A i \in 1 .. Len(queue') : i + 1 \in 1 .. Len(queue) /\ i + 1 # 1
    BY <1>1, <2>2
  <2>4. \A i, j \in 1 .. Len(queue') : queue'[i] = queue'[j] => i = j
    BY <1>1, <2>2, <2>3 DEF RunsOnce
  <2>5. \A i \in 1 .. Len(queue') : queue'[i] \notin done /\ queue'[i] # queue[1]
    BY <2>2, <2>3 DEF RunsOnce
  <2>6. \A v \in Workers : task'[v] = IF v = w THEN queue[1] ELSE task[v]
    BY <1>1, <2>1, <2>2
  <2>7. \A v \in Workers : \A i \in 1 .. Len(queue') : task'[v] # queue'[i]
    BY <2>2, <2>3, <2>5, <2>6 DEF RunsOnce
  <2>8. \A v \in Workers : task[v] # queue[1] /\ task'[v] \notin done
    BY <2>2, <2>6 DEF RunsOnce
  <2>9. \A u, v \in Workers : task'[u] = task'[v] /\ task'[u] # None => u = v
    BY <2>6, <2>8 DEF RunsOnce
  <2> QED
    BY <2>1, <2>4, <2>5, <2>7, <2>8, <2>9 DEF RunsOnce
<1>7. ASSUME NEW w \in Workers, FinishTask(w)
      PROVE  RunsOnce'
  <2>1. /\ UNCHANGED queue
        /\ done' = done \cup {task[w]}
        /\ \A v \in Workers : task'[v] = IF v = w THEN None ELSE task[v]
        /\ task[w] # None
    BY <1>1, <1>7 DEF FinishTask, PoolInv
  <2>2. None \notin done'
    BY <1>1, <2>1, PoolAssumption
  <2>3. \A v \in Workers : task'[v] \notin done'
    BY <2>1, <2>2 DEF RunsOnce
  <2>4. \A v \in Workers : \A i \in 1 .. Len(queue) : task'[v] # queue[i]
    BY <1>1, <2>1, PoolAssumption DEF RunsOnce
  <2> QED
    BY <2>1, <2>3, <2>4 DEF RunsOnce
<1>8. CASE UNCHANGED vars
  BY <1>2, <1>8 DEF vars
<1> QED
  BY <1>3, <1>4, <1>5, <1>6, <1>7, <1>8 DEF Next, Run

\* For any number of threads and tasks, a task is in the queue once, with one thread
\* or done: none runs twice, or in two threads (AddTask, both loops of Runner).
THEOREM EveryTaskRunsOnce == Spec => []RunsOnce
<1>1. Init => RunsOnce
  BY EmptySeq DEF Init, RunsOnce
<1>2. PoolInv /\ RunsOnce /\ [Next]_vars => PoolInv' /\ RunsOnce'
  BY PoolInvStep, RunsOnceStep
<1> QED
  BY <1>1, <1>2, PoolInvInit, PTL DEF Spec

=============================================================================
