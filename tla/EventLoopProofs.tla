--------------------------- MODULE EventLoopProofs ---------------------------
(***************************************************************************)
(* Proofs about the event loops: about MyNet, which runs them in its pool, *)
(* for any number of loops and of users, and about the Timer of a loop,    *)
(* for any items, threads, timeouts and bound of the clock.                *)
(***************************************************************************)
EXTENDS MyNet, Timer, FiniteSetTheorems, SequenceTheorems, WellFoundedInduction, TLAPS

\* The proofs about the pool, with loops for threads and for tasks.
PP == INSTANCE ThreadPoolProofs WITH Workers <- Loops, Tasks <- Loops, None <- ThreadNum

-----------------------------------------------------------------------------
(* The net drives its pool as a pool is to be driven.                      *)

\* Start adds the loops one after the other, and Stop finds them all added.
Begun ==
    /\ caller = "user" /\ ~netRunning => running = "STOP" /\ added = {}
    /\ caller = "starting" => running = "RUNNING" /\ \E n \in Loops : added = 0 .. n - 1
    /\ caller \in {"user", "stopping"} /\ netRunning => running = "RUNNING" /\ added = Loops
    /\ caller = "joining" => running = "STOPPING" /\ added = Loops
    /\ caller # "user" => netRunning

\* The next loop that Start adds is one, and the last one ends the call.
LEMMA NextLoop ==
    ASSUME NEW n \in Loops, added = 0 .. n - 1
    PROVE  Cardinality(added) = n
  BY FS_Interval, NetAssumption DEF Loops

\* There are loops, finitely many, and ThreadNum is none of them.
LEMMA LoopsAreTasks ==
    PP!IsFiniteSet(Loops) /\ Loops # {} /\ ThreadNum \notin Loops
<1>1. IsFiniteSet(Loops)
  BY FS_Interval, NetAssumption DEF Loops
<1>2. PP!IsFiniteSet(Loops)
  BY <1>1 DEF IsFiniteSet, PP!IsFiniteSet
<1> QED
  BY <1>2, NetAssumption DEF Loops

\* Each step of the net is one of the pool, or leaves the pool alone (Start, Stop,
\* EventLoop::Run, GetOneEventLoop).
LEMMA PoolStep ==
    ASSUME Begun, [NetNext]_netVars
    PROVE  [Pool!Next]_(Pool!vars)
<1> USE DEF poolVars, Pool!vars
<1>1. CASE Start \/ StopPool
  BY <1>1 DEF Start, StopPool, Pool!Next
<1>2. CASE AddLoop
  <2>1. PICK n \in Loops : added = 0 .. n - 1
    BY <1>2 DEF AddLoop, Begun
  <2>2. Cardinality(added) = n
    BY <2>1, NextLoop
  <2>3. Pool!AddTask(n)
    BY <1>2, <2>2 DEF AddLoop
  <2> QED
    BY <2>3 DEF Pool!Next
<1>3. CASE Join
  BY <1>3 DEF Join, Pool!Next
<1>4. ASSUME NEW w \in Loops, Runner(w)
      PROVE  Pool!Next
  BY <1>4 DEF Runner, Pool!Next
<1>5. ASSUME NEW w \in Loops, NEW l \in Loops, Test(w, l)
      PROVE  Pool!Next \/ UNCHANGED poolVars
  BY <1>5 DEF Test, Pool!Next
<1>6. CASE \/ Stop
           \/ \E w, l \in Loops : Enter(w, l) \/ Turn(w, l)
           \/ \E u \in Creators : Pick(u) \/ Advance(u)
           \/ UNCHANGED netVars
  BY <1>6 DEF Stop, Enter, Turn, Pick, Advance, netVars
<1> QED
  BY <1>1, <1>2, <1>3, <1>4, <1>5, <1>6 DEF NetNext, Loop

\* The steps of the pool, as the two instances name them.
LEMMA SamePool ==
    /\ [Pool!Next]_(Pool!vars) => [PP!Next]_(PP!vars)
    /\ Pool!Init => PP!Init
<1>1. /\ PP!Start <=> Pool!Start
      /\ PP!Stop <=> Pool!Stop
      /\ PP!StopReturns <=> Pool!StopReturns
  BY DEF PP!Start, Pool!Start, PP!Stop, Pool!Stop, PP!StopReturns, Pool!StopReturns
<1>2. ASSUME NEW t \in Loops
      PROVE  PP!AddTask(t) <=> Pool!AddTask(t)
  BY DEF PP!AddTask, Pool!AddTask, PP!NotifyOne, Pool!NotifyOne, PP!At, Pool!At
<1>3. ASSUME NEW w \in Loops
      PROVE  /\ PP!Wake(w) <=> Pool!Wake(w)
             /\ PP!FinishTask(w) <=> Pool!FinishTask(w)
             /\ PP!Run(w) <=> Pool!Run(w)
  <2>1. PP!Wake(w) <=> Pool!Wake(w)
    BY DEF PP!Wake, Pool!Wake
  <2>2. PP!FinishTask(w) <=> Pool!FinishTask(w)
    BY DEF PP!FinishTask, Pool!FinishTask
  <2>3. /\ PP!Wait(w) <=> Pool!Wait(w)
        /\ PP!Leave(w) <=> Pool!Leave(w)
        /\ PP!Exit(w) <=> Pool!Exit(w)
    BY DEF PP!Wait, Pool!Wait, PP!Leave, Pool!Leave, PP!Exit, Pool!Exit
  <2>4. /\ PP!TakeTask(w) <=> Pool!TakeTask(w)
        /\ PP!DrainTask(w) <=> Pool!DrainTask(w)
    BY DEF PP!TakeTask, Pool!TakeTask, PP!DrainTask, Pool!DrainTask, PP!Take, Pool!Take
  <2> QED
    BY <2>1, <2>2, <2>3, <2>4 DEF PP!Run, Pool!Run
<1>4. PP!Next <=> Pool!Next
  BY <1>1, <1>2, <1>3 DEF PP!Next, Pool!Next
<1> QED
  BY <1>4 DEF PP!vars, Pool!vars, PP!Init, Pool!Init

\* The pool of the net satisfies the invariants of every pool.
LEMMA PoolInvariants ==
    ASSUME PP!DrainInv, PP!RunsOnce, Begun, [NetNext]_netVars
    PROVE  PP!DrainInv' /\ PP!RunsOnce'
<1>1. [PP!Next]_(PP!vars)
  BY PoolStep, SamePool
<1>2. PP!PoolInv
  BY DEF PP!DrainInv
<1>3. PP!DrainInv'
  BY <1>1, LoopsAreTasks, PP!DrainInvStep
<1>4. PP!RunsOnce'
  BY <1>1, <1>2, LoopsAreTasks, PP!RunsOnceStep
<1> QED
  BY <1>3, <1>4

-----------------------------------------------------------------------------
(* The loops.                                                              *)

\* The types of what the net keeps itself.
NetTypes ==
    /\ netRunning \in BOOLEAN
    /\ caller \in {"user", "starting", "stopping", "joining"}
    /\ inited \in [Loops -> BOOLEAN]
    /\ stoped \in [Loops -> BOOLEAN]
    /\ at \in [Loops -> {"out", "test", "turn"}]
    /\ index \in 0 .. IndexMod - 1
    /\ picked \subseteq Creators
    /\ load \in [Loops -> 0 .. MaxConns]
    /\ overlaps \in Nat

\* A loop in Run is run by a thread, and no loop ever comes out of Run: its test reads
\* _Stoped, which EventLoop::Stop does not set.  All loops are owed a thread, for good.
LoopsInv ==
    /\ owed = added
    /\ done = {}
    /\ \A l \in Loops : stoped[l] => at[l] = "out"
    /\ \A l \in Loops : at[l] # "out" => \E w \in Loops : Runs(w, l)

NetInv == NetTypes /\ Begun /\ LoopsInv /\ PP!DrainInv /\ PP!RunsOnce

\* What the invariants of the pool say in the words of the net.
LEMMA PoolFacts ==
    ASSUME PP!DrainInv
    PROVE  /\ Pool!TypeOK
           /\ \A w \in Loops : task[w] # ThreadNum <=> worker[w] \in {"run", "drainrun"}
           /\ \A w \in Loops : task[w] \in added \cup {ThreadNum}
           /\ running = "STOP" => \A w \in Loops : worker[w] = "none"
  BY DEF PP!DrainInv, PP!PoolInv, PP!TypeOK, PP!Places, Pool!TypeOK, Pool!Places

\* Stop waits for ever in the join: some thread is still in EventLoop::Run, or has yet
\* to begin.
LEMMA SomeThreadRuns ==
    ASSUME NetInv, caller = "joining"
    PROVE  \E w \in Loops : worker[w] # "exited"
<1> SUFFICES ASSUME \A w \in Loops : worker[w] = "exited"
             PROVE  FALSE
  OBVIOUS
<1>1. PICK l \in Loops : TRUE
  BY LoopsAreTasks
<1>2. l \in owed /\ l \notin done
  BY <1>1 DEF NetInv, Begun, LoopsInv
<1>3. PP!Queued(l) \/ PP!Held(l)
  BY <1>2 DEF NetInv, PP!DrainInv
<1>4. ~PP!Queued(l)
  BY <1>1, <1>2 DEF NetInv, PP!DrainInv
<1>5. PICK w \in Loops : task[w] = l
  BY <1>3, <1>4 DEF PP!Held
<1>6. worker[w] \in {"run", "drainrun"}
  BY <1>1, <1>5, PoolFacts, LoopsAreTasks DEF NetInv
<1> QED
  BY <1>6

\* A loop that tests _Stoped finds it false.
LEMMA LoopGoesOn ==
    ASSUME NetInv, NEW w \in Loops, NEW l \in Loops, Test(w, l)
    PROVE  /\ at' = [at EXCEPT ![l] = "turn"]
           /\ UNCHANGED <<poolVars, netRunning, caller, inited, stoped, connVars>>
<1>1. ~stoped[l]
  BY DEF Test, NetInv, LoopsInv
<1> QED
  BY <1>1 DEF Test

\* Start, Stop and CreateConnection keep the types.
LEMMA NetTypesStep ==
    ASSUME NetInv, [NetNext]_netVars
    PROVE  NetTypes'
<1> USE DEF NetTypes, loopVars, connVars
<1>1. NetTypes
  BY DEF NetInv
<1>2. CASE Start \/ AddLoop \/ StopPool \/ Join
  BY <1>1, <1>2 DEF Start, AddLoop, StopPool, Join
<1>3. CASE Stop
  BY <1>1, <1>3 DEF Stop
<1>4. ASSUME NEW w \in Loops, Runner(w)
      PROVE  NetTypes'
  BY <1>1, <1>4 DEF Runner
<1>5. ASSUME NEW w \in Loops, NEW l \in Loops, Enter(w, l) \/ Turn(w, l)
      PROVE  NetTypes'
  BY <1>1, <1>5 DEF Enter, Turn
<1>6. ASSUME NEW w \in Loops, NEW l \in Loops, Test(w, l)
      PROVE  NetTypes'
  BY <1>1, <1>6, LoopGoesOn
<1>7. ASSUME NEW u \in Creators, Pick(u)
      PROVE  NetTypes'
  <2>1. index % ThreadNum \in Loops
    BY <1>1, NetAssumption DEF Loops
  <2> DEFINE l == index % ThreadNum
  <2>2. load[l] + 1 \in 0 .. MaxConns
    BY <1>1, <1>7, <2>1, NetAssumption DEF Pick
  <2>3. load' \in [Loops -> 0 .. MaxConns]
    BY <1>1, <1>7, <2>1, <2>2 DEF Pick
  <2>4. picked' \subseteq Creators /\ overlaps' \in Nat
    BY <1>1, <1>7 DEF Pick
  <2> QED
    BY <1>1, <1>7, <2>3, <2>4 DEF Pick
<1>8. ASSUME NEW u \in Creators, Advance(u)
      PROVE  NetTypes'
  <2>1. index' \in 0 .. IndexMod - 1
    BY <1>1, <1>8, NetAssumption DEF Advance
  <2> QED
    BY <1>1, <1>8, <2>1 DEF Advance
<1>9. CASE UNCHANGED netVars
  BY <1>1, <1>9 DEF netVars
<1> QED
  BY <1>2, <1>3, <1>4, <1>5, <1>6, <1>7, <1>8, <1>9 DEF NetNext, Loop

\* Start ends when every loop is added, and Stop does not.
LEMMA BegunStep ==
    ASSUME NetInv, [NetNext]_netVars
    PROVE  Begun' /\ (caller = "joining" => caller' = "joining")
<1> USE DEF poolVars
<1>1. Begun /\ netRunning \in BOOLEAN
  BY DEF NetInv, NetTypes
<1>2. ASSUME UNCHANGED <<running, added, caller, netRunning>>
      PROVE  Begun'
  BY <1>1, <1>2 DEF Begun
<1>3. CASE Start
  <2>1. added' = {} /\ running' = "RUNNING" /\ caller' = "starting" /\ netRunning'
    BY <1>1, <1>3 DEF Start, Begun, Pool!Start
  <2>2. 0 \in Loops /\ 0 .. 0 - 1 = {}
    BY NetAssumption DEF Loops
  <2> QED
    BY <1>3, <2>1, <2>2 DEF Begun, Start
<1>4. CASE AddLoop
  <2>1. PICK n \in Loops : added = 0 .. n - 1
    BY <1>1, <1>4 DEF AddLoop, Begun
  <2>2. added' = added \cup {n} /\ UNCHANGED running
    BY <1>4, <2>1, NextLoop DEF AddLoop, Pool!AddTask
  <2>3. n \in Nat /\ added' = 0 .. (n + 1) - 1
    BY <2>1, <2>2, NetAssumption DEF Loops
  <2>4. running' = "RUNNING" /\ netRunning'
    BY <1>1, <1>4, <2>2 DEF Begun, AddLoop
  <2>5. CASE added' = Loops
    BY <1>4, <2>4, <2>5 DEF AddLoop, Begun
  <2>6. CASE added' # Loops
    <3>1. n + 1 \in Loops
      BY <2>1, <2>3, <2>6, NetAssumption DEF Loops
    <3> QED
      BY <1>4, <2>3, <2>4, <2>6, <3>1 DEF AddLoop, Begun
  <2> QED
    BY <1>4, <2>5, <2>6 DEF AddLoop
<1>5. CASE Stop
  BY <1>1, <1>5 DEF Stop, Begun
<1>6. CASE StopPool
  BY <1>1, <1>6 DEF StopPool, Begun, Pool!Stop
<1>7. CASE Join
  <2>1. UNCHANGED <<poolVars, netRunning, caller>>
    BY <1>7, SomeThreadRuns DEF Join
  <2> QED
    BY <1>2, <2>1
<1>8. ASSUME NEW w \in Loops, Runner(w)
      PROVE  UNCHANGED <<running, added, caller, netRunning>>
  BY <1>8 DEF Runner, Pool!Run, Pool!Wake, Pool!Wait, Pool!TakeTask, Pool!Take, Pool!Leave,
              Pool!DrainTask, Pool!Exit
<1>9. ASSUME NEW w \in Loops, NEW l \in Loops, Test(w, l)
      PROVE  UNCHANGED <<running, added, caller, netRunning>>
  BY <1>9, LoopGoesOn
<1>10. CASE \/ \E w, l \in Loops : Enter(w, l) \/ Turn(w, l)
            \/ \E u \in Creators : Pick(u) \/ Advance(u)
            \/ UNCHANGED netVars
  BY <1>2, <1>10 DEF Enter, Turn, Pick, Advance, netVars
<1> QED
  BY <1>2, <1>3, <1>4, <1>5, <1>6, <1>7, <1>8, <1>9, <1>10 DEF NetNext, Loop

\* The threads that run loops go on running them: only FinishTask would end that.
LEMMA RunsStep ==
    ASSUME NetInv, [NetNext]_netVars, NEW w \in Loops, NEW l \in Loops, Runs(w, l)
    PROVE  Runs(w, l)'
<1> USE DEF Runs, poolVars
<1>1. /\ worker \in [Loops -> Pool!Places] /\ task \in [Loops -> Loops \cup {ThreadNum}]
      /\ worker[w] \in {"run", "drainrun"}
  BY PoolFacts DEF NetInv, Pool!TypeOK
<1>2. CASE Start
  <2>1. running = "STOP"
    BY <1>2 DEF Start, Pool!Start
  <2> QED
    BY <1>1, <2>1, PoolFacts DEF NetInv
<1>3. CASE AddLoop
  BY <1>1, <1>3 DEF AddLoop, Pool!AddTask, Pool!NotifyOne, Pool!At
<1>4. CASE StopPool
  BY <1>1, <1>4 DEF StopPool, Pool!Stop
<1>5. CASE Join
  BY <1>5, SomeThreadRuns DEF Join
<1>6. ASSUME NEW x \in Loops, Runner(x)
      PROVE  Runs(w, l)'
  BY <1>1, <1>6 DEF Runner, Pool!Run, Pool!Wake, Pool!Wait, Pool!TakeTask, Pool!Take,
                    Pool!Leave, Pool!DrainTask, Pool!Exit
<1>7. ASSUME NEW x \in Loops, NEW k \in Loops, Test(x, k)
      PROVE  Runs(w, l)'
  BY <1>7, LoopGoesOn
<1>8. CASE \/ Stop
           \/ \E x, k \in Loops : Enter(x, k) \/ Turn(x, k)
           \/ \E u \in Creators : Pick(u) \/ Advance(u)
           \/ UNCHANGED netVars
  BY <1>8 DEF Stop, Enter, Turn, Pick, Advance, netVars
<1> QED
  BY <1>2, <1>3, <1>4, <1>5, <1>6, <1>7, <1>8 DEF NetNext, Loop

\* Every step keeps the loops with the threads that run them.
LEMMA LoopsInvStep ==
    ASSUME NetInv, [NetNext]_netVars
    PROVE  LoopsInv'
<1> USE DEF poolVars, loopVars, connVars
<1>1. /\ LoopsInv /\ stoped \in [Loops -> BOOLEAN]
      /\ at \in [Loops -> {"out", "test", "turn"}]
  BY DEF NetInv, NetTypes
<1>2. owed' = added' /\ done' = {}
  <2>1. owed = added /\ done = {}
    BY <1>1 DEF LoopsInv
  <2>2. CASE Start \/ Stop \/ StopPool
    BY <2>1, <2>2 DEF Start, Stop, StopPool, Pool!Start, Pool!Stop
  <2>3. CASE AddLoop
    <3>1. running = "RUNNING"
      BY <2>3 DEF AddLoop, NetInv, Begun
    <3> QED
      BY <2>1, <2>3, <3>1 DEF AddLoop, Pool!AddTask
  <2>4. CASE Join
    BY <2>1, <2>4, SomeThreadRuns DEF Join
  <2>5. ASSUME NEW w \in Loops, Runner(w)
        PROVE  UNCHANGED <<added, owed, done>>
    BY <2>5 DEF Runner, Pool!Run, Pool!Wake, Pool!Wait, Pool!TakeTask, Pool!Take,
                Pool!Leave, Pool!DrainTask, Pool!Exit
  <2>6. ASSUME NEW w \in Loops, NEW l \in Loops, Test(w, l)
        PROVE  UNCHANGED <<added, owed, done>>
    BY <2>6, LoopGoesOn
  <2>7. CASE \/ \E w, l \in Loops : Enter(w, l) \/ Turn(w, l)
             \/ \E u \in Creators : Pick(u) \/ Advance(u)
             \/ UNCHANGED netVars
    BY <2>1, <2>7 DEF Enter, Turn, Pick, Advance, netVars
  <2> QED
    BY <2>1, <2>2, <2>3, <2>4, <2>5, <2>6, <2>7 DEF NetNext, Loop
<1>3. \A w, l \in Loops : Runs(w, l) => Runs(w, l)'
  BY RunsStep
<1>4. ASSUME UNCHANGED <<at, stoped>>
      PROVE  LoopsInv'
  BY <1>1, <1>2, <1>3, <1>4 DEF LoopsInv
<1>5. CASE \/ Start \/ AddLoop \/ Stop \/ StopPool \/ Join
           \/ \E w \in Loops : Runner(w)
           \/ \E u \in Creators : Pick(u) \/ Advance(u)
           \/ UNCHANGED netVars
  BY <1>4, <1>5 DEF Start, AddLoop, Stop, StopPool, Join, Runner, Pick, Advance, netVars
<1>6. ASSUME NEW w \in Loops, NEW l \in Loops, NEW place \in {"test", "turn"}, Runs(w, l),
             at' = [at EXCEPT ![l] = place],
             \A k \in Loops : stoped'[k] => stoped[k] /\ k # l
      PROVE  LoopsInv'
  <2>1. \A k \in Loops : stoped'[k] => at'[k] = "out"
    BY <1>1, <1>6 DEF LoopsInv
  <2>2. \A k \in Loops : at'[k] # "out" => \E x \in Loops : Runs(x, k)'
    BY <1>1, <1>3, <1>6 DEF LoopsInv
  <2> QED
    BY <1>2, <2>1, <2>2 DEF LoopsInv
<1>7. ASSUME NEW w \in Loops, NEW l \in Loops, Enter(w, l)
      PROVE  LoopsInv'
  <2>1. \A k \in Loops : stoped'[k] => stoped[k] /\ k # l
    BY <1>1, <1>7 DEF Enter
  <2> QED
    BY <1>6, <1>7, <2>1 DEF Enter
<1>8. ASSUME NEW w \in Loops, NEW l \in Loops, Test(w, l)
      PROVE  LoopsInv'
  <2>1. ~stoped[l] /\ UNCHANGED stoped
    BY <1>1, <1>8, LoopGoesOn DEF LoopsInv, Test
  <2>2. Runs(w, l) /\ at' = [at EXCEPT ![l] = "turn"]
    BY <1>8, LoopGoesOn DEF Test
  <2> QED
    BY <1>6, <2>1, <2>2
<1>9. ASSUME NEW w \in Loops, NEW l \in Loops, Turn(w, l)
      PROVE  LoopsInv'
  <2>1. ~stoped[l]
    BY <1>1, <1>9 DEF LoopsInv, Turn
  <2>2. Runs(w, l) /\ at' = [at EXCEPT ![l] = "test"] /\ UNCHANGED stoped
    BY <1>9 DEF Turn
  <2> QED
    BY <1>6, <2>1, <2>2
<1> QED
  BY <1>5, <1>7, <1>8, <1>9 DEF NetNext, Loop

\* NetInit satisfies the invariant.
LEMMA NetInvInit == NetInit => NetInv
<1> SUFFICES ASSUME NetInit
             PROVE  NetInv
  OBVIOUS
<1>1. NetTypes
  <2>1. 0 \in 0 .. MaxConns
    BY NetAssumption
  <2> QED
    BY <2>1 DEF NetInit, NetTypes
<1>2. Begun /\ LoopsInv
  BY DEF NetInit, Pool!Init, Begun, LoopsInv
<1>3. PP!Init
  BY SamePool DEF NetInit
<1>4. PP!PoolInv
  BY <1>3, LoopsAreTasks, PP!PoolInvInit
<1>5. PP!DrainInv /\ PP!RunsOnce
  BY <1>3, <1>4, EmptySeq DEF PP!Init, PP!DrainInv, PP!RunsOnce
<1> QED
  BY <1>1, <1>2, <1>5 DEF NetInv

\* Every step of the net keeps the invariant.
LEMMA NetInvStep ==
    ASSUME NetInv, [NetNext]_netVars
    PROVE  NetInv'
<1>1. PP!DrainInv' /\ PP!RunsOnce'
  BY PoolInvariants DEF NetInv
<1> QED
  BY <1>1, NetTypesStep, BegunStep, LoopsInvStep DEF NetInv

-----------------------------------------------------------------------------
(* What follows.                                                           *)

\* For any number of loops, a loop that is in Run is run by one thread, whatever the
\* callers of Start, Stop and CreateConnection do.
THEOREM OneThreadRunsALoop == NetSpec => []ThreadsAgree
<1>1. NetInv => ThreadsAgree
  <2> SUFFICES ASSUME NetInv
               PROVE  ThreadsAgree
    OBVIOUS
  <2>1. NetTypeOK
    BY PoolFacts DEF NetInv, NetTypes, NetTypeOK
  <2>2. ASSUME NEW l \in Loops, NEW v \in Loops, NEW w \in Loops, Runs(v, l), Runs(w, l)
        PROVE  v = w
    BY <2>2, LoopsAreTasks DEF Runs, NetInv, PP!RunsOnce
  <2>3. ASSUME NEW l \in Loops, at[l] # "out"
        PROVE  Cardinality({w \in Loops : Runs(w, l)}) = 1
    <3>1. PICK v \in Loops : Runs(v, l)
      BY <2>3 DEF NetInv, LoopsInv
    <3>2. {w \in Loops : Runs(w, l)} = {v}
      BY <2>2, <3>1
    <3> QED
      BY <3>2, FS_Singleton
  <2> QED
    BY <2>1, <2>2, <2>3 DEF ThreadsAgree, OneThreadPerLoop
<1> QED
  BY <1>1, NetInvInit, NetInvStep, PTL DEF NetSpec

\* The net implements a pool: Start gives each loop to it once, and what is proved of
\* every pool, that no wake-up is lost and no task left behind, holds of this one.
THEOREM NetImplementsPool == NetSpec => Pool!Spec
<1>1. NetInit => Pool!Init
  BY DEF NetInit
<1>2. NetInv /\ [NetNext]_netVars => [Pool!Next]_(Pool!vars)
  BY PoolStep DEF NetInv
<1> QED
  BY <1>1, <1>2, NetInvInit, NetInvStep, PTL DEF NetSpec, Pool!Spec

\* No loop waits in the queue for a thread that sleeps: while a thread of the net's pool
\* waits, as many threads are on their way as loops are queued, for any number of loops
\* (Start, ThreadPool::AddTask, Runner), though no loop ever gives its thread back.
THEOREM LoopsAreAwaited == NetSpec => []Pool!NoLostWakeup
<1>1. NetInit => PP!Init
  BY SamePool DEF NetInit
<1>2. NetInv /\ [NetNext]_netVars => [PP!Next]_(PP!vars)
  BY PoolStep, SamePool DEF NetInv
<1>3. PP!NoLostWakeup => Pool!NoLostWakeup
  <2>1. ASSUME NEW S PROVE PP!Cardinality(S) = Pool!Cardinality(S)
    BY Zenon DEF PP!Cardinality, Pool!Cardinality
  <2> QED
    BY <2>1 DEF PP!NoLostWakeup, Pool!NoLostWakeup, PP!At, Pool!At
<1>4. PP!Spec => []PP!NoLostWakeup
  BY LoopsAreTasks, PP!NoWakeupIsLost
<1>5. NetSpec => PP!Spec
  BY <1>1, <1>2, NetInvInit, NetInvStep, PTL DEF NetSpec, PP!Spec
<1> QED
  BY <1>3, <1>4, <1>5, PTL

\* MyNet::Stop never comes out of the join: no loop ever leaves Run, whatever its
\* number, its events and the timing of the call (EventLoop::Stop sets _Inited only).
THEOREM StopNeverReturns == NetSpec => [][caller = "joining" => caller' = "joining"]_netVars
<1>1. NetInv /\ [NetNext]_netVars => [caller = "joining" => caller' = "joining"]_netVars
  BY BegunStep
<1> QED
  BY <1>1, NetInvInit, NetInvStep, PTL DEF NetSpec

-----------------------------------------------------------------------------
(* The loops in turn (GetOneEventLoop).                                    *)

\* The loop that the next connection will have once nobody is in GetOneEventLoop.
Cursor == (index + Cardinality(picked)) % ThreadNum

\* When loop c is next, loop k has its next turn before loop l, or k is l.
Sooner(c, k, l) ==
    \/ c <= k /\ k <= l
    \/ k <= l /\ l < c
    \/ l < c /\ c <= k

\* Loads of loops that were handed out in turn, where c is next: in the order of
\* their turns the loops have ever more connections, and the last has one more than the
\* first at most.
InTurn(turn, c) ==
    /\ \A k, l \in Loops : turn[k] <= turn[l] + 1
    /\ \A k, l \in Loops : Sooner(c, k, l) => turn[k] <= turn[l]

\* The loads are those but for one connection of each call that overlapped another.
Near(turn) ==
    \A k \in Loops : load[k] <= turn[k] + overlaps /\ turn[k] <= load[k] + overlaps

TurnTypes ==
    /\ index \in 0 .. IndexMod - 1
    /\ IsFiniteSet(picked)
    /\ load \in [Loops -> Nat]
    /\ overlaps \in Nat

TurnInv == TurnTypes /\ \E turn \in [Loops -> Nat] : InTurn(turn, Cursor) /\ Near(turn)

\* The remainder is unique.
LEMMA Remainder ==
    ASSUME NEW q \in Nat, NEW r \in 0 .. ThreadNum - 1
    PROVE  (ThreadNum * q + r) % ThreadNum = r
<1> DEFINE x == ThreadNum * q + r
           p == x \div ThreadNum
           m == x % ThreadNum
<1>1. x \in Nat /\ p \in Nat /\ m \in 0 .. ThreadNum - 1 /\ x = ThreadNum * p + m
  BY SMT, NetAssumption
<1>2. ThreadNum * (p - q) = r - m
  BY <1>1, NetAssumption
<1>3. CASE p > q
  <2>1. ThreadNum * (p - q) >= ThreadNum
    BY <1>1, <1>3, NetAssumption
  <2> QED
    BY <1>1, <1>2, <2>1, NetAssumption
<1>4. CASE p < q
  <2>1. ThreadNum * (p - q) <= 0 - ThreadNum
    BY <1>1, <1>4, NetAssumption
  <2> QED
    BY <1>1, <1>2, <2>1, NetAssumption
<1>5. CASE p = q
  BY <1>1, <1>2, <1>5, NetAssumption
<1> QED
  BY <1>1, <1>3, <1>4, <1>5

\* Advancing the index goes on to the next loop, and after the last to the first.
LEMMA NextInTurn ==
    ASSUME NEW i \in Nat
    PROVE  /\ i % ThreadNum \in Loops
           /\ (i + 1) % ThreadNum = IF i % ThreadNum = ThreadNum - 1
                                      THEN 0 ELSE (i % ThreadNum) + 1
<1> DEFINE q == i \div ThreadNum
           r == i % ThreadNum
<1>1. q \in Nat /\ r \in 0 .. ThreadNum - 1 /\ i = ThreadNum * q + r
  BY SMT, NetAssumption
<1>2. CASE r = ThreadNum - 1
  <2>1. i + 1 = ThreadNum * (q + 1) + 0
    BY <1>1, <1>2, NetAssumption
  <2> HIDE DEF q
  <2>2. (ThreadNum * (q + 1) + 0) % ThreadNum = 0
    BY Remainder, <1>1, NetAssumption
  <2> QED
    BY <1>1, <1>2, <2>1, <2>2 DEF Loops
<1>3. CASE r # ThreadNum - 1
  <2>1. i + 1 = ThreadNum * q + (r + 1) /\ r + 1 \in 0 .. ThreadNum - 1
    BY <1>1, <1>3, NetAssumption
  <2> HIDE DEF q, r
  <2>2. (ThreadNum * q + (r + 1)) % ThreadNum = r + 1
    BY Remainder, <1>1, <2>1
  <2> QED
    BY <1>1, <1>3, <2>1, <2>2 DEF Loops, r
<1> QED
  BY <1>2, <1>3

\* When the counter wraps, the turn goes on.
LEMMA WrapInTurn ==
    ASSUME NEW i \in 0 .. IndexMod - 1, NEW n \in Nat, IndexMod % ThreadNum = 0
    PROVE  /\ (i + 1) % IndexMod \in 0 .. IndexMod - 1
           /\ (((i + 1) % IndexMod) + n) % ThreadNum = (i + 1 + n) % ThreadNum
<1>1. CASE i + 1 < IndexMod
  <2>1. (i + 1) % IndexMod = i + 1
    BY <1>1, NetAssumption
  <2>2. (i + 1) % IndexMod \in 0 .. IndexMod - 1
    BY <1>1, <2>1, NetAssumption
  <2> QED
    BY Zenon, <2>1, <2>2
<1>2. CASE i + 1 = IndexMod
  <2> DEFINE p == IndexMod \div ThreadNum
             q == n \div ThreadNum
             r == n % ThreadNum
  <2>1. IndexMod % IndexMod = 0
    BY NetAssumption
  <2>2. p \in Nat /\ IndexMod = ThreadNum * p
    BY SMT, NetAssumption
  <2>3. q \in Nat /\ r \in 0 .. ThreadNum - 1 /\ n = ThreadNum * q + r
    BY SMT, NetAssumption
  <2>4. r = n % ThreadNum
    OBVIOUS
  <2> HIDE DEF p, q, r
  <2>5. IndexMod + n = ThreadNum * (p + q) + r /\ p + q \in Nat
    BY <2>2, <2>3, NetAssumption
  <2>6. (IndexMod + n) % ThreadNum = r
    BY Remainder, <2>3, <2>5
  <2>7. (i + 1) % IndexMod = 0
    BY <1>2, <2>1
  <2>8. 0 + n = n /\ 0 \in 0 .. IndexMod - 1
    BY NetAssumption
  <2> QED
    BY Zenon, <1>2, <2>4, <2>6, <2>7, <2>8
<1> QED
  BY <1>1, <1>2, NetAssumption

\* The next loop gets a connection, and the turn is the one's after it.
LEMMA TurnGoesOn ==
    ASSUME NEW turn \in [Loops -> Nat], NEW c \in Loops, InTurn(turn, c)
    PROVE  LET d == IF c = ThreadNum - 1 THEN 0 ELSE c + 1
           IN  InTurn([turn EXCEPT ![c] = @ + 1], d)
<1> DEFINE d == IF c = ThreadNum - 1 THEN 0 ELSE c + 1
           after == [turn EXCEPT ![c] = @ + 1]
<1>1. \A k \in Loops : turn[k] \in Nat /\ after[k] = IF k = c THEN turn[k] + 1 ELSE turn[k]
  OBVIOUS
<1> HIDE DEF after
<1>2. \A k \in Loops : turn[c] <= turn[k] /\ turn[k] <= turn[c] + 1
  BY DEF InTurn, Sooner, Loops
<1>3. \A k, l \in Loops : after[k] <= after[l] + 1
  <2> SUFFICES ASSUME NEW k \in Loops, NEW l \in Loops
               PROVE  after[k] <= after[l] + 1
    OBVIOUS
  <2>1. turn[k] <= turn[l] + 1
    BY DEF InTurn
  <2> QED
    BY <1>1, <1>2, <2>1
<1>4. ASSUME NEW k \in Loops, NEW l \in Loops, Sooner(d, k, l)
      PROVE  after[k] <= after[l]
  <2>1. CASE k = c
    <3>1. l = c
      BY <1>4, <2>1, NetAssumption DEF Sooner, Loops
    <3> QED
      BY <1>1, <2>1, <3>1
  <2>2. CASE l = c
    BY <1>1, <1>2, <2>1, <2>2
  <2>3. CASE k # c /\ l # c
    <3>1. Sooner(c, k, l)
      BY <1>4, <2>3, NetAssumption DEF Sooner, Loops
    <3> QED
      BY <1>1, <2>3, <3>1 DEF InTurn
  <2> QED
    BY <2>1, <2>2, <2>3
<1> QED
  BY <1>3, <1>4 DEF InTurn, after

\* A user picks a loop: the one whose turn it is, unless another user is in
\* GetOneEventLoop.
LEMMA PickInTurn ==
    ASSUME TurnInv, NEW u, Pick(u)
    PROVE  TurnInv'
<1> DEFINE n == Cardinality(picked)
           i == index % ThreadNum
<1>1. /\ index \in Nat /\ index' = index /\ index \in 0 .. IndexMod - 1
      /\ load \in [Loops -> Nat] /\ load' = [load EXCEPT ![i] = @ + 1]
      /\ overlaps \in Nat /\ overlaps' = overlaps + IF picked = {} THEN 0 ELSE 1
  BY NetAssumption DEF Pick, TurnInv, TurnTypes
<1>2. n \in Nat /\ (picked = {} => n = 0) /\ IsFiniteSet(picked') /\ Cardinality(picked') = n + 1
  BY FS_CardinalityType, FS_EmptySet, FS_AddElement DEF Pick, TurnInv, TurnTypes
<1>3. PICK turn \in [Loops -> Nat] : InTurn(turn, Cursor) /\ Near(turn)
  BY DEF TurnInv
<1> DEFINE c == (index + n) % ThreadNum
           after == [turn EXCEPT ![c] = @ + 1]
<1>4. c = Cursor
  BY DEF Cursor
<1>5. c \in Loops /\ (index + n + 1) % ThreadNum = IF c = ThreadNum - 1 THEN 0 ELSE c + 1
  BY <1>1, <1>2, NextInTurn
<1>6. i \in Loops /\ (picked = {} => i = c)
  <2>1. picked = {} => index + n = index
    BY <1>1, <1>2
  <2> QED
    BY <1>1, <2>1, NextInTurn
<1>7. Cursor' = (index + n + 1) % ThreadNum
  <2>1. index' + Cardinality(picked') = index + n + 1
    BY <1>1, <1>2
  <2> QED
    BY Zenon, <2>1 DEF Cursor
<1> HIDE DEF n, i, c
<1>8. after \in [Loops -> Nat]
  BY <1>5
<1>9. InTurn(after, Cursor')
  BY <1>3, <1>4, <1>5, <1>7, TurnGoesOn
<1>10. \A k \in Loops : /\ load'[k] = IF k = i THEN load[k] + 1 ELSE load[k]
                        /\ after[k] = IF k = c THEN turn[k] + 1 ELSE turn[k]
                        /\ load[k] \in Nat /\ turn[k] \in Nat
  BY <1>1, <1>5, <1>6
<1> HIDE DEF after
<1>11. ASSUME NEW k \in Loops
       PROVE  load'[k] <= after[k] + overlaps' /\ after[k] <= load'[k] + overlaps'
  <2>1. load[k] <= turn[k] + overlaps /\ turn[k] <= load[k] + overlaps
    BY <1>3 DEF Near
  <2>2. CASE picked = {}
    BY <1>1, <1>6, <1>10, <2>1, <2>2
  <2>3. CASE picked # {}
    BY <1>1, <1>10, <2>1, <2>3
  <2> QED
    BY <2>2, <2>3
<1>12. load' \in [Loops -> Nat] /\ overlaps' \in Nat
  BY <1>1, <1>6
<1>13. TurnTypes'
  BY <1>1, <1>2, <1>12 DEF TurnTypes
<1> QED
  BY <1>8, <1>9, <1>11, <1>13 DEF TurnInv, Near

\* A user who advances the index leaves the turn as it is.
LEMMA AdvanceInTurn ==
    ASSUME IndexMod % ThreadNum = 0, TurnInv, NEW u, Advance(u)
    PROVE  TurnInv'
<1> DEFINE m == Cardinality(picked')
<1>1. /\ index \in 0 .. IndexMod - 1 /\ index' = (index + 1) % IndexMod
      /\ load \in [Loops -> Nat] /\ load' = load
      /\ overlaps \in Nat /\ overlaps' = overlaps
  BY DEF Advance, TurnInv, TurnTypes
<1>2. IsFiniteSet(picked) /\ picked' = picked \ {u} /\ u \in picked
  BY DEF Advance, TurnInv, TurnTypes
<1>3. IsFiniteSet(picked') /\ m \in Nat /\ Cardinality(picked) = m + 1
  <2>1. IsFiniteSet(picked') /\ m = Cardinality(picked) - 1
    BY <1>2, FS_RemoveElement
  <2>2. m \in Nat /\ Cardinality(picked) \in Nat
    BY <1>2, <2>1, FS_CardinalityType
  <2> QED
    BY <2>1, <2>2
<1> HIDE DEF m
<1>4. index' \in 0 .. IndexMod - 1 /\ (index' + m) % ThreadNum = (index + 1 + m) % ThreadNum
  BY <1>1, <1>3, WrapInTurn
<1>5. index + 1 + m = index + Cardinality(picked)
  BY <1>1, <1>3
<1>6. Cursor' = Cursor
  BY Zenon, <1>4, <1>5 DEF Cursor, m
<1>7. TurnTypes'
  BY <1>1, <1>3, <1>4 DEF TurnTypes
<1> QED
  BY Zenon, <1>1, <1>6, <1>7 DEF TurnInv, Near

\* Each step keeps the loads near those of loops handed out in turn.
LEMMA TurnInvStep ==
    ASSUME IndexMod % ThreadNum = 0, TurnInv, [NetNext]_netVars
    PROVE  TurnInv'
<1>1. CASE UNCHANGED connVars
  BY <1>1 DEF connVars, TurnInv, TurnTypes, Cursor, Near
<1>2. ASSUME NEW u \in Creators, Pick(u) \/ Advance(u)
      PROVE  TurnInv'
  BY <1>2, PickInTurn, AdvanceInTurn
<1> QED
  BY <1>1, <1>2 DEF NetNext, Start, AddLoop, Stop, StopPool, Join, Runner, Loop, Enter, Test,
     Turn, netVars

\* The loops are handed out in turn, whoever calls GetOneEventLoop, however many they
\* are and from whatever value the index has: none gets two connections more than
\* another, but for what a call that comes between the two statements of another one
\* takes from one loop and gives to another.  The number of loops divides that of the
\* index's values, or the turn breaks when the index wraps.
THEOREM LoopsAreSpread ==
    ASSUME IndexMod % ThreadNum = 0
    PROVE  NetSpec => []SpreadEvenly
<1>1. ASSUME NetInit PROVE TurnInv
  <2> DEFINE turn == [l \in Loops |-> 0]
  <2>1. index \in 0 .. IndexMod - 1 /\ overlaps = 0 /\ picked = {} /\ load = turn
    BY <1>1 DEF NetInit
  <2>2. TurnTypes
    BY <2>1, FS_EmptySet DEF TurnTypes
  <2>3. turn \in [Loops -> Nat] /\ InTurn(turn, Cursor) /\ Near(turn)
    BY <2>1 DEF InTurn, Near
  <2> QED
    BY Zenon, <2>2, <2>3 DEF TurnInv
<1>2. TurnInv /\ [NetNext]_netVars => TurnInv'
  BY TurnInvStep
<1>3. ASSUME TurnInv PROVE SpreadEvenly
  <2>1. PICK turn \in [Loops -> Nat] : InTurn(turn, Cursor) /\ Near(turn)
    BY <1>3 DEF TurnInv
  <2>2. ASSUME NEW k \in Loops, NEW l \in Loops
        PROVE  load[k] <= load[l] + 1 + 2 * overlaps
    <3>1. turn[k] <= turn[l] + 1 /\ load[k] <= turn[k] + overlaps /\ turn[l] <= load[l] + overlaps
      BY <2>1 DEF InTurn, Near
    <3>2. {turn[k], turn[l], load[k], load[l], overlaps} \subseteq Nat
      BY <1>3 DEF TurnInv, TurnTypes
    <3> QED
      BY <3>1, <3>2
  <2> QED
    BY <2>2 DEF SpreadEvenly
<1> QED
  BY <1>1, <1>2, <1>3, PTL DEF NetSpec

-----------------------------------------------------------------------------
(* Lists and least times.                                                  *)

\* A set of times that is not empty has a least one.
LEMMA EarliestExists ==
    ASSUME NEW I \in SUBSET Nat, I # {}
    PROVE  Earliest(I) \in I /\ \A y \in I : Earliest(I) <= y
<1> DEFINE R == {ss \in Nat \X Nat : ss[1] < ss[2]}
<1>1. IsWellFoundedOn(R, Nat)
  BY NatLessThanWellFounded DEF OpToRel
<1> HIDE DEF R
<1>2. \E x \in I : \A y \in I : ~(<<y, x>> \in R)
  BY <1>1, WFMin
<1>3. ASSUME NEW x \in I, NEW y \in I, ~(<<y, x>> \in R)
      PROVE  x <= y
  BY <1>3 DEF R
<1>4. \E x \in I : \A y \in I : x <= y
  BY <1>2, <1>3
<1> QED
  BY Zenon, <1>4 DEF Earliest

\* RemoveFirst takes one entry away, and moves those behind it up.
LEMMA RemoveFirstProperties ==
    ASSUME NEW S, NEW s \in Seq(S), NEW e, Contains(s, e)
    PROVE  \E p \in 1 .. Len(s) :
              /\ s[p] = e
              /\ RemoveFirst(s, e) \in Seq(S)
              /\ Len(RemoveFirst(s, e)) = Len(s) - 1
              /\ \A j \in 1 .. Len(s) - 1 :
                    RemoveFirst(s, e)[j] = IF j < p THEN s[j] ELSE s[j + 1]
<1> DEFINE I == {i \in 1 .. Len(s) : s[i] = e}
           p == CHOOSE x \in I : \A y \in I : x <= y
           before == SubSeq(s, 1, p - 1)
           behind == SubSeq(s, p + 1, Len(s))
<1>1. Len(s) \in Nat /\ I \in SUBSET Nat /\ I # {} /\ \A i \in 1 .. Len(s) : s[i] \in S
  BY DEF Contains
<1>2. p \in I
  <2> HIDE DEF I
  <2>1. p = Earliest(I)
    BY Zenon DEF Earliest
  <2> QED
    BY <1>1, <2>1, EarliestExists
<1>3. RemoveFirst(s, e) = before \o behind
  <2>1. \E i \in 1 .. Len(s) : s[i] = e
    BY DEF Contains
  <2>2. SelectInSeq(s, LAMBDA v : v = e) = p
    BY Zenon, <1>1 DEF SelectInSeq, Min
  <2> QED
    BY <2>1, <2>2 DEF RemoveFirst, RemoveAt, SelectInSeq, Min
<1>4. p \in 1 .. Len(s) /\ s[p] = e
  BY <1>2
<1> HIDE DEF p
<1>5. /\ before \in Seq(S) /\ Len(before) = p - 1
      /\ \A i \in 1 .. p - 1 : before[i] = s[i]
  BY <1>1, <1>4, SubSeqProperties
<1>6. /\ behind \in Seq(S) /\ Len(behind) = Len(s) - p
      /\ \A i \in 1 .. Len(s) - p : behind[i] = s[p + i]
  BY <1>1, <1>4, SubSeqProperties
<1> HIDE DEF before, behind
<1>7. /\ before \o behind \in Seq(S)
      /\ Len(before \o behind) = Len(s) - 1
      /\ \A j \in 1 .. Len(s) - 1 :
            (before \o behind)[j] = IF j < p THEN s[j] ELSE s[j + 1]
  <2>1. Len(before) + Len(behind) = Len(s) - 1
    BY <1>1, <1>4, <1>5, <1>6
  <2>2. /\ before \o behind \in Seq(S)
        /\ Len(before \o behind) = Len(s) - 1
        /\ \A j \in 1 .. Len(s) - 1 : (before \o behind)[j] =
              IF j <= Len(before) THEN before[j] ELSE behind[j - Len(before)]
    BY <1>5, <1>6, <2>1, ConcatProperties
  <2>3. ASSUME NEW j \in 1 .. Len(s) - 1, j < p
        PROVE  (before \o behind)[j] = s[j]
    BY <1>1, <1>4, <1>5, <2>2, <2>3
  <2>4. ASSUME NEW j \in 1 .. Len(s) - 1, ~(j < p)
        PROVE  (before \o behind)[j] = s[j + 1]
    <3>1. j - (p - 1) \in 1 .. Len(s) - p /\ p + (j - (p - 1)) = j + 1
      BY <1>1, <1>4, <2>4
    <3> QED
      BY <1>1, <1>4, <1>5, <1>6, <2>2, <2>4, <3>1
  <2> QED
    BY <2>2, <2>3, <2>4
<1> QED
  BY <1>3, <1>4, <1>7

-----------------------------------------------------------------------------
(* The inductive invariant.                                                *)

\* A thread is between SetTime and the lock of AddTimeItem.
Adding(i) == \E t \in Threads : calls[t].kind = "add" /\ calls[t].item = i

\* A list has an item once, under the time the item has, which is what was asked for.
Listed ==
    \A k \in DOMAIN map : \A a \in 1 .. Len(map[k]) :
        /\ \A b \in 1 .. Len(map[k]) : map[k][a] = map[k][b] => a = b
        /\ time[map[k][a]] = k /\ due[map[k][a]] = k
        /\ map[k][a] \in armed

\* Calls for one item follow one another.
CallsApart ==
    \A t, u \in Threads :
        calls[t] # Idle /\ calls[u] # Idle /\ calls[t].item = calls[u].item => t = u

\* What AddTimeItem is about to put into the map is nowhere else.
Added ==
    \A t \in Threads, i \in Items : calls[t].kind = "add" /\ calls[t].item = i =>
        /\ ~Pending(i) /\ ~Popped(i) /\ i \in armed
        /\ calls[t].expire > 0 /\ calls[t].expire = time[i] /\ calls[t].expire = due[i]

\* What Process has taken from the map was due, and is no longer there.
Taken ==
    /\ seen <= now
    /\ \A i \in Items : Popped(i) => ~Pending(i) /\ due[i] <= seen /\ i \in armed

\* TimeTellsPending also while DeleteTimeItem, which does not hold the lock yet, has
\* read the time.
TimeTells ==
    \A i \in Items : ~Adding(i) /\ ~Popped(i) => (time[i] > 0 <=> Pending(i))

TimerInv ==
    /\ TypeOK /\ NextNotLate
    /\ Listed /\ CallsApart /\ Added /\ Taken /\ TimeTells

\* Lists have lengths, and their entries are items.
LEMMA ListTypes ==
    ASSUME TypeOK
    PROVE  /\ DOMAIN map \in SUBSET Nat
           /\ \A k \in DOMAIN map :
                 /\ map[k] \in Seq(Items) /\ Len(map[k]) \in Nat
                 /\ map[k] = <<>> <=> Len(map[k]) = 0
                 /\ \A a \in 1 .. Len(map[k]) : map[k][a] \in Items
  BY EmptySeq DEF TypeOK

\* Process and DeleteTimeItem: one entry leaves the map, and lists that have no
\* other may leave it.
LEMMA EntryLeaves ==
    ASSUME TimerInv,
           NEW e \in DOMAIN map, NEW p \in 1 .. Len(map[e]),
           DOMAIN map' \subseteq DOMAIN map,
           \A k \in DOMAIN map \ DOMAIN map' :
              Len(map[k]) = IF k = e THEN 1 ELSE 0,
           \A k \in DOMAIN map' \ {e} : map'[k] = map[k],
           e \in DOMAIN map' =>
              /\ map'[e] \in Seq(Items) /\ Len(map'[e]) = Len(map[e]) - 1
              /\ \A j \in 1 .. Len(map[e]) - 1 :
                    map'[e][j] = IF j < p THEN map[e][j] ELSE map[e][j + 1]
    PROVE  /\ DOMAIN map' \subseteq Nat
           /\ \A k \in DOMAIN map' : map'[k] \in Seq(Items)
           /\ \A i : Pending(i)' <=> Pending(i) /\ i # map[e][p]
           /\ \A k \in DOMAIN map' : \A a \in 1 .. Len(map'[k]) :
                 /\ \A b \in 1 .. Len(map'[k]) : map'[k][a] = map'[k][b] => a = b
                 /\ \E c \in 1 .. Len(map[k]) : map'[k][a] = map[k][c]
<1>1. /\ DOMAIN map \in SUBSET Nat
      /\ \A k \in DOMAIN map : map[k] \in Seq(Items) /\ Len(map[k]) \in Nat
  BY ListTypes DEF TimerInv
<1>2. DOMAIN map' \subseteq Nat /\ \A k \in DOMAIN map' : map'[k] \in Seq(Items)
  <2>1. ASSUME NEW k \in DOMAIN map' PROVE map'[k] \in Seq(Items)
    BY <1>1
  <2> QED
    BY <1>1, <2>1
<1>3. \A k, l \in DOMAIN map : \A a \in 1 .. Len(map[k]) : \A b \in 1 .. Len(map[l]) :
          map[k][a] = map[l][b] => k = l /\ a = b
  BY DEF TimerInv, Listed
<1>4. ASSUME e \in DOMAIN map', NEW a \in 1 .. Len(map'[e])
      PROVE  /\ \A b \in 1 .. Len(map'[e]) : map'[e][a] = map'[e][b] => a = b
             /\ map'[e][a] # map[e][p]
             /\ \E c \in 1 .. Len(map[e]) : map'[e][a] = map[e][c]
  <2> DEFINE old(j) == IF j < p THEN j ELSE j + 1
  <2>1. \A j \in 1 .. Len(map'[e]) : old(j) \in 1 .. Len(map[e]) /\ old(j) # p
                                     /\ map'[e][j] = map[e][old(j)]
    BY <1>1, <1>4
  <2>2. \A i, j \in 1 .. Len(map'[e]) : old(i) = old(j) => i = j
    BY <1>1, <1>4
  <2> HIDE DEF old
  <2>3. \A c, d \in 1 .. Len(map[e]) : map[e][c] = map[e][d] => c = d
    BY <1>3
  <2>4. \A b \in 1 .. Len(map'[e]) : map'[e][a] = map'[e][b] => a = b
    BY <1>4, <2>1, <2>2, <2>3
  <2>5. map'[e][a] # map[e][p] /\ \E c \in 1 .. Len(map[e]) : map'[e][a] = map[e][c]
    BY <1>4, <2>1, <2>3
  <2> QED
    BY <2>4, <2>5
<1>5. ASSUME NEW k \in DOMAIN map', NEW a \in 1 .. Len(map'[k])
      PROVE  /\ \A b \in 1 .. Len(map'[k]) : map'[k][a] = map'[k][b] => a = b
             /\ map'[k][a] # map[e][p]
             /\ \E c \in 1 .. Len(map[k]) : map'[k][a] = map[k][c]
  <2>1. CASE k = e
    BY <1>4, <2>1
  <2>2. CASE k # e
    BY <1>3, <1>5, <2>2
  <2> QED
    BY <2>1, <2>2
<1>6. ASSUME NEW i, Pending(i)'
      PROVE  Pending(i) /\ i # map[e][p]
  <2>1. PICK k \in DOMAIN map' : \E a \in 1 .. Len(map'[k]) : map'[k][a] = i
    BY <1>6 DEF Pending, Contains
  <2> QED
    BY <1>5, <2>1 DEF Pending, Contains
<1>7. ASSUME NEW i, Pending(i), i # map[e][p]
      PROVE  Pending(i)'
  <2>0. PICK k \in DOMAIN map : \E c \in 1 .. Len(map[k]) : map[k][c] = i
    BY <1>7 DEF Pending, Contains
  <2>1. PICK c \in 1 .. Len(map[k]) : map[k][c] = i
    BY <2>0
  <2>2. k \in DOMAIN map'
    BY <1>1, <1>7, <2>1
  <2>3. CASE k # e
    BY <2>1, <2>2, <2>3 DEF Pending, Contains
  <2>4. CASE k = e
    <3> DEFINE new == IF c < p THEN c ELSE c - 1
    <3>1. new \in 1 .. Len(map'[e]) /\ map'[e][new] = i
      BY <1>1, <1>7, <2>1, <2>2, <2>4
    <3> QED
      BY <2>2, <2>4, <3>1 DEF Pending, Contains
  <2> QED
    BY <2>3, <2>4
<1> QED
  BY <1>2, <1>5, <1>6, <1>7

\* Lists without entries leave the map.
LEMMA EmptyLeave ==
    ASSUME TimerInv,
           DOMAIN map' \subseteq DOMAIN map,
           \A k \in DOMAIN map \ DOMAIN map' : map[k] = <<>>,
           \A k \in DOMAIN map' : map'[k] = map[k]
    PROVE  /\ DOMAIN map' \subseteq Nat
           /\ \A k \in DOMAIN map' : map'[k] \in Seq(Items)
           /\ \A i : Pending(i)' <=> Pending(i)
<1>1. /\ DOMAIN map \in SUBSET Nat
      /\ \A k \in DOMAIN map : map[k] \in Seq(Items) /\ Len(map[k]) \in Nat
      /\ \A k \in DOMAIN map : map[k] = <<>> <=> Len(map[k]) = 0
  BY ListTypes DEF TimerInv
<1>2. ASSUME NEW i, Pending(i)
      PROVE  Pending(i)'
  <2>1. PICK k \in DOMAIN map : \E a \in 1 .. Len(map[k]) : map[k][a] = i
    BY <1>2 DEF Pending, Contains
  <2>2. k \in DOMAIN map'
    BY <1>1, <2>1
  <2> QED
    BY <2>1, <2>2 DEF Pending, Contains
<1>3. ASSUME NEW i, Pending(i)'
      PROVE  Pending(i)
  BY <1>3 DEF Pending, Contains
<1> QED
  BY <1>1, <1>2, <1>3

-----------------------------------------------------------------------------
(* AddTimeItem and DeleteTimeItem keep the invariant.                      *)

\* A call begins in a thread that is in none, for an item that is in none.
LEMMA CallBegins ==
    ASSUME TimerInv, NEW t \in Threads, NEW c \in Calls,
           calls[t] = Idle, ~InCall(c.item), calls' = [calls EXCEPT ![t] = c]
    PROVE  /\ calls' \in [Threads -> {Idle} \cup Calls]
           /\ CallsApart'
           /\ \A u \in Threads : calls'[u] = IF u = t THEN c ELSE calls[u]
           /\ \A u \in Threads : u # t /\ calls[u] # Idle => calls[u].item # c.item
<1>1. /\ calls \in [Threads -> {Idle} \cup Calls]
      /\ c # Idle /\ \A d \in Calls : d # Idle
  BY DEF TimerInv, TypeOK, Calls, Idle
<1>2. /\ calls' \in [Threads -> {Idle} \cup Calls]
      /\ \A u \in Threads : calls'[u] = IF u = t THEN c ELSE calls[u]
  BY <1>1
<1>3. \A u \in Threads : calls[u] # Idle => calls[u].item # c.item
  BY DEF InCall
<1>4. CallsApart'
  BY <1>1, <1>2, <1>3 DEF CallsApart, TimerInv
<1> QED
  BY <1>2, <1>3, <1>4

\* The kinds of calls.
LEMMA CallTypes ==
    ASSUME TypeOK, NEW t \in Threads
    PROVE  /\ calls[t] = Idle => calls[t].kind = "none"
           /\ calls[t] # Idle =>
                 /\ calls[t] \in Calls /\ calls[t].kind \in {"add", "delete"}
                 /\ calls[t].item \in Items /\ calls[t].expire \in Nat
  BY DEF TypeOK, Calls, Idle

LEMMA AddTimeItemStep ==
    ASSUME TimerInv, NEW t \in Threads, NEW i \in Items, NEW timeout \in Timeouts,
           AddTimeItem(t, i, timeout)
    PROVE  TimerInv'
<1> DEFINE expire == now + (IF timeout < 0 THEN 0 ELSE timeout)
           c == [kind |-> "add", item |-> i, expire |-> expire]
<1>1. TypeOK /\ expire \in Nat /\ expire > 0
  BY TimerAssumption DEF TimerInv, TypeOK, Clock
<1>2. /\ time' = [time EXCEPT ![i] = expire]
      /\ due' = [due EXCEPT ![i] = expire]
      /\ calls' = [calls EXCEPT ![t] = c]
      /\ calls[t] = Idle /\ ~InCall(i) /\ ~Pending(i) /\ ~Popped(i)
      /\ armed' = armed \cup {i}
      /\ UNCHANGED <<now, map, next, pc, item, seen>>
  BY DEF AddTimeItem, MayCall
<1> HIDE DEF expire
<1>3. c \in Calls /\ c.item = i /\ c.kind = "add" /\ c.expire = expire
  BY <1>1 DEF Calls
<1> HIDE DEF c
<1>4. /\ calls' \in [Threads -> {Idle} \cup Calls]
      /\ CallsApart'
      /\ \A u \in Threads : calls'[u] = IF u = t THEN c ELSE calls[u]
      /\ \A u \in Threads : u # t /\ calls[u] # Idle => calls[u].item # i
  BY <1>2, <1>3, CallBegins
<1>5. /\ \A j \in Items : time'[j] = IF j = i THEN expire ELSE time[j]
      /\ \A j \in Items : due'[j] = IF j = i THEN expire ELSE due[j]
  BY <1>1, <1>2 DEF TypeOK
<1>6. \A j : /\ Pending(j)' <=> Pending(j)
             /\ Popped(j)' <=> Popped(j)
  BY <1>2 DEF Pending, Popped
<1>7. TypeOK'
  BY <1>1, <1>2, <1>4 DEF TypeOK
<1>8. NextNotLate'
  BY <1>2 DEF NextNotLate, TimerInv
<1>9. Listed'
  <2>1. \A k \in DOMAIN map : \A a \in 1 .. Len(map[k]) :
            map[k][a] \in Items /\ map[k][a] # i
    BY <1>1, <1>2, ListTypes DEF Pending, Contains
  <2> QED
    BY <1>2, <1>5, <2>1 DEF Listed, TimerInv
<1>10. Added'
  <2>1. ASSUME NEW u \in Threads, NEW j \in Items,
               calls'[u].kind = "add", calls'[u].item = j
        PROVE  /\ ~Pending(j)' /\ ~Popped(j)' /\ j \in armed'
               /\ calls'[u].expire > 0
               /\ calls'[u].expire = time'[j] /\ calls'[u].expire = due'[j]
    <3>1. CASE u = t
      BY <1>1, <1>2, <1>3, <1>4, <1>5, <1>6, <2>1, <3>1
    <3>2. CASE u # t
      <4>1. calls'[u] = calls[u] /\ j # i
        BY <1>1, <1>4, <2>1, <3>2, CallTypes
      <4> QED
        BY <1>2, <1>5, <1>6, <2>1, <4>1 DEF Added, TimerInv
    <3> QED
      BY <3>1, <3>2
  <2> QED
    BY <2>1 DEF Added
<1>11. Taken'
  BY <1>1, <1>2, <1>5, <1>6 DEF Taken, TimerInv, Popped, TypeOK
<1>12. TimeTells'
  <2>1. ASSUME NEW j \in Items, ~Adding(j)', ~Popped(j)'
        PROVE  time'[j] > 0 <=> Pending(j)'
    <3>1. j # i
      BY <1>3, <1>4, <2>1 DEF Adding
    <3>2. ~Adding(j)
      BY <1>2, <1>4, <2>1, <1>1, CallTypes DEF Adding
    <3> QED
      BY <1>5, <1>6, <2>1, <3>1, <3>2 DEF TimeTells, TimerInv
  <2> QED
    BY <2>1 DEF TimeTells
<1> QED
  BY <1>4, <1>7, <1>8, <1>9, <1>10, <1>11, <1>12 DEF TimerInv

LEMMA DeleteTimeItemStep ==
    ASSUME TimerInv, NEW t \in Threads, NEW i \in Items, DeleteTimeItem(t, i)
    PROVE  TimerInv'
<1> DEFINE c == [kind |-> "delete", item |-> i, expire |-> time[i]]
<1>1. /\ TypeOK
      /\ calls' = [calls EXCEPT ![t] = c]
      /\ calls[t] = Idle /\ ~InCall(i)
      /\ UNCHANGED <<now, map, next, time, pc, item, seen, due, armed>>
  BY DEF DeleteTimeItem, MayCall, TimerInv
<1>2. c \in Calls /\ c.item = i /\ c.kind = "delete"
  BY <1>1 DEF Calls, TypeOK
<1> HIDE DEF c
<1>3. /\ calls' \in [Threads -> {Idle} \cup Calls]
      /\ CallsApart'
      /\ \A u \in Threads : calls'[u] = IF u = t THEN c ELSE calls[u]
  BY <1>1, <1>2, CallBegins
<1>4. \A j : /\ Pending(j)' <=> Pending(j)
             /\ Popped(j)' <=> Popped(j)
             /\ Adding(j)' <=> Adding(j)
  <2>1. calls[t].kind = "none"
    BY <1>1, CallTypes
  <2> QED
    BY <1>1, <1>2, <1>3, <2>1 DEF Pending, Popped, Adding
<1>5. TypeOK' /\ NextNotLate' /\ Listed' /\ Taken' /\ TimeTells'
  <2>1. TypeOK'
    BY <1>1, <1>3 DEF TypeOK
  <2>2. NextNotLate' /\ Listed'
    BY <1>1 DEF NextNotLate, Listed, TimerInv
  <2>3. Taken' /\ TimeTells'
    BY <1>1, <1>4 DEF Taken, TimeTells, TimerInv
  <2> QED
    BY <2>1, <2>2, <2>3
<1>6. Added'
  <2> SUFFICES ASSUME NEW u \in Threads, NEW j \in Items,
                      calls'[u].kind = "add", calls'[u].item = j
               PROVE  /\ ~Pending(j)' /\ ~Popped(j)' /\ j \in armed'
                      /\ calls'[u].expire > 0 /\ calls'[u].expire = time'[j]
                      /\ calls'[u].expire = due'[j]
    BY DEF Added
  <2>1. calls'[u] = calls[u]
    BY <1>2, <1>3
  <2>2. /\ ~Pending(j) /\ ~Popped(j) /\ j \in armed
        /\ calls[u].expire > 0 /\ calls[u].expire = time[j]
        /\ calls[u].expire = due[j]
    BY <2>1 DEF Added, TimerInv
  <2> QED
    BY <1>1, <1>4, <2>1, <2>2
<1> QED
  BY <1>3, <1>5, <1>6 DEF TimerInv

\* A call ends.
LEMMA CallEnds ==
    ASSUME TimerInv, NEW t \in Threads, calls' = [calls EXCEPT ![t] = Idle]
    PROVE  /\ calls' \in [Threads -> {Idle} \cup Calls]
           /\ CallsApart'
           /\ \A u \in Threads : calls'[u] = IF u = t THEN Idle ELSE calls[u]
           /\ \A i : Adding(i)' <=> \E u \in Threads \ {t} :
                                        calls[u].kind = "add" /\ calls[u].item = i
<1>1. calls \in [Threads -> {Idle} \cup Calls] /\ Idle.kind = "none"
  BY DEF TimerInv, TypeOK, Idle
<1>2. /\ calls' \in [Threads -> {Idle} \cup Calls]
      /\ \A u \in Threads : calls'[u] = IF u = t THEN Idle ELSE calls[u]
  BY <1>1
<1>3. CallsApart'
  BY <1>2 DEF CallsApart, TimerInv
<1>4. \A i : Adding(i)' <=> \E u \in Threads \ {t} :
                                calls[u].kind = "add" /\ calls[u].item = i
  BY <1>1, <1>2 DEF Adding
<1> QED
  BY <1>2, <1>3, <1>4

LEMMA AddToMapStep ==
    ASSUME TimerInv, NEW t \in Threads, AddToMap(t)
    PROVE  TimerInv'
<1>1. /\ TypeOK
      /\ calls[t].kind = "add" /\ calls[t] # Idle
      /\ calls[t].item \in Items /\ calls[t].expire \in Nat
  <2>1. TypeOK /\ calls[t].kind = "add"
    BY DEF AddToMap, TimerInv
  <2> QED
    BY <2>1, CallTypes
<1>2. PICK i \in Items, e \in Nat : i = calls[t].item /\ e = calls[t].expire
  BY <1>1
<1>3. /\ ~Pending(i) /\ ~Popped(i) /\ i \in armed
      /\ e > 0 /\ e = time[i] /\ e = due[i]
  BY <1>1, <1>2 DEF Added, TimerInv
<1> DEFINE list == IF e \in DOMAIN map THEN map[e] ELSE <<>>
<1>4. /\ list \in Seq(Items) /\ Len(list) \in Nat
      /\ \A a \in 1 .. Len(list) : list[a] \in Items /\ list[a] # i
      /\ \A a \in 1 .. Len(list) : e \in DOMAIN map /\ list[a] = map[e][a]
  <2>1. CASE e \in DOMAIN map
    BY <1>1, <1>3, <2>1, ListTypes DEF Pending, Contains
  <2>2. CASE e \notin DOMAIN map
    BY <2>2, EmptySeq
  <2> QED
    BY <2>1, <2>2
<1>5. /\ DOMAIN map' = DOMAIN map \cup {e}
      /\ map'[e] = Append(list, i)
      /\ \A k \in DOMAIN map \ {e} : map'[k] = map[k]
      /\ e \in DOMAIN map => list = map[e]
      /\ e \notin DOMAIN map => list = <<>>
      /\ next' = IF next > e \/ next = 0 THEN e ELSE next
      /\ calls' = [calls EXCEPT ![t] = Idle]
      /\ UNCHANGED <<now, time, pc, item, seen, due, armed>>
  BY <1>2 DEF AddToMap
<1> HIDE DEF list
<1>6. /\ map'[e] \in Seq(Items) /\ Len(map'[e]) = Len(list) + 1
      /\ map'[e][Len(list) + 1] = i
      /\ \A a \in 1 .. Len(list) : map'[e][a] = list[a]
      /\ \A a \in 1 .. Len(map'[e]) : a \in 1 .. Len(list) \/ a = Len(list) + 1
  BY <1>2, <1>4, <1>5, AppendProperties
<1>7. /\ calls' \in [Threads -> {Idle} \cup Calls]
      /\ CallsApart'
      /\ \A u \in Threads : calls'[u] = IF u = t THEN Idle ELSE calls[u]
      /\ \A j : Adding(j)' <=> \E u \in Threads \ {t} :
                                  calls[u].kind = "add" /\ calls[u].item = j
  BY <1>5, CallEnds
<1>8. \A u \in Threads : u # t /\ calls[u] # Idle => calls[u].item # i
  BY <1>1, <1>2 DEF CallsApart, TimerInv
<1>9. ASSUME NEW j
      PROVE  Pending(j)' <=> Pending(j) \/ j = i
  <2>1. ASSUME Pending(j)'
        PROVE  Pending(j) \/ j = i
    <3>1. PICK k \in DOMAIN map' : \E a \in 1 .. Len(map'[k]) : map'[k][a] = j
      BY <2>1 DEF Pending, Contains
    <3>2. CASE k = e
      <4>1. PICK a \in 1 .. Len(map'[e]) : map'[e][a] = j
        BY <3>1, <3>2
      <4>2. CASE a \in 1 .. Len(list)
        BY <1>4, <1>5, <1>6, <4>1, <4>2 DEF Pending, Contains
      <4> QED
        BY <1>6, <4>1, <4>2
    <3>3. CASE k # e
      BY <1>5, <3>1, <3>3 DEF Pending, Contains
    <3> QED
      BY <3>2, <3>3
  <2>2. ASSUME Pending(j)
        PROVE  Pending(j)'
    <3>1. PICK k \in DOMAIN map : \E a \in 1 .. Len(map[k]) : map[k][a] = j
      BY <2>2 DEF Pending, Contains
    <3>2. CASE k = e
      BY <1>4, <1>5, <1>6, <3>1, <3>2 DEF Pending, Contains
    <3>3. CASE k # e
      BY <1>5, <3>1, <3>3 DEF Pending, Contains
    <3> QED
      BY <3>2, <3>3
  <2>3. Pending(i)'
    <3>1. Len(list) + 1 \in 1 .. Len(map'[e])
      BY <1>4, <1>6
    <3> QED
      BY <1>5, <1>6, <3>1 DEF Pending, Contains
  <2> QED
    BY <2>1, <2>2, <2>3
<1>10. \A j : Popped(j)' <=> Popped(j)
  BY <1>5 DEF Popped
<1>11. TypeOK'
  BY <1>1, <1>2, <1>5, <1>6, <1>7 DEF TypeOK
<1>12. NextNotLate'
  BY <1>1, <1>2, <1>3, <1>5 DEF NextNotLate, TimerInv, TypeOK
<1>13. Listed'
  <2>1. ASSUME NEW k \in DOMAIN map', NEW a \in 1 .. Len(map'[k]), k # e
        PROVE  /\ \A b \in 1 .. Len(map'[k]) : map'[k][a] = map'[k][b] => a = b
               /\ time[map'[k][a]] = k /\ due[map'[k][a]] = k /\ map'[k][a] \in armed
    BY <1>5, <2>1 DEF Listed, TimerInv
  <2>2. ASSUME NEW a \in 1 .. Len(map'[e])
        PROVE  /\ \A b \in 1 .. Len(map'[e]) : map'[e][a] = map'[e][b] => a = b
               /\ time[map'[e][a]] = e /\ due[map'[e][a]] = e /\ map'[e][a] \in armed
    <3>1. \A b \in 1 .. Len(list) :
              /\ \A c \in 1 .. Len(list) : list[b] = list[c] => b = c
              /\ time[list[b]] = e /\ due[list[b]] = e /\ list[b] \in armed
      BY <1>4, <1>5 DEF Listed, TimerInv
    <3>2. \A b \in 1 .. Len(map'[e]) : map'[e][a] = map'[e][b] => a = b
      BY SMTT(20), <1>4, <1>6, <3>1
    <3>3. CASE a \in 1 .. Len(list)
      <4>1. map'[e][a] = list[a]
        BY <1>6, <3>3
      <4> QED
        BY <3>1, <3>2, <3>3, <4>1
    <3>4. CASE a = Len(list) + 1
      BY <1>3, <1>6, <3>2, <3>4
    <3> QED
      BY <1>6, <3>3, <3>4
  <2> QED
    BY <1>5, <2>1, <2>2 DEF Listed
<1>14. Added'
  <2>1. ASSUME NEW u \in Threads, NEW j \in Items,
               calls'[u].kind = "add", calls'[u].item = j
        PROVE  /\ ~Pending(j)' /\ ~Popped(j)' /\ j \in armed'
               /\ calls'[u].expire > 0
               /\ calls'[u].expire = time'[j] /\ calls'[u].expire = due'[j]
    <3>1. u # t /\ calls'[u] = calls[u] /\ calls[u] # Idle
      BY <1>7, <2>1 DEF Idle
    <3> QED
      BY <1>5, <1>8, <1>9, <1>10, <2>1, <3>1 DEF Added, TimerInv
  <2> QED
    BY <2>1 DEF Added
<1>15. Taken'
  BY <1>3, <1>5, <1>9, <1>10 DEF Taken, TimerInv
<1>16. TimeTells'
  <2>1. ASSUME NEW j \in Items, ~Adding(j)', ~Popped(j)'
        PROVE  time'[j] > 0 <=> Pending(j)'
    <3>1. CASE j = i
      BY <1>3, <1>5, <1>9, <3>1
    <3>2. CASE j # i
      <4>1. ~Adding(j)
        BY <1>2, <1>7, <2>1, <3>2 DEF Adding
      <4> QED
        BY <1>5, <1>9, <1>10, <2>1, <3>2, <4>1 DEF TimeTells, TimerInv
    <3> QED
      BY <3>1, <3>2
  <2> QED
    BY <2>1 DEF TimeTells
<1> QED
  BY <1>7, <1>11, <1>12, <1>13, <1>14, <1>15, <1>16 DEF TimerInv

LEMMA NotFoundStep ==
    ASSUME TimerInv, NEW t \in Threads, NotFound(t)
    PROVE  TimerInv'
<1>1. /\ TypeOK
      /\ calls[t].kind = "delete"
      /\ calls' = [calls EXCEPT ![t] = Idle]
      /\ UNCHANGED <<now, map, next, time, pc, item, seen, due, armed>>
  BY DEF NotFound, TimerInv
<1>2. /\ calls' \in [Threads -> {Idle} \cup Calls]
      /\ CallsApart'
      /\ \A u \in Threads : calls'[u] = IF u = t THEN Idle ELSE calls[u]
      /\ \A j : Adding(j)' <=> \E u \in Threads \ {t} :
                                  calls[u].kind = "add" /\ calls[u].item = j
  BY <1>1, CallEnds
<1>3. \A j : /\ Pending(j)' <=> Pending(j)
             /\ Popped(j)' <=> Popped(j)
             /\ Adding(j)' <=> Adding(j)
  BY <1>1, <1>2 DEF Pending, Popped, Adding
<1>4. TypeOK' /\ NextNotLate' /\ Listed' /\ Taken' /\ TimeTells'
  BY <1>1, <1>2, <1>3 DEF TypeOK, NextNotLate, Listed, Taken, TimeTells, TimerInv
<1>5. Added'
  BY <1>1, <1>2, <1>3 DEF Added, TimerInv, Idle
<1> QED
  BY <1>2, <1>4, <1>5 DEF TimerInv

LEMMA EraseStep ==
    ASSUME TimerInv, NEW t \in Threads, Erase(t)
    PROVE  TimerInv'
<1>1. /\ TypeOK
      /\ calls[t].kind = "delete" /\ calls[t] # Idle
      /\ calls[t].item \in Items /\ calls[t].expire \in Nat
  <2>1. TypeOK /\ calls[t].kind = "delete"
    BY DEF Erase, TimerInv
  <2> QED
    BY <2>1, CallTypes
<1>2. PICK i \in Items, e \in Nat : i = calls[t].item /\ e = calls[t].expire
  BY <1>1
<1> DEFINE list == RemoveFirst(map[e], i)
           rest == DOMAIN map \ {e}
<1>3. /\ e \in DOMAIN map /\ Contains(map[e], i)
      /\ IF list # <<>>
           THEN map' = [map EXCEPT ![e] = list] /\ next' = next
           ELSE /\ map' = Restricted(rest)
                /\ next' = IF next # e THEN next
                           ELSE IF rest = {} THEN 0 ELSE Earliest(rest)
      /\ time' = [time EXCEPT ![i] = 0]
      /\ armed' = armed \ {i}
      /\ calls' = [calls EXCEPT ![t] = Idle]
      /\ UNCHANGED <<now, pc, item, seen, due>>
  BY <1>2 DEF Erase
<1>4. DOMAIN map \in SUBSET Nat /\ map[e] \in Seq(Items) /\ Len(map[e]) \in Nat
  BY <1>1, <1>3, ListTypes
<1>5. PICK p \in 1 .. Len(map[e]) :
              /\ map[e][p] = i
              /\ list \in Seq(Items) /\ Len(list) = Len(map[e]) - 1
              /\ \A j \in 1 .. Len(map[e]) - 1 :
                    list[j] = IF j < p THEN map[e][j] ELSE map[e][j + 1]
  BY <1>3, <1>4, RemoveFirstProperties
<1> HIDE DEF list
<1>6. list = <<>> <=> Len(map[e]) = 1
  <2>1. list = <<>> => Len(list) = 0
    BY EmptySeq
  <2>2. list # <<>> => Len(list) \in Nat \ {0}
    BY <1>5, EmptySeq
  <2> QED
    BY <1>4, <1>5, <2>1, <2>2
<1>7. /\ DOMAIN map' = IF list # <<>> THEN DOMAIN map ELSE rest
      /\ \A k \in DOMAIN map' \ {e} : map'[k] = map[k]
      /\ e \in DOMAIN map' => map'[e] = list
  BY <1>3 DEF Restricted
<1>8. /\ DOMAIN map' \subseteq Nat
      /\ \A k \in DOMAIN map' : map'[k] \in Seq(Items)
      /\ \A j : Pending(j)' <=> Pending(j) /\ j # map[e][p]
      /\ \A k \in DOMAIN map' : \A a \in 1 .. Len(map'[k]) :
            /\ \A b \in 1 .. Len(map'[k]) : map'[k][a] = map'[k][b] => a = b
            /\ \E c \in 1 .. Len(map[k]) : map'[k][a] = map[k][c]
  <2>1. /\ DOMAIN map' \subseteq DOMAIN map
        /\ \A k \in DOMAIN map \ DOMAIN map' : Len(map[k]) = IF k = e THEN 1 ELSE 0
    BY <1>3, <1>6, <1>7
  <2>2. e \in DOMAIN map' =>
           /\ map'[e] \in Seq(Items) /\ Len(map'[e]) = Len(map[e]) - 1
           /\ \A j \in 1 .. Len(map[e]) - 1 :
                 map'[e][j] = IF j < p THEN map[e][j] ELSE map[e][j + 1]
    BY <1>5, <1>7
  <2> HIDE DEF rest
  <2> QED
    BY <1>3, <1>7, <2>1, <2>2, EntryLeaves
<1>9. Pending(i) /\ \A j : Pending(j)' <=> Pending(j) /\ j # i
  BY <1>3, <1>5, <1>8 DEF Pending
<1>10. /\ calls' \in [Threads -> {Idle} \cup Calls]
       /\ CallsApart'
       /\ \A u \in Threads : calls'[u] = IF u = t THEN Idle ELSE calls[u]
       /\ \A j : Adding(j)' <=> \E u \in Threads \ {t} :
                                   calls[u].kind = "add" /\ calls[u].item = j
  BY <1>3, CallEnds
<1>11. \A j : (Adding(j)' <=> Adding(j)) /\ (Popped(j)' <=> Popped(j))
  <2>1. calls[t].kind # "add"
    BY DEF Erase
  <2>2. \A j : Adding(j)' <=> Adding(j)
    BY <1>10, <2>1 DEF Adding
  <2>3. pc' = pc /\ item' = item
    BY <1>3
  <2> QED
    BY <2>2, <2>3 DEF Popped
<1>12. \A j \in Items : time'[j] = IF j = i THEN 0 ELSE time[j]
  BY <1>1, <1>3 DEF TypeOK
<1>13. /\ \A k \in rest : k \in Nat /\ 0 < next /\ next <= k
       /\ 0 < next /\ next <= e /\ next \in Nat
  BY <1>1, <1>3, <1>4 DEF NextNotLate, TimerInv, TypeOK
<1>14. rest # {} => /\ Earliest(rest) \in rest
                    /\ \A k \in rest : Earliest(rest) <= k
  <2>1. rest \in SUBSET Nat
    BY <1>4
  <2> QED
    BY <2>1, EarliestExists
<1>15. NextNotLate' /\ next' \in Nat
  <2>1. CASE next' = next
    BY <1>7, <1>13, <2>1 DEF NextNotLate
  <2>2. CASE next' # next
    <3>1. /\ DOMAIN map' = rest
          /\ next' = IF rest = {} THEN 0 ELSE Earliest(rest)
      BY <1>3, <1>7, <2>2
    <3> HIDE DEF rest
    <3> QED
      BY <1>13, <1>14, <3>1 DEF NextNotLate
  <2> QED
    BY <2>1, <2>2
<1>16. TypeOK'
  BY <1>1, <1>3, <1>8, <1>10, <1>15 DEF TypeOK
<1>17. Listed'
  <2>1. ASSUME NEW k \in DOMAIN map', NEW a \in 1 .. Len(map'[k])
        PROVE  /\ \A b \in 1 .. Len(map'[k]) : map'[k][a] = map'[k][b] => a = b
               /\ time'[map'[k][a]] = k /\ due'[map'[k][a]] = k /\ map'[k][a] \in armed'
    <3>1. map'[k][a] # i
      BY <1>9, <2>1 DEF Pending, Contains
    <3>2. PICK c \in 1 .. Len(map[k]) : map'[k][a] = map[k][c]
      BY <1>8, <2>1
    <3>3. k \in DOMAIN map /\ map[k][c] \in Items
      BY <1>1, <1>7, <2>1, <3>2, ListTypes
    <3> QED
      BY <1>3, <1>8, <1>12, <2>1, <3>1, <3>2, <3>3 DEF Listed, TimerInv
  <2> QED
    BY <2>1 DEF Listed
<1>18. Added'
  <2>1. ASSUME NEW u \in Threads, NEW j \in Items,
               calls'[u].kind = "add", calls'[u].item = j
        PROVE  /\ ~Pending(j)' /\ ~Popped(j)' /\ j \in armed'
               /\ calls'[u].expire > 0
               /\ calls'[u].expire = time'[j] /\ calls'[u].expire = due'[j]
    <3>1. u # t /\ calls'[u] = calls[u]
      BY <1>10, <2>1 DEF Idle
    <3>2. j # i
      BY <1>9, <2>1, <3>1 DEF Added, TimerInv
    <3> QED
      BY <1>3, <1>9, <1>11, <1>12, <2>1, <3>1, <3>2 DEF Added, TimerInv
  <2> QED
    BY <2>1 DEF Added
<1>19. Taken'
  BY <1>3, <1>9, <1>11 DEF Taken, TimerInv
<1>20. TimeTells'
  BY <1>9, <1>11, <1>12 DEF TimeTells, TimerInv
<1> QED
  BY <1>10, <1>15, <1>16, <1>17, <1>18, <1>19, <1>20 DEF TimerInv

-----------------------------------------------------------------------------
(* Process keeps the invariant.                                            *)

\* The times whose lists TakeExpired keeps: the earliest one that has expired has
\* a list that is not empty.
LEMMA EmptiedProperties ==
    ASSUME TypeOK, NEW s \in Nat, NEW rest, rest = DOMAIN map \ Emptied(s)
    PROVE  /\ \A k \in DOMAIN map \ rest : map[k] = <<>>
           /\ rest # {} =>
                 /\ Earliest(rest) \in rest
                 /\ \A k \in rest : Earliest(rest) <= k
                 /\ Earliest(rest) <= s => map[Earliest(rest)] # <<>>
<1>1. DOMAIN map \in SUBSET Nat
  BY DEF TypeOK
<1>2. \A k \in DOMAIN map \ rest : map[k] = <<>>
  BY <1>1 DEF Emptied
<1>3. ASSUME rest # {}
      PROVE  Earliest(rest) \in rest /\ \A k \in rest : Earliest(rest) <= k
  BY <1>1, <1>3, EarliestExists
<1>4. ASSUME rest # {}, Earliest(rest) <= s
      PROVE  map[Earliest(rest)] # <<>>
  <2>1. PICK k \in rest : k = Earliest(rest)
    BY <1>3, <1>4
  <2>2. PICK j \in DOMAIN map : j <= k /\ map[j] # <<>>
    BY <1>4, <2>1 DEF Emptied
  <2>3. j \in rest
    BY <1>2, <2>2
  <2>4. j = k
    <3>1. k <= j
      BY <1>3, <1>4, <2>1, <2>3
    <3> QED
      BY <1>1, <2>1, <2>2, <3>1
  <2> QED
    BY <2>1, <2>2, <2>4
<1> QED
  BY <1>2, <1>3, <1>4

LEMMA TakeExpiredStep ==
    ASSUME TimerInv, NEW s \in Nat, s <= now, seen' = s, pc # "popped",
           TakeExpired(s), UNCHANGED <<now, time, calls, due, armed>>
    PROVE  TimerInv'
<1> DEFINE rest == DOMAIN map \ Emptied(s)
           first == Earliest(rest)
<1>1. /\ TypeOK /\ DOMAIN map \in SUBSET Nat
      /\ \A k \in DOMAIN map : map[k] \in Seq(Items) /\ Len(map[k]) \in Nat
      /\ \A k \in DOMAIN map : map[k] = <<>> <=> Len(map[k]) = 0
      /\ \A k \in DOMAIN map : 0 < next /\ next <= k
      /\ next \in Nat /\ rest \subseteq DOMAIN map
  BY ListTypes DEF TimerInv, TypeOK, NextNotLate
<1>2. /\ \A k \in DOMAIN map \ rest : map[k] = <<>>
      /\ rest # {} =>
            /\ first \in rest /\ \A k \in rest : first <= k
            /\ first <= s => map[first] # <<>>
  BY <1>1, EmptiedProperties
<1>3. /\ CallsApart' /\ \A j : Adding(j)' <=> Adding(j)
      /\ ~ \E j : Popped(j)
  BY DEF CallsApart, Adding, Popped, TimerInv
<1>4. ASSUME rest = {} \/ first > s
      PROVE  TimerInv'
    <2>1. /\ DOMAIN map' = rest /\ (\A k \in rest : map'[k] = map[k])
          /\ pc' = "idle" /\ item' = item
          /\ next' = IF rest # {} THEN first ELSE IF map = <<>> THEN next ELSE 0
      <3>1. CASE rest = {}
        BY <3>1 DEF TakeExpired
      <3>2. CASE rest # {}
        BY <1>4, <3>2 DEF TakeExpired, Restricted
      <3> QED
        BY <3>1, <3>2
    <2> HIDE DEF rest
    <2>2. /\ DOMAIN map' \subseteq Nat
          /\ \A k \in DOMAIN map' : map'[k] \in Seq(Items)
          /\ \A j : Pending(j)' <=> Pending(j)
      BY <1>1, <1>2, <2>1, EmptyLeave
    <2>3. \A j : ~Popped(j)'
      BY <2>1 DEF Popped
    <2>4. NextNotLate' /\ next' \in Nat
      BY <1>1, <1>2, <2>1 DEF NextNotLate
    <2>5. TypeOK'
      BY <1>1, <2>1, <2>2, <2>4 DEF TypeOK
    <2>6. Listed'
      BY <1>1, <2>1 DEF Listed, TimerInv
    <2>7. Added' /\ Taken' /\ TimeTells'
      BY <1>3, <2>2, <2>3 DEF Added, Taken, TimeTells, TimerInv
    <2> QED
      BY <1>3, <2>4, <2>5, <2>6, <2>7 DEF TimerInv
<1>5. ASSUME rest # {}, ~(first > s)
      PROVE  TimerInv'
    <2>1. PICK e \in Nat : e = first
      BY <1>1, <1>2, <1>5
    <2>2. /\ e \in rest /\ (\A k \in rest : e <= k) /\ e <= s
          /\ map[e] # <<>> /\ e \in DOMAIN map
      <3> HIDE DEF rest, first
      <3> QED
        BY <1>1, <1>2, <1>5, <2>1
    <2>3. /\ item' = Head(map[e])
          /\ map' = [Restricted(rest) EXCEPT ![e] = Tail(@)]
          /\ next' = next /\ pc' = "popped"
      BY <1>5, <2>1 DEF TakeExpired
    <2>4. /\ DOMAIN map' = rest /\ map'[e] = Tail(map[e])
          /\ \A k \in rest \ {e} : map'[k] = map[k]
      BY <2>2, <2>3 DEF Restricted
    <2>5. /\ Head(map[e]) = map[e][1] /\ 1 \in 1 .. Len(map[e])
          /\ Tail(map[e]) \in Seq(Items) /\ Len(Tail(map[e])) = Len(map[e]) - 1
          /\ \A j \in 1 .. Len(map[e]) - 1 : Tail(map[e])[j] = map[e][j + 1]
      BY <1>1, <2>2, HeadTailProperties
    <2>6. PICK i \in Items : i = map[e][1]
      BY <1>1, <2>2, <2>5, ListTypes
    <2> HIDE DEF rest, first
    <2>7. /\ DOMAIN map' \subseteq Nat
          /\ \A k \in DOMAIN map' : map'[k] \in Seq(Items)
          /\ \A j : Pending(j)' <=> Pending(j) /\ j # map[e][1]
          /\ \A k \in DOMAIN map' : \A a \in 1 .. Len(map'[k]) :
                /\ \A b \in 1 .. Len(map'[k]) : map'[k][a] = map'[k][b] => a = b
                /\ \E c \in 1 .. Len(map[k]) : map'[k][a] = map[k][c]
      <3>1. \A k \in DOMAIN map \ DOMAIN map' : Len(map[k]) = IF k = e THEN 1 ELSE 0
        BY <1>1, <1>2, <2>2, <2>4
      <3>2. e \in DOMAIN map' =>
              /\ map'[e] \in Seq(Items) /\ Len(map'[e]) = Len(map[e]) - 1
              /\ \A j \in 1 .. Len(map[e]) - 1 :
                    map'[e][j] = IF j < 1 THEN map[e][j] ELSE map[e][j + 1]
        BY <2>4, <2>5
      <3> QED
        BY <1>1, <2>2, <2>4, <2>5, <3>1, <3>2, EntryLeaves
    <2>7a. \A j : Pending(j)' <=> Pending(j) /\ j # i
      BY <2>6, <2>7
    <2>8. item' = i /\ \A j : Popped(j)' <=> j = i
      BY <2>3, <2>5, <2>6 DEF Popped
    <2>9. Pending(i) /\ time[i] = e /\ due[i] = e /\ i \in armed
      BY <2>2, <2>5, <2>6 DEF Pending, Contains, Listed, TimerInv
    <2>10. TypeOK' /\ NextNotLate'
      BY <1>1, <2>3, <2>4, <2>7, <2>8 DEF TypeOK, NextNotLate
    <2>11. Listed'
      <3>1. ASSUME NEW k \in DOMAIN map', NEW a \in 1 .. Len(map'[k])
            PROVE  /\ \A b \in 1 .. Len(map'[k]) : map'[k][a] = map'[k][b] => a = b
                   /\ time[map'[k][a]] = k /\ due[map'[k][a]] = k /\ map'[k][a] \in armed
        <4>1. PICK c \in 1 .. Len(map[k]) : map'[k][a] = map[k][c]
          BY <2>7, <3>1
        <4> QED
          BY <1>1, <2>4, <2>7, <3>1, <4>1 DEF Listed, TimerInv
      <3> QED
        BY <3>1 DEF Listed
    <2>12. Added'
      BY <2>7a, <2>8, <2>9 DEF Added, TimerInv
    <2>13. Taken'
      BY <1>1, <2>2, <2>7a, <2>8, <2>9 DEF Taken, TypeOK
    <2>14. TimeTells'
      BY <1>3, <2>7a, <2>8 DEF TimeTells, TimerInv
    <2> QED
      BY <1>3, <2>10, <2>11, <2>12, <2>13, <2>14 DEF TimerInv
<1> QED
  BY <1>4, <1>5

LEMMA FireStep ==
    ASSUME TimerInv, Fire
    PROVE  TimerInv'
<1>1. PICK i \in Items : i = item
  BY DEF TimerInv, TypeOK
<1>2. /\ TypeOK /\ Popped(i)
      /\ time' = [time EXCEPT ![i] = 0]
      /\ pc' = "called" /\ armed' = armed \ {i}
      /\ UNCHANGED <<now, map, next, calls, item, seen, due>>
  BY <1>1 DEF Fire, TimerInv, Popped
<1>3. /\ ~Pending(i) /\ ~Adding(i)
      /\ \A t \in Threads : calls[t].kind = "add" => calls[t].item # i
  BY <1>2 DEF Taken, Added, Adding, TimerInv
<1>4. /\ \A j : (Pending(j)' <=> Pending(j)) /\ (Adding(j)' <=> Adding(j)) /\ ~Popped(j)'
      /\ \A j : Popped(j) => j = i
      /\ \A j \in Items : time'[j] = IF j = i THEN 0 ELSE time[j]
  BY <1>1, <1>2 DEF Pending, Adding, Popped, TypeOK
<1>5. TypeOK' /\ NextNotLate' /\ CallsApart' /\ Taken'
  BY <1>2, <1>4 DEF TypeOK, NextNotLate, CallsApart, Taken, TimerInv
<1>6. Listed'
  <2>1. \A k \in DOMAIN map : \A a \in 1 .. Len(map[k]) :
            map[k][a] \in Items /\ map[k][a] # i
    BY <1>2, <1>3, ListTypes DEF Pending, Contains
  <2> QED
    BY <1>2, <1>4, <2>1 DEF Listed, TimerInv
<1>7. Added'
  BY <1>2, <1>3, <1>4 DEF Added, TimerInv
<1>8. TimeTells'
  BY <1>3, <1>4 DEF TimeTells, TimerInv
<1> QED
  BY <1>5, <1>6, <1>7, <1>8 DEF TimerInv

\* Every step keeps the invariant, whatever threads are meanwhile between SetTime or
\* GetTime and the lock, and wherever Process is.
LEMMA TimerInvStep ==
    ASSUME TimerInv, [Next]_vars
    PROVE  TimerInv'
<1>1. ASSUME NEW t \in Threads, NEW i \in Items,
             \/ \E timeout \in Timeouts : AddTimeItem(t, i, timeout)
             \/ DeleteTimeItem(t, i)
      PROVE  TimerInv'
  BY <1>1, AddTimeItemStep, DeleteTimeItemStep
<1>2. ASSUME NEW t \in Threads, Return(t)
      PROVE  TimerInv'
  BY <1>2, AddToMapStep, NotFoundStep, EraseStep DEF Return
<1>3. CASE Process \/ Continue
  <2>1. now \in Nat /\ seen \in Nat /\ seen <= now
    BY DEF TimerInv, TypeOK, Taken, Clock
  <2> QED
    BY <1>3, <2>1, TakeExpiredStep DEF Process, Continue
<1>4. CASE Tick
  <2>1. now + 1 \in Clock /\ seen <= now + 1
    BY <1>4, TimerAssumption DEF TimerInv, TypeOK, Taken, Clock, Tick
  <2>2. TypeOK' /\ Taken'
    BY <1>4, <2>1 DEF TimerInv, TypeOK, Taken, Tick, Popped, Pending
  <2> QED
    BY <1>4, <2>2 DEF Tick, TimerInv, NextNotLate, Listed, CallsApart, Added, TimeTells,
                      Pending, Popped, Adding
<1>5. CASE UNCHANGED vars
  BY <1>5 DEF vars, TimerInv, TypeOK, NextNotLate, Listed, CallsApart, Added, Taken,
              TimeTells, Pending, Popped, Adding
<1> QED
  BY <1>1, <1>2, <1>3, <1>4, <1>5, FireStep DEF Next

\* A new timer satisfies it.
LEMMA TimerInvInit == Init => TimerInv
<1> SUFFICES ASSUME Init PROVE TimerInv
  OBVIOUS
<1>1. /\ DOMAIN map = {} /\ now = 1 /\ seen = 0 /\ pc = "idle"
      /\ \A t \in Threads : calls[t] = Idle /\ calls[t].kind = "none"
  BY DEF Init, Idle
<1>2. TypeOK
  BY <1>1, TimerAssumption DEF Init, TypeOK, Clock
<1> QED
  BY <1>1, <1>2 DEF Init, TimerInv, NextNotLate, Listed, CallsApart, Added, Taken,
                    TimeTells, Pending, Popped

-----------------------------------------------------------------------------
(* The theorems.                                                           *)

LEMMA TimerInvAlways == Spec => []TimerInv
  BY TimerInvInit, TimerInvStep, PTL DEF Spec

\* The time of an item, the map and the planned wake-up agree, for any number of
\* items, of threads and of timeouts (AddTimeItem, DeleteTimeItem, Process).
THEOREM TimerPlacesAgree == Spec => []PlacesAgree
<1>1. TimerInv => PlacesAgree
  <2> SUFFICES ASSUME TimerInv, NEW i \in Items, ~InCall(i), ~Popped(i)
               PROVE  time[i] > 0 <=> Pending(i)
    BY DEF PlacesAgree, TimeTellsPending, TimerInv
  <2>1. ~Adding(i)
    BY DEF InCall, Adding, Idle
  <2> QED
    BY <2>1 DEF TimeTells, TimerInv
<1> QED
  BY <1>1, TimerInvAlways, PTL

\* No item fires before its last timeout is over, nor twice, nor after DeleteTimeItem
\* has said that it deleted it, though Process fires it unlocked.
THEOREM TimerFiresInItsTurn == Spec => FiresInItsTurn
<1>1. ASSUME TimerInv, [Next]_vars, NEW i \in Items, Fires(i)
      PROVE  due[i] <= now /\ i \in armed
  <2>1. due[i] \in Nat /\ seen \in Nat /\ now \in Nat /\ Popped(i)
    BY <1>1 DEF TimerInv, TypeOK, Clock, Fires, Popped
  <2> QED
    BY <1>1, <2>1 DEF TimerInv, Taken
<1>2. TimerInv /\ [Next]_vars => [\A i \in Items : Fires(i) => due[i] <= now]_vars
  BY <1>1
<1>3. TimerInv /\ [Next]_vars => [\A i \in Items : Fires(i) => i \in armed]_vars
  BY <1>1
<1> QED
  BY <1>2, <1>3, TimerInvAlways, PTL DEF Spec, FiresInItsTurn, NeverEarly, FiresOnceIfAtAll
=============================================================================
