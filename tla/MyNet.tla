-------------------------------- MODULE MyNet --------------------------------
(***************************************************************************)
(* my_net::MyNet: the event loops, the thread pool that runs them, and the *)
(* handing out of loops to connections.                                    *)
(*                                                                         *)
(* Start gives every EventLoop to the ThreadPool as a task; a loop runs in *)
(* EventLoop::Run until its _Stoped is true.  Stop tells the loops to stop *)
(* and then the pool, which joins its threads.  Start and Stop are called  *)
(* by one thread (Start, called again while the net runs, changes nothing: *)
(* it is no step here); CreateConnection by any of Creators.  The names     *)
(* differ from those of Timer, as EventLoopProofs extends both.            *)
(***************************************************************************)
EXTENDS Naturals, Sequences, FiniteSets

CONSTANTS
    ThreadNum,  \* MyNetConfig::_ThreadNum: the number of loops and of threads
    Creators,   \* threads that call CreateConnection
    IndexMod,   \* _EventLoopIndex is a counter modulo this, 2^64 in the code
    MaxConns    \* bound: loops handed out

ASSUME NetAssumption ==
    /\ ThreadNum \in Nat \ {0}
    /\ IndexMod \in Nat \ {0}
    /\ MaxConns \in Nat

Loops == 0 .. ThreadNum - 1

VARIABLES
    running, queue, worker, task, added, owed, done,  \* the thread pool
    netRunning,  \* MyNet::_Running
    caller,      \* where the thread is that calls Start and Stop
    inited,      \* EventLoop::_Inited of each loop
    stoped,      \* EventLoop::_Stoped of each loop
    at,          \* where each loop is: out of Run, at its test, in a turn
    index,       \* _EventLoopIndex
    picked,      \* the users between the two statements of GetOneEventLoop
    load,        \* how many connections each loop was given
    overlaps     \* history: the calls that found another one between its statements

poolVars == <<running, queue, worker, task, added, owed, done>>
loopVars == <<inited, stoped, at>>
connVars == <<index, picked, load, overlaps>>
netVars == <<poolVars, netRunning, caller, loopVars, connVars>>

Pool == INSTANCE ThreadPool WITH Workers <- Loops, Tasks <- Loops, None <- ThreadNum

NetTypeOK ==
    /\ Pool!TypeOK
    /\ netRunning \in BOOLEAN
    /\ caller \in {"user", "starting", "stopping", "joining"}
    /\ inited \in [Loops -> BOOLEAN]
    /\ stoped \in [Loops -> BOOLEAN]
    /\ at \in [Loops -> {"out", "test", "turn"}]
    /\ index \in 0 .. IndexMod - 1
    /\ picked \subseteq Creators
    /\ load \in [Loops -> 0 .. MaxConns]
    /\ overlaps \in Nat

\* After Init(config).  The constructor leaves _EventLoopIndex as it is.
NetInit ==
    /\ Pool!Init
    /\ netRunning = FALSE
    /\ caller = "user"
    /\ inited = [l \in Loops |-> TRUE]
    /\ stoped = [l \in Loops |-> TRUE]
    /\ at = [l \in Loops |-> "out"]
    /\ index \in 0 .. IndexMod - 1
    /\ picked = {}
    /\ load = [l \in Loops |-> 0]
    /\ overlaps = 0

-----------------------------------------------------------------------------
(* Start and Stop.                                                         *)

Start ==
    /\ caller = "user"
    /\ ~netRunning
    /\ netRunning' = TRUE
    /\ Pool!Start
    /\ caller' = "starting"
    /\ UNCHANGED <<loopVars, connVars>>

\* The loop of Start: the next event loop becomes a task.
AddLoop ==
    /\ caller = "starting"
    /\ Pool!AddTask(Cardinality(added))
    /\ caller' = IF added' = Loops THEN "user" ELSE "starting"
    /\ UNCHANGED <<netRunning, loopVars, connVars>>

\* Stop calls EventLoop::Stop of every loop.
Stop ==
    /\ caller = "user"
    /\ netRunning
    /\ inited' = [l \in Loops |-> FALSE]
    /\ caller' = "stopping"
    /\ UNCHANGED <<poolVars, netRunning, stoped, at, connVars>>

StopPool ==
    /\ caller = "stopping"
    /\ Pool!Stop
    /\ caller' = "joining"
    /\ UNCHANGED <<netRunning, loopVars, connVars>>

\* The pool joins its threads: the caller stays here as long as one of them runs.
Join ==
    /\ caller = "joining"
    /\ IF \E w \in Loops : worker[w] # "exited"
         THEN UNCHANGED <<poolVars, netRunning, caller>>
         ELSE Pool!StopReturns /\ netRunning' = FALSE /\ caller' = "user"
    /\ UNCHANGED <<loopVars, connVars>>

-----------------------------------------------------------------------------
(* The threads of the pool and the loops they run.                         *)

\* What a thread does in Runner.
Runner(w) ==
    /\ Pool!Run(w) \/ Pool!Wake(w)
    /\ UNCHANGED <<netRunning, caller, loopVars, connVars>>

Runs(w, l) == worker[w] \in {"run", "drainrun"} /\ task[w] = l

\* EventLoop::Run begins.
Enter(w, l) ==
    /\ Runs(w, l) /\ at[l] = "out"
    /\ stoped' = [stoped EXCEPT ![l] = FALSE]
    /\ at' = [at EXCEPT ![l] = "test"]
    /\ UNCHANGED <<poolVars, netRunning, caller, inited, connVars>>

\* while(!_Stoped): another turn, or Run returns.
Test(w, l) ==
    /\ Runs(w, l) /\ at[l] = "test"
    /\ IF stoped[l]
         THEN Pool!FinishTask(w) /\ at' = [at EXCEPT ![l] = "out"]
         ELSE at' = [at EXCEPT ![l] = "turn"] /\ UNCHANGED poolVars
    /\ UNCHANGED <<netRunning, caller, inited, stoped, connVars>>

\* The events and timers of one turn, and the turn is over.
Turn(w, l) ==
    /\ Runs(w, l) /\ at[l] = "turn"
    /\ at' = [at EXCEPT ![l] = "test"]
    /\ UNCHANGED <<poolVars, netRunning, caller, inited, stoped, connVars>>

Loop(w) == \E l \in Loops : Enter(w, l) \/ Test(w, l) \/ Turn(w, l)

-----------------------------------------------------------------------------
(* GetOneEventLoop, in CreateConnection.  It takes no lock: _EventLoopIndex *)
(* is atomic, but its reading and its increment are two steps.             *)

\* index = _EventLoopIndex % _ThreadNum
Pick(u) ==
    /\ u \notin picked
    /\ load[index % ThreadNum] < MaxConns
    /\ load' = [load EXCEPT ![index % ThreadNum] = @ + 1]
    /\ picked' = picked \cup {u}
    /\ overlaps' = overlaps + IF picked = {} THEN 0 ELSE 1
    /\ UNCHANGED <<poolVars, netRunning, caller, loopVars, index>>

\* Mutant: the index is advanced past the next loop.
AdvanceMutant(u) ==
    /\ u \in picked
    /\ index' = (index + ThreadNum) % IndexMod
    /\ picked' = picked \ {u}
    /\ UNCHANGED <<poolVars, netRunning, caller, loopVars, load, overlaps>>

\* _EventLoopIndex += 1
Advance(u) ==
    /\ u \in picked
    /\ index' = (index + 1) % IndexMod
    /\ picked' = picked \ {u}
    /\ UNCHANGED <<poolVars, netRunning, caller, loopVars, load, overlaps>>

NetNext ==
    \/ Start \/ AddLoop \/ Stop \/ StopPool \/ Join
    \/ \E w \in Loops : Runner(w) \/ Loop(w)
    \/ \E u \in Creators : Pick(u) \/ Advance(u)

NetSpec == NetInit /\ [][NetNext]_netVars

\* The caller goes on with a call it has begun, and no thread of the pool is starved.
NetFairSpec ==
    /\ NetSpec
    /\ WF_netVars(AddLoop) /\ WF_netVars(StopPool) /\ WF_netVars(Join)
    /\ \A w \in Loops :
          /\ WF_netVars(Pool!Run(w) /\ UNCHANGED <<netRunning, caller, loopVars, connVars>>)
          /\ WF_netVars(Loop(w))

-----------------------------------------------------------------------------
(* Properties.                                                             *)

\* A loop that is in Run is a task of exactly one thread, and a loop that is not
\* has not been entered: no two threads share the state of one EventLoop (Start,
\* which gives each loop to the pool once).
OneThreadPerLoop ==
    \A l \in Loops :
        /\ at[l] # "out" => Cardinality({w \in Loops : Runs(w, l)}) = 1
        /\ \A v, w \in Loops : Runs(v, l) /\ Runs(w, l) => v = w

\* Pool and loops agree on which thread runs what.
ThreadsAgree == NetTypeOK /\ OneThreadPerLoop

\* The loops are handed out in turn, whatever the index begins with, and where it wraps
\* if the number of loops divides that of its values: to users that call
\* GetOneEventLoop one after the other, so that no loop gets two connections more than
\* another; and a call that comes between the two statements of another one, for which
\* there is no lock, gives one loop a connection too many and another one too few at
\* most, for good (GetOneEventLoop).
SpreadEvenly == \A k, l \in Loops : load[k] <= load[l] + 1 + 2 * overlaps

\* Once the net is started, and until Stop is called, every loop turns for ever,
\* whatever the others do: a connection of any loop is served (Start,
\* ThreadPool::AddTask, Runner).
EveryLoopTurns ==
    \A l \in Loops :
        netRunning ~> (caller \in {"stopping", "joining"} \/ []<>(at[l] = "turn"))

-----------------------------------------------------------------------------
(* What the code says and does not do.                                     *)

\* my_net.h:56-57: Stop stops every loop and then the thread pool.
StopEnds == (caller = "stopping") ~> (caller = "user")

\* my_net.h:66-67: GetOneEventLoop hands the loops out in turn, to any callers.
RoundRobin == \A k, l \in Loops : load[k] <= load[l] + 1
=============================================================================
