-------------------------------- MODULE Timer --------------------------------
(***************************************************************************)
(* my_net::Timer: the items of one event loop, in a map from the time they *)
(* expire to the list of the items that expire then.                       *)
(*                                                                         *)
(* The event-loop thread calls Process on every turn; it and other threads *)
(* call AddTimeItem and DeleteTimeItem.  Both touch the item (SetTime,     *)
(* GetTime) before they take the mutex, and Process releases the mutex     *)
(* around SetTime(0) and the item's own Process: each of these pieces is   *)
(* an action.                                                              *)
(*                                                                         *)
(* The calls for one item follow one another: a connection makes those for *)
(* its items under its mutex or in the thread of its loop, and adds an item *)
(* only when it is not pending (HttpServerHandler::AddIdleTimeout, which   *)
(* the user may call from any thread, is the exception and is left out).   *)
(***************************************************************************)
EXTENDS Integers, Sequences, FiniteSets, SequencesExt

CONSTANTS
    Items,        \* the TimeItems
    Users,        \* the threads that add and delete items, besides the loop's
    Timeouts,     \* timeouts given to AddTimeItem, in clock ticks
    MaxTime       \* bound: the clock stops there

ASSUME TimerAssumption ==
    /\ "loop" \notin Users
    /\ Timeouts \subseteq Int
    /\ MaxTime \in Nat \ {0}

VARIABLES
    now,        \* TimeTools::GetTimeMs
    map,        \* _TimeMap
    next,       \* _NetExpireTime
    time,       \* TimeItem::_Time of each item
    calls,      \* the AddTimeItem or DeleteTimeItem each thread is in
    pc,         \* the loop thread: idle, or in Process: popped, called
    item,       \* the item Process has taken from the map
    seen,       \* the time Process read when it was called
    due,        \* the expiry the last AddTimeItem of each item asked for
    armed       \* items added that have not fired or been deleted since

vars == <<now, map, next, time, calls, pc, item, seen, due, armed>>

Threads == Users \cup {"loop"}
Idle == [kind |-> "none"]
Calls == [kind : {"add", "delete"}, item : Items, expire : Nat]
Clock == 1 .. MaxTime

\* A list of the map may be empty, between two turns of the loop of Process.
Pending(i) == \E k \in DOMAIN map : Contains(map[k], i)

TypeOK ==
    /\ now \in Clock
    /\ DOMAIN map \subseteq Nat
    /\ \A k \in DOMAIN map : map[k] \in Seq(Items)
    /\ next \in Nat
    /\ time \in [Items -> Nat]
    /\ calls \in [Threads -> {Idle} \cup Calls]
    /\ pc \in {"idle", "popped", "called"}
    /\ item \in Items
    /\ seen \in Nat
    /\ due \in [Items -> Nat]
    /\ armed \subseteq Items

Init ==
    /\ now = 1
    /\ map = <<>>
    /\ next = 0
    /\ time = [i \in Items |-> 0]
    /\ calls = [t \in Threads |-> Idle]
    /\ pc = "idle"
    /\ item \in Items
    /\ seen = 0
    /\ due = [i \in Items |-> 0]
    /\ armed = {}

-----------------------------------------------------------------------------
(* AddTimeItem and DeleteTimeItem.                                         *)

\* The loop thread calls them from DoRead, or from the Process of an item.
MayCall(t) ==
    /\ calls[t] = Idle
    /\ t = "loop" => pc # "popped"

\* A call for the item is going on.
InCall(i) == \E t \in Threads : calls[t] # Idle /\ calls[t].item = i

\* Process has taken the item from the map and has not reset its time.
Popped(i) == pc = "popped" /\ item = i

\* GetTimeMs and SetTime, before the lock.
AddTimeItem(t, i, timeout) ==
    /\ MayCall(t)
    /\ ~InCall(i) /\ ~Pending(i) /\ ~Popped(i)
    /\ LET expire == now + (IF timeout < 0 THEN 0 ELSE timeout)
       IN  /\ time' = [time EXCEPT ![i] = expire]
           /\ calls' = [calls EXCEPT ![t] = [kind |-> "add", item |-> i, expire |-> expire]]
           /\ due' = [due EXCEPT ![i] = expire]
    /\ armed' = armed \cup {i}
    /\ UNCHANGED <<now, map, next, pc, item, seen>>

\* Mutant: the first item is taken for the nearest until it is gone.
AddToMapMutant(t) ==
    /\ calls[t].kind = "add"
    /\ LET e == calls[t].expire
           list == IF e \in DOMAIN map THEN map[e] ELSE <<>>
       IN  /\ next' = IF next = 0 THEN e ELSE next
           /\ map' = [k \in DOMAIN map \cup {e} |->
                          IF k = e THEN Append(list, calls[t].item) ELSE map[k]]
    /\ calls' = [calls EXCEPT ![t] = Idle]
    /\ UNCHANGED <<now, time, pc, item, seen, due, armed>>

\* AddTimeItem, under the lock.
AddToMap(t) ==
    /\ calls[t].kind = "add"
    /\ LET e == calls[t].expire
           list == IF e \in DOMAIN map THEN map[e] ELSE <<>>
       IN  /\ next' = IF next > e \/ next = 0 THEN e ELSE next
           /\ map' = [k \in DOMAIN map \cup {e} |->
                          IF k = e THEN Append(list, calls[t].item) ELSE map[k]]
    /\ calls' = [calls EXCEPT ![t] = Idle]
    /\ UNCHANGED <<now, time, pc, item, seen, due, armed>>

\* GetTime, before the lock.
DeleteTimeItem(t, i) ==
    /\ MayCall(t)
    /\ ~InCall(i)
    /\ calls' = [calls EXCEPT ![t] = [kind |-> "delete", item |-> i, expire |-> time[i]]]
    /\ UNCHANGED <<now, map, next, time, pc, item, seen, due, armed>>

\* The least element of a set of times.
Earliest(times) == CHOOSE k \in times : \A j \in times : k <= j

\* DeleteTimeItem returns false: there is no list for the time, or not this item in it.
NotFound(t) ==
    /\ calls[t].kind = "delete"
    /\ calls[t].expire \in DOMAIN map => ~Contains(map[calls[t].expire], calls[t].item)
    /\ calls' = [calls EXCEPT ![t] = Idle]
    /\ UNCHANGED <<now, map, next, time, pc, item, seen, due, armed>>

Restricted(times) == [k \in times |-> map[k]]

\* Mutant: the last item of the list is erased, not the one that was found.
EraseMutant(t) ==
    /\ calls[t].kind = "delete"
    /\ calls[t].expire \in DOMAIN map
    /\ Contains(map[calls[t].expire], calls[t].item)
    /\ LET e == calls[t].expire
           i == calls[t].item
           list == Front(map[e])
           rest == DOMAIN map \ {e}
       IN  /\ IF list # <<>>
                THEN map' = [map EXCEPT ![e] = list] /\ next' = next
                ELSE /\ map' = Restricted(rest)
                     /\ next' = IF next # e THEN next
                                ELSE IF rest = {} THEN 0 ELSE Earliest(rest)
           /\ time' = [time EXCEPT ![i] = 0]
           /\ armed' = armed \ {i}
    /\ calls' = [calls EXCEPT ![t] = Idle]
    /\ UNCHANGED <<now, pc, item, seen, due>>

\* It returns true.
Erase(t) ==
    /\ calls[t].kind = "delete"
    /\ calls[t].expire \in DOMAIN map
    /\ Contains(map[calls[t].expire], calls[t].item)
    /\ LET e == calls[t].expire
           i == calls[t].item
           list == RemoveFirst(map[e], i)
           rest == DOMAIN map \ {e}
       IN  /\ IF list # <<>>
                THEN map' = [map EXCEPT ![e] = list] /\ next' = next
                ELSE /\ map' = Restricted(rest)
                     /\ next' = IF next # e THEN next
                                ELSE IF rest = {} THEN 0 ELSE Earliest(rest)
           /\ time' = [time EXCEPT ![i] = 0]
           /\ armed' = armed \ {i}
    /\ calls' = [calls EXCEPT ![t] = Idle]
    /\ UNCHANGED <<now, pc, item, seen, due>>

-----------------------------------------------------------------------------
(* Process.                                                                *)

\* The keys the loop erases before it looks further: their lists are empty.
Emptied(s) ==
    {k \in DOMAIN map : k <= s /\ \A j \in DOMAIN map : j <= k => map[j] = <<>>}

\* Mutant: the loop ends at a list that has become empty.
TakeExpiredStops(s) ==
    LET rest == DOMAIN map \ Emptied(s)
    IN  IF Emptied(s) # {} \/ rest = {}
          THEN /\ pc' = "idle"
               /\ UNCHANGED <<map, next, item>>
          ELSE IF Earliest(rest) > s
          THEN /\ map' = Restricted(rest)
               /\ next' = Earliest(rest)
               /\ pc' = "idle"
               /\ UNCHANGED item
          ELSE /\ item' = Head(map[Earliest(rest)])
               /\ map' = [Restricted(rest) EXCEPT ![Earliest(rest)] = Tail(@)]
               /\ next' = next
               /\ pc' = "popped"

\* The loop of Process from one lock to the next unlock, the clock read as s: it
\* ends, or takes the first item that has expired.
TakeExpired(s) ==
    LET rest == DOMAIN map \ Emptied(s)
    IN  IF rest = {}
          THEN /\ map' = <<>>
               /\ next' = IF map = <<>> THEN next ELSE 0
               /\ pc' = "idle"
               /\ UNCHANGED item
          ELSE IF Earliest(rest) > s
          THEN /\ map' = Restricted(rest)
               /\ next' = Earliest(rest)
               /\ pc' = "idle"
               /\ UNCHANGED item
          ELSE /\ item' = Head(map[Earliest(rest)])
               /\ map' = [Restricted(rest) EXCEPT ![Earliest(rest)] = Tail(@)]
               /\ next' = next
               /\ pc' = "popped"

\* EventLoop::Run calls Process.
Process ==
    /\ pc = "idle"
    /\ calls["loop"] = Idle
    /\ seen' = now
    /\ TakeExpired(now)
    /\ UNCHANGED <<now, time, calls, due, armed>>

\* Out of the lock: SetTime(0), and the Process of the item starts.
Fire ==
    /\ pc = "popped"
    /\ time' = [time EXCEPT ![item] = 0]
    /\ pc' = "called"
    /\ armed' = armed \ {item}
    /\ UNCHANGED <<now, map, next, calls, item, seen, due>>

\* The Process of the item has returned, and the mutex is taken again.
Continue ==
    /\ pc = "called"
    /\ calls["loop"] = Idle
    /\ TakeExpired(seen)
    /\ UNCHANGED <<now, time, calls, seen, due, armed>>

Tick ==
    /\ now < MaxTime
    /\ now' = now + 1
    /\ UNCHANGED <<map, next, time, calls, pc, item, seen, due, armed>>

Return(t) == AddToMap(t) \/ NotFound(t) \/ Erase(t)

Next ==
    \/ \E t \in Threads, i \in Items :
          \/ \E timeout \in Timeouts : AddTimeItem(t, i, timeout)
          \/ DeleteTimeItem(t, i)
    \/ \E t \in Threads : Return(t)
    \/ Process \/ Fire \/ Continue
    \/ Tick

Spec == Init /\ [][Next]_vars

\* Time passes, every call returns and the loop calls Process again and again.
FairSpec ==
    /\ Spec
    /\ WF_vars(Tick)
    /\ \A t \in Threads : WF_vars(Return(t))
    /\ SF_vars(Process) /\ WF_vars(Fire) /\ SF_vars(Continue)

-----------------------------------------------------------------------------
(* Properties.                                                             *)

Fires(i) == pc = "popped" /\ pc' = "called" /\ item = i

\* An item fires when its last timeout is over, and never before (Process).
NeverEarly == [][\A i \in Items : Fires(i) => due[i] <= now]_vars

\* An item fires once for each AddTimeItem, and not at all when DeleteTimeItem has
\* said that it deleted it, wherever Process is meanwhile (Process works unlocked).
FiresOnceIfAtAll == [][\A i \in Items : Fires(i) => i \in armed]_vars

\* GetTime() > 0 tells the callers that an item is pending, when no call is going on
\* for it: they trust it to delete it (http_server_handler.cc:104-110,
\* base_io_handler.cc:314-316 and 345-347).
TimeTellsPending ==
    \A i \in Items : ~InCall(i) /\ ~Popped(i) => (time[i] > 0 <=> Pending(i))

\* An item that expires before the clock stops fires, or is deleted or added again.
PendingFires ==
    \A i \in Items : \A e \in Clock :
        (Pending(i) /\ due[i] = e) ~> (~Pending(i) \/ due[i] # e)

\* The time the loop plans to wake up is never after the first expiry of the map,
\* though it is kept apart from the map by three functions; it may be before it,
\* when a list is deleted while Process is unlocked (_NetExpireTime).
NextNotLate == \A k \in DOMAIN map : 0 < next /\ next <= k

\* The three places that tell of a pending item, its own time, the map and the
\* planned wake-up, agree.
PlacesAgree == TypeOK /\ TimeTellsPending /\ NextNotLate

\* An item fires when it should: in time, and once (Process works unlocked).
FiresInItsTurn == NeverEarly /\ FiresOnceIfAtAll
=============================================================================
