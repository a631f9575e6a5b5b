------------------------------ MODULE SlotPool ------------------------------
(***************************************************************************)
(* The concurrency slots of the compute resources (LLM servers):           *)
(*   services/dispatcher/dispatcher.go  AcquireScoped, Release             *)
(*   services/dispatcher/wrapper.go     the path of one model call         *)
(*   services/dispatcher/health.go      heartbeat, SetScale, hot reload    *)
(*   services/dispatcher/lease.go       leases, reset of the counters      *)
(* Every call of a model takes a slot of a resource its request allows, or *)
(* waits on a condition variable. Operators hot-reload the resources,      *)
(* change the scale and reset the counters while calls hold slots and      *)
(* wait. One action is one critical section of ModelDispatcher.mu, or one  *)
(* read of d.enabled, which the code makes outside of it.                  *)
(***************************************************************************)
EXTENDS Integers, FiniteSets

CONSTANTS
    Callers,     \* goroutines that call a model
    Servers,     \* resource keys (ResourceKey) a configuration may name
    Objects,     \* ModelResource structures: a pointer is never reused
    Capacities,  \* values of a resource's concurrency
    Scales,      \* values of the effective scale, in percent; 0 pauses
    Requests,    \* what a call may ask for, see RequestOK
    Changes,     \* what operators do: "scale", "reload", "readd", "reset"
    MaxCalls,    \* bound: calls made
    MaxChanges,  \* bound: changes made by operators
    None         \* no object, no server, no request

RequestOK(q) ==
    /\ q.wants \subseteq Servers     \* support the backend, and are allowed
    /\ q.scoped \in BOOLEAN          \* there is a list of allowed resources
    /\ q.resource \subseteq Servers  \* match the preferred resource
    /\ q.model \subseteq Servers     \* serve the preferred model
ASSUME SlotAssumption ==
    /\ IsFiniteSet(Callers) /\ IsFiniteSet(Objects)
    /\ None \notin Objects /\ None \notin Servers /\ None \notin Requests
    /\ Capacities \subseteq Nat /\ Scales \subseteq Nat /\ 100 \in Scales
    /\ \A q \in Requests : RequestOK(q)
    /\ MaxCalls \in Nat /\ MaxChanges \in Nat

VARIABLES
    pool,      \* d.resources
    keyOf,     \* [Objects -> Servers \cup {None}]  None: not allocated yet
    conc,      \* [Objects -> Nat]                  Concurrent
    active,    \* [Objects -> Nat]                  Active
    scale,     \* the effective scale
    waiters,   \* d.waitingCallers
    pc,        \* [Callers -> Pc]                   where a call is
    req,       \* [Callers -> Requests \cup {None}] what it asks for
    slot,      \* [Callers -> Objects \cup {None}]  the slot it has to return
    canceled,  \* callers whose context is canceled
    leases,    \* d.activeLeases, by caller
    calls,     \* calls made so far
    changes    \* changes made so far

poolVars   == <<pool, keyOf, conc>>
callerVars == <<req, slot, canceled, leases, calls>>
vars == <<poolVars, active, scale, waiters, pc, callerVars, changes>>

-----------------------------------------------------------------------------
Pc == {"idle", "queueing", "waiting", "awake", "holding", "running",
       "returning", "releasing", "passing"}
Acquiring == {"queueing", "awake"}

Enabled == pool # {}            \* d.enabled, set with d.resources
Allocated == {o \in Objects : keyOf[o] # None}

\* calculateLimit: rounded up, and at least 1 unless the pool is paused.
Limit(o) ==
    IF scale = 0 THEN 0
    ELSE LET n == (conc[o] * scale + 99) \div 100 IN IF n < 1 THEN 1 ELSE n

Candidates(c) == {o \in pool : keyOf[o] \in req[c].wants}
MutFree(c)    == {o \in Candidates(c) : active[o] <= Limit(o)}
Free(c)       == {o \in Candidates(c) : active[o] < Limit(o)}

\* The resource is chosen by name, then by model, then by load: the lowest
\* active / limit, and among equals the lowest active count.
LoadedLess(o, p) ==
    \/ active[o] * Limit(p) < active[p] * Limit(o)
    \/ active[o] * Limit(p) = active[p] * Limit(o) /\ active[o] < active[p]
LeastLoaded(S) == {o \in S : \A p \in S : ~LoadedLess(p, o)}
Choices(c) ==
    LET named  == {o \in Free(c) : keyOf[o] \in req[c].resource}
        models == {o \in Free(c) : keyOf[o] \in req[c].model}
    IN  IF named # {} THEN named ELSE IF models # {} THEN models
        ELSE LeastLoaded(Free(c))

Goto(c, s) == pc' = [pc EXCEPT ![c] = s]
\* The call is over: its request is gone.
Forget(c) == req' = [req EXCEPT ![c] = None]
\* cond.Broadcast, by an actor whose own call goes on at s.
Woken == [x \in Callers |-> IF pc[x] = "waiting" THEN "awake" ELSE pc[x]]
Broadcast == pc' = Woken

-----------------------------------------------------------------------------
(* One call: DispatchingInvoker.Invoke.                                    *)

\* d.enabled is read before the lock; a disabled dispatcher is bypassed.
Invoke(c) ==
    /\ pc[c] = "idle" /\ calls < MaxCalls
    /\ calls' = calls + 1
    /\ \E q \in Requests : req' = [req EXCEPT ![c] = q]
    /\ Goto(c, IF Enabled THEN "queueing" ELSE "passing")
    /\ UNCHANGED <<poolVars, active, scale, waiters, slot, canceled, leases, changes>>

\* waitingCallers counts a call from cond.Wait until it has the lock again.
MutLeaveWait(c) == UNCHANGED waiters
MutLeaveWaitTwice(c) == waiters' = waiters - 1
LeaveWait(c) == waiters' = waiters - (IF pc[c] = "awake" THEN 1 ELSE 0)

\* One turn of the loop of AcquireScoped: the call is canceled, ...
Refuse(c) ==
    /\ pc[c] \in Acquiring
    /\ \/ c \in canceled
       \/ Candidates(c) = {} /\ req[c].scoped /\ (pc[c] = "awake" => Enabled)
    /\ Goto(c, "idle") /\ LeaveWait(c) /\ Forget(c)
    /\ canceled' = canceled \ {c}
    /\ UNCHANGED <<poolVars, active, scale, slot, leases, calls, changes>>
\* ... or no resource supports it any more and it bypasses the slots, as
\* it also does when d.enabled, read again before the lock, is false, ...
Bypass(c) ==
    /\ pc[c] \in Acquiring /\ Candidates(c) = {}
    /\ req[c].scoped => ~Enabled
    /\ c \in canceled => pc[c] = "queueing" /\ ~Enabled
    /\ Goto(c, "passing") /\ LeaveWait(c)
    /\ canceled' = canceled \ {c}
    /\ UNCHANGED <<poolVars, active, scale, req, slot, leases, calls, changes>>
\* ... or a slot is free, ...
Take(o) == active' = [active EXCEPT ![o] = @ + 1]
Grant(c) ==
    /\ pc[c] \in Acquiring /\ c \notin canceled
    /\ \E o \in Choices(c) : Take(o) /\ slot' = [slot EXCEPT ![c] = o]
    /\ Goto(c, "holding") /\ LeaveWait(c)
    /\ UNCHANGED <<poolVars, scale, req, canceled, leases, calls, changes>>
\* ... or it waits for one.
Wait(c) ==
    /\ pc[c] \in Acquiring /\ c \notin canceled
    /\ Candidates(c) # {} /\ Free(c) = {}
    /\ Goto(c, "waiting")
    /\ waiters' = waiters + (IF pc[c] = "awake" THEN 0 ELSE 1)
    /\ UNCHANGED <<poolVars, active, scale, callerVars, changes>>
Attempt(c) == Refuse(c) \/ Bypass(c) \/ Grant(c) \/ Wait(c)

RegisterLease(c) ==
    /\ pc[c] = "holding"
    /\ leases' = leases \cup {c}
    /\ Goto(c, "running")
    /\ UNCHANGED <<poolVars, active, scale, waiters, req, slot, canceled, calls, changes>>

\* The model answers, fails or is canceled: CompleteSlotLease.
CompleteLease(c) ==
    /\ pc[c] = "running"
    /\ leases' = leases \ {c}
    /\ Goto(c, "returning")
    /\ UNCHANGED <<poolVars, active, scale, waiters, req, slot, canceled, calls, changes>>

\* The deferred Release first reads d.enabled, without the lock.
CheckRelease(c) ==
    /\ pc[c] = "returning"
    /\ IF Enabled
          THEN Goto(c, "releasing") /\ UNCHANGED <<slot, req>>
          ELSE Goto(c, "idle") /\ Forget(c) /\ slot' = [slot EXCEPT ![c] = None]
    /\ UNCHANGED <<poolVars, active, scale, waiters, canceled, leases, calls, changes>>

\* The counter of the object the call holds, and, when it was replaced by
\* one with the same key, that of the replacement as well. Never below zero.
Returned(o) ==
    {o} \cup (IF o \in pool THEN {} ELSE {p \in pool : keyOf[p] = keyOf[o]})
MutGiveBack(o) ==      \* the key is looked up for an object of the pool as well
    active' = [active EXCEPT ![o] = IF @ > 1 THEN @ - 2 ELSE 0]
MutGiveBackNot(o) == UNCHANGED active
GiveBack(o) ==
    active' = [p \in Objects |-> IF p \in Returned(o) /\ active[p] > 0
                                    THEN active[p] - 1 ELSE active[p]]
Release(c) ==
    /\ pc[c] = "releasing"
    /\ GiveBack(slot[c])
    /\ slot' = [slot EXCEPT ![c] = None]
    /\ pc' = [Woken EXCEPT ![c] = "idle"] /\ Forget(c)
    /\ UNCHANGED <<poolVars, scale, waiters, canceled, leases, calls, changes>>

\* A call that bypassed the slots returns.
PassDone(c) ==
    /\ pc[c] = "passing"
    /\ Goto(c, "idle") /\ Forget(c)
    /\ UNCHANGED <<poolVars, active, scale, waiters, slot, canceled, leases, calls, changes>>

\* The context of a call is canceled; a goroutine of AcquireScoped wakes
\* every waiter when it sees that. Later a cancel ends the call of the
\* model, which CompleteLease allows at any time.
CancelCall(c) ==
    /\ pc[c] \in {"queueing", "waiting", "awake"} /\ c \notin canceled
    /\ canceled' = canceled \cup {c}
    /\ UNCHANGED <<poolVars, active, scale, waiters, pc, req, slot, leases, calls, changes>>
CancelWakes(c) ==
    /\ pc[c] = "waiting" /\ c \in canceled
    /\ Broadcast
    /\ UNCHANGED <<poolVars, active, scale, waiters, callerVars, changes>>

-----------------------------------------------------------------------------
(* The heartbeat, once a second, and the operators.                        *)
MutHeartbeat ==
    /\ \E c \in Callers : pc[c] = "waiting"
    /\ UNCHANGED vars
Heartbeat ==
    /\ \E c \in Callers : pc[c] = "waiting"
    /\ Broadcast
    /\ UNCHANGED <<poolVars, active, scale, waiters, callerVars, changes>>

Change == changes < MaxChanges /\ changes' = changes + 1

\* SetScale, RestoreManualScale and the adaptive probe tell the waiters; a
\* manual scale that expires and the hours of the day do not.
SetScale(s) ==
    /\ "scale" \in Changes /\ Change /\ s # scale
    /\ scale' = s
    /\ Broadcast \/ UNCHANGED pc
    /\ UNCHANGED <<poolVars, active, waiters, callerVars>>

\* ReloadResources: an object whose key is configured again keeps its
\* counter, a new one starts at zero, the others leave the pool.
Kept(cfg) == {o \in pool : keyOf[o] \in DOMAIN cfg}
Fresh(cfg) == DOMAIN cfg \ {keyOf[o] : o \in Kept(cfg)}
Configurations == UNION {[S -> Capacities] : S \in SUBSET Servers}
Reload(cfg) ==
    /\ "reload" \in Changes /\ Change
    /\ "readd" \notin Changes => \A o \in Allocated : keyOf[o] \notin Fresh(cfg)
    /\ \E new \in [Fresh(cfg) -> Objects \ Allocated] :
         LET made(o) == \E k \in Fresh(cfg) : new[k] = o IN
         /\ \A j, k \in Fresh(cfg) : new[j] = new[k] => j = k
         /\ pool'  = Kept(cfg) \cup {o \in Objects : made(o)}
         /\ keyOf' = [o \in Objects |-> IF made(o)
                        THEN CHOOSE k \in Fresh(cfg) : new[k] = o ELSE keyOf[o]]
         /\ active' = [o \in Objects |-> IF made(o) THEN 0 ELSE active[o]]
    /\ conc' = [o \in Objects |-> IF o \in pool' THEN cfg[keyOf'[o]] ELSE conc[o]]
    /\ Broadcast
    /\ UNCHANGED <<scale, waiters, callerVars>>

\* ResetActiveSlots: the button against counters that hang.
ResetActive ==
    /\ "reset" \in Changes /\ Change
    /\ active' = [o \in Objects |-> IF o \in pool THEN 0 ELSE active[o]]
    /\ leases' = {}
    /\ Broadcast
    /\ UNCHANGED <<poolVars, scale, waiters, req, slot, canceled, calls>>

-----------------------------------------------------------------------------
\* InitModelDispatcher with a first configuration.
InitPool(cfg) ==
    \E new \in [DOMAIN cfg -> Objects] :
      /\ \A j, k \in DOMAIN cfg : new[j] = new[k] => j = k
      /\ pool  = {o \in Objects : \E k \in DOMAIN cfg : new[k] = o}
      /\ keyOf = [o \in Objects |-> IF o \in pool
                    THEN CHOOSE k \in DOMAIN cfg : new[k] = o ELSE None]
      /\ conc  = [o \in Objects |-> IF o \in pool THEN cfg[keyOf[o]] ELSE 0]
Init ==
    /\ \E cfg \in Configurations : InitPool(cfg)
    /\ active = [o \in Objects |-> 0]
    /\ scale = 100
    /\ waiters = 0
    /\ pc = [c \in Callers |-> "idle"]
    /\ req = [c \in Callers |-> None]
    /\ slot = [c \in Callers |-> None]
    /\ canceled = {} /\ leases = {}
    /\ calls = 0 /\ changes = 0

CallStep(c) ==
    \/ Attempt(c) \/ RegisterLease(c) \/ CompleteLease(c)
    \/ CheckRelease(c) \/ Release(c) \/ PassDone(c)
Next ==
    \/ \E c \in Callers : Invoke(c) \/ CallStep(c) \/ CancelCall(c) \/ CancelWakes(c)
    \/ Heartbeat
    \/ \E s \in Scales : SetScale(s)
    \/ \E cfg \in Configurations : Reload(cfg)
    \/ ResetActive

Spec == Init /\ [][Next]_vars
\* Goroutines run, model calls have deadlines, and the ticker fires.
FairSpec ==
    /\ Spec /\ WF_vars(Heartbeat)
    /\ \A c \in Callers : WF_vars(CallStep(c))

-----------------------------------------------------------------------------
(* Properties.                                                              *)
TypeOK ==
    /\ pool \subseteq Allocated
    /\ keyOf \in [Objects -> Servers \cup {None}]
    /\ conc \in [Objects -> Nat] /\ active \in [Objects -> Nat]
    /\ scale \in Scales /\ waiters \in Nat
    /\ pc \in [Callers -> Pc] /\ req \in [Callers -> Requests \cup {None}]
    /\ \A c \in Callers : pc[c] # "idle" => req[c] \in Requests
    /\ slot \in [Callers -> Objects \cup {None}]
    /\ \A c \in Callers : slot[c] # None <=>
         pc[c] \in {"holding", "running", "returning", "releasing"}
    /\ canceled \subseteq Callers /\ leases \subseteq Callers
    /\ calls \in Nat /\ changes \in Nat

Holders(o) == {c \in Callers : slot[c] = o}
UsersOf(k) == {c \in Callers : slot[c] # None /\ keyOf[slot[c]] = k}

\* The active count of a resource is the number of calls that use it.
ActiveCountsCalls == \A o \in pool : active[o] = Cardinality(Holders(o))

\* A slot is granted only while the calls that really run on the server are
\* fewer than its limit, through scale changes, reloads and cancellations.
Granted(c) == pc[c] \in Acquiring /\ pc'[c] = "holding"
GrantWithinCapacity ==
    [][\A c \in Callers : Granted(c) =>
         Cardinality(UsersOf(keyOf[slot'[c]])) < Limit(slot'[c])]_vars

\* Whatever reloads, re-additions and resets do to the counters, none ever
\* stands above the number of calls in flight: no slot is lost for good.
NoLostSlot == \A o \in pool : active[o] <= Cardinality(Holders(o))

\* waitingCallers counts the calls that wait: a count that stayed above zero
\* would stop every worker from claiming tasks (CanAdmitNewTask).
WaitersCounted ==
    waiters = Cardinality({c \in Callers : pc[c] \in {"waiting", "awake"}})

\* A call that waits gets a slot, is canceled, refused or let through,
\* unless the pool stays paused.
CallServed ==
    []<>(scale > 0) =>
      \A c \in Callers : pc[c] = "waiting" ~> pc[c] \notin {"waiting", "awake"}
=============================================================================
