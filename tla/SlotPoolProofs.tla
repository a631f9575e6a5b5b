---------------------------- MODULE SlotPoolProofs ----------------------------
(***************************************************************************)
(* Proofs about the slots of the compute resources: types, no counter      *)
(* above the calls in flight, and, when no removed resource comes back     *)
(* and no one resets the counters, exact counters and no grant above the   *)
(* limit of a server.                                                      *)
(***************************************************************************)
EXTENDS SlotPool, FiniteSetTheorems, TLAPS

Keeping == {"holding", "running", "returning", "releasing"}

-----------------------------------------------------------------------------
(* Configurations and limits.                                              *)
LEMMA ConfigType ==
    ASSUME NEW cfg \in Configurations
    PROVE  /\ DOMAIN cfg \subseteq Servers
           /\ \A k \in DOMAIN cfg : cfg[k] \in Nat
<1>1. PICK S \in SUBSET Servers : cfg \in [S -> Capacities]
  BY DEF Configurations
<1> QED BY <1>1, SlotAssumption

LEMMA LimitType ==
    ASSUME TypeOK, NEW o \in Objects
    PROVE  Limit(o) \in Nat
<1>1. conc[o] \in Nat /\ scale \in Nat
  BY SlotAssumption DEF TypeOK
<1> DEFINE n == (conc[o] * scale + 99) \div 100
<1>2. conc[o] * scale \in Nat
  BY <1>1
<1>3. n \in Int
  BY <1>2
<1> HIDE DEF n
<1>4. Limit(o) = IF scale = 0 THEN 0 ELSE IF n < 1 THEN 1 ELSE n
  BY DEF Limit, n
<1> QED BY <1>3, <1>4

LEMMA ChoiceIsFree ==
    ASSUME NEW c \in Callers, NEW o \in Choices(c)
    PROVE  o \in pool /\ active[o] < Limit(o)
<1>1. o \in Free(c)
  BY DEF Choices, LeastLoaded
<1> QED BY <1>1 DEF Free, Candidates

-----------------------------------------------------------------------------
(* The type invariant.                                                     *)
LEMMA InitType == Init => TypeOK
<1> SUFFICES ASSUME Init PROVE TypeOK
  OBVIOUS
<1>1. PICK cfg \in Configurations : InitPool(cfg)
  BY DEF Init
<1>2. PICK new \in [DOMAIN cfg -> Objects] :
        /\ pool = {o \in Objects : \E k \in DOMAIN cfg : new[k] = o}
        /\ keyOf = [o \in Objects |-> IF o \in pool
                      THEN CHOOSE k \in DOMAIN cfg : new[k] = o ELSE None]
        /\ conc  = [o \in Objects |-> IF o \in pool THEN cfg[keyOf[o]] ELSE 0]
  BY <1>1 DEF InitPool
<1>3. \A o \in pool : keyOf[o] \in DOMAIN cfg
  BY <1>2
<1>4. pool \subseteq Allocated /\ keyOf \in [Objects -> Servers \cup {None}]
  BY <1>2, <1>3, ConfigType, SlotAssumption DEF Allocated
<1>5. conc \in [Objects -> Nat]
  BY <1>2, <1>3, ConfigType
<1> QED BY <1>4, <1>5, SlotAssumption DEF Init, TypeOK, Pc

\* What a reload makes of the objects.
LEMMA ReloadPool ==
    ASSUME TypeOK, NEW cfg \in Configurations, Reload(cfg)
    PROVE  /\ pool' \subseteq Objects /\ keyOf' \in [Objects -> Servers \cup {None}]
           /\ active' \in [Objects -> Nat] /\ conc' \in [Objects -> Nat]
           /\ \A o \in pool' : keyOf'[o] # None
           /\ \A o \in Allocated : keyOf'[o] = keyOf[o] /\ active'[o] = active[o]
           /\ \A o \in pool' \ pool : o \notin Allocated /\ active'[o] = 0
           /\ "readd" \notin Changes =>
                \A o, q \in Objects : keyOf'[o] = keyOf'[q] /\ keyOf'[o] # None /\ o # q
                   => o \in Allocated /\ q \in Allocated
<1>1. PICK new \in [Fresh(cfg) -> Objects \ Allocated] :
        /\ \A j, k \in Fresh(cfg) : new[j] = new[k] => j = k
        /\ pool'  = Kept(cfg) \cup {o \in Objects : \E k \in Fresh(cfg) : new[k] = o}
        /\ keyOf' = [o \in Objects |-> IF \E k \in Fresh(cfg) : new[k] = o
                       THEN CHOOSE k \in Fresh(cfg) : new[k] = o ELSE keyOf[o]]
        /\ active' = [o \in Objects |->
                        IF \E k \in Fresh(cfg) : new[k] = o THEN 0 ELSE active[o]]
  BY DEF Reload
<1> DEFINE made(o) == \E k \in Fresh(cfg) : new[k] = o
<1>2. /\ Fresh(cfg) \subseteq DOMAIN cfg /\ DOMAIN cfg \subseteq Servers
      /\ \A k \in DOMAIN cfg : cfg[k] \in Nat
  BY ConfigType DEF Fresh
<1>3. /\ pool \subseteq Allocated /\ Allocated \subseteq Objects
      /\ keyOf \in [Objects -> Servers \cup {None}] /\ active \in [Objects -> Nat]
      /\ conc \in [Objects -> Nat]
  BY DEF TypeOK, Allocated
<1>4. \A o \in Objects : made(o) =>
        o \notin Allocated /\ keyOf'[o] \in Fresh(cfg) /\ new[keyOf'[o]] = o /\ active'[o] = 0
  BY <1>1
<1>5. \A o \in Objects : ~made(o) => keyOf'[o] = keyOf[o] /\ active'[o] = active[o]
  BY <1>1
<1>6. \A o \in pool' : o \in Objects /\ (made(o) \/ o \in Kept(cfg))
  BY <1>1, <1>3 DEF Kept
<1>7. \A o \in Kept(cfg) : o \in pool /\ ~made(o) /\ keyOf[o] \in DOMAIN cfg
  BY <1>3, <1>4 DEF Kept
<1>8. pool' \subseteq Objects /\ keyOf' \in [Objects -> Servers \cup {None}]
  BY <1>1, <1>2, <1>3, <1>6
<1>9. active' \in [Objects -> Nat]
  BY <1>1, <1>3
<1>10. \A o \in pool' : keyOf'[o] \in DOMAIN cfg
  BY <1>2, <1>4, <1>5, <1>6, <1>7
<1>11. \A o \in pool' : keyOf'[o] # None
  BY <1>2, <1>10, SlotAssumption
<1>12. conc' \in [Objects -> Nat]
  <2>1. conc' = [o \in Objects |-> IF o \in pool' THEN cfg[keyOf'[o]] ELSE conc[o]]
    BY DEF Reload
  <2> QED BY <2>1, <1>2, <1>3, <1>10
<1>13. \A o \in Allocated : keyOf'[o] = keyOf[o] /\ active'[o] = active[o]
  BY <1>3, <1>4, <1>5
<1>14. \A o \in pool' \ pool : o \notin Allocated /\ active'[o] = 0
  BY <1>4, <1>6, <1>7
<1>15. ASSUME "readd" \notin Changes, NEW o \in Objects, NEW q \in Objects,
              keyOf'[o] = keyOf'[q], keyOf'[o] # None, o # q
       PROVE  o \in Allocated /\ q \in Allocated
  <2>1. \A p \in Allocated : keyOf[p] \notin Fresh(cfg)
    BY <1>15 DEF Reload
  <2>2. ~made(o)
    BY <1>3, <1>4, <1>5, <1>15, <2>1 DEF Allocated
  <2>3. ~made(q)
    BY <1>3, <1>4, <1>5, <1>15, <2>1 DEF Allocated
  <2> QED BY <2>2, <2>3, <1>5, <1>15 DEF Allocated
<1> QED BY <1>8, <1>9, <1>11, <1>12, <1>13, <1>14, <1>15

-----------------------------------------------------------------------------
(* Types are inductive with the count of the waiting calls, which keeps    *)
(* waiters from being decremented below zero.                              *)
WaitSet == {c \in Callers : pc[c] \in {"waiting", "awake"}}
PoolType ==
    /\ pool \subseteq Allocated
    /\ keyOf \in [Objects -> Servers \cup {None}]
    /\ conc \in [Objects -> Nat] /\ active \in [Objects -> Nat]
    /\ scale \in Scales /\ calls \in Nat /\ changes \in Nat
CallType ==
    /\ pc \in [Callers -> Pc] /\ req \in [Callers -> Requests \cup {None}]
    /\ \A c \in Callers : pc[c] # "idle" => req[c] \in Requests
    /\ slot \in [Callers -> Objects \cup {None}]
    /\ \A c \in Callers : slot[c] # None <=> pc[c] \in Keeping
    /\ canceled \subseteq Callers /\ leases \subseteq Callers
TypeInv == PoolType /\ CallType /\ WaitersCounted

LEMMA WaitSetFinite == IsFiniteSet(WaitSet) /\ Cardinality(WaitSet) \in Nat
  BY SlotAssumption, FS_Subset, FS_CardinalityType DEF WaitSet

LEMMA TypeInvIsType == TypeInv => TypeOK /\ WaitersCounted
  BY WaitSetFinite DEF TypeInv, PoolType, CallType, TypeOK, WaitersCounted, WaitSet, Keeping

LEMMA TypeIsTypeInv == TypeOK /\ WaitersCounted => TypeInv
  BY DEF TypeInv, PoolType, CallType, TypeOK, Keeping

LEMMA SameWaiters ==
    ASSUME WaitersCounted, waiters' = waiters, WaitSet' = WaitSet
    PROVE  WaitersCounted'
  BY DEF WaitersCounted, WaitSet

\* A call joins or leaves those that wait.
LEMMA WaiterMoves ==
    ASSUME TypeInv, NEW c \in Callers, NEW s \in Pc, Goto(c, s),
           waiters' = waiters + (IF s = "waiting" THEN 1 ELSE 0)
                              - (IF pc[c] = "awake" THEN 1 ELSE 0),
           pc[c] # "waiting", s # "awake"
    PROVE  WaitersCounted'
<1>1. pc \in [Callers -> Pc] /\ waiters = Cardinality(WaitSet)
  BY DEF TypeInv, CallType, WaitersCounted, WaitSet
<1>2. pc' = [pc EXCEPT ![c] = s]
  BY DEF Goto
<1>3. SUFFICES waiters' = Cardinality(WaitSet')
  BY DEF WaitersCounted, WaitSet
<1>4. CASE s = "waiting" /\ pc[c] # "awake"
  <2>1. WaitSet' = WaitSet \cup {c} /\ c \notin WaitSet
    BY <1>1, <1>2, <1>4 DEF WaitSet
  <2>2. Cardinality(WaitSet') = Cardinality(WaitSet) + 1
    BY <2>1, WaitSetFinite, FS_AddElement
  <2>3. waiters' = waiters + 1 - 0
    BY <1>4
  <2> QED BY <2>2, <2>3, <1>1, WaitSetFinite
<1>5. CASE s # "waiting" /\ pc[c] = "awake"
  <2>1. WaitSet' = WaitSet \ {c} /\ c \in WaitSet
    BY <1>1, <1>2, <1>5 DEF WaitSet
  <2> QED BY <2>1, <1>1, <1>5, WaitSetFinite, FS_RemoveElement
<1>6. CASE s = "waiting" <=> pc[c] = "awake"
  <2>1. WaitSet' = WaitSet
    BY <1>1, <1>2, <1>6 DEF WaitSet
  <2> QED BY <2>1, <1>1, <1>6, WaitSetFinite
<1> QED BY <1>4, <1>5, <1>6

LEMMA WokenType ==
    ASSUME TypeInv
    PROVE  /\ Woken \in [Callers -> Pc]
           /\ \A x \in Callers :
                /\ Woken[x] \in Keeping <=> pc[x] \in Keeping
                /\ Woken[x] = "idle" <=> pc[x] = "idle"
                /\ Woken[x] \in {"waiting", "awake"} <=> pc[x] \in {"waiting", "awake"}
<1>1. pc \in [Callers -> Pc]
  BY DEF TypeInv, CallType
<1>2. \A x \in Callers : Woken[x] = IF pc[x] = "waiting" THEN "awake" ELSE pc[x]
  BY DEF Woken
<1>3. Woken \in [Callers -> Pc]
  BY <1>1 DEF Woken, Pc
<1> QED BY <1>2, <1>3 DEF Keeping

LEMMA WakeStep ==
    ASSUME TypeInv, Broadcast, UNCHANGED <<req, slot, canceled, waiters>>,
           leases' \subseteq leases
    PROVE  CallType' /\ WaitersCounted'
<1>0. pc' = Woken
  BY DEF Broadcast
<1>1. CallType'
  BY <1>0, WokenType DEF TypeInv, CallType
<1>2. WaitSet' = WaitSet
  BY <1>0, WokenType DEF WaitSet
<1> QED BY <1>1, <1>2, SameWaiters DEF TypeInv

LEMMA InvokeType ==
    ASSUME TypeInv, NEW c \in Callers, Invoke(c) PROVE TypeInv'
<1>1. PoolType'
  BY DEF TypeInv, PoolType, Invoke, poolVars, Allocated
<1>2. PICK q \in Requests : req' = [req EXCEPT ![c] = q]
  BY DEF Invoke
<1>3. CallType'
  BY <1>2 DEF TypeInv, CallType, Invoke, Goto, Pc, Keeping
<1>4. WaitersCounted'
  <2>1. PICK s \in {"queueing", "passing"} : Goto(c, s)
    BY DEF Invoke
  <2>2. WaitSet' = WaitSet
    BY <2>1 DEF Invoke, TypeInv, CallType, WaitSet, Goto
  <2> QED BY <2>2, SameWaiters DEF Invoke, TypeInv
<1> QED BY <1>1, <1>3, <1>4 DEF TypeInv

LEMMA AttemptType ==
    ASSUME TypeInv, NEW c \in Callers, Attempt(c) PROVE TypeInv'
<1>0. c \in Callers /\ waiters \in Nat /\ pc[c] \in Acquiring
  BY WaitSetFinite DEF TypeInv, WaitersCounted, WaitSet, Attempt, Refuse, Bypass, Grant, Wait
<1>1. CASE Refuse(c)
  <2>1. PoolType'
    BY <1>1 DEF TypeInv, PoolType, Refuse, poolVars, Allocated
  <2>2. CallType'
    BY <1>0, <1>1 DEF TypeInv, CallType, Refuse, Goto, Forget, Pc, Keeping, Acquiring
  <2>3. WaitersCounted'
    BY <1>0, <1>1, WaiterMoves DEF Refuse, LeaveWait, Pc, Acquiring
  <2> QED BY <2>1, <2>2, <2>3 DEF TypeInv
<1>2. CASE Bypass(c)
  <2>1. PoolType'
    BY <1>2 DEF TypeInv, PoolType, Bypass, poolVars, Allocated
  <2>2. CallType'
    BY <1>0, <1>2 DEF TypeInv, CallType, Bypass, Goto, Pc, Keeping, Acquiring
  <2>3. WaitersCounted'
    BY <1>0, <1>2, WaiterMoves DEF Bypass, LeaveWait, Pc, Acquiring
  <2> QED BY <2>1, <2>2, <2>3 DEF TypeInv
<1>3. CASE Grant(c)
  <2>0. PICK o \in Choices(c) : Take(o) /\ slot' = [slot EXCEPT ![c] = o]
    BY <1>3 DEF Grant
  <2>1. o \in Objects /\ o # None
    BY ChoiceIsFree, SlotAssumption DEF TypeInv, PoolType, Allocated
  <2>2. PoolType'
    BY <1>3, <2>0, <2>1 DEF TypeInv, PoolType, Grant, Take, poolVars, Allocated
  <2>3. CallType'
    BY <1>0, <1>3, <2>0, <2>1 DEF TypeInv, CallType, Grant, Goto, Pc, Keeping, Acquiring
  <2>4. WaitersCounted'
    BY <1>0, <1>3, WaiterMoves DEF Grant, LeaveWait, Pc, Acquiring
  <2> QED BY <2>2, <2>3, <2>4 DEF TypeInv
<1>4. CASE Wait(c)
  <2>1. PoolType'
    BY <1>4 DEF TypeInv, PoolType, Wait, poolVars, callerVars, Allocated
  <2>2. CallType'
    BY <1>0, <1>4 DEF TypeInv, CallType, Wait, Goto, callerVars, Pc, Keeping, Acquiring
  <2>3. WaitersCounted'
    BY <1>0, <1>4, WaiterMoves DEF Wait, Pc, Acquiring
  <2> QED BY <2>1, <2>2, <2>3 DEF TypeInv
<1> QED BY <1>1, <1>2, <1>3, <1>4 DEF Attempt

\* A step of a call that neither waits nor comes from waiting.
LEMMA OwnStep ==
    ASSUME TypeInv, NEW c \in Callers, NEW s \in Pc \ {"waiting", "awake"}, Goto(c, s),
           pc[c] \notin {"waiting", "awake"}, waiters' = waiters
    PROVE  WaitersCounted'
<1>1. WaitSet' = WaitSet
  BY DEF TypeInv, CallType, WaitSet, Goto
<1> QED BY <1>1, SameWaiters DEF TypeInv

LEMMA LeaseType ==
    ASSUME TypeInv, NEW c \in Callers, RegisterLease(c) \/ CompleteLease(c) PROVE TypeInv'
<1>1. PoolType'
  BY DEF TypeInv, PoolType, RegisterLease, CompleteLease, poolVars, Allocated
<1>2. CallType'
  BY DEF TypeInv, CallType, RegisterLease, CompleteLease, Goto, Pc, Keeping
<1>3. WaitersCounted'
  BY OwnStep DEF RegisterLease, CompleteLease, Pc
<1> QED BY <1>1, <1>2, <1>3 DEF TypeInv

LEMMA CheckReleaseType ==
    ASSUME TypeInv, NEW c \in Callers, CheckRelease(c) PROVE TypeInv'
<1>1. PoolType'
  BY DEF TypeInv, PoolType, CheckRelease, poolVars, Allocated
<1>2. CASE Enabled
  <2>1. CallType'
    BY <1>2 DEF TypeInv, CallType, CheckRelease, Goto, Pc, Keeping
  <2>2. WaitersCounted'
    BY <1>2, OwnStep DEF CheckRelease, Pc
  <2> QED BY <1>1, <2>1, <2>2 DEF TypeInv
<1>3. CASE ~Enabled
  <2>1. CallType'
    BY <1>3 DEF TypeInv, CallType, CheckRelease, Goto, Forget, Pc, Keeping
  <2>2. WaitersCounted'
    BY <1>3, OwnStep DEF CheckRelease, Pc
  <2> QED BY <1>1, <2>1, <2>2 DEF TypeInv
<1> QED BY <1>2, <1>3

LEMMA ReleaseType ==
    ASSUME TypeInv, NEW c \in Callers, Release(c) PROVE TypeInv'
<1>1. PoolType'
  <2>1. active' \in [Objects -> Nat]
    BY DEF TypeInv, PoolType, Release, GiveBack
  <2> QED BY <2>1 DEF TypeInv, PoolType, Release, poolVars, Allocated
<1>0. /\ pc[c] = "releasing" /\ pc' = [Woken EXCEPT ![c] = "idle"]
      /\ req' = [req EXCEPT ![c] = None] /\ slot' = [slot EXCEPT ![c] = None]
      /\ UNCHANGED <<canceled, leases>>
  BY DEF Release, Forget
<1>2. CallType'
  BY <1>0, WokenType DEF TypeInv, CallType, Pc, Keeping
<1>3. WaitSet' = WaitSet
  BY <1>0, WokenType DEF WaitSet
<1> QED BY <1>1, <1>2, <1>3, SameWaiters DEF TypeInv, Release

LEMMA PassType ==
    ASSUME TypeInv, NEW c \in Callers, PassDone(c) PROVE TypeInv'
<1>1. PoolType'
  BY DEF TypeInv, PoolType, PassDone, poolVars, Allocated
<1>2. CallType'
  BY DEF TypeInv, CallType, PassDone, Goto, Forget, Pc, Keeping
<1>3. WaitersCounted'
  BY OwnStep DEF PassDone, Pc
<1> QED BY <1>1, <1>2, <1>3 DEF TypeInv

LEMMA CancelType ==
    ASSUME TypeInv, NEW c \in Callers, CancelCall(c) PROVE TypeInv'
<1>1. PoolType' /\ CallType'
  BY DEF TypeInv, PoolType, CallType, CancelCall, poolVars, Allocated
<1>2. WaitSet' = WaitSet
  BY DEF WaitSet, CancelCall
<1> QED BY <1>1, <1>2, SameWaiters DEF TypeInv, CancelCall

LEMMA BroadcastType ==
    ASSUME TypeInv, Heartbeat \/ \E c \in Callers : CancelWakes(c) PROVE TypeInv'
<1>1. PoolType'
  BY DEF TypeInv, PoolType, Heartbeat, CancelWakes, poolVars, callerVars, Allocated
<1>2. CallType' /\ WaitersCounted'
  BY WakeStep DEF Heartbeat, CancelWakes, callerVars
<1> QED BY <1>1, <1>2 DEF TypeInv

LEMMA ScaleType ==
    ASSUME TypeInv, NEW s \in Scales, SetScale(s) PROVE TypeInv'
<1>1. PoolType'
  BY DEF TypeInv, PoolType, SetScale, Change, poolVars, callerVars, Allocated
<1>2. CASE Broadcast
  BY <1>1, <1>2, WakeStep DEF TypeInv, SetScale, callerVars
<1>3. CASE UNCHANGED pc
  <2>1. CallType' /\ WaitSet' = WaitSet
    BY <1>3 DEF TypeInv, CallType, SetScale, callerVars, WaitSet
  <2> QED BY <1>1, <2>1, SameWaiters DEF TypeInv, SetScale
<1> QED BY <1>2, <1>3 DEF SetScale

LEMMA ReloadType ==
    ASSUME TypeInv, NEW cfg \in Configurations, Reload(cfg) PROVE TypeInv'
<1>1. PoolType'
  <2>1. TypeOK
    BY TypeInvIsType
  <2>2. pool' \subseteq Allocated'
    BY <2>1, ReloadPool DEF Allocated
  <2>3. /\ keyOf' \in [Objects -> Servers \cup {None}]
        /\ conc' \in [Objects -> Nat] /\ active' \in [Objects -> Nat]
    BY <2>1, ReloadPool
  <2>4. scale' \in Scales /\ calls' \in Nat /\ changes' \in Nat
    BY DEF TypeInv, PoolType, Reload, Change, callerVars
  <2> QED BY <2>2, <2>3, <2>4 DEF PoolType
<1>2. CallType' /\ WaitersCounted'
  BY WakeStep DEF Reload, callerVars
<1> QED BY <1>1, <1>2 DEF TypeInv

LEMMA ResetType ==
    ASSUME TypeInv, ResetActive PROVE TypeInv'
<1>1. PoolType'
  BY DEF TypeInv, PoolType, ResetActive, Change, poolVars, Allocated
<1>2. CallType' /\ WaitersCounted'
  BY WakeStep DEF ResetActive, Broadcast
<1> QED BY <1>1, <1>2 DEF TypeInv

LEMMA TypeStep == TypeInv /\ [Next]_vars => TypeInv'
<1> SUFFICES ASSUME TypeInv, [Next]_vars PROVE TypeInv'
  OBVIOUS
<1>1. CASE UNCHANGED vars
  <2>1. PoolType' /\ CallType' /\ WaitSet' = WaitSet
    BY <1>1 DEF TypeInv, PoolType, CallType, WaitSet, vars, poolVars, callerVars, Allocated
  <2> QED BY <1>1, <2>1, SameWaiters DEF TypeInv, vars
<1>2. CASE \E c \in Callers : Invoke(c) \/ CallStep(c) \/ CancelCall(c) \/ CancelWakes(c)
  BY <1>2, InvokeType, AttemptType, LeaseType, CheckReleaseType, ReleaseType, PassType,
     CancelType, BroadcastType DEF CallStep
<1> QED BY <1>1, <1>2, BroadcastType, ScaleType, ReloadType, ResetType DEF Next

LEMMA InitTypeInv == Init => TypeInv
<1> SUFFICES ASSUME Init PROVE WaitersCounted
  BY InitType, TypeIsTypeInv
<1>1. {c \in Callers : pc[c] \in {"waiting", "awake"}} = {}
  BY DEF Init
<1> QED BY <1>1, FS_EmptySet DEF Init, WaitersCounted

\* Every variable keeps its type: a call has a slot to return exactly
\* between AcquireScoped and Release, and waitingCallers stays a natural.
THEOREM SlotTypeCorrect == Spec => []TypeOK
<1>1. TypeInv => TypeOK
  BY TypeInvIsType
<1> QED BY <1>1, InitTypeInv, TypeStep, PTL DEF Spec

\* waitingCallers is the number of calls that wait for a slot.
THEOREM WaitersAreCounted == Spec => []WaitersCounted
<1>1. TypeInv => WaitersCounted
  BY DEF TypeInv
<1> QED BY <1>1, InitTypeInv, TypeStep, PTL DEF Spec

-----------------------------------------------------------------------------
(* The calls that hold an object, as a step moves them.                    *)
LEMMA HoldersFinite ==
    ASSUME NEW o PROVE IsFiniteSet(Holders(o)) /\ Cardinality(Holders(o)) \in Nat
  BY SlotAssumption, FS_Subset, FS_CardinalityType DEF Holders

LEMMA SameHolders ==
    ASSUME slot' = slot, NEW o PROVE Holders(o)' = Holders(o)
  BY DEF Holders

LEMMA HolderJoins ==
    ASSUME TypeInv, NEW c \in Callers, NEW o \in Objects,
           slot[c] = None, slot' = [slot EXCEPT ![c] = o]
    PROVE  /\ Cardinality(Holders(o)') = Cardinality(Holders(o)) + 1
           /\ \A p \in Objects \ {o} : Holders(p)' = Holders(p)
<1>1. slot \in [Callers -> Objects \cup {None}] /\ None \notin Objects
  BY SlotAssumption DEF TypeInv, CallType
<1>2. Holders(o)' = Holders(o) \cup {c} /\ c \notin Holders(o)
  BY <1>1 DEF Holders
<1>3. \A p \in Objects \ {o} : Holders(p)' = Holders(p)
  BY <1>1 DEF Holders
<1>4. Cardinality(Holders(o) \cup {c}) = Cardinality(Holders(o)) + 1
  BY <1>2, HoldersFinite, FS_AddElement
<1> QED BY <1>2, <1>3, <1>4

LEMMA HolderLeaves ==
    ASSUME TypeInv, NEW c \in Callers, slot[c] # None, slot' = [slot EXCEPT ![c] = None]
    PROVE  /\ Cardinality(Holders(slot[c])) \in Nat \ {0}
           /\ Cardinality({x \in Callers : slot'[x] = slot[c]}) = Cardinality(Holders(slot[c])) - 1
           /\ \A p \in Objects \ {slot[c]} : Holders(p)' = Holders(p)
<1> DEFINE H == Holders(slot[c])
<1>1. slot \in [Callers -> Objects \cup {None}] /\ None \notin Objects
  BY SlotAssumption DEF TypeInv, CallType
<1>2. {x \in Callers : slot'[x] = slot[c]} = H \ {c} /\ c \in H
  BY <1>1 DEF Holders
<1>3. \A p \in Objects \ {slot[c]} : Holders(p)' = Holders(p)
  BY <1>1 DEF Holders
<1>4. IsFiniteSet(H) /\ Cardinality(H) \in Nat
  BY HoldersFinite
<1>5. Cardinality(H \ {c}) = Cardinality(H) - 1
  BY <1>2, <1>4, FS_RemoveElement
<1>6. Cardinality(H) # 0
  BY <1>2, <1>4, FS_EmptySet
<1> QED BY <1>2, <1>3, <1>4, <1>5, <1>6

\* What every action but four does to pool, counters and holders: nothing.
Quiet == UNCHANGED <<poolVars, active, slot>>
LEMMA WhoMovesSlots ==
    ASSUME [Next]_vars
    PROVE  \/ Quiet
           \/ \E c \in Callers : Grant(c) \/ Release(c) \/ (CheckRelease(c) /\ ~Enabled)
           \/ \E cfg \in Configurations : Reload(cfg)
           \/ ResetActive
<1>1. CASE UNCHANGED vars
  BY <1>1 DEF vars, callerVars, Quiet
<1>2. ASSUME NEW c \in Callers, Invoke(c) \/ CancelCall(c) \/ CancelWakes(c) PROVE Quiet
  BY <1>2 DEF Invoke, CancelCall, CancelWakes, callerVars, Quiet
<1>3. ASSUME NEW c \in Callers, CallStep(c)
      PROVE  Quiet \/ Grant(c) \/ Release(c) \/ (CheckRelease(c) /\ ~Enabled)
  BY <1>3 DEF CallStep, Attempt, Refuse, Bypass, Wait, RegisterLease, CompleteLease,
     CheckRelease, PassDone, callerVars, Quiet
<1>4. ASSUME Heartbeat \/ \E s \in Scales : SetScale(s) PROVE Quiet
  BY <1>4 DEF Heartbeat, SetScale, callerVars, Quiet
<1> QED BY <1>1, <1>2, <1>3, <1>4 DEF Next

-----------------------------------------------------------------------------
(* No slot is ever lost: the counter of an object of the pool is at most   *)
(* the number of the calls that hold it. Reloads start new objects at      *)
(* zero, resets only lower a counter, and a release lowers the counter of  *)
(* the object whose holders become fewer.                                  *)
LEMMA LostStep == TypeInv /\ NoLostSlot /\ [Next]_vars => NoLostSlot'
<1> SUFFICES ASSUME TypeInv, NoLostSlot, [Next]_vars, NEW o \in pool'
             PROVE  active'[o] <= Cardinality(Holders(o)')
  BY DEF NoLostSlot, Holders
<1>1. /\ pool \subseteq Objects /\ active \in [Objects -> Nat]
      /\ slot \in [Callers -> Objects \cup {None}]
      /\ \A p \in pool : active[p] <= Cardinality(Holders(p))
  BY DEF TypeInv, PoolType, CallType, NoLostSlot, Allocated
<1>2. CASE Quiet
  <2>1. o \in pool /\ active'[o] = active[o] /\ Holders(o)' = Holders(o)
    BY <1>2, SameHolders DEF Quiet, poolVars
  <2> QED BY <1>1, <2>1
<1>3. ASSUME NEW c \in Callers, Grant(c)
      PROVE  active'[o] <= Cardinality(Holders(o)')
  <2>1. PICK g \in Choices(c) : Take(g) /\ slot' = [slot EXCEPT ![c] = g]
    BY <1>3 DEF Grant
  <2>2. o \in pool /\ g \in Objects /\ slot[c] = None
    BY <1>1, <1>3, <2>1, ChoiceIsFree DEF Grant, poolVars, TypeInv, CallType, Acquiring, Keeping
  <2>3. CASE o = g
    <3>1. active'[o] = active[o] + 1
      BY <1>1, <2>1, <2>2, <2>3 DEF Take
    <3>2. Cardinality(Holders(o)') = Cardinality(Holders(o)) + 1
      BY <2>1, <2>2, <2>3, HolderJoins
    <3>3. active[o] \in Nat /\ Cardinality(Holders(o)) \in Nat
      BY <1>1, <2>2, HoldersFinite
    <3> QED BY <1>1, <2>2, <3>1, <3>2, <3>3
  <2>4. CASE o # g
    <3>1. active'[o] = active[o]
      BY <1>1, <2>1, <2>2, <2>4 DEF Take
    <3>2. Holders(o)' = Holders(o)
      BY <1>1, <2>1, <2>2, <2>4, HolderJoins
    <3> QED BY <1>1, <2>2, <3>1, <3>2
  <2> QED BY <2>3, <2>4
<1>4. ASSUME NEW c \in Callers, Release(c)
      PROVE  active'[o] <= Cardinality(Holders(o)')
  <2>1. /\ o \in pool /\ slot[c] # None /\ slot' = [slot EXCEPT ![c] = None]
        /\ GiveBack(slot[c])
    BY <1>4 DEF Release, poolVars, TypeInv, CallType, Keeping
  <2>2. active[o] \in Nat /\ Cardinality(Holders(o)) \in Nat
    BY <1>1, <2>1, HoldersFinite
  <2>3. active'[o] = active[o] \/ (active[o] > 0 /\ active'[o] = active[o] - 1)
    BY <1>1, <2>1 DEF GiveBack
  <2>4. CASE o = slot[c]
    <3>1. active[o] > 0 => active'[o] = active[o] - 1
      BY <1>1, <2>1, <2>4 DEF GiveBack, Returned
    <3>2. /\ Cardinality(Holders(o)') = Cardinality(Holders(o)) - 1
          /\ Cardinality(Holders(o)) # 0
      <4>1. Holders(o)' = {x \in Callers : slot'[x] = slot[c]}
        BY <2>4 DEF Holders
      <4> QED BY <2>1, <2>4, <4>1, HolderLeaves
    <3> QED BY <1>1, <2>1, <2>2, <2>3, <3>1, <3>2
  <2>5. CASE o # slot[c]
    <3>1. Holders(o)' = Holders(o)
      BY <1>1, <2>1, <2>5, HolderLeaves
    <3> QED BY <1>1, <2>1, <2>2, <2>3, <3>1
  <2> QED BY <2>4, <2>5
<1>5. ASSUME NEW c \in Callers, CheckRelease(c), ~Enabled
      PROVE  FALSE
  BY <1>5 DEF CheckRelease, Enabled, poolVars
<1>6. ASSUME NEW cfg \in Configurations, Reload(cfg)
      PROVE  active'[o] <= Cardinality(Holders(o)')
  <2>1. /\ \A p \in Allocated : active'[p] = active[p]
        /\ \A p \in pool' \ pool : active'[p] = 0
    BY <1>6, TypeInvIsType, ReloadPool
  <2>2. Holders(o)' = Holders(o) /\ Cardinality(Holders(o)) \in Nat
    BY <1>6, SameHolders, HoldersFinite DEF Reload, callerVars
  <2>3. pool \subseteq Allocated
    BY DEF TypeInv, PoolType
  <2> QED BY <1>1, <2>1, <2>2, <2>3
<1>7. CASE ResetActive
  <2>1. o \in pool /\ active'[o] = 0 /\ Holders(o)' = Holders(o)
    BY <1>1, <1>7, SameHolders DEF ResetActive, poolVars
  <2> QED BY <2>1, HoldersFinite
<1> QED BY <1>2, <1>3, <1>4, <1>5, <1>6, <1>7, WhoMovesSlots

LEMMA InitCounts == Init => \A o \in Objects : active[o] = 0 /\ Cardinality(Holders(o)) = 0
<1> SUFFICES ASSUME Init, NEW o \in Objects
             PROVE  active[o] = 0 /\ Cardinality(Holders(o)) = 0
  OBVIOUS
<1>1. Holders(o) = {}
  BY SlotAssumption DEF Init, Holders
<1> QED BY <1>1, FS_EmptySet DEF Init

\* However resources are reloaded, removed, added again and reset while
\* calls hold slots, no counter stays above the calls in flight, so no slot
\* is lost for good.
THEOREM NoSlotIsLost == Spec => []NoLostSlot
<1>1. Init => NoLostSlot
  BY InitType, InitCounts DEF NoLostSlot, TypeOK, Allocated
<1> QED BY <1>1, LostStep, InitTypeInv, TypeStep, PTL DEF Spec

-----------------------------------------------------------------------------
(* Exact counters. A counter is exact because it belongs to one server for *)
(* ever: no two objects ever had the same key (OneObject), so that Release *)
(* finds no replacement to decrement, and a new object has no holder.      *)
OneObject  == \A o, q \in Allocated : keyOf[o] = keyOf[q] => o = q
HeldExists == \A c \in Callers : slot[c] # None => slot[c] \in Allocated
ExactInv   == TypeInv /\ OneObject /\ HeldExists /\ ActiveCountsCalls

LEMMA InitExact == Init => ExactInv
<1> SUFFICES ASSUME Init PROVE OneObject /\ HeldExists /\ ActiveCountsCalls
  BY InitTypeInv DEF ExactInv
<1>1. PICK cfg \in Configurations : InitPool(cfg)
  BY DEF Init
<1>2. PICK new \in [DOMAIN cfg -> Objects] :
        /\ pool = {o \in Objects : \E k \in DOMAIN cfg : new[k] = o}
        /\ keyOf = [o \in Objects |-> IF o \in pool
                      THEN CHOOSE k \in DOMAIN cfg : new[k] = o ELSE None]
  BY <1>1 DEF InitPool
<1>3. \A o \in pool : o \in Objects /\ new[keyOf[o]] = o
  BY <1>2
<1>4. Allocated \subseteq pool
  BY <1>2 DEF Allocated
<1>5. OneObject
  BY <1>3, <1>4 DEF OneObject
<1>6. HeldExists
  BY DEF Init, HeldExists
<1>7. ActiveCountsCalls
  BY <1>3, InitCounts DEF ActiveCountsCalls
<1> QED BY <1>5, <1>6, <1>7

LEMMA ExactStep ==
    ASSUME "readd" \notin Changes, "reset" \notin Changes, ExactInv, [Next]_vars
    PROVE  ExactInv'
<1>0. TypeInv' /\ TypeInv
  BY TypeStep DEF ExactInv
<1>1. /\ pool \subseteq Allocated /\ Allocated \subseteq Objects
      /\ active \in [Objects -> Nat] /\ slot \in [Callers -> Objects \cup {None}]
      /\ OneObject /\ HeldExists
      /\ \A p \in pool : active[p] = Cardinality(Holders(p))
  BY DEF ExactInv, TypeInv, PoolType, CallType, ActiveCountsCalls, Allocated
<1>2. CASE Quiet
  <2>1. Allocated' = Allocated /\ OneObject' /\ HeldExists'
    BY <1>1, <1>2 DEF Quiet, poolVars, Allocated, OneObject, HeldExists
  <2>2. \A p \in pool' : active'[p] = Cardinality(Holders(p)')
    BY <1>1, <1>2, SameHolders DEF Quiet, poolVars
  <2>3. ActiveCountsCalls'
    BY <2>2 DEF ActiveCountsCalls, Holders
  <2> QED BY <1>0, <2>1, <2>3 DEF ExactInv
<1>3. ASSUME NEW c \in Callers, Grant(c) PROVE ExactInv'
  <2>1. PICK g \in Choices(c) : Take(g) /\ slot' = [slot EXCEPT ![c] = g]
    BY <1>3 DEF Grant
  <2>2. g \in pool /\ g \in Objects /\ slot[c] = None /\ UNCHANGED <<pool, keyOf>>
    BY <1>1, <1>3, ChoiceIsFree
    DEF Grant, poolVars, ExactInv, TypeInv, CallType, Acquiring, Keeping
  <2>3. Allocated' = Allocated /\ OneObject'
    BY <1>1, <2>2 DEF Allocated, OneObject
  <2>4. HeldExists'
    BY <1>1, <2>1, <2>2, <2>3 DEF HeldExists
  <2>5. \A p \in pool' : active'[p] = Cardinality(Holders(p)')
    <3> SUFFICES ASSUME NEW p \in pool PROVE active'[p] = Cardinality(Holders(p)')
      BY <2>2
    <3>1. CASE p = g
      <4>1. active'[p] = active[p] + 1
        BY <1>1, <2>1, <2>2, <3>1 DEF Take
      <4>2. Cardinality(Holders(p)') = Cardinality(Holders(p)) + 1
        BY <1>0, <2>1, <2>2, <3>1, HolderJoins
      <4> QED BY <1>1, <4>1, <4>2
    <3>2. CASE p # g
      <4>1. active'[p] = active[p]
        BY <1>1, <2>1, <2>2, <3>2 DEF Take
      <4>2. Holders(p)' = Holders(p)
        BY <1>0, <1>1, <2>1, <2>2, <3>2, HolderJoins
      <4> QED BY <1>1, <4>1, <4>2
    <3> QED BY <3>1, <3>2
  <2>6. ActiveCountsCalls'
    BY <2>5 DEF ActiveCountsCalls, Holders
  <2> QED BY <1>0, <2>3, <2>4, <2>6 DEF ExactInv
<1>4. ASSUME NEW c \in Callers, Release(c) PROVE ExactInv'
  <2>1. /\ slot[c] # None /\ slot' = [slot EXCEPT ![c] = None]
        /\ GiveBack(slot[c]) /\ UNCHANGED <<pool, keyOf>>
    BY <1>4 DEF Release, poolVars, ExactInv, TypeInv, CallType, Keeping
  <2>2. slot[c] \in Allocated /\ slot[c] \in Objects
    BY <1>1, <2>1 DEF HeldExists
  <2>3. Returned(slot[c]) = {slot[c]}
    <3>1. \A p \in pool : keyOf[p] = keyOf[slot[c]] => p = slot[c]
      BY <1>1, <2>2 DEF OneObject
    <3> QED BY <3>1 DEF Returned
  <2>4. Allocated' = Allocated /\ OneObject'
    BY <1>1, <2>1 DEF Allocated, OneObject
  <2>5. HeldExists'
    BY <1>1, <2>1, <2>4 DEF HeldExists
  <2>6. \A p \in pool' : active'[p] = Cardinality(Holders(p)')
    <3> SUFFICES ASSUME NEW p \in pool PROVE active'[p] = Cardinality(Holders(p)')
      BY <2>1
    <3>1. CASE p = slot[c]
      <4>1. Cardinality(Holders(p)) \in Nat \ {0}
        BY <1>0, <2>1, <3>1, HolderLeaves
      <4>2. active'[p] = active[p] - 1
        BY <1>1, <2>1, <2>2, <2>3, <3>1, <4>1 DEF GiveBack
      <4>3. Holders(p)' = {x \in Callers : slot'[x] = slot[c]}
        BY <3>1 DEF Holders
      <4>4. Cardinality(Holders(p)') = Cardinality(Holders(p)) - 1
        BY <1>0, <2>1, <3>1, <4>3, HolderLeaves
      <4> QED BY <1>1, <4>2, <4>4
    <3>2. CASE p # slot[c]
      <4>1. active'[p] = active[p]
        BY <1>1, <2>1, <2>3, <3>2 DEF GiveBack
      <4>2. Holders(p)' = Holders(p)
        BY <1>0, <1>1, <2>1, <3>2, HolderLeaves
      <4> QED BY <1>1, <4>1, <4>2
    <3> QED BY <3>1, <3>2
  <2>7. ActiveCountsCalls'
    BY <2>6 DEF ActiveCountsCalls, Holders
  <2> QED BY <1>0, <2>4, <2>5, <2>7 DEF ExactInv
<1>5. ASSUME NEW c \in Callers, CheckRelease(c), ~Enabled PROVE ExactInv'
  <2>1. pool' = {} /\ slot' = [slot EXCEPT ![c] = None] /\ UNCHANGED keyOf
    BY <1>5 DEF CheckRelease, Enabled, poolVars
  <2>2. Allocated' = Allocated /\ OneObject' /\ HeldExists' /\ ActiveCountsCalls'
    BY <1>1, <2>1 DEF Allocated, OneObject, HeldExists, ActiveCountsCalls
  <2> QED BY <1>0, <2>2 DEF ExactInv
<1>6. ASSUME NEW cfg \in Configurations, Reload(cfg) PROVE ExactInv'
  <2>1. /\ pool' \subseteq Objects
        /\ \A o \in pool' : keyOf'[o] # None
        /\ \A o \in Allocated : keyOf'[o] = keyOf[o] /\ active'[o] = active[o]
        /\ \A o \in pool' \ pool : o \notin Allocated /\ active'[o] = 0
        /\ \A o, q \in Objects : keyOf'[o] = keyOf'[q] /\ keyOf'[o] # None /\ o # q
             => o \in Allocated /\ q \in Allocated
    BY <1>0, <1>6, TypeInvIsType, ReloadPool
  <2>2. UNCHANGED slot
    BY <1>6 DEF Reload, callerVars
  <2>3. \A o \in Allocated : keyOf[o] # None
    BY DEF Allocated
  <2>4. OneObject'
    <3> SUFFICES ASSUME NEW o \in Objects, NEW q \in Objects,
                        keyOf'[o] # None, keyOf'[o] = keyOf'[q], o # q
                 PROVE  FALSE
      BY DEF OneObject, Allocated
    <3>1. o \in Allocated /\ q \in Allocated
      BY <2>1
    <3> QED BY <1>1, <2>1, <3>1 DEF OneObject
  <2>5. HeldExists'
    BY <1>1, <2>1, <2>2, <2>3 DEF HeldExists, Allocated
  <2>6. \A p \in pool' : active'[p] = Cardinality(Holders(p)')
    <3> SUFFICES ASSUME NEW p \in pool' PROVE active'[p] = Cardinality(Holders(p)')
      OBVIOUS
    <3>1. Holders(p)' = Holders(p)
      BY <2>2, SameHolders
    <3>2. CASE p \in pool
      BY <1>1, <2>1, <3>1, <3>2
    <3>3. CASE p \notin pool
      <4>1. active'[p] = 0 /\ p \notin Allocated /\ p \in Objects
        BY <2>1, <3>3
      <4>2. Holders(p) = {}
        BY <1>1, <4>1, SlotAssumption DEF Holders, HeldExists
      <4> QED BY <3>1, <4>1, <4>2, FS_EmptySet
    <3> QED BY <3>2, <3>3
  <2>7. ActiveCountsCalls'
    BY <2>6 DEF ActiveCountsCalls, Holders
  <2> QED BY <1>0, <2>4, <2>5, <2>7 DEF ExactInv
<1>7. ~ResetActive
  BY DEF ResetActive
<1> QED BY <1>2, <1>3, <1>4, <1>5, <1>6, <1>7, WhoMovesSlots

\* As long as no removed resource is added again and no one resets the
\* counters, the active count of a resource is the number of calls that use
\* it, through reloads, scale changes and cancellations.
THEOREM ExactCounts ==
    ASSUME "readd" \notin Changes, "reset" \notin Changes
    PROVE  Spec => []ActiveCountsCalls
<1>1. ExactInv => ActiveCountsCalls
  BY DEF ExactInv
<1>2. ExactInv /\ [Next]_vars => ExactInv'
  BY ExactStep
<1> QED BY <1>1, <1>2, InitExact, PTL DEF Spec

LEMMA GrantedByGrant ==
    ASSUME TypeInv, NEW c \in Callers, Next, Granted(c)
    PROVE  Grant(c)
<1>1. pc \in [Callers -> Pc] /\ pc[c] \in Acquiring /\ pc'[c] = "holding" /\ pc[c] # "holding"
  BY DEF TypeInv, CallType, Granted, Acquiring
<1>2. ~Broadcast /\ Woken[c] # "holding"
  BY <1>1 DEF Broadcast, Woken
<1>3. ASSUME NEW x \in Callers, Invoke(x) \/ CancelCall(x) \/ CancelWakes(x) PROVE FALSE
  BY <1>1, <1>2, <1>3 DEF Invoke, CancelCall, CancelWakes, Goto
<1>4. ASSUME NEW x \in Callers, CallStep(x) PROVE x = c /\ Grant(c)
  <2>1. CASE Release(x)
    <3>1. pc' = [Woken EXCEPT ![x] = "idle"]
      BY <2>1 DEF Release
    <3>2. Woken \in [Callers -> Pc]
      BY WokenType
    <3> QED BY <1>1, <1>2, <3>1, <3>2
  <2>2. CASE ~Release(x)
    BY <1>1, <1>4, <2>2 DEF CallStep, Attempt, Refuse, Bypass, Wait, Grant, RegisterLease,
       CompleteLease, CheckRelease, PassDone, Goto, Acquiring
  <2> QED BY <2>1, <2>2
<1>5. ~Heartbeat /\ ~ResetActive
  BY <1>2 DEF Heartbeat, ResetActive
<1>6. ASSUME NEW s \in Scales, SetScale(s) PROVE FALSE
  BY <1>1, <1>2, <1>6 DEF SetScale
<1>7. ASSUME NEW cfg \in Configurations, Reload(cfg) PROVE FALSE
  BY <1>2, <1>7 DEF Reload
<1> QED BY <1>3, <1>4, <1>5, <1>6, <1>7 DEF Next

\* ... and no call is granted a slot of a server on which as many calls run
\* as its limit allows.
THEOREM CapacityRespected ==
    ASSUME "readd" \notin Changes, "reset" \notin Changes
    PROVE  Spec => GrantWithinCapacity
<1>1. ASSUME ExactInv, [Next]_vars
      PROVE  [\A c \in Callers : Granted(c) =>
                Cardinality(UsersOf(keyOf[slot'[c]])) < Limit(slot'[c])]_vars
  <2> SUFFICES ASSUME Next, NEW c \in Callers, Granted(c)
               PROVE  Cardinality(UsersOf(keyOf[slot'[c]])) < Limit(slot'[c])
    BY <1>1
  <2>1. Grant(c)
    BY <1>1, GrantedByGrant DEF ExactInv
  <2>2. PICK g \in Choices(c) : slot' = [slot EXCEPT ![c] = g]
    BY <2>1 DEF Grant
  <2>3. slot'[c] = g
    BY <1>1, <2>2 DEF ExactInv, TypeInv, CallType
  <2>4. g \in pool /\ g \in Allocated /\ active[g] < Limit(g)
    BY <1>1, ChoiceIsFree DEF ExactInv, TypeInv, PoolType
  <2>5. UsersOf(keyOf[g]) = Holders(g)
    BY <1>1, <2>4, SlotAssumption
    DEF ExactInv, OneObject, HeldExists, UsersOf, Holders, Allocated
  <2>6. active[g] = Cardinality(Holders(g))
    BY <1>1, <2>4 DEF ExactInv, ActiveCountsCalls
  <2> QED BY <2>3, <2>4, <2>5, <2>6
<1>2. ExactInv /\ [Next]_vars => ExactInv'
  BY ExactStep
<1> QED BY <1>1, <1>2, InitExact, PTL DEF Spec, GrantWithinCapacity
=============================================================================
