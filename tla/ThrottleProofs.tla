--------------------------- MODULE ThrottleProofs ---------------------------
(* What the dispatcher promises about the concurrency scale, for any set of *)
(* requests, overrides and loads, and for any bounds.                       *)
EXTENDS Throttle, FiniteSetTheorems, TLAPS

Override == [active : BOOLEAN, scale : Nat, until : Nat]
Aimd == [scale : MinScale .. MaxScale, fails : 0 .. 3, idle : 0 .. 2,
         recovery : 0 .. 2]
Row  == [scale : Nat, until : Nat]
Told == [mode : {"manual", "adaptive", "work_hours", "normal"}, scale : Nat]

LEMMA LiftedType == Lifted \in Override /\ ~Lifted.active /\ Lifted.until = 0
BY DEF Lifted, Override

LEMMA StoredType ==
    ASSUME NEW m \in Override
    PROVE  Stored(m) \in Row
BY DEF Stored, Row, Override

LEMMA SweptType ==
    ASSUME NEW m \in Override
    PROVE  Swept(m) \in Override
BY LiftedType DEF Swept

LEMMA EffectiveType ==
    ASSUME NEW m \in Override, NEW a \in Aimd
    PROVE  Effective(m, a) \in Told
<1> DEFINE c == Clamp(a.scale, MinScale, MaxScale)
<1>1. c \in Nat
  <2>1. /\ MinScale \in Nat /\ MaxScale \in Nat /\ MinScale <= MaxScale
        /\ a.scale \in MinScale .. MaxScale
      BY ThrottleAssumption DEF Aimd
  <2> QED BY <2>1 DEF Clamp
<1> HIDE DEF c
<1>2. m.scale \in Nat /\ WorkScale \in Nat
    BY ThrottleAssumption DEF Override
<1> QED BY <1>1, <1>2 DEF Effective, Told, c

LEMMA CutRange ==
    ASSUME NEW s \in MinScale .. MaxScale
    PROVE  /\ Cut(s, 4) \in MinScale .. s
           /\ Cut(s, 8) \in MinScale .. s
<1>1. MinScale \in Nat /\ MaxScale \in Nat /\ s \in Nat
    BY ThrottleAssumption
<1>2. (s * 4 + 5) \div 10 \in 0 .. s /\ (s * 8 + 5) \div 10 \in 0 .. s
    BY <1>1
<1> QED BY <1>1, <1>2 DEF Cut, Greatest

LEMMA AdjustedType ==
    ASSUME NEW a \in Aimd, NEW r
    PROVE  Adjusted(a, r) \in Aimd
<1>1. /\ MinScale \in Nat /\ MaxScale \in Nat /\ MinScale <= MaxScale
      /\ a.scale \in MinScale .. MaxScale /\ a.idle \in 0 .. 2
      /\ a.recovery \in 0 .. 2
    BY ThrottleAssumption DEF Aimd
<1>2. Moved(a, r, 10) \in MinScale .. MaxScale
    BY <1>1, CutRange DEF Moved, Clamp, Least
<1>3. (a.recovery + 1) % 3 \in 0 .. 2 /\ (a.idle + 1) % 3 \in 0 .. 2
    BY <1>1
<1> QED BY <1>1, <1>2, <1>3 DEF Adjusted, Aimd

LEMMA FailedType ==
    ASSUME NEW a \in Aimd
    PROVE  Failed(a) \in Aimd /\ Failed(a).scale = a.scale
BY DEF Failed, Aimd, Least

-----------------------------------------------------------------------------
(* Types                                                                    *)

\* What a step does to the override, its timer and the row.
Updates == \/ Over(manual) /\ Put(Lifted, 0)
           \/ ~Over(manual) /\ manual' = manual /\ timer' = timer
              /\ (Sync(manual) \/ Keep)

LEMMA HeartbeatUpdates ==
    ASSUME Heartbeat
    PROVE  Updates /\ last' = Effective(Swept(manual), aimd)
<1>1. CASE Over(manual)
    BY <1>1 DEF Heartbeat, Updates, Put, Swept
<1>2. CASE ~Over(manual)
    BY <1>2 DEF Heartbeat, Updates, Swept
<1> QED BY <1>1, <1>2

LEMMA ProbeUpdates ==
    ASSUME NEW p, ProbeOnce(p)
    PROVE  Updates /\ last' = Effective(Swept(manual), aimd')
<1>1. CASE Over(manual)
    BY <1>1 DEF ProbeOnce, Updates, Put, Swept
<1>2. CASE ~Over(manual)
    BY <1>2 DEF ProbeOnce, Updates, Swept
<1> QED BY <1>1, <1>2

\* The override, the timer and the row, whatever else changes.
BookType == /\ manual \in Override /\ timer \in Nat /\ db \in Row
            /\ behind \in BOOLEAN

LEMMA SyncType ==
    ASSUME BookType, NEW m \in Override, Sync(m)
    PROVE  db' \in Row /\ behind' \in BOOLEAN
<1>1. CASE db' = Stored(m) /\ behind' = FALSE
    BY <1>1, StoredType
<1>2. CASE db' = db /\ behind' = (behind \/ m # Swept(manual))
  <2>1. behind' \in BOOLEAN
      BY <1>2, Zenon
  <2> QED BY <1>2, <2>1 DEF BookType
<1> QED BY <1>1, <1>2 DEF Sync

LEMMA PutType ==
    ASSUME BookType, NEW m \in Override, NEW due \in Nat, Put(m, due)
    PROVE  BookType'
BY SyncType DEF Put, BookType

LEMMA UpdatesType ==
    ASSUME BookType, Updates
    PROVE  BookType'
<1>1. CASE Over(manual) /\ Put(Lifted, 0)
    BY <1>1, LiftedType, PutType
<1>2. CASE ~Over(manual) /\ manual' = manual /\ timer' = timer /\ (Sync(manual) \/ Keep)
    BY <1>2, SyncType DEF BookType, Keep
<1> QED BY <1>1, <1>2 DEF Updates

LEMMA SweepType ==
    ASSUME BookType, Sweep
    PROVE  BookType'
<1>1. CASE Over(manual)
    BY <1>1, LiftedType, PutType DEF Sweep
<1>2. CASE ~Over(manual)
    BY <1>2 DEF Sweep, BookType
<1> QED BY <1>1, <1>2

LEMMA AskedType ==
    ASSUME NEW s \in Int, NEW d \in Nat, now \in Nat
    PROVE  [active |-> TRUE, scale |-> Clamp(s, 0, 300),
            until |-> IF d > 0 THEN now + d ELSE 0] \in Override
BY DEF Clamp, Override

LEMMA SetScaleType ==
    ASSUME BookType, NEW s \in Int, NEW d \in Nat, now \in Nat, aimd \in Aimd,
           SetScale(s, d)
    PROVE  BookType' /\ last' \in Told
<1> DEFINE m == [active |-> TRUE, scale |-> Clamp(s, 0, 300),
                 until |-> IF d > 0 THEN now + d ELSE 0]
<1>1. m \in Override
    BY AskedType
<1>2. m.until \in Nat
    BY <1>1 DEF Override
<1>3. Put(m, m.until) /\ last' = Effective(m, aimd)
    BY DEF SetScale, Announce
<1> HIDE DEF m
<1> QED BY <1>1, <1>2, <1>3, PutType, EffectiveType

LEMMA RestoreType ==
    ASSUME BookType, aimd \in Aimd, RestoreManualScale
    PROVE  BookType' /\ last' \in Told
BY LiftedType, PutType, EffectiveType DEF RestoreManualScale, Announce

LEMMA RevivedType ==
    ASSUME NEW row \in Row
    PROVE  Revived(row) \in Override
BY LiftedType DEF Revived, Row, Override

LEMMA FirstAimdType == FirstAimd \in Aimd
BY ThrottleAssumption DEF FirstAimd, Aimd

\* The types in the words of the lemmas, and that a fetched probe has a reply.
Shape == /\ now \in Nat /\ fired \in Nat
         /\ aimd \in Aimd /\ last \in Told
         /\ probeRunning \in BOOLEAN
         /\ prober \in [Probers -> {"booting", "starting", "ready", "fetched", "none"}]
         /\ reply \in [Probers -> Loads \cup {Down, None}]
         /\ load \in Loads \cup {Down}
         /\ request \in [Requests -> Pending \cup {None}]
         /\ events \in Nat /\ restarts \in Nat /\ calm \in 0 .. 3
Types == BookType /\ Shape

LEMMA WishType ==
    ASSUME Types, NEW r \in Requests, request[r] # None, request[r].wish.do = "set"
    PROVE  request[r].wish.scale \in Int /\ request[r].wish.for \in Nat
<1>1. request[r].wish \in Wishes
    BY DEF Pending, Types, Shape
<1>2. PICK o \in Overrides :
        request[r].wish = [do |-> "set", scale |-> o.scale, for |-> o.for]
    BY <1>1 DEF Wishes
<1>3. o \in [scale : Int, for : Nat]
    BY ThrottleAssumption
<1> QED BY <1>2, <1>3

LEMMA TypesAreTypeOK == Types => TypeOK
BY DEF Types, Shape, BookType, TypeOK, Override, Aimd, Told, Row

LEMMA TypesInit == Init => Types
<1> SUFFICES ASSUME Init PROVE Types
    OBVIOUS
<1>1. manual \in Override /\ db \in Row /\ timer \in Nat /\ behind \in BOOLEAN
    BY LiftedType, StoredType DEF Init
<1>2. aimd \in Aimd /\ last \in Told
    BY LiftedType, FirstAimdType, EffectiveType DEF Init
<1>3. prober \in [Probers -> {"booting", "starting", "ready", "fetched", "none"}]
    BY DEF Init, FirstProber, Probers
<1>4. load \in Loads \cup {Down} /\ reply \in [Probers -> Loads \cup {Down, None}]
    BY ThrottleAssumption DEF Init
<1>5. request \in [Requests -> Pending \cup {None}]
    BY DEF Init
<1>6. /\ now \in Nat /\ fired \in Nat
      /\ events \in Nat /\ restarts \in Nat /\ calm \in 0 .. 3
  <2>1. now = 1 /\ fired = 0 /\ events = 0 /\ restarts = 0 /\ calm = 0
      BY DEF Init
  <2> QED BY <2>1
<1>7. probeRunning \in BOOLEAN
    BY Zenon DEF Init
<1> QED BY <1>1, <1>2, <1>3, <1>4, <1>5, <1>6, <1>7 DEF Types, Shape, BookType

LEMMA TypesNext == Types /\ [Next]_vars => Types'
<1> SUFFICES ASSUME Types, [Next]_vars PROVE Types'
    OBVIOUS
<1> USE DEF Types
<1>1. CASE UNCHANGED vars
    BY <1>1 DEF vars, throttleVars, probeVars, Shape, BookType
<1>2. CASE Tick
    BY <1>2 DEF Tick, throttleVars, probeVars, Shape, BookType
<1>3. CASE Heartbeat
  <2>1. last' \in Told
      BY <1>3, HeartbeatUpdates, SweptType, EffectiveType DEF Shape, BookType
  <2> QED BY <1>3, <2>1, HeartbeatUpdates, UpdatesType
          DEF Heartbeat, Shape, probeVars
<1>4. CASE Look
    BY <1>4, SweepType DEF Look, Shape, probeVars
<1>5. CASE TimerFires
    BY <1>5 DEF TimerFires, Shape, BookType, probeVars
<1>6. CASE TimerRestores
    BY <1>6, RestoreType DEF TimerRestores, Shape, probeVars
<1>7. CASE SetAdaptiveThrottle
  <2>1. prober' \in [Probers -> {"booting", "starting", "ready", "fetched", "none"}]
      BY <1>7 DEF SetAdaptiveThrottle, Shape
  <2> QED BY <1>7, <2>1 DEF SetAdaptiveThrottle, throttleVars, Shape, BookType
<1>8. CASE Shift
    BY <1>8 DEF Shift, Event, throttleVars, probeVars, Shape, BookType
<1>9. CASE Restart
  <2>1. manual' \in Override /\ timer' \in Nat
    <3>1. manual' \in {Revived(db), Lifted} /\ timer' = manual'.until
        BY <1>9 DEF Restart
    <3>2. manual' \in Override
        BY <3>1, LiftedType, RevivedType DEF BookType
    <3> QED BY <3>1, <3>2 DEF Override
  <2>2. db' \in Row
      BY <1>9, LiftedType, StoredType DEF Restart, BookType
  <2>3. aimd' \in Aimd
      BY <1>9, FirstAimdType DEF Restart
  <2>4. last' \in Told
    <3>1. Effective(manual', FirstAimd) \in Told
        BY <2>1, FirstAimdType, EffectiveType
    <3> QED BY <1>9, <3>1 DEF Restart
  <2>5. prober' \in [Probers -> {"booting", "starting", "ready", "fetched", "none"}]
      BY <1>9 DEF Restart, FirstProber, Probers
  <2>6. /\ now' \in Nat /\ fired' \in Nat /\ calm' \in 0 .. 3
        /\ load' \in Loads \cup {Down} /\ events' \in Nat /\ restarts' \in Nat
    <3>1. /\ now' = now /\ fired' = 0 /\ calm' = 0 /\ load' = load
          /\ events' = events + 1 /\ restarts' = restarts + 1
        BY <1>9 DEF Restart, Event
    <3> QED BY <3>1 DEF Shape
  <2>8. probeRunning' \in BOOLEAN /\ behind' \in BOOLEAN
      BY <1>9, Zenon DEF Restart
  <2>7. /\ reply' \in [Probers -> Loads \cup {Down, None}]
        /\ request' \in [Requests -> Pending \cup {None}]
      BY <1>9 DEF Restart
  <2> QED BY <2>1, <2>2, <2>3, <2>4, <2>5, <2>6, <2>7, <2>8 DEF Shape, BookType
<1>10. ASSUME NEW p \in Probers, StartAdaptiveProbeWorker(p) PROVE Types'
  <2>1. prober' \in [Probers -> {"booting", "starting", "ready", "fetched", "none"}]
      BY <1>10 DEF StartAdaptiveProbeWorker, Shape
  <2> QED BY <1>10, <2>1
          DEF StartAdaptiveProbeWorker, throttleVars, Shape, BookType
<1>11. ASSUME NEW p \in Probers, FetchProbeMetrics(p) PROVE Types'
  <2>1. /\ prober' \in [Probers -> {"booting", "starting", "ready", "fetched", "none"}]
        /\ reply' \in [Probers -> Loads \cup {Down, None}]
      BY <1>11 DEF FetchProbeMetrics, Shape
  <2> QED BY <1>11, <2>1 DEF FetchProbeMetrics, throttleVars, Shape, BookType
<1>12. ASSUME NEW p \in Probers, ProbeOnce(p) PROVE Types'
  <2>1. /\ prober' \in [Probers -> {"booting", "starting", "ready", "fetched", "none"}]
        /\ reply' \in [Probers -> Loads \cup {Down, None}]
      BY <1>12 DEF ProbeOnce, Shape
  <2>2. aimd' \in Aimd
      BY <1>12, AdjustedType, FailedType DEF ProbeOnce, Shape
  <2>3. calm' \in 0 .. 3
      BY <1>12 DEF ProbeOnce, Shape, Least
  <2>4. last' \in Told
    <3>1. Effective(Swept(manual), aimd') \in Told
        BY <2>2, SweptType, EffectiveType DEF BookType
    <3> QED BY <1>12, <3>1, ProbeUpdates
  <2>5. BookType'
      BY <1>12, ProbeUpdates, UpdatesType
  <2> QED BY <1>12, <2>1, <2>2, <2>3, <2>4, <2>5 DEF ProbeOnce, Shape
<1>13. ASSUME NEW r \in Requests, SaveConfig(r) PROVE Types'
  <2>1. request[r] \in Pending
      BY <1>13 DEF SaveConfig, Shape
  <2>2. request[r].row \in Row /\ [request[r] EXCEPT !.save = FALSE] \in Pending
      BY <2>1 DEF Pending, Row
  <2>3. db' \in Row /\ behind' \in BOOLEAN /\ manual' = manual /\ timer' = timer
      BY <1>13, <2>2 DEF SaveConfig, Keep, BookType
  <2>4. request' \in [Requests -> Pending \cup {None}]
      BY <1>13, <2>2 DEF SaveConfig, Shape
  <2> QED BY <1>13, <2>3, <2>4 DEF SaveConfig, Shape, BookType, probeVars
<1>14. ASSUME NEW r \in Requests, ApplyConfig(r) PROVE Types'
  <2>1. request[r] \in Pending
      BY <1>14 DEF ApplyConfig, Shape
  <2>2. BookType' /\ last' \in Told
    <3>1. CASE UNCHANGED throttleVars
        BY <3>1 DEF throttleVars, Shape, BookType
    <3>2. CASE RestoreManualScale
        BY <3>2, RestoreType DEF Shape
    <3>3. CASE /\ request[r].wish.do = "set"
               /\ SetScale(request[r].wish.scale, request[r].wish.for)
      <4>1. request[r].wish.scale \in Int /\ request[r].wish.for \in Nat
          BY <1>14, <3>3, WishType DEF ApplyConfig
      <4> QED BY <3>3, <4>1, SetScaleType DEF Shape
    <3> QED BY <1>14, <3>1, <3>2, <3>3 DEF ApplyConfig
  <2> QED BY <1>14, <2>2 DEF ApplyConfig, Shape, probeVars
<1>15. ASSUME NEW r \in Requests, NEW save \in BOOLEAN, NEW wish \in Wishes,
              ReadConfig(r, save, wish)
       PROVE  Types'
  <2>1. [row |-> db, save |-> save, wish |-> wish] \in Pending
      BY DEF Pending, BookType, Row
  <2>2. request' \in [Requests -> Pending \cup {None}]
      BY <1>15, <2>1 DEF ReadConfig, Shape
  <2>3. BookType'
      BY <1>15, SweepType DEF ReadConfig
  <2> QED BY <1>15, <2>2, <2>3 DEF ReadConfig, Event, Shape, probeVars
<1> QED BY <1>1, <1>2, <1>3, <1>4, <1>5, <1>6, <1>7, <1>8, <1>9, <1>10, <1>11,
           <1>12, <1>13, <1>14, <1>15 DEF Next, ProbeStep, RequestStep

\* Whatever the requests, the loads and the crashes, the state of the throttle
\* keeps its types: counters stay under three, the scale between its bounds.
THEOREM TypesOK == Spec => []TypeOK
<1> QED BY TypesInit, TypesNext, TypesAreTypeOK, PTL DEF Spec

-----------------------------------------------------------------------------
(* Timers and the row                                                       *)

\* While the row is not behind, a restart would find the override of an
\* administrator in it, or find that there is none.
Faithful == ~behind => Revived(db) = Survivor(manual)
Books == TimerBelongs /\ Faithful

LEMMA StoredRevives ==
    ASSUME NEW m \in Override, now \in Nat
    PROVE  Revived(Stored(m)) = Survivor(m)
<1>1. m.scale \in Nat /\ m.until \in Nat
    BY DEF Override
<1>2. CASE ~m.active
  <2>1. Stored(m).until = 0 /\ Stored(m).scale = 100
      BY <1>2 DEF Stored
  <2>2. Revived(Stored(m)) = Lifted
      BY <2>1 DEF Revived
  <2> QED BY <1>2, <2>2 DEF Survivor
<1>3. CASE m.active
  <2>1. Stored(m).until = m.until /\ Stored(m).scale = m.scale
      BY <1>3 DEF Stored
  <2>2. m = [active |-> TRUE, scale |-> m.scale, until |-> m.until]
      BY <1>3 DEF Override
  <2>3. CASE m.until > now \/ (m.until = 0 /\ m.scale \notin {0, 100})
    <3>1. Revived(Stored(m)) = m
        BY <2>1, <2>2, <2>3 DEF Revived
    <3>2. Survivor(m) = m
        BY <1>1, <1>3, <2>3 DEF Survivor, Over
    <3> QED BY <3>1, <3>2
  <2>4. CASE ~(m.until > now \/ (m.until = 0 /\ m.scale \notin {0, 100}))
    <3>1. Revived(Stored(m)) = Lifted
        BY <2>1, <2>4 DEF Revived
    <3>2. Survivor(m) = Lifted
        BY <1>1, <1>3, <2>4 DEF Survivor, Over
    <3> QED BY <3>1, <3>2
  <2> QED BY <2>3, <2>4
<1> QED BY <1>2, <1>3

\* An override whose time is over survives a restart no more than none.
LEMMA SweptSurvives ==
    ASSUME manual \in Override, now \in Nat
    PROVE  Survivor(Swept(manual)) = Survivor(manual)
BY LiftedType DEF Survivor, Swept

\* Stored or not, the row tells of the override that is now in force, or it is
\* known to be behind.
LEMMA PutBooks ==
    ASSUME Books, manual \in Override,
           NEW m \in Override, NEW due, due # 0 => m.active /\ due = m.until,
           now \in Nat, now' = now, Put(m, due)
    PROVE  Books'
<1>1. TimerBelongs'
    BY DEF Put, TimerBelongs
<1>2. manual' = m
    BY DEF Put
<1>3. Revived(db)' = Revived(db') /\ Survivor(manual)' = Survivor(m)
    BY <1>2 DEF Revived, Survivor, Over
<1>4. CASE db' = Stored(m)
    BY <1>1, <1>3, <1>4, StoredRevives DEF Books, Faithful
<1>5. CASE db' = db /\ behind' = (behind \/ m # Swept(manual))
  <2>1. ~behind' => ~behind /\ m = Swept(manual)
      BY <1>5
  <2>2. ~behind' => Revived(db) = Survivor(m)
      BY <2>1, SweptSurvives DEF Books, Faithful
  <2> QED BY <1>1, <1>3, <1>5, <2>2 DEF Books, Faithful
<1> QED BY <1>4, <1>5 DEF Put, Sync

LEMMA SameBooks ==
    ASSUME Books, UNCHANGED <<now, manual, timer, db, behind>>
    PROVE  Books'
BY DEF Books, TimerBelongs, Faithful, Revived, Survivor, Over

LEMMA UpdatesBooks ==
    ASSUME Types, Books, Updates, now' = now
    PROVE  Books'
<1>0. now \in Nat
    BY DEF Types, Shape
<1>1. CASE Over(manual) /\ Put(Lifted, 0)
    BY <1>0, <1>1, LiftedType, PutBooks DEF Types, BookType
<1>2. CASE ~Over(manual) /\ manual' = manual /\ timer' = timer /\ Sync(manual)
  <2>1. Put(manual, timer)
      BY <1>2 DEF Put
  <2> QED BY <1>0, <2>1, PutBooks DEF Books, TimerBelongs, Types, BookType
<1>3. CASE ~Over(manual) /\ manual' = manual /\ timer' = timer /\ Keep
    BY <1>3, SameBooks DEF Keep
<1> QED BY <1>1, <1>2, <1>3 DEF Updates

LEMMA SweepBooks ==
    ASSUME Books, manual \in Override, Sweep, now \in Nat, now' = now
    PROVE  Books'
<1>1. CASE Over(manual)
    BY <1>1, LiftedType, PutBooks DEF Sweep
<1>2. CASE ~Over(manual)
    BY <1>2, SameBooks DEF Sweep
<1> QED BY <1>1, <1>2

\* Time changes what the row brings back as it changes the override itself.
LEMMA TickBooks ==
    ASSUME Types, Books, Tick
    PROVE  Books'
<1>1. /\ manual \in Override /\ db \in Row /\ now \in Nat /\ now' = now + 1
      /\ UNCHANGED <<manual, timer, db, behind>>
    BY DEF Tick, throttleVars, Types, BookType, Shape
<1>2. ASSUME Revived(db) = Survivor(manual)
      PROVE  Revived(db)' = Survivor(manual)'
  <2>1. CASE Revived(db) = Lifted
    <3>1. ~(db.until > now) /\ ~(db.until = 0 /\ db.scale \notin {0, 100})
        BY <2>1, LiftedType DEF Revived
    <3>2. Revived(db)' = Lifted
        BY <1>1, <3>1 DEF Revived, Row, Lifted
    <3>3. Survivor(manual)' = Lifted
      <4>1. ~manual.active \/ Over(manual)
              \/ (manual.until = 0 /\ manual.scale \in {0, 100})
          BY <1>2, <2>1, LiftedType DEF Survivor
      <4>2. Over(manual) => Over(manual)'
          BY <1>1 DEF Over, Override
      <4> QED BY <1>1, <4>1, <4>2 DEF Survivor, Lifted
    <3> QED BY <3>2, <3>3
  <2>2. CASE Revived(db) # Lifted
    <3>1. manual = [active |-> TRUE, scale |-> db.scale, until |-> db.until]
        BY <1>2, <2>2 DEF Revived, Survivor
    <3>2. ~(manual.until = 0 /\ manual.scale \in {0, 100})
        BY <1>2, <2>2 DEF Survivor
    <3>3. manual.active /\ manual.scale = db.scale /\ manual.until = db.until
        BY <3>1
    <3>4. db.until \in Nat
        BY <1>1 DEF Row
    <3>5. CASE Over(manual)'
      <4>1. Survivor(manual)' = Lifted
          BY <3>5 DEF Survivor, Lifted
      <4>2. db.until # 0 /\ db.until <= now'
          BY <1>1, <3>3, <3>5 DEF Over
      <4>3. Revived(db)' = Lifted
          BY <1>1, <3>4, <4>2 DEF Revived, Lifted
      <4> QED BY <4>1, <4>3
    <3>6. CASE ~Over(manual)'
      <4>1. Survivor(manual)' = manual
          BY <1>1, <3>2, <3>3, <3>6 DEF Survivor
      <4>2. db.until > now' \/ (db.until = 0 /\ db.scale \notin {0, 100})
          BY <1>1, <3>2, <3>3, <3>4, <3>6 DEF Over
      <4>3. Revived(db)' = manual
          BY <1>1, <3>1, <4>2 DEF Revived
      <4> QED BY <4>1, <4>3
    <3> QED BY <3>5, <3>6
  <2> QED BY <2>1, <2>2
<1> QED BY <1>1, <1>2 DEF Books, TimerBelongs, Faithful

LEMMA SetScaleBooks ==
    ASSUME Books, manual \in Override, NEW s \in Int, NEW d \in Nat,
           now \in Nat, now' = now, SetScale(s, d)
    PROVE  Books'
<1> DEFINE m == [active |-> TRUE, scale |-> Clamp(s, 0, 300),
                 until |-> IF d > 0 THEN now + d ELSE 0]
<1>1. m \in Override
    BY AskedType
<1>2. Put(m, m.until) /\ m.active
    BY DEF SetScale
<1> HIDE DEF m
<1> QED BY <1>1, <1>2, PutBooks

LEMMA RestoreBooks ==
    ASSUME Books, manual \in Override, now \in Nat, now' = now,
           RestoreManualScale
    PROVE  Books'
BY LiftedType, PutBooks DEF RestoreManualScale

LEMMA RevivedSurvives ==
    ASSUME db \in Row, now \in Nat
    PROVE  Survivor(Revived(db)) = Revived(db)
<1>1. CASE db.until > now \/ (db.until = 0 /\ db.scale \notin {0, 100})
  <2>1. Revived(db) = [active |-> TRUE, scale |-> db.scale, until |-> db.until]
      BY <1>1 DEF Revived
  <2>2. /\ Revived(db).active /\ Revived(db).scale = db.scale
        /\ Revived(db).until = db.until /\ db.until \in Nat
      BY <2>1 DEF Row
  <2> QED BY <1>1, <2>2 DEF Survivor, Over
<1>2. CASE ~(db.until > now \/ (db.until = 0 /\ db.scale \notin {0, 100}))
  <2>1. Revived(db) = Lifted
      BY <1>2 DEF Revived
  <2> QED BY <2>1, LiftedType DEF Survivor
<1> QED BY <1>1, <1>2

LEMMA RestartBooks ==
    ASSUME Types, Restart
    PROVE  Books'
<1>1. /\ db \in Row /\ now \in Nat /\ now' = now
      /\ manual' \in {Revived(db), Lifted} /\ timer' = manual'.until
    BY DEF Restart, Types, BookType, Shape
<1>2. TimerBelongs'
    BY <1>1 DEF TimerBelongs, Revived, Lifted
<1>3. Survivor(manual)' = Survivor(manual') /\ Revived(db)' = Revived(db')
    BY <1>1 DEF Survivor, Over, Revived
<1>4. Survivor(Lifted) = Lifted
    BY LiftedType DEF Survivor
<1>5. CASE manual' = Revived(db) /\ (db' = db \/ (Stale(db) /\ db' = Stored(Lifted)))
  <2>1. Revived(db') = Revived(db)
    <3>1. CASE Stale(db) /\ db' = Stored(Lifted)
      <4>1. Revived(Stored(Lifted)) = Lifted
          BY <1>1, <1>4, LiftedType, StoredRevives
      <4> QED BY <3>1, <4>1 DEF Stale
    <3>2. CASE db' = db
        BY <3>2
    <3> QED BY <1>5, <3>1, <3>2
  <2> QED BY <1>1, <1>2, <1>3, <1>5, <2>1, RevivedSurvives DEF Books, Faithful
<1>6. CASE manual' = Lifted /\ db' = db /\ behind' = (Revived(db) # Lifted)
    BY <1>2, <1>3, <1>4, <1>6 DEF Books, Faithful
<1> QED BY <1>5, <1>6 DEF Restart

LEMMA BooksInit == Init => Books
<1> SUFFICES ASSUME Init PROVE Books
    OBVIOUS
<1>1. manual = Lifted /\ timer = 0 /\ db = Stored(Lifted) /\ now \in Nat
    BY DEF Init
<1> QED BY <1>1, LiftedType, StoredRevives DEF Books, TimerBelongs, Faithful

LEMMA BooksNext == Types /\ Books /\ [Next]_vars => Books'
<1> SUFFICES ASSUME Types, Books, [Next]_vars PROVE Books'
    OBVIOUS
<1>0. manual \in Override /\ now \in Nat /\ db \in Row
    BY DEF Types, BookType, Shape
<1>1. CASE UNCHANGED vars
    BY <1>1, SameBooks DEF vars, throttleVars
<1>2. CASE Tick
    BY <1>2, TickBooks
<1>3. CASE Heartbeat
    BY <1>3, HeartbeatUpdates, UpdatesBooks DEF Heartbeat
<1>4. CASE Look
    BY <1>0, <1>4, SweepBooks DEF Look
<1>5. CASE TimerFires
  <2>1. timer' = 0 /\ UNCHANGED <<now, manual, db, behind>>
      BY <1>5 DEF TimerFires
  <2> QED BY <2>1 DEF Books, TimerBelongs, Faithful, Revived, Survivor, Over
<1>6. CASE TimerRestores
    BY <1>0, <1>6, RestoreBooks DEF TimerRestores
<1>7. CASE SetAdaptiveThrottle
    BY <1>7, SameBooks DEF SetAdaptiveThrottle, throttleVars
<1>8. CASE Shift
    BY <1>8, SameBooks DEF Shift, throttleVars
<1>9. CASE Restart
    BY <1>9, RestartBooks
<1>10. ASSUME NEW p \in Probers, StartAdaptiveProbeWorker(p) PROVE Books'
    BY <1>10, SameBooks DEF StartAdaptiveProbeWorker, throttleVars
<1>11. ASSUME NEW p \in Probers, FetchProbeMetrics(p) PROVE Books'
    BY <1>11, SameBooks DEF FetchProbeMetrics, throttleVars
<1>12. ASSUME NEW p \in Probers, ProbeOnce(p) PROVE Books'
  <2>1. now' = now
      BY <1>12 DEF ProbeOnce
  <2> QED BY <1>12, <2>1, ProbeUpdates, UpdatesBooks
<1>13. ASSUME NEW r \in Requests, SaveConfig(r) PROVE Books'
  <2>1. UNCHANGED <<now, manual, timer>>
      BY <1>13 DEF SaveConfig
  <2>2. (~behind' => db' = db) /\ (~behind' => ~behind)
    <3>1. CASE db' = request[r].row /\ behind' = (behind \/ db' # db)
        BY <3>1, Zenon
    <3>2. CASE Keep
        BY <3>2 DEF Keep
    <3> QED BY <1>13, <3>1, <3>2 DEF SaveConfig
  <2> QED BY <2>1, <2>2 DEF Books, TimerBelongs, Faithful, Revived, Survivor, Over
<1>14. ASSUME NEW r \in Requests, ApplyConfig(r) PROVE Books'
  <2>1. now' = now
      BY <1>14 DEF ApplyConfig
  <2>2. CASE UNCHANGED throttleVars
      BY <2>1, <2>2, SameBooks DEF throttleVars
  <2>3. CASE RestoreManualScale
      BY <1>0, <2>1, <2>3, RestoreBooks
  <2>4. CASE /\ request[r].wish.do = "set"
             /\ SetScale(request[r].wish.scale, request[r].wish.for)
      BY <1>0, <1>14, <2>1, <2>4, WishType, SetScaleBooks DEF ApplyConfig
  <2> QED BY <1>14, <2>2, <2>3, <2>4 DEF ApplyConfig
<1>15. ASSUME NEW r \in Requests, NEW save \in BOOLEAN, NEW wish \in Wishes,
              ReadConfig(r, save, wish)
       PROVE  Books'
    BY <1>0, <1>15, SweepBooks DEF ReadConfig
<1> QED BY <1>1, <1>2, <1>3, <1>4, <1>5, <1>6, <1>7, <1>8, <1>9, <1>10, <1>11,
           <1>12, <1>13, <1>14, <1>15 DEF Next, ProbeStep, RequestStep

\* SetScale, RestoreManualScale and the sweep stop the timer of the override
\* they end: an armed timer is that of the override in force.
THEOREM TimersBelong == Spec => []TimerBelongs
<1>1. Types /\ Books => TimerBelongs
    BY DEF Books
<1> QED BY <1>1, TypesInit, TypesNext, BooksInit, BooksNext, PTL DEF Spec

\* InitModelDispatcher restores the override of an administrator as it was
\* before the crash, unless it could not be told from none, the row could not be
\* read, or the row was behind: written back by a request, or not written when
\* the override changed.
THEOREM RestartsKeepOverride == Spec => RestartKeepsOverride
<1>1. Types /\ Books /\ [Next]_vars
        => [restarts' # restarts
             => behind \/ behind' \/ manual' = Survivor(manual)]_vars
  <2> SUFFICES ASSUME Types, Books, Next, restarts' # restarts
               PROVE  behind \/ behind' \/ manual' = Survivor(manual)
      BY DEF Types
  <2>1. Restart
      BY DEF Next, Tick, Heartbeat, Look, TimerFires, TimerRestores,
             SetAdaptiveThrottle, Shift, ProbeStep, StartAdaptiveProbeWorker,
             FetchProbeMetrics, ProbeOnce, RequestStep, SaveConfig,
             ApplyConfig, ReadConfig
  <2>2. behind \/ Revived(db) = Survivor(manual)
      BY DEF Books, Faithful
  <2> QED BY <2>1, <2>2 DEF Restart
<1> QED BY <1>1, TypesInit, TypesNext, BooksInit, BooksNext, PTL
        DEF Spec, RestartKeepsOverride

-----------------------------------------------------------------------------
(* Probe workers                                                            *)

\* A worker that probes has set the flag, and it is alone; its answer is there
\* until it takes the lock.
Working(p) == prober[p] \in {"ready", "fetched"}
Alone == /\ \A p \in Probers : Working(p) => probeRunning
         /\ \A p, q \in Probers : Working(p) /\ Working(q) => p = q
         /\ \A p \in Probers : prober[p] = "fetched" => reply[p] # None

\* The counters never run ahead of the calm probes in a row.
Counted == aimd.recovery <= calm /\ aimd.idle <= calm
Probing == Alone /\ Counted

LEMMA AloneIsOneProber == Alone => OneProber
<1> SUFFICES ASSUME Alone PROVE OneProber
    OBVIOUS
<1> DEFINE W == {p \in Probers : prober[p] \in {"ready", "fetched"}}
<1>1. CASE W = {}
  <2>1. Cardinality(W) = 0
      BY <1>1, FS_EmptySet
  <2> QED BY <2>1 DEF OneProber
<1>2. CASE W # {}
  <2>1. PICK p \in W : TRUE
      BY <1>2
  <2>2. W = {p}
      BY <2>1 DEF Alone, Working
  <2>3. Cardinality({p}) = 1
      BY FS_Singleton
  <2> QED BY <2>2, <2>3 DEF OneProber
<1> QED BY <1>1, <1>2

LEMMA FirstProberIdle ==
    \A p \in Probers : FirstProber[p] \notin {"ready", "fetched"}
BY DEF Probers, FirstProber

LEMMA SameProbing ==
    ASSUME Probing, UNCHANGED probeVars
    PROVE  Probing'
BY DEF Probing, Alone, Counted, Working, probeVars

LEMMA ProbingInit == Init => Probing
<1> SUFFICES ASSUME Init PROVE Probing
    OBVIOUS
<1>1. prober = FirstProber /\ aimd = FirstAimd /\ calm = 0
    BY DEF Init
<1>2. Counted
    BY <1>1 DEF Counted, FirstAimd
<1>3. Alone
    BY <1>1, FirstProberIdle DEF Alone, Working
<1> QED BY <1>2, <1>3 DEF Probing

\* A probe moves the counters with the calm, and raises the scale only when a
\* counter was at two.
LEMMA AdjustedCounts ==
    ASSUME Types, Counted, NEW r \in Loads,
           calm' = IF Calm(r) THEN Least(calm + 1, 3) ELSE 0
    PROVE  /\ Adjusted(aimd, r).recovery <= calm'
           /\ Adjusted(aimd, r).idle <= calm'
           /\ Adjusted(aimd, r).scale > aimd.scale => calm' = 3
<1>1. /\ aimd.recovery \in 0 .. 2 /\ aimd.idle \in 0 .. 2 /\ calm \in 0 .. 3
      /\ aimd.recovery <= calm /\ aimd.idle <= calm
      /\ aimd.scale \in MinScale .. MaxScale
      /\ MinScale \in Nat /\ MaxScale \in Nat
    BY ThrottleAssumption DEF Types, Shape, Aimd, Counted
<1>2. /\ Adjusted(aimd, r).recovery =
           IF Rising(aimd, r) THEN (aimd.recovery + 1) % 3 ELSE 0
      /\ Adjusted(aimd, r).idle =
           IF Idling(aimd, r) THEN (aimd.idle + 1) % 3 ELSE 0
      /\ Adjusted(aimd, r).scale = Moved(aimd, r, 10)
    BY DEF Adjusted
<1>3. CASE ~Calm(r)
  <2>1. ~Rising(aimd, r) /\ ~Idling(aimd, r) /\ calm' = 0
      BY <1>3 DEF Rising, Idling
  <2>2. Moved(aimd, r, 10) <= aimd.scale
      BY <1>1, <2>1, CutRange DEF Moved, Clamp
  <2>3. Adjusted(aimd, r).recovery = 0 /\ Adjusted(aimd, r).idle = 0
      BY <1>2, <2>1
  <2>4. aimd.scale \in Int /\ Moved(aimd, r, 10) \in Int
      BY <1>1, AdjustedType, <1>2 DEF Types, Shape, Aimd
  <2>5. ~(Moved(aimd, r, 10) > aimd.scale)
      BY <2>2, <2>4
  <2>6. 0 <= calm'
      BY <2>1
  <2> QED BY <1>2, <2>3, <2>5, <2>6
<1>4. CASE Calm(r)
  <2>1. calm' = Least(calm + 1, 3)
      BY <1>4
  <2>2. /\ (aimd.recovery + 1) % 3 <= calm' /\ (aimd.idle + 1) % 3 <= calm'
        /\ calm' \in 0 .. 3
      BY <1>1, <2>1 DEF Least
  <2>5. /\ Adjusted(aimd, r).recovery <= calm'
        /\ Adjusted(aimd, r).idle <= calm'
    <3> DEFINE rec == (aimd.recovery + 1) % 3
               idl == (aimd.idle + 1) % 3
    <3>1. rec <= calm' /\ idl <= calm' /\ 0 <= calm'
        BY <2>2
    <3> HIDE DEF rec, idl
    <3>2. /\ Adjusted(aimd, r).recovery \in {rec, 0}
          /\ Adjusted(aimd, r).idle \in {idl, 0}
        BY <1>2 DEF rec, idl
    <3> QED BY <3>1, <3>2
  <2>3. CASE aimd.recovery = 2 \/ aimd.idle = 2
    <3>1. calm' = 3
        BY <1>1, <2>1, <2>3 DEF Least
    <3> QED BY <2>5, <3>1
  <2>4. CASE aimd.recovery # 2 /\ aimd.idle # 2
    <3>1. Moved(aimd, r, 10) <= aimd.scale
        BY <1>1, <2>4, CutRange DEF Moved, Clamp
    <3>2. aimd.scale \in Int /\ Moved(aimd, r, 10) \in Int
        BY <1>1, AdjustedType, <1>2 DEF Types, Shape, Aimd
    <3>3. ~(Moved(aimd, r, 10) > aimd.scale)
        BY <3>1, <3>2
    <3> QED BY <1>2, <2>5, <3>3
  <2> QED BY <2>3, <2>4
<1> QED BY <1>3, <1>4

LEMMA ProbeCounts ==
    ASSUME Types, Probing, NEW p \in Probers, ProbeOnce(p)
    PROVE  Counted' /\ (aimd'.scale > aimd.scale => calm' = 3)
<1>1. reply[p] \in Loads \cup {Down}
    BY DEF ProbeOnce, Probing, Alone, Types, Shape
<1>2. /\ aimd' = IF reply[p] = Down THEN Failed(aimd) ELSE Adjusted(aimd, reply[p])
      /\ calm' = IF Calm(reply[p]) THEN Least(calm + 1, 3) ELSE 0
    BY DEF ProbeOnce
<1>3. CASE reply[p] = Down
  <2>1. calm' = 0 /\ aimd' = Failed(aimd)
      BY <1>2, <1>3 DEF Calm
  <2>2. Failed(aimd).recovery = 0 /\ Failed(aimd).idle = 0
        /\ Failed(aimd).scale = aimd.scale
      BY DEF Failed
  <2>3. aimd.scale \in Int
      BY ThrottleAssumption DEF Types, Shape, Aimd
  <2> QED BY <2>1, <2>2, <2>3 DEF Counted
<1>4. CASE reply[p] # Down
  <2>1. aimd' = Adjusted(aimd, reply[p]) /\ reply[p] \in Loads
      BY <1>1, <1>2, <1>4
  <2> QED BY <1>2, <2>1, AdjustedCounts DEF Probing, Counted
<1> QED BY <1>3, <1>4

LEMMA ProbingNext == Types /\ Probing /\ [Next]_vars => Probing'
<1> SUFFICES ASSUME Types, Probing, [Next]_vars PROVE Probing'
    OBVIOUS
<1>1. prober \in [Probers -> {"booting", "starting", "ready", "fetched", "none"}]
      /\ reply \in [Probers -> Loads \cup {Down, None}]
    BY DEF Types, Shape
<1>2. CASE SetAdaptiveThrottle
  <2>1. UNCHANGED <<aimd, probeRunning, reply, calm>>
      BY <1>2 DEF SetAdaptiveThrottle
  <2>2. \A p \in Probers : prober'[p] = prober[p] \/ prober'[p] \in {"starting", "none"}
      BY <1>1, <1>2 DEF SetAdaptiveThrottle
  <2> QED BY <2>1, <2>2 DEF Probing, Alone, Counted, Working
<1>3. ASSUME NEW p \in Probers, StartAdaptiveProbeWorker(p) PROVE Probing'
  <2>1. UNCHANGED <<aimd, reply, calm>> /\ probeRunning'
      BY <1>3 DEF StartAdaptiveProbeWorker
  <2>2. CASE probeRunning
    <3>1. \A q \in Probers : prober'[q] = prober[q] \/ prober'[q] = "none"
        BY <1>1, <1>3, <2>2 DEF StartAdaptiveProbeWorker
    <3> QED BY <2>1, <3>1 DEF Probing, Alone, Counted, Working
  <2>3. CASE ~probeRunning
    <3>1. /\ prober'[p] = "ready"
          /\ \A q \in Probers : q # p => prober'[q] = prober[q]
        BY <1>1, <1>3, <2>3 DEF StartAdaptiveProbeWorker
    <3>2. \A q \in Probers : ~Working(q)
        BY <2>3 DEF Probing, Alone
    <3> QED BY <2>1, <3>1, <3>2 DEF Probing, Alone, Counted, Working
  <2> QED BY <2>2, <2>3
<1>4. ASSUME NEW p \in Probers, FetchProbeMetrics(p) PROVE Probing'
  <2>1. UNCHANGED <<aimd, probeRunning, calm>> /\ prober[p] = "ready"
      BY <1>4 DEF FetchProbeMetrics
  <2>2. /\ prober'[p] = "fetched" /\ reply'[p] # None
        /\ \A q \in Probers : q # p => prober'[q] = prober[q] /\ reply'[q] = reply[q]
      BY <1>1, <1>4, NoneAssumption DEF FetchProbeMetrics, Types, Shape
  <2> QED BY <2>1, <2>2 DEF Probing, Alone, Counted, Working
<1>5. ASSUME NEW p \in Probers, ProbeOnce(p) PROVE Probing'
  <2>1. UNCHANGED probeRunning /\ prober[p] = "fetched"
      BY <1>5 DEF ProbeOnce
  <2>2. /\ prober'[p] = "ready"
        /\ \A q \in Probers : q # p => prober'[q] = prober[q] /\ reply'[q] = reply[q]
      BY <1>1, <1>5 DEF ProbeOnce
  <2>3. Alone'
      BY <2>1, <2>2 DEF Probing, Alone, Working
  <2> QED BY <1>5, <2>3, ProbeCounts DEF Probing
<1>6. CASE Restart
  <2>1. prober' = FirstProber /\ aimd' = FirstAimd /\ calm' = 0
      BY <1>6 DEF Restart
  <2>2. Counted'
      BY <2>1 DEF Counted, FirstAimd
  <2>3. Alone'
      BY <2>1, FirstProberIdle DEF Alone, Working
  <2> QED BY <2>2, <2>3 DEF Probing
<1>7. CASE \/ UNCHANGED vars \/ Tick \/ Heartbeat \/ Look \/ TimerFires
           \/ TimerRestores \/ Shift \/ \E r \in Requests : RequestStep(r)
           \/ \E r \in Requests, save \in BOOLEAN, wish \in Wishes :
                ReadConfig(r, save, wish)
  <2>1. UNCHANGED probeVars
      BY <1>7 DEF vars, Tick, Heartbeat, Look, TimerFires, TimerRestores, Shift,
                  RequestStep, SaveConfig, ApplyConfig, ReadConfig
  <2> QED BY <2>1, SameProbing
<1> QED BY <1>2, <1>3, <1>4, <1>5, <1>6, <1>7 DEF Next, ProbeStep

\* Two goroutines are started, and the flag set under the lock lets one probe.
THEOREM OneProberWorks == Spec => []OneProber
<1>1. Types /\ Probing => OneProber
    BY AloneIsOneProber DEF Probing
<1> QED BY <1>1, TypesInit, TypesNext, ProbingInit, ProbingNext, PTL DEF Spec

\* For any bounds and thresholds of the configuration, and any interleaving
\* with requests, timers and crashes, adjustAIMDLocked raises the scale only
\* after three calm probes in a row.
THEOREM RisesAreEarned == Spec => RaisesNeedCalm
<1>1. Types /\ Probing /\ [Next]_vars
        => [aimd'.scale > aimd.scale => calm' = 3 \/ restarts' # restarts]_vars
  <2> SUFFICES ASSUME Types, Probing, Next, aimd'.scale > aimd.scale
               PROVE  calm' = 3 \/ restarts' # restarts
      OBVIOUS
  <2>1. aimd.scale \in Int /\ restarts \in Nat
      BY ThrottleAssumption DEF Types, Shape, Aimd
  <2>2. aimd' # aimd
      BY <2>1
  <2>3. CASE Restart
      BY <2>1, <2>3 DEF Restart
  <2>4. CASE \E p \in Probers : ProbeOnce(p)
      BY <2>4, ProbeCounts
  <2>5. CASE ~Restart /\ ~\E p \in Probers : ProbeOnce(p)
    <3>1. aimd' = aimd
        BY <2>5 DEF Next, Tick, Heartbeat, Look, TimerFires, TimerRestores,
               SetAdaptiveThrottle, Shift, ProbeStep, StartAdaptiveProbeWorker,
               FetchProbeMetrics, RequestStep, SaveConfig, ApplyConfig,
               ReadConfig, probeVars
    <3> QED BY <2>2, <3>1
  <2> QED BY <2>3, <2>4, <2>5
<1> QED BY <1>1, TypesInit, TypesNext, ProbingInit, ProbingNext, PTL
        DEF Spec, RaisesNeedCalm
=============================================================================
