------------------------------ MODULE Throttle ------------------------------
(* How fast the scans may run: the concurrency scale of the dispatcher.     *)
(* An administrator overrides it, for a while or until further notice; a    *)
(* probe worker adapts it to the load of a sentinel node; working hours     *)
(* lower it when neither says anything.  A timer, the heartbeat, the probe  *)
(* worker, the slot calls and the requests all read and write the same      *)
(* state under d.mu, the row of SystemConfig survives a crash, and the      *)
(* settings page writes that row without the lock.                          *)
(* Scales are in hundredths.  0 stands for Go's zero time, nil in the row.  *)
EXTENDS Integers, FiniteSets

CONSTANTS
    Requests,       \* concurrent requests of the settings page
    Overrides,      \* [scale, for] an administrator asks for; 0 is "for good"
    Loads,          \* [active, waiting] the sentinel may report
    Down,           \* a probe that fails
    FirstLoad,      \* what the sentinel reports first
    MinScale, MaxScale,             \* bounds of the adaptive scale
    ActiveLow, ActiveHigh, Critical,
    WorkTime, WorkScale,            \* the working hours and their scale
    ProbeOn,        \* adaptive throttling is configured
    MaxTime, MaxEvents,     \* bounds of the instance
    None

ASSUME ThrottleAssumption ==
    /\ MinScale \in 0 .. 100 /\ MaxScale \in Nat /\ 100 <= MaxScale
    /\ ActiveLow \in Nat /\ ActiveHigh \in Nat /\ Critical \in Nat
    /\ WorkScale \in Nat /\ ProbeOn \in BOOLEAN
    /\ MaxTime \in Nat \ {0} /\ MaxEvents \in Nat
    /\ Overrides \subseteq [scale : Int, for : Nat]
    /\ Loads \subseteq [active : Nat, waiting : Nat] /\ Down \notin Loads
    /\ FirstLoad \in Loads \cup {Down}
    /\ WorkTime \subseteq Nat

\* A request leaves the scale alone, releases it or sets it.
Wishes == [do : {"keep", "release"}, scale : {0}, for : {0}] \cup
          {[do |-> "set", scale |-> o.scale, for |-> o.for] : o \in Overrides}
Pending == [row : [scale : Nat, until : Nat], save : BOOLEAN, wish : Wishes]
ASSUME NoneAssumption == None \notin Pending /\ None \notin Loads \cup {Down}

VARIABLES
    now,
    manual,     \* manualActive, manualScale, scaleExpiresAt
    timer,      \* when the AfterFunc of d.scaleTimer is due; 0 if none is armed
    fired,      \* timers that went off and wait for the lock
    aimd,       \* adaptiveScale and its three counters
    probeRunning,
    prober,     \* the probe goroutines: InitModelDispatcher starts one, main one
    reply,      \* what a probe brought back, before the lock is taken again
    load,       \* the state of the sentinel node
    last,       \* lastEffectiveScale, lastThrottleMode
    db,         \* concurrency_scale and scale_expires_at of SystemConfig
    request,    \* what a request read and what it still has to do
    events,     \* requests, shifts of the load and crashes so far
    restarts,   \* history: crashes so far
    calm,       \* history: calm probes in a row, up to three
    behind      \* history: the row no longer says what override is in force

throttleVars == <<manual, timer, last, db, behind>>
probeVars    == <<aimd, probeRunning, prober, reply, calm>>
vars == <<now, throttleVars, fired, probeVars, load, request, events, restarts>>

\* What comes from outside: a request, another load, a crash.
Event == events < MaxEvents /\ events' = events + 1

Probers == {"init", "main"}

Least(a, b)    == IF a < b THEN a ELSE b
Greatest(a, b) == IF a < b THEN b ELSE a
Clamp(s, low, high) == IF s < low THEN low ELSE IF s > high THEN high ELSE s

-----------------------------------------------------------------------------
(* The effective scale                                                      *)

Lifted  == [active |-> FALSE, scale |-> 100, until |-> 0]
Over(m) == m.until # 0 /\ m.until <= now
Stored(m) == [scale |-> IF m.active THEN m.scale ELSE 100,
              until |-> IF m.active THEN m.until ELSE 0]

\* An administrator, else the probe unless it failed three times in a row,
\* else the working hours.
MutEffective(m, a) ==      \* three failures do not end adaptive control
    IF m.active THEN [mode |-> "manual", scale |-> m.scale]
    ELSE [mode |-> "adaptive", scale |-> Clamp(a.scale, MinScale, MaxScale)]
Effective(m, a) ==
    IF m.active THEN [mode |-> "manual", scale |-> m.scale]
    ELSE IF ProbeOn /\ a.fails < 3
    THEN [mode |-> "adaptive", scale |-> Clamp(a.scale, MinScale, MaxScale)]
    ELSE IF now \in WorkTime THEN [mode |-> "work_hours", scale |-> WorkScale]
    ELSE [mode |-> "normal", scale |-> 100]

\* getEffectiveScaleInfoLocked drops an override whose time is over.
MutSwept(m) == m
Swept(m) == IF Over(m) THEN Lifted ELSE m

\* syncToDBLocked stores m; nobody looks whether the UPDATE failed.  A failed one
\* leaves the row behind only when it should have told of another override.
MutSync(m) ==               \* an override without an end is not stored
    IF m.active /\ m.until = 0 THEN UNCHANGED <<db, behind>>
    ELSE db' = Stored(m) /\ behind' = FALSE
Sync(m) ==
    \/ db' = Stored(m) /\ behind' = FALSE
    \/ db' = db /\ behind' = (behind \/ m # Swept(manual))
Keep    == UNCHANGED <<db, behind>>

\* d.mu is held: the override becomes m, its timer is replaced, the row follows.
Put(m, due) == manual' = m /\ timer' = due /\ Sync(m)
Announce(m) == last' = Effective(m, aimd)

Sweep == IF Over(manual) THEN Put(Lifted, 0)
                         ELSE UNCHANGED <<manual, timer, db, behind>>

\* A slot call, an admission test or a status page reads the scale.
Look == Over(manual) /\ Sweep
        /\ UNCHANGED <<now, last, fired, probeVars, load, request, events, restarts>>

Heartbeat ==
    /\ manual' = Swept(manual)
    /\ timer' = IF Over(manual) THEN 0 ELSE timer
    /\ last' = Effective(Swept(manual), aimd)
    /\ IF Over(manual) \/ last' # last THEN Sync(Swept(manual)) ELSE Keep
    /\ UNCHANGED <<now, fired, probeVars, load, request, events, restarts>>

\* The clock runs to MaxTime, and on while an override has time left.
Tick ==
    /\ now < MaxTime \/ now < manual.until
    /\ now' = now + 1
    /\ UNCHANGED <<throttleVars, fired, probeVars, load, request, events, restarts>>

-----------------------------------------------------------------------------
(* Overrides                                                                *)

MutSetScale(s, d) ==        \* the timer of the override before stays armed
    LET m == [active |-> TRUE, scale |-> Clamp(s, 0, 300),
              until |-> IF d > 0 THEN now + d ELSE 0]
    IN  Put(m, IF d > 0 THEN now + d ELSE timer) /\ Announce(m)
SetScale(s, d) ==
    LET m == [active |-> TRUE, scale |-> Clamp(s, 0, 300),
              until |-> IF d > 0 THEN now + d ELSE 0]
    IN  Put(m, m.until) /\ Announce(m)

RestoreManualScale == Put(Lifted, 0) /\ Announce(Lifted)

\* AfterFunc runs RestoreManualScale in a goroutine of its own: Stop comes too
\* late for a timer that went off and waits for d.mu.
TimerFires ==
    /\ timer # 0 /\ timer <= now
    /\ timer' = 0 /\ fired' = fired + 1
    /\ UNCHANGED <<now, manual, last, db, behind, probeVars, load, request,
                   events, restarts>>
TimerRestores ==
    /\ fired > 0 /\ fired' = fired - 1
    /\ RestoreManualScale
    /\ UNCHANGED <<now, probeVars, load, request, events, restarts>>

(* UpdateConfig reads the row, writes all its columns back to save another  *)
(* setting, and then calls the dispatcher.                                  *)

ReadConfig(r, save, wish) ==
    /\ request[r] = None /\ Event
    /\ save \/ wish.do # "keep"
    /\ request' = [request EXCEPT ![r] =
                     [row |-> db, save |-> save, wish |-> wish]]
    /\ Sweep
    /\ UNCHANGED <<now, last, fired, probeVars, load, restarts>>

SaveConfig(r) ==
    /\ request[r] # None /\ request[r].save
    /\ \/ /\ db' = request[r].row
          /\ behind' = (behind \/ db' # db)
          /\ request' = [request EXCEPT ![r].save = FALSE]
       \/ Keep /\ request' = [request EXCEPT ![r] = None]  \* the write failed
    /\ UNCHANGED <<now, manual, timer, last, fired, probeVars, load, events, restarts>>

ApplyConfig(r) ==
    /\ request[r] # None /\ ~request[r].save
    /\ \/ request[r].wish.do = "keep" /\ UNCHANGED throttleVars
       \/ request[r].wish.do = "release" /\ RestoreManualScale
       \/ /\ request[r].wish.do = "set"
          /\ SetScale(request[r].wish.scale, request[r].wish.for)
    /\ request' = [request EXCEPT ![r] = None]
    /\ UNCHANGED <<now, fired, probeVars, load, events, restarts>>

-----------------------------------------------------------------------------
(* The probe worker                                                         *)

Calm(r)       == r # Down /\ r.waiting = 0 /\ r.active < ActiveHigh
Overloaded(r) == r.waiting > Critical
Backlogged(r) == ~Overloaded(r) /\ (r.waiting >= 2 \/
                                    (r.waiting = 1 /\ r.active >= ActiveHigh))

\* tenths of the scale, rounded; with a lower bound of 0, 8% is no scan at all
Cut(s, tenths) ==
    LET c == Greatest(MinScale, (s * tenths + 5) \div 10)
    IN  IF MinScale = 0 /\ c <= 8 THEN 0 ELSE c

Rising(a, r) == Calm(r) /\ a.scale < 100
Idling(a, r) == Calm(r) /\ a.scale >= 100 /\ r.active < ActiveLow
Moved(a, r, step) ==
    LET s == IF Overloaded(r) THEN Cut(a.scale, 4)
             ELSE IF Backlogged(r) THEN Cut(a.scale, 8)
             ELSE IF Rising(a, r) /\ a.recovery = 2
             THEN Least(100, a.scale + step)
             ELSE IF Idling(a, r) /\ a.idle = 2
             THEN Least(MaxScale, a.scale + step) ELSE a.scale
    IN  Clamp(s, MinScale, MaxScale)

MutAdjusted(a, r) ==        \* a probe that is not calm leaves the counters
    [scale |-> Moved(a, r, 10), fails |-> 0,
     recovery |-> IF Rising(a, r) THEN (a.recovery + 1) % 3 ELSE a.recovery,
     idle     |-> IF Idling(a, r) THEN (a.idle + 1) % 3 ELSE a.idle]
MutCountsOn(a, r) ==        \* a step up does not restart the count
    [scale |-> Moved(a, r, 10), fails |-> 0,
     recovery |-> IF Rising(a, r) THEN a.recovery + 1 ELSE 0,
     idle     |-> IF Idling(a, r) THEN a.idle + 1 ELSE 0]
MutGrows(a, r) ==           \* a step is a tenth of the scale
    [scale |-> Moved(a, r, a.scale \div 10), fails |-> 0,
     recovery |-> IF Rising(a, r) THEN (a.recovery + 1) % 3 ELSE 0,
     idle     |-> IF Idling(a, r) THEN (a.idle + 1) % 3 ELSE 0]
\* adjustAIMDLocked: quick to give way, slow to come back.
Adjusted(a, r) ==
    [scale |-> Moved(a, r, 10), fails |-> 0,
     recovery |-> IF Rising(a, r) THEN (a.recovery + 1) % 3 ELSE 0,
     idle     |-> IF Idling(a, r) THEN (a.idle + 1) % 3 ELSE 0]
\* handleProbeFailureLocked; no test tells a fourth failure from the third
Failed(a) == [scale |-> a.scale, fails |-> Least(a.fails + 1, 3), idle |-> 0,
              recovery |-> 0]

\* main calls SetAdaptiveThrottle after InitModelDispatcher started its worker.
SetAdaptiveThrottle ==
    /\ prober["main"] = "booting"
    /\ prober' = [prober EXCEPT !["main"] =
                    IF ProbeOn /\ ~probeRunning THEN "starting" ELSE "none"]
    /\ UNCHANGED <<now, throttleVars, fired, aimd, probeRunning, reply, calm,
                   load, request, events, restarts>>

MutStartAdaptiveProbeWorker(p) ==       \* the flag is not tested again
    /\ prober[p] = "starting"
    /\ prober' = [prober EXCEPT ![p] = "ready"] /\ probeRunning' = TRUE
    /\ UNCHANGED <<now, throttleVars, fired, aimd, reply, calm, load, request,
                   events, restarts>>
StartAdaptiveProbeWorker(p) ==
    /\ prober[p] = "starting"
    /\ prober' = [prober EXCEPT ![p] = IF probeRunning THEN "none" ELSE "ready"]
    /\ probeRunning' = TRUE
    /\ UNCHANGED <<now, throttleVars, fired, aimd, reply, calm, load, request,
                   events, restarts>>

FetchProbeMetrics(p) ==
    /\ prober[p] = "ready"
    /\ prober' = [prober EXCEPT ![p] = "fetched"]
    /\ reply' = [reply EXCEPT ![p] = load]
    /\ UNCHANGED <<now, throttleVars, fired, aimd, probeRunning, calm, load,
                   request, events, restarts>>

ProbeOnce(p) ==
    /\ prober[p] = "fetched"
    /\ prober' = [prober EXCEPT ![p] = "ready"]
    /\ reply' = [reply EXCEPT ![p] = None]
    /\ aimd' = IF reply[p] = Down THEN Failed(aimd) ELSE Adjusted(aimd, reply[p])
    /\ calm' = IF Calm(reply[p]) THEN Least(calm + 1, 3) ELSE 0
    /\ manual' = Swept(manual)
    /\ timer' = IF Over(manual) THEN 0 ELSE timer
    /\ last' = Effective(Swept(manual), aimd')
    /\ IF Over(manual) \/ last' # last THEN Sync(Swept(manual)) ELSE Keep
    /\ UNCHANGED <<now, fired, probeRunning, load, request, events, restarts>>

\* The load of the sentinel changes, or it goes down.
Shift ==
    /\ Event
    /\ \E l \in Loads \cup {Down} : l # load /\ load' = l
    /\ UNCHANGED <<now, throttleVars, fired, probeVars, request, restarts>>

-----------------------------------------------------------------------------
(* A crash, and InitModelDispatcher                                         *)

\* What the row brings back.  It cannot tell a permanent pause, or a permanent
\* 100%, from no override.
Revived(row) ==
    IF row.until > now \/ (row.until = 0 /\ row.scale \notin {0, 100})
    THEN [active |-> TRUE, scale |-> row.scale, until |-> row.until]
    ELSE Lifted
Stale(row) == Revived(row) = Lifted /\ row.until # 0 /\ row.scale # 100

FirstAimd   == [scale |-> 100, fails |-> 0, idle |-> 0, recovery |-> 0]
FirstProber == [init |-> IF ProbeOn THEN "starting" ELSE "none",
                main |-> "booting"]

Restart ==
    /\ Event /\ restarts' = restarts + 1
    /\ \/ /\ manual' = Revived(db) /\ behind' = FALSE
          /\ db' = db \/ (Stale(db) /\ db' = Stored(Lifted))
       \/ /\ manual' = Lifted /\ db' = db     \* the row could not be read
          /\ behind' = (Revived(db) # Lifted)
    /\ timer' = manual'.until
    /\ last' = Effective(manual', FirstAimd)
    /\ fired' = 0 /\ aimd' = FirstAimd /\ calm' = 0
    /\ probeRunning' = FALSE /\ prober' = FirstProber
    /\ reply' = [p \in Probers |-> None]
    /\ request' = [r \in Requests |-> None]
    /\ UNCHANGED <<now, load>>

-----------------------------------------------------------------------------

Init ==
    /\ now = 1
    /\ manual = Lifted /\ timer = 0 /\ fired = 0
    /\ db = Stored(Lifted) /\ behind = FALSE
    /\ aimd = FirstAimd /\ calm = 0
    /\ probeRunning = FALSE /\ prober = FirstProber
    /\ reply = [p \in Probers |-> None]
    /\ load = FirstLoad
    /\ last = Effective(manual, aimd)
    /\ request = [r \in Requests |-> None]
    /\ events = 0 /\ restarts = 0

ProbeStep(p) == StartAdaptiveProbeWorker(p) \/ FetchProbeMetrics(p)
                    \/ ProbeOnce(p)
RequestStep(r) == SaveConfig(r) \/ ApplyConfig(r)

Next ==
    \/ Tick \/ Heartbeat \/ Look \/ TimerFires \/ TimerRestores
    \/ SetAdaptiveThrottle \/ Shift \/ Restart
    \/ \E p \in Probers : ProbeStep(p)
    \/ \E r \in Requests :
         \/ RequestStep(r)
         \/ \E save \in BOOLEAN, wish \in Wishes : ReadConfig(r, save, wish)

Spec == Init /\ [][Next]_vars

\* Time passes, the two tickers tick, goroutines run; nobody has to ask for
\* anything, and neither the timer nor a slot call is needed.
FairSpec ==
    /\ Spec
    /\ WF_vars(Tick) /\ WF_vars(Heartbeat) /\ WF_vars(SetAdaptiveThrottle)
    /\ \A p \in Probers : WF_vars(ProbeStep(p))

-----------------------------------------------------------------------------
(* Properties                                                               *)

\* The state of the dispatcher and of the row has the shape the code gives it.
TypeOK ==
    /\ now \in Nat
    /\ manual \in [active : BOOLEAN, scale : Nat, until : Nat]
    /\ timer \in Nat /\ fired \in Nat
    /\ aimd \in [scale : MinScale .. MaxScale, fails : 0 .. 3, idle : 0 .. 2,
                 recovery : 0 .. 2]
    /\ probeRunning \in BOOLEAN
    /\ prober \in [Probers -> {"booting", "starting", "ready", "fetched", "none"}]
    /\ reply \in [Probers -> Loads \cup {Down, None}]
    /\ load \in Loads \cup {Down}
    /\ last \in [mode : {"manual", "adaptive", "work_hours", "normal"},
                 scale : Nat]
    /\ db \in [scale : Nat, until : Nat]
    /\ request \in [Requests -> Pending \cup {None}]
    /\ events \in Nat /\ restarts \in Nat
    /\ calm \in 0 .. 3 /\ behind \in BOOLEAN

\* An armed timer belongs to the override in force: replacing, lifting or
\* dropping an override stops the timer of the one before, so that none of them
\* goes off later and ends an override it knows nothing of.
TimerBelongs == timer # 0 => manual.active /\ timer = manual.until

\* One worker adjusts the scale, though InitModelDispatcher and main both start
\* one: two would come back in half the time.
OneProber == Cardinality({p \in Probers : prober[p] \in {"ready", "fetched"}}) <= 1

\* A crash changes what an administrator asked for only when the row could not
\* be read or was behind: a request had written an old one back, or the UPDATE
\* for the last change of the override had failed.  Else an override with time
\* left comes back as it was, and none that was lifted does, however many sweeps,
\* timers, heartbeats and failed writes of theirs lie in between.  A pause or a
\* 100% without an end is lost.
Survivor(m) == IF ~m.active \/ Over(m) \/ (m.until = 0 /\ m.scale \in {0, 100})
               THEN Lifted ELSE m
RestartKeepsOverride ==
    [][restarts' # restarts
         => behind \/ behind' \/ manual' = Survivor(manual)]_vars

\* The scale rises only after three probes in a row that found nobody waiting
\* and the sentinel below its high mark: a failed probe, a queue or a saturated
\* node in between starts the count again.
RaisesNeedCalm ==
    [][aimd'.scale > aimd.scale => calm' = 3 \/ restarts' # restarts]_vars

\* An override with an end does not stay: the heartbeat drops it even if its
\* timer never goes off.
OverrideEnds ==
    (manual.active /\ manual.until # 0) ~> ~(manual.active /\ manual.until # 0)

\* When the sentinel stays calm, the scale comes back to 100% from wherever
\* overload and failures left it, a complete pause included.
Recovers == <>[]Calm(load) => <>[](ProbeOn => aimd.scale >= 100 /\ aimd.fails = 0)

\* When the sentinel stays down, the scale of the last probes stops counting.
FallsBack == <>[](load = Down) => <>[](last.mode # "adaptive")
=============================================================================
