------------------------------- MODULE Manager -------------------------------
(***************************************************************************)
(* The supervisor's manager goroutine and the worker processes it keeps.   *)
(*                                                                         *)
(* One goroutine owns `services` and `workers`.  Its select loop receives  *)
(* messages (a worker's handshake, events and exit, probe results,         *)
(* listener readiness, failed hooks), file-change restarts and 25 ms ticks.*)
(*                                                                         *)
(* A tick is several steps here, and nothing is received before it ends:   *)
(* `stage` says which of its loops runs, each iteration over a worker or a *)
(* service is a step or two, in any order (Go maps).                       *)
(*                                                                         *)
(* Time is abstract: a deadline may or may not have passed at any tick.    *)
(* A process is seen only through the messages of its two goroutines: what *)
(* one says, the death it reports included, is settled when the manager    *)
(* receives it.  The channel keeps the order of each sender, and `stream`  *)
(* says where the sender of a worker is.                                   *)
(* Hooks are abstract: a configured hook phase may or may not have passed. *)
(***************************************************************************)
EXTENDS Naturals, FiniteSets

CONSTANTS
  App,          \* configured services
  Worker,       \* identities of worker instances; an identity is used again
                \* only once nothing of its last instance is left
  Request,      \* identifiers a worker gives its requests
  AppOf,        \* the app each identity runs for
  MinWorkers, MaxWorkers, Startup,
  Listening,    \* apps with a listener; the others are virtual
  Control,      \* apps whose workers have a stdin control pipe
  Condition,    \* Condition[a][b] is how app a depends on app b
  ReadyBy,      \* what first makes a worker ready: "started", "event" or "endpoint"
  Hooked,       \* hook phases with an awaited trigger, per app
  Limits,       \* optional watchdogs: "exec" and "request", per app
  Watched,      \* apps restarted when their files change
  Unlaunchable  \* apps whose launch may fail

Phases == {"pre_start", "checks", "pre_stop", "post_stop"}

ASSUME ManagerAssumption ==
  /\ App # {}
  /\ AppOf \in [Worker -> App]
  /\ MinWorkers \in [App -> Nat]
  /\ MaxWorkers \in [App -> Nat \ {0}]
  /\ \A a \in App : MinWorkers[a] <= MaxWorkers[a]
  /\ Startup \subseteq App
  /\ Listening \subseteq App
  /\ Control \subseteq App
  /\ App \ Listening \subseteq Control
  /\ \A a \in App : DOMAIN Condition[a] \subseteq App
  /\ \A a \in App : \A b \in DOMAIN Condition[a] : Condition[a][b] \in {"started", "ready", "parallel"}
  /\ ReadyBy \in [App -> {"started", "event", "endpoint"}]
  /\ Hooked \in [App -> SUBSET Phases]
  /\ Limits \in [App -> SUBSET {"exec", "request"}]
  /\ Watched \subseteq App
  /\ Unlaunchable \subseteq App

ASSUME FiniteAssumption == IsFiniteSet(Worker)

\* validateDependencies refuses cycles: every set of apps has one that
\* depends on none of the set.
ASSUME AcyclicAssumption ==
  \A S \in (SUBSET App) \ {{}} : \E a \in S : DOMAIN Condition[a] \cap S = {}

VARIABLES
  worker,     \* manager.workers: the record of every worker instance
  stream,     \* where each process and its reader goroutine are: "none" before
              \* and after them, "first" line, "events", or reading "closed"
  dialing,    \* workers with an endpoint probe in flight
  demand,     \* apps with service.demand set
  throttled,  \* apps whose service.retryAt lies ahead
  stopping,   \* the run loop's `stopping`
  stage,      \* "select", the loop of the tick under way, or "returned"
  todo,       \* workers that loop has yet to visit
  queue,      \* services the tick has yet to visit
  current,    \* the service it visits
  wanted, required, \* what the tick's activation found
  available   \* the tick's count of the current service's active workers

processVars == <<stream, dialing>>
serviceVars == <<demand, throttled>>
tickVars == <<stage, todo, queue, current, wanted, required, available>>
vars == <<worker, stream, dialing, demand, throttled, stopping,
          stage, todo, queue, current, wanted, required, available>>

-----------------------------------------------------------------------------
(* Worker records *)

\* `life` stands for pending ("reserved"), started ("launched"), exited and
\* gone from manager.workers ("absent"); `notice` is what the process was told.
Fresh ==
  [life |-> "reserved", ready |-> FALSE, wasReady |-> FALSE, baseReady |-> FALSE,
   telemetry |-> FALSE, active |-> {}, stopping |-> FALSE, stopSent |-> FALSE,
   killed |-> FALSE, probing |-> FALSE, notice |-> "none"]

Absent == [Fresh EXCEPT !.life = "absent"]

WorkerRecord ==
  [life : {"absent", "reserved", "launched", "exited"}, ready : BOOLEAN,
   wasReady : BOOLEAN, baseReady : BOOLEAN, telemetry : BOOLEAN,
   active : SUBSET Request, stopping : BOOLEAN, stopSent : BOOLEAN,
   killed : BOOLEAN, probing : BOOLEAN, notice : {"none", "line", "signal"}]

Retained(w) == worker[w].life # "absent"

RetainedWorkers == {w \in Worker : Retained(w)}

IsActive(r) == r.life \in {"reserved", "launched"} /\ ~r.stopping

Active(w) == IsActive(worker[w])

Pool(a) == {w \in Worker : AppOf[w] = a /\ Retained(w)}

ActivePool(a) == {w \in Worker : AppOf[w] = a /\ Active(w)}

\* Identities a spawn may take: the number of identities bounds the model.
Free(a) == {w \in Worker : AppOf[w] = a /\ ~Retained(w) /\ w \notin dialing}

DependsOn(w, a) == a \in DOMAIN Condition[AppOf[w]]

\* What the clock, the hooks and the stdin of the workers S may do to a
\* handler: the hook phase it asks about has passed, stop_timeout has
\* expired, the pipe takes the stop line.
Oracle(S) ==
  [passed : SUBSET {w \in S : Hooked[AppOf[w]] # {}},
   late : SUBSET {w \in S : worker[w].stopping},
   line : SUBSET {w \in S : worker[w].telemetry}]

DependenciesReady(a, readiness) ==
  \A b \in DOMAIN Condition[a] :
    \/ Condition[a][b] = "parallel" /\ ~readiness
    \/ \E w \in Pool(b) :
         /\ worker[w].life = "launched" /\ ~worker[w].stopping
         /\ Condition[a][b] = "started" \/ worker[w].ready

Passed(w, phase, o) == phase \in Hooked[AppOf[w]] => w \in o.passed

SignalStop(w, r, o) ==
  IF r.telemetry /\ AppOf[w] \in Control /\ w \in o.line THEN "line" ELSE "signal"

\* Variant: the entry is dropped at the deadline, before the process has gone.
RetireForgets(w, r, o) ==
  IF w \in o.late THEN Absent
  ELSE [r EXCEPT !.stopSent = TRUE, !.notice = SignalStop(w, r, o)]

\* A stopping worker: the notice follows the pre_stop hooks or their deadline.
Retire(w, r, o) ==
  IF r.stopSent \/ ~(Passed(w, "pre_stop", o) \/ w \in o.late) THEN r
  ELSE IF r.life = "reserved" THEN [r EXCEPT !.stopSent = TRUE, !.life = "exited"]
  ELSE [r EXCEPT !.stopSent = TRUE, !.notice = SignalStop(w, r, o)]

CheckReady(w, r, o) ==
  LET ok == r.baseReady /\ Passed(w, "checks", o) /\ DependenciesReady(AppOf[w], TRUE)
  IN  [r EXCEPT !.ready = ok, !.wasReady = @ \/ ok]

\* Variant: readiness is evaluated for stopping workers too.
LifecycleUngated(w, r, o) ==
  IF r.life = "exited" THEN IF Passed(w, "post_stop", o) THEN Absent ELSE r
  ELSE IF r.life = "reserved" /\ r.stopping THEN Retire(w, r, o)
  ELSE IF r.life = "launched" THEN CheckReady(w, IF r.stopping THEN Retire(w, r, o) ELSE r, o)
  ELSE r

Lifecycle(w, r, o) ==
  IF r.life = "exited" THEN IF Passed(w, "post_stop", o) THEN Absent ELSE r
  ELSE IF r.life # "absent" /\ r.stopping THEN Retire(w, r, o)
  ELSE IF r.life = "launched" THEN CheckReady(w, r, o)
  ELSE r

\* stop(): its stop_timeout starts now.
Stop(w, r, o) ==
  IF r.stopping \/ r.life = "absent" THEN r
  ELSE Lifecycle(w, [r EXCEPT !.stopping = TRUE, !.ready = FALSE], [o EXCEPT !.late = {}])

\* Variant: a retiring worker is charged again for what it reports.
ChargeAgain(w, r) ==
  /\ demand' = demand \cup {AppOf[w]}
  /\ throttled' = throttled \cup {AppOf[w]}

\* Variant: the backoff is kept under the worker instead of its app.
ChargeWorker(w, r) ==
  IF r.stopping THEN UNCHANGED serviceVars
  ELSE demand' = demand \cup {AppOf[w]} /\ throttled' = throttled \cup {w}

\* service.demand and service.backoff for the failure of w, whose record was r:
\* a worker already stopping is not charged.
Charge(w, r) ==
  IF r.stopping THEN UNCHANGED serviceVars
  ELSE /\ demand' = demand \cup {AppOf[w]}
       /\ throttled' = throttled \cup {AppOf[w]}

\* `failed = true` and stop().
Fail(w, r, o) == worker' = [worker EXCEPT ![w] = Stop(w, r, o)] /\ Charge(w, r)

\* startProcess: the process and its two goroutines exist from here on.
Launched(w, r) ==
  [r EXCEPT !.life = "launched", !.baseReady = ReadyBy[AppOf[w]] = "started"]

-----------------------------------------------------------------------------
(* The select loop *)

AnyApp == CHOOSE a \in App : TRUE

Init ==
  /\ worker = [w \in Worker |-> Absent]
  /\ stream = [w \in Worker |-> "none"]
  /\ dialing = {}
  /\ demand = {}
  /\ throttled = {}
  /\ stopping = FALSE
  /\ stage = "select"
  /\ todo = {}
  /\ queue = {}
  /\ current = AnyApp
  /\ wanted = {}
  /\ required = {}
  /\ available = 0

\* Variant: retiring workers are not waited for.
DrainedEarly == stopping /\ \A w \in Worker : ~Active(w)

Drained == stopping /\ RetainedWorkers = {}

Selecting == stage = "select" /\ ~Drained

Receives == Selecting /\ UNCHANGED <<stopping, tickVars>>

\* The reader goroutine has the first line of stdout, or its end.
ReceiveHandshake(w, ok, o) ==
  /\ Receives
  /\ stream[w] = "first"
  /\ stream' = [stream EXCEPT ![w] = IF ok THEN "events" ELSE "closed"]
  /\ LET event == ReadyBy[AppOf[w]] = "event"
         r == [worker[w] EXCEPT !.telemetry = ok, !.baseReady = @ \/ (ok /\ event)]
     IN  IF ~ok /\ event
         THEN Fail(w, r, o)
         ELSE worker' = [worker EXCEPT ![w] = r] /\ UNCHANGED serviceVars
  /\ UNCHANGED dialing

ReceiveStart(w, q, o) ==
  /\ Receives
  /\ stream[w] = "events"
  /\ IF worker[w].telemetry /\ q \notin worker[w].active
     THEN /\ worker' = [worker EXCEPT ![w].active = @ \cup {q}]
          /\ UNCHANGED serviceVars
     ELSE Fail(w, worker[w], o)
  /\ UNCHANGED processVars

ReceiveEnd(w, q, o) ==
  /\ Receives
  /\ stream[w] = "events"
  /\ IF q \in worker[w].active
     THEN /\ worker' = [worker EXCEPT ![w].active = @ \ {q}]
          /\ UNCHANGED serviceVars
     ELSE Fail(w, worker[w], o)
  /\ UNCHANGED processVars

\* A second ready event, or a request start without an id.
ReceiveInvalid(w, o) ==
  /\ Receives
  /\ stream[w] = "events"
  /\ Fail(w, worker[w], o)
  /\ UNCHANGED processVars

\* A line that does not parse, or the end of the event stream: the reader's last message.
ReceiveStreamError(w, o) ==
  /\ Receives
  /\ stream[w] = "events"
  /\ stream' = [stream EXCEPT ![w] = "closed"]
  /\ Fail(w, worker[w], o)
  /\ UNCHANGED dialing

\* The awaiting goroutine reports the end of the process, by itself, on a
\* notice or killed, once its family is gone and the reader has finished.
ReceiveExit(w, o) ==
  /\ Receives
  /\ stream[w] = "closed"
  /\ stream' = [stream EXCEPT ![w] = "none"]
  /\ worker' = [worker EXCEPT ![w] =
       Lifecycle(w, [worker[w] EXCEPT !.life = "exited", !.ready = FALSE], o)]
  /\ Charge(w, worker[w])
  /\ UNCHANGED dialing

\* The result of a probe; its worker may be gone by then.
ReceiveProbe(w, ok) ==
  /\ Receives
  /\ w \in dialing
  /\ dialing' = dialing \ {w}
  /\ worker' = IF Retained(w)
               THEN [worker EXCEPT ![w].probing = FALSE, ![w].baseReady = @ \/ ok]
               ELSE worker
  /\ UNCHANGED <<stream, serviceVars>>

\* An awaited start or check hook of w failed and restarts it.
ReceiveHookFailure(w, o) ==
  /\ Receives
  /\ Hooked[AppOf[w]] \cap {"pre_start", "checks"} # {}
  /\ Active(w)
  /\ Fail(w, worker[w], o)
  /\ UNCHANGED processVars

\* The poller found a's listener readable.
ReceivePoll(a) ==
  /\ Receives
  /\ a \in Listening /\ ~stopping
  /\ demand' = demand \cup {a}
  /\ UNCHANGED <<worker, processVars, throttled>>

\* Watched files of a changed: its workers are stopped and its backoff forgotten.
Restart(a, o) ==
  /\ Receives
  /\ a \in Watched /\ ~stopping
  /\ \E w \in Pool(a) : ~worker[w].stopping
  /\ worker' = [w \in Worker |-> IF w \in Pool(a) THEN Stop(w, worker[w], o) ELSE worker[w]]
  /\ throttled' = throttled \ {a}
  /\ UNCHANGED <<processVars, demand>>

BeginTick ==
  /\ Selecting
  /\ stage' = "workers"
  /\ todo' = RetainedWorkers
  /\ UNCHANGED <<worker, processVars, serviceVars, queue, current, wanted, required, available>>

Tick == BeginTick /\ UNCHANGED stopping

\* A signal, a failed watcher or a fatal error: shutdown() and its tick.
Shutdown == ~stopping /\ stopping' = TRUE /\ BeginTick

Return ==
  /\ stage = "select" /\ Drained
  /\ stage' = "returned"
  /\ UNCHANGED <<worker, processVars, serviceVars, stopping,
                 todo, queue, current, wanted, required, available>>

-----------------------------------------------------------------------------
(* tick: the loop over manager.workers *)

Visit(s, w) ==
  /\ stage = s
  /\ w \in todo
  /\ todo' = todo \ {w}
  /\ UNCHANGED <<stopping, stage, queue, current, wanted, required, available>>

\* Variant: stopping workers are killed without waiting for stop_timeout.
TickRetiredHasty(w, o) ==
  /\ Visit("workers", w)
  /\ ~Active(w)
  /\ LET r == Lifecycle(w, worker[w], o)
     IN  worker' = [worker EXCEPT ![w] = [r EXCEPT !.killed = @ \/ r.life = "launched"]]
  /\ UNCHANGED <<processVars, serviceVars>>

\* Variant: a worker that was sent the stop line is trusted to end.
TickRetiredTrusting(w, o) ==
  /\ Visit("workers", w)
  /\ ~Active(w)
  /\ LET r == Lifecycle(w, worker[w], o)
         kill == r.life = "launched" /\ w \in o.late /\ r.notice = "signal"
     IN  worker' = [worker EXCEPT ![w] = [r EXCEPT !.killed = @ \/ kill]]
  /\ UNCHANGED <<processVars, serviceVars>>

\* Exited and stopping workers: their hooks, then the forced end.
TickRetired(w, o) ==
  /\ Visit("workers", w)
  /\ ~Active(w)
  /\ LET r == Lifecycle(w, worker[w], o)
         kill == r.life = "launched" /\ w \in o.late
     IN  worker' = [worker EXCEPT ![w] = [r EXCEPT !.killed = @ \/ kill]]
  /\ UNCHANGED <<processVars, serviceVars>>

MayDial(w, r) ==
  /\ r.life = "launched" /\ ~r.baseReady /\ ~r.probing
  /\ ReadyBy[AppOf[w]] = "endpoint"

Dial(w, dial) == dialing' = IF dial THEN dialing \cup {w} ELSE dialing

\* No deadline of w has passed.
TickActive(w, o, dial) ==
  /\ Visit("workers", w)
  /\ Active(w)
  /\ LET r == Lifecycle(w, worker[w], o)
     IN  /\ dial => MayDial(w, r)
         /\ worker' = [worker EXCEPT ![w] = [r EXCEPT !.probing = @ \/ dial]]
  /\ Dial(w, dial)
  /\ UNCHANGED <<stream, serviceVars>>

\* max_exec_time or start_timeout has passed, or request_timeout: only the
\* last is looked at after a probe was launched.
TickOverdue(w, o, p, dial) ==
  /\ Visit("workers", w)
  /\ Active(w)
  /\ LET r == Lifecycle(w, worker[w], o)
         request == "request" \in Limits[AppOf[w]] /\ r.active # {}
         earlier == \/ "exec" \in Limits[AppOf[w]] /\ r.life = "launched"
                    \/ ~r.wasReady /\ ~r.ready
     IN  /\ dial => MayDial(w, r) /\ request
         /\ request \/ earlier
         /\ Fail(w, [r EXCEPT !.probing = @ \/ dial], p)
  /\ Dial(w, dial)
  /\ UNCHANGED stream

TickWorkersStopping ==
  /\ stage = "workers" /\ todo = {} /\ stopping
  /\ stage' = "stopping"
  /\ todo' = RetainedWorkers
  /\ UNCHANGED <<worker, processVars, serviceVars, stopping,
                 queue, current, wanted, required, available>>

\* Variant: a dependent waits for its prerequisites as well.
TickStoppingBoth(w, o) ==
  /\ Visit("stopping", w)
  /\ worker' = IF \E d \in Worker : Retained(d) /\ (DependsOn(d, AppOf[w]) \/ DependsOn(w, AppOf[d]))
               THEN worker
               ELSE [worker EXCEPT ![w] = Stop(w, worker[w], o)]
  /\ UNCHANGED <<processVars, serviceVars>>

\* Supervisor shutdown: dependents first.
TickStopping(w, o) ==
  /\ Visit("stopping", w)
  /\ worker' = IF \E d \in Worker : Retained(d) /\ DependsOn(d, AppOf[w])
               THEN worker
               ELSE [worker EXCEPT ![w] = Stop(w, worker[w], o)]
  /\ UNCHANGED <<processVars, serviceVars>>

EndStopping ==
  /\ stage = "stopping" /\ todo = {}
  /\ stage' = "select"
  /\ UNCHANGED <<worker, processVars, serviceVars, stopping,
                 todo, queue, current, wanted, required, available>>

-----------------------------------------------------------------------------
(* tick: activation and the loop over manager.services *)

Activates(a) ==
  \/ a \in Startup \cup demand
  \/ MinWorkers[a] > 0
  \/ a \in Listening /\ Pool(a) # {}

\* The apps reached from the activated ones through dependencies.
Wanted ==
  {a \in App : \A S \in SUBSET App :
     (\A b \in App : (Activates(b) \/ \E c \in S : b \in DOMAIN Condition[c]) => b \in S) => a \in S}

\* Variant: only apps that already run make their dependencies required.
TickActivationRunning ==
  /\ stage = "workers" /\ todo = {} /\ ~stopping
  /\ stage' = "services"
  /\ queue' = App
  /\ wanted' = Wanted
  /\ required' = UNION {DOMAIN Condition[a] : a \in {b \in Wanted : Pool(b) # {}}}
  /\ UNCHANGED <<worker, processVars, serviceVars, stopping, todo, current, available>>

TickActivation ==
  /\ stage = "workers" /\ todo = {} /\ ~stopping
  /\ stage' = "services"
  /\ queue' = App
  /\ wanted' = Wanted
  /\ required' = UNION {DOMAIN Condition[a] : a \in Wanted}
  /\ UNCHANGED <<worker, processVars, serviceVars, stopping, todo, current, available>>

\* A started or ready prerequisite is missing: the workers of a are stopped
\* and a is to be started again.
TickUnavailable(a, o) ==
  /\ stage = "services" /\ a \in queue
  /\ ~DependenciesReady(a, FALSE)
  /\ demand' = IF Pool(a) = {} THEN demand ELSE demand \cup {a}
  /\ worker' = [w \in Worker |-> IF w \in Pool(a) THEN Stop(w, worker[w], o) ELSE worker[w]]
  /\ queue' = queue \ {a}
  /\ UNCHANGED <<processVars, throttled, stopping,
                 stage, todo, current, wanted, required, available>>

\* Reserved workers whose pre_start hooks have passed are launched: S are,
\* F cannot be, the other reserved ones wait.
TickService(a, S, F, o) ==
  /\ stage = "services" /\ a \in queue
  /\ DependenciesReady(a, FALSE)
  /\ S \cup F \subseteq {w \in ActivePool(a) : worker[w].life = "reserved"}
  /\ S \cap F = {}
  /\ F # {} => a \in Unlaunchable
  /\ worker' = [w \in Worker |->
       IF w \in S THEN Lifecycle(w, Launched(w, worker[w]), o)
       ELSE IF w \in F THEN Stop(w, worker[w], o) ELSE worker[w]]
  /\ stream' = [w \in Worker |-> IF w \in S THEN "first" ELSE stream[w]]
  /\ \/ F # {} /\ demand' = demand \cup {a}
     \/ S # {} /\ demand' = demand \ {a}
     \/ S \cup F = {} /\ UNCHANGED demand
  /\ throttled' = IF F = {} THEN throttled ELSE throttled \cup {a}
  /\ stage' = "growth"
  /\ current' = a
  /\ UNCHANGED <<dialing, stopping, todo, queue, wanted, required, available>>

\* A pool is saturated only when every worker in it that is not stopping is
\* ready and reports its requests; then the occupancy of the last window decides.
MayBeSaturated(a) ==
  LET counted == {w \in Pool(a) : ~worker[w].stopping}
  IN  counted # {} /\ \A w \in counted : worker[w].ready /\ worker[w].telemetry

\* Variant: workers that are still starting do not count.
GrowsReady(a, saturated) ==
  LET count == Cardinality({w \in ActivePool(a) : worker[w].ready})
  IN  /\ \/ count < MinWorkers[a]
         \/ count = 0 /\ a \in demand \cup Startup \cup required
         \/ saturated
      /\ count < MaxWorkers[a]
      /\ a \notin throttled

\* Variant: the configured minimum is not looked at.
GrowsOnDemand(a, saturated) ==
  LET count == Cardinality(ActivePool(a))
  IN  /\ (count = 0 /\ a \in demand \cup Startup \cup required) \/ saturated
      /\ \A w \in ActivePool(a) : worker[w].ready
      /\ count < MaxWorkers[a]
      /\ a \notin throttled

Grows(a, saturated) ==
  LET count == Cardinality(ActivePool(a))
      starting == \E w \in ActivePool(a) : ~worker[w].ready
  IN  /\ \/ count < MinWorkers[a]
         \/ count = 0 /\ a \in demand \cup Startup \cup required
         \/ saturated
      /\ ~starting \/ count < MinWorkers[a]
      /\ count < MaxWorkers[a]
      /\ a \notin throttled

\* The current service spawns or not; `available` was counted before.
Growth(saturated, spawns) ==
  /\ stage = "growth"
  /\ saturated => MayBeSaturated(current)
  /\ spawns <=> Grows(current, saturated) /\ Free(current) # {}
  /\ stage' = "idle"
  /\ available' = Cardinality(ActivePool(current))
  /\ UNCHANGED <<dialing, stopping, todo, queue, current, wanted, required>>

\* Variant: the growth decision drops the demand whatever it decided.
UnmetNever == demand \ {current}

\* Demand that active workers meet is dropped.
Unmet == IF ActivePool(current) = {} THEN demand ELSE demand \ {current}

NoSpawn(saturated) ==
  /\ Growth(saturated, FALSE)
  /\ demand' = Unmet
  /\ UNCHANGED <<worker, stream, throttled>>

SpawnLaunched(w, saturated, o) ==
  /\ Growth(saturated, TRUE)
  /\ w \in Free(current)
  /\ Passed(w, "pre_start", o)
  /\ worker' = [worker EXCEPT ![w] = Lifecycle(w, Launched(w, Fresh), o)]
  /\ stream' = [stream EXCEPT ![w] = "first"]
  /\ demand' = demand \ {current}
  /\ UNCHANGED throttled

SpawnReserved(w, saturated) ==
  /\ Growth(saturated, TRUE)
  /\ w \in Free(current)
  /\ "pre_start" \in Hooked[current]
  /\ worker' = [worker EXCEPT ![w] = Fresh]
  /\ demand' = Unmet
  /\ UNCHANGED <<stream, throttled>>

\* startProcess fails: the new entry is deleted again.
SpawnFails(saturated) ==
  /\ Growth(saturated, TRUE)
  /\ current \in Unlaunchable
  /\ demand' = Unmet
  /\ throttled' = throttled \cup {current}
  /\ UNCHANGED <<worker, stream>>

\* Variant: min_workers is not part of the floor.
FloorRequired(a) == IF a \in Startup \cup required THEN 1 ELSE 0

\* The smallest number of active workers the idle loop leaves.
Floor(a) ==
  IF a \in Startup \cup required /\ MinWorkers[a] = 0 THEN 1 ELSE MinWorkers[a]

MayBeIdle(w) ==
  /\ ~worker[w].stopping /\ worker[w].ready
  /\ IF worker[w].telemetry THEN worker[w].active = {}
     ELSE AppOf[w] \notin Listening \cup wanted

\* Workers I are stopped for idleness: as many as have been idle long enough,
\* down to the floor.
TickIdle(I, o) ==
  /\ stage = "idle"
  /\ \A w \in I : AppOf[w] = current /\ MayBeIdle(w)
  /\ I = {} \/ Cardinality(I) + Floor(current) <= available
  /\ worker' = [w \in Worker |-> IF w \in I THEN Stop(w, worker[w], o) ELSE worker[w]]
  /\ stage' = "services"
  /\ queue' = queue \ {current}
  /\ current' = AnyApp
  /\ available' = 0
  /\ UNCHANGED <<processVars, serviceVars, stopping, todo, wanted, required>>

EndTick ==
  /\ stage = "services" /\ queue = {}
  /\ stage' = "select"
  /\ wanted' = {}
  /\ required' = {}
  /\ UNCHANGED <<worker, processVars, serviceVars, stopping, todo, queue, current, available>>

-----------------------------------------------------------------------------
(* The whole system *)

\* retryAt is compared with the tick's own time: it passes between ticks.
BackoffElapses(a) ==
  /\ stage = "select"
  /\ a \in throttled
  /\ throttled' = throttled \ {a}
  /\ UNCHANGED <<worker, processVars, demand, stopping, tickVars>>

\* run() has returned.
Returned == stage = "returned" /\ UNCHANGED vars

Receive ==
  \/ \E w \in Worker : \E o \in Oracle({w}) :
       \/ \E ok \in BOOLEAN : ReceiveHandshake(w, ok, o)
       \/ \E q \in Request : ReceiveStart(w, q, o)
       \/ \E q \in Request : ReceiveEnd(w, q, o)
       \/ ReceiveInvalid(w, o)
       \/ ReceiveStreamError(w, o)
       \/ ReceiveExit(w, o)
       \/ ReceiveHookFailure(w, o)
  \/ \E w \in Worker, ok \in BOOLEAN : ReceiveProbe(w, ok)
  \/ \E a \in App : ReceivePoll(a)
  \/ \E a \in App : \E o \in Oracle(Pool(a)) : Restart(a, o)

TickWorkers ==
  \/ \E w \in todo : \E o \in Oracle({w}) :
       \/ TickRetired(w, o)
       \/ \E dial \in BOOLEAN : TickActive(w, o, dial)
       \/ \E dial \in BOOLEAN, p \in Oracle({w}) : TickOverdue(w, o, p, dial)
       \/ TickStopping(w, o)
  \/ TickWorkersStopping
  \/ EndStopping

TickServices ==
  \/ TickActivation
  \/ \E a \in queue : \E o \in Oracle(Pool(a)) :
       \/ TickUnavailable(a, o)
       \/ \E S \in SUBSET ActivePool(a), F \in SUBSET ActivePool(a) : TickService(a, S, F, o)
  \/ \E saturated \in BOOLEAN :
       \/ NoSpawn(saturated)
       \/ SpawnFails(saturated)
       \/ \E w \in Free(current) :
            \/ SpawnReserved(w, saturated)
            \/ \E o \in Oracle({w}) : SpawnLaunched(w, saturated, o)
  \/ \E I \in SUBSET ActivePool(current) : \E o \in Oracle(I) : TickIdle(I, o)
  \/ EndTick

Next ==
  \/ Receive
  \/ Tick
  \/ Shutdown
  \/ Return
  \/ TickWorkers
  \/ TickServices
  \/ \E a \in App : BackoffElapses(a)
  \/ Returned

Spec == Init /\ [][Next]_vars

\* A tick that finds stop_timeout expired and the awaited hooks of w done: both
\* come, for the deadline is fixed and every hook has a timeout.
TickSettles(w) ==
  \E o \in Oracle({w}) :
    /\ worker[w].stopping => w \in o.late
    /\ Hooked[AppOf[w]] # {} => w \in o.passed
    /\ TickRetired(w, o)

\* A killed process family ends, its reader meets the end of its output and
\* its awaiting goroutine reports the exit.
KilledEnds(w) ==
  /\ worker[w].killed
  /\ \E o \in Oracle({w}) :
       \/ \E ok \in BOOLEAN : ReceiveHandshake(w, ok, o)
       \/ ReceiveStreamError(w, o)
       \/ ReceiveExit(w, o)

\* Nothing is assumed of a worker that was not killed.  The select statement
\* picks among ready channels at random, so the ticker is served again and again.
Fairness ==
  /\ WF_vars(TickWorkers \/ TickServices)
  /\ WF_vars(Return)
  /\ SF_vars(Tick)
  /\ \A w \in Worker : SF_vars(TickSettles(w)) /\ SF_vars(KilledEnds(w))
  /\ \A a \in App : SF_vars(BackoffElapses(a))

FairSpec == Spec /\ Fairness

-----------------------------------------------------------------------------
(* Properties *)

\* Every variable has its type.
TypeOK ==
  /\ worker \in [Worker -> WorkerRecord]
  /\ stream \in [Worker -> {"none", "first", "events", "closed"}]
  /\ dialing \subseteq Worker
  /\ demand \subseteq App
  /\ throttled \subseteq App
  /\ stopping \in BOOLEAN
  /\ stage \in {"select", "workers", "stopping", "services", "growth", "idle", "returned"}
  /\ todo \subseteq Worker
  /\ queue \subseteq App
  /\ current \in App
  /\ wanted \subseteq App
  /\ required \subseteq App
  /\ available \in Nat

\* A process, the goroutines that read and await it and the manager's entry
\* live and die together: the manager never forgets a worker whose process or
\* reader still runs, and keeps no launched worker that has none.
Supervised == \A w \in Worker : worker[w].life = "launched" <=> stream[w] # "none"

\* The stop line goes only to a worker whose handshake was accepted, and no
\* process family is killed that was not asked to stop first.
StopProtocol ==
  \A w \in Worker :
    /\ worker[w].notice = "line" => worker[w].telemetry /\ AppOf[w] \in Control
    /\ worker[w].killed => worker[w].notice # "none"
    /\ worker[w].notice # "none" => worker[w].stopping /\ worker[w].stopSent

\* Reserved and running workers that are not retiring never exceed
\* max_workers, at any point of a tick.
Capacity == \A a \in App : Cardinality(ActivePool(a)) <= MaxWorkers[a]

\* When run() returns, no process is left and no goroutine of a worker waits to
\* send to a channel nobody receives from.
NothingLeft == stage = "returned" => \A w \in Worker : stream[w] = "none"

\* A retiring worker is never taken back: until it is gone it stays retiring, is
\* not ready and gets no second notice.
RetiresForGood ==
  [][\A w \in Worker : Retained(w) /\ ~Active(w) =>
       \/ worker'[w] = Absent
       \/ /\ worker'[w].life \in {worker[w].life, "exited"}
          /\ worker[w].stopping => worker'[w].stopping
          /\ ~worker'[w].ready
          /\ worker[w].notice \in {"none", worker'[w].notice}]_vars

\* A service is put in backoff only by a worker it loses in the same step while
\* not retiring, or by a launch that fails: retiring workers, whatever they
\* report, never delay their replacements.
ChargedOnce ==
  [][\A a \in throttled' \ throttled :
       \/ \E w \in Worker : AppOf[w] = a /\ Active(w) /\ ~IsActive(worker'[w])
       \/ stage = "growth" /\ current = a /\ a \in Unlaunchable]_vars

\* Demand is dropped only when a worker of the app is there to meet it.
DemandMet ==
  [][\A a \in demand \ demand' :
       \E w \in Worker : AppOf[w] = a /\ IsActive(worker'[w])]_vars

\* Idle retirement leaves the minimum, one worker of a startup service and one
\* of a dependency that is required.
IdleKeepsMinimum ==
  [][stage = "idle" /\ worker' # worker =>
       LET left == Cardinality({w \in ActivePool(current) : ~worker'[w].stopping})
       IN  /\ left >= MinWorkers[current]
           /\ current \in Startup \cup required => left >= 1]_vars

\* Whatever a worker does once it is retiring, its entry goes away: the notice,
\* the kill after stop_timeout and the exit it forces all follow.
RetirementEnds == \A w \in Worker : (Retained(w) /\ ~Active(w)) ~> ~Retained(w)

\* Once supervisor shutdown began, run() returns.
ShutdownReturns == stopping ~> stage = "returned"

\* However often its workers fail, an app is brought back to its minimum.
MinimumRestored ==
  \A a \in App : []<>(stopping \/ Cardinality(ActivePool(a)) >= MinWorkers[a])

\* Demand gets every dependency of the app a worker.
DemandActivates ==
  \A a \in App : \A b \in DOMAIN Condition[a] :
    a \in demand ~> (stopping \/ ActivePool(b) # {})

\* Idle retirement never takes the last active worker of an app that an active
\* worker depends on: "a virtual activation holds dependencies while a caller is
\* starting or running".
DependencyHeld ==
  [][stage = "idle" /\ worker' # worker /\ (\E d \in Worker : Active(d) /\ DependsOn(d, current))
       => \E w \in ActivePool(current) : ~worker'[w].stopping]_vars

-----------------------------------------------------------------------------
(* The promise *)

PhaseOf(r) == IF r.life \in {"reserved", "launched"} /\ r.stopping THEN "retiring" ELSE r.life

Promise ==
  INSTANCE WorkerPool WITH phase <- [w \in Worker |-> PhaseOf(worker[w])],
                           closing <- stopping, over <- stage = "returned"

\* The manager implements the worker pool: every step of its loop moves worker
\* instances forward only, starts one only under max_workers, and starts none
\* after shutdown has begun.
ImplementsPool == Promise!Spec
=============================================================================
