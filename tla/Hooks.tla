--------------------------------- MODULE Hooks ---------------------------------
(***************************************************************************)
(* The lifecycle hooks of one app: generations of its workers (appCycle),  *)
(* and the runs of its triggers in the scope of a worker or a generation.  *)
(*                                                                         *)
(* Hooks execute in goroutines of their own; everything else happens in    *)
(* the manager goroutine, one handler at a time.  A handler goes through   *)
(* several helpers that change workers and runs, so they take and return   *)
(* the manager's state, `st`, as one record.                               *)
(*                                                                         *)
(* Why workers start, stop or exit is the business of Manager: here each   *)
(* may happen whenever the code allows it.  The loops of a tick over the   *)
(* workers are cut into steps, one per worker; that other handlers may     *)
(* come between them only adds behaviours.  The app has no schedule (a     *)
(* scheduled one has a generation per worker).                             *)
(***************************************************************************)
EXTENDS Naturals, FiniteSets

CONSTANTS
  Worker,      \* identities of workers
  Cycle,       \* identities of generations; both kinds are used again only when
               \* nothing of the last use is left, a hook's goroutine included
  NoCycle,     \* the app has had no generation yet
  Binding,     \* the triggers of the app
  Event,       \* the lifecycle event of each
  AppScoped,   \* those that run once per generation, not per worker
  Awaited,     \* those that gate their phase
  Restarting,  \* those with `on_failure: restart`
  Threshold    \* failure_threshold of each

Events == {"pre_start", "post_start", "readiness", "health", "pre_stop", "post_stop"}

StopEvents == {"pre_stop", "post_stop"}

Periodic == {"readiness", "health"}

\* What validateActions accepts.
ASSUME HooksAssumption ==
  /\ Worker \cap Cycle = {}
  /\ NoCycle \notin Cycle
  /\ Event \in [Binding -> Events]
  /\ AppScoped \subseteq Binding
  /\ Awaited \subseteq Binding
  /\ Restarting \subseteq {b \in Awaited : Event[b] \notin StopEvents}
  /\ Threshold \in [Binding -> Nat \ {0}]
  /\ \A b \in Binding : Event[b] \notin Periodic => Threshold[b] = 1

ASSUME FiniteHooks == IsFiniteSet(Worker) /\ IsFiniteSet(Cycle) /\ IsFiniteSet(Binding)

VARIABLES
  child,    \* the workers
  retired,  \* generations whose `retiring` is set
  run,      \* the run of each binding in each scope
  tasks,    \* manager.actionTasks
  todo,     \* members the handler under way has yet to stop
  current,  \* service.cycle
  phase     \* "serving", "stopping" or "returned"

vars == <<child, retired, run, tasks, todo, current, phase>>

Scope == Worker \cup Cycle

Absent ==
  [life |-> "absent", stopping |-> FALSE, stopSent |-> FALSE,
   baseReady |-> FALSE, ready |-> FALSE, cycle |-> NoCycle]

Child ==
  [life : {"absent", "pending", "running", "exited"}, stopping : BOOLEAN,
   stopSent : BOOLEAN, baseReady : BOOLEAN, ready : BOOLEAN, cycle : Cycle \cup {NoCycle}]

\* phase() makes the runs of an event when it is first asked for.
NoRun ==
  [made |-> FALSE, running |-> FALSE, done |-> FALSE, success |-> FALSE,
   cancelled |-> FALSE, failures |-> 0]

Run(b) ==
  [made : BOOLEAN, running : BOOLEAN, done : BOOLEAN, success : BOOLEAN,
   cancelled : BOOLEAN, failures : 0 .. Threshold[b]]

Now == [child |-> child, retired |-> retired, run |-> run, tasks |-> tasks]

Become(st) ==
  /\ child' = st.child
  /\ retired' = st.retired
  /\ run' = st.run
  /\ tasks' = st.tasks

\* What assigns to a worker, and to the `retiring` of a generation.
Put(st, w, r) == [st EXCEPT !.child[w] = r]

Ready(st, w, ready) == Put(st, w, [st.child[w] EXCEPT !.ready = ready])

Retire(st, c) == [st EXCEPT !.retired = @ \cup {c}]

Members(st, c) == {w \in Worker : st.child[w].life # "absent" /\ st.child[w].cycle = c}

IsActive(r) == r.life \in {"pending", "running"} /\ ~r.stopping

ActiveMembers(st, c) == {w \in Members(st, c) : IsActive(st.child[w])}

-----------------------------------------------------------------------------
(* Runs *)

Bound(s, event) == {b \in Binding : Event[b] = event /\ (b \in AppScoped <=> s \in Cycle)}

\* The run of b is started: at once, again until it succeeds or again for ever;
\* for the last two, `due` says whose interval has passed.
MayStart(r, b, due) ==
  /\ ~r.running /\ ~r.cancelled
  /\ \/ ~r.done
     \/ b \in due /\ Event[b] = "health"
     \/ b \in due /\ Event[b] = "readiness" /\ ~r.success

\* Variant: forgets `on_failure: log`.
PassesSucceeded(st, s, event) ==
  \A b \in Bound(s, event) \cap Awaited :
    LET r == st.run[s][b]
    IN  \/ event = "health" /\ r.failures < Threshold[b]
        \/ event # "health" /\ r.done /\ r.success

\* The awaited runs of the event let the scope s pass.
Passes(st, s, event) ==
  \A b \in Bound(s, event) \cap Awaited :
    LET r == st.run[s][b]
    IN  \/ event = "health" /\ r.failures < Threshold[b]
        \/ event # "health" /\ r.done /\ r.success
        \/ event \notin Periodic /\ r.done /\ b \notin Restarting

Starts(st, s, event, due) == {b \in Bound(s, event) : MayStart(st.run[s][b], b, due)}

\* The runs of the scope s once the event is asked for.
Asked(st, s, event, starts) ==
  [b \in Binding |->
     IF b \in starts THEN [st.run[s][b] EXCEPT !.made = TRUE, !.running = TRUE]
     ELSE IF b \in Bound(s, event) THEN [st.run[s][b] EXCEPT !.made = TRUE]
     ELSE st.run[s][b]]

Begin(st, s, event, starts) ==
  [st EXCEPT !.run[s] = Asked(st, s, event, starts)]

Phase(st, s, event, due) ==
  LET starts == Starts(st, s, event, due)
  IN  [Begin(st, s, event, starts) EXCEPT !.tasks = @ + Cardinality(starts)]

\* Variant: the goroutine is taken for ended once it has been told.
ToldEnded(st, s, events) ==
  [b \in Binding |->
     IF Event[b] \in events /\ st.run[s][b].made
     THEN [st.run[s][b] EXCEPT !.cancelled = TRUE, !.running = FALSE]
     ELSE st.run[s][b]]

\* ... once its context is cancelled.
Told(st, s, events) ==
  [b \in Binding |->
     IF Event[b] \in events /\ st.run[s][b].made
     THEN [st.run[s][b] EXCEPT !.cancelled = TRUE]
     ELSE st.run[s][b]]

\* cancelPhase and cancelChecks: the goroutines are told and their results ignored.
Cancel(st, s, events) == [st EXCEPT !.run[s] = Told(st, s, events)]

CancelPhase(st, s, event) == Cancel(st, s, {event})

\* Variant: forgets that post_stop hooks begin in a scope that is over.
CancelChecksAll(st, s) == Cancel(st, s, Events \ {"pre_stop"})

CancelChecks(st, s) == Cancel(st, s, Events \ StopEvents)

-----------------------------------------------------------------------------
(* Lifecycle *)

\* Variant: takes the last worker that stops for the last that exits.
AllStopping(st, c) == ActiveMembers(st, c) = {}

AllExited(st, c) == \A w \in Members(st, c) : st.child[w].life = "exited"

\* An exited worker: it goes once its post_stop hooks have passed, the last of
\* its generation once those of the app have as well.
Farewell(st, w, due) ==
  LET c == st.child[w].cycle
      worker == Phase(CancelPhase(st, w, "pre_stop"), w, "post_stop", due)
      last == AllExited(st, c)
      both == IF last THEN Phase(CancelPhase(worker, c, "pre_stop"), c, "post_stop", due) ELSE worker
  IN  IF Passes(both, w, "post_stop") /\ (last => Passes(both, c, "post_stop"))
      THEN Put(both, w, Absent)
      ELSE both

\* A stopping worker: the notice follows the pre_stop hooks or the deadline.
Draining(st, w, late, due) ==
  LET c == st.child[w].cycle
      worker == Phase(st, w, "pre_stop", due)
      both == IF c \in st.retired THEN Phase(worker, c, "pre_stop", due) ELSE worker
      passed == Passes(both, w, "pre_stop") /\ (c \in st.retired => Passes(both, c, "pre_stop"))
  IN  IF st.child[w].stopSent \/ ~(passed \/ late) THEN both
      ELSE Put(both, w, [st.child[w] EXCEPT !.stopSent = TRUE,
                                            !.life = IF @ = "pending" THEN "exited" ELSE @])

\* A started worker: start hooks, then readiness, then health decide `ready`.
\* Dependencies may be ready or not.
Checking(st, w, dependencies, due) ==
  LET c == st.child[w].cycle
      Both(before, event) == Phase(Phase(before, w, event, due), c, event, due)
      PassBoth(after, event) == Passes(after, w, event) /\ Passes(after, c, event)
      started == Both(st, "post_start")
      checked == Both(started, "readiness")
      healthy == Both(checked, "health")
  IN  IF ~st.child[w].baseReady \/ ~PassBoth(started, "post_start")
      THEN Ready(started, w, FALSE)
      ELSE IF ~PassBoth(checked, "readiness")
      THEN Ready(checked, w, FALSE)
      ELSE Ready(healthy, w, PassBoth(healthy, "health") /\ dependencies)

Lifecycle(st, w, late, dependencies, due) ==
  LET r == st.child[w]
  IN  IF r.life = "exited" THEN Farewell(st, w, due)
      ELSE IF r.stopping THEN Draining(st, w, late, due)
      ELSE IF r.life = "running" THEN Checking(st, w, dependencies, due)
      ELSE st

\* Variant: does not count a worker whose process is not launched yet.
RetireCycleLaunched(st, c) ==
  IF \A w \in ActiveMembers(st, c) : st.child[w].life = "pending"
  THEN CancelChecks(Retire(st, c), c)
  ELSE st

\* Variant: leaves the checks of the generation alone.
RetireCycleOnly(st, c) ==
  IF ActiveMembers(st, c) = {} THEN Retire(st, c) ELSE st

\* A generation without an active member is retiring: what it checks is cancelled.
RetireCycle(st, c) ==
  IF ActiveMembers(st, c) = {}
  THEN CancelChecks(Retire(st, c), c)
  ELSE st

\* stop(): its deadline cannot have passed yet.
Stop(st, w, due) ==
  IF st.child[w].stopping \/ st.child[w].life = "absent" THEN st
  ELSE LET asked == Put(st, w, [st.child[w] EXCEPT !.stopping = TRUE, !.ready = FALSE])
       IN  Lifecycle(RetireCycle(CancelChecks(asked, w), st.child[w].cycle), w, FALSE, FALSE, due)

-----------------------------------------------------------------------------
(* Handlers *)

Init ==
  /\ child = [w \in Worker |-> Absent]
  /\ retired = {}
  /\ run = [s \in Scope |-> [b \in Binding |-> NoRun]]
  /\ tasks = 0
  /\ todo = {}
  /\ current = NoCycle
  /\ phase = "serving"

Due == SUBSET {b \in Binding : Event[b] \in Periodic}

Selecting == phase # "returned" /\ todo = {}

\* Nothing of the last use of the identity s is left.
Unused(s) == \A b \in Binding : ~run[s][b].running

\* The service's generation, or a new one when it has none or it is retiring.
CycleFor(c) ==
  IF current = NoCycle \/ current \in retired
  THEN c # current /\ Unused(c) /\ Members(Now, c) = {}
  ELSE c = current

\* startProcess has succeeded; `base` when the app is ready once started.
Started(st, w, base, dependencies, due) ==
  Lifecycle(Put(st, w, [st.child[w] EXCEPT !.life = "running", !.baseReady = base]),
            w, FALSE, dependencies, due)

\* startProcess has failed in spawn: the new worker is deleted again.
Forget(st, w) ==
  LET c == st.child[w].cycle
      gone == CancelChecks(Put(st, w, Absent), w)
  IN  IF Members(gone, c) = {}
      THEN CancelChecks(Retire(gone, c), c)
      ELSE gone

\* pre_start of the generation, then of the worker.
PreStart(st, w) == Phase(Phase(st, st.child[w].cycle, "pre_start", {}), w, "pre_start", {})

\* Variant: asks the hooks of the worker only.
MayLaunchOwn(st, w) == Passes(st, w, "pre_start")

MayLaunch(st, w) == Passes(st, w, "pre_start") /\ Passes(st, st.child[w].cycle, "pre_start")

\* The new worker is a member of its generation, with a scope of its own.
Reserve(st, w, c) ==
  LET none == [b \in Binding |-> NoRun]
  IN  [child |-> [st.child EXCEPT ![w] = [Absent EXCEPT !.life = "pending", !.cycle = c]],
       retired |-> st.retired \ {c},
       run |-> [st.run EXCEPT ![w] = none, ![c] = IF c = current THEN @ ELSE none],
       tasks |-> st.tasks]

Spawn(w, c, launches, base, dependencies, due) ==
  /\ Selecting /\ phase = "serving"
  /\ child[w].life = "absent" /\ Unused(w)
  /\ CycleFor(c)
  /\ LET asked == PreStart(Reserve(Now, w, c), w)
     IN  Become(IF ~MayLaunch(asked, w) THEN asked
                ELSE IF launches THEN Started(asked, w, base, dependencies, due)
                ELSE Forget(asked, w))
  /\ current' = c
  /\ UNCHANGED <<todo, phase>>

\* Variant: a tick of the shutdown does not return before its loop over services.
LaunchableAlways(w) == child[w].life = "pending" /\ ~child[w].stopping

Launchable(w) == phase = "serving" /\ child[w].life = "pending" /\ ~child[w].stopping

\* The tick asks for a reserved worker's pre_start hooks again.
Launch(w, launches, base, dependencies, due) ==
  /\ Selecting
  /\ Launchable(w)
  /\ LET asked == PreStart(Now, w)
     IN  Become(IF ~MayLaunch(asked, w) THEN asked
                ELSE IF launches THEN Started(asked, w, base, dependencies, due)
                ELSE Stop(asked, w, due))
  /\ UNCHANGED <<todo, current, phase>>

Tick(w, late, dependencies, due) ==
  /\ Selecting
  /\ child[w].life # "absent"
  /\ late => child[w].stopping
  /\ Become(Lifecycle(Now, w, late, dependencies, due))
  /\ UNCHANGED <<todo, current, phase>>

\* Any of the manager's reasons to stop a worker.
StopWorker(w, due) ==
  /\ Selecting
  /\ child[w].life # "absent" /\ ~child[w].stopping
  /\ Become(Stop(Now, w, due))
  /\ UNCHANGED <<todo, current, phase>>

\* The handshake, or the answer of a probe.
BaseReady(w) ==
  /\ Selecting
  /\ child[w].life = "running" /\ ~child[w].baseReady
  /\ child' = [child EXCEPT ![w].baseReady = TRUE]
  /\ UNCHANGED <<retired, run, tasks, todo, current, phase>>

Exit(w, due) ==
  /\ Selecting
  /\ child[w].life = "running"
  /\ LET gone == Put(Now, w, [child[w] EXCEPT !.life = "exited", !.ready = FALSE])
         checked == RetireCycle(CancelChecks(gone, w), child[w].cycle)
     IN  Become(Lifecycle(checked, w, FALSE, FALSE, due))
  /\ UNCHANGED <<todo, current, phase>>

\* actionResult: what a result makes of its run.
Finished(r, b, ok) ==
  IF r.cancelled THEN [r EXCEPT !.running = FALSE]
  ELSE [r EXCEPT !.running = FALSE, !.done = TRUE, !.success = ok,
                 !.failures = IF ok THEN 0 ELSE IF @ = Threshold[b] THEN @ ELSE @ + 1]

\* The goroutine of a run has finished.  A failed check that restarts stops its
\* worker, or every active member of its generation.
Result(s, b, ok) ==
  /\ Selecting
  /\ run[s][b].running
  /\ tasks' = tasks - 1
  /\ run' = [run EXCEPT ![s][b] = Finished(@, b, ok)]
  /\ todo' =
       IF ~run[s][b].cancelled /\ ~ok /\ b \in Restarting
          /\ Finished(run[s][b], b, ok).failures = Threshold[b]
       THEN {w \in IF s \in Cycle THEN Members(Now, s) ELSE {s} : IsActive(child[w])}
       ELSE {}
  /\ UNCHANGED <<child, retired, current, phase>>

\* ... one after the other, in any order.
Restart(w, due) ==
  /\ w \in todo
  /\ todo' = todo \ {w}
  /\ Become(Stop(Now, w, due))
  /\ UNCHANGED <<current, phase>>

Shutdown ==
  /\ Selecting /\ phase = "serving"
  /\ phase' = "stopping"
  /\ UNCHANGED <<child, retired, run, tasks, todo, current>>

Return ==
  /\ Selecting /\ phase = "stopping"
  /\ \A w \in Worker : child[w].life = "absent"
  /\ tasks = 0
  /\ phase' = "returned"
  /\ UNCHANGED <<child, retired, run, tasks, todo, current>>

Returned == phase = "returned" /\ UNCHANGED vars

Next ==
  \/ \E w \in Worker, due \in Due :
       \/ \E base \in BOOLEAN, launches \in BOOLEAN, dependencies \in BOOLEAN :
            \/ \E c \in Cycle : Spawn(w, c, launches, base, dependencies, due)
            \/ Launch(w, launches, base, dependencies, due)
       \/ \E late \in BOOLEAN, dependencies \in BOOLEAN : Tick(w, late, dependencies, due)
       \/ StopWorker(w, due)
       \/ Exit(w, due)
       \/ Restart(w, due)
  \/ \E w \in Worker : BaseReady(w)
  \/ \E s \in Scope, b \in Binding, ok \in BOOLEAN : Result(s, b, ok)
  \/ Shutdown
  \/ Return
  \/ Returned

Spec == Init /\ [][Next]_vars

\* Hooks have timeouts, a worker that was told to stop ends or is killed, and
\* ticks go on: they visit every worker and stop all of them at shutdown.
Fairness ==
  /\ \A w \in Worker :
       /\ SF_vars(child[w].stopSent /\ \E due \in Due : Exit(w, due))
       /\ SF_vars(\E due \in Due : Tick(w, child[w].stopping, TRUE, due))
       /\ SF_vars(phase = "stopping" /\ \E due \in Due : StopWorker(w, due))
       /\ WF_vars(\E due \in Due : Restart(w, due))
  /\ \A s \in Scope, b \in Binding : SF_vars(\E ok \in BOOLEAN : Result(s, b, ok))
  /\ WF_vars(Return)

FairSpec == Spec /\ Fairness

-----------------------------------------------------------------------------
(* Properties *)

\* Every variable has its type.
TypeOK ==
  /\ child \in [Worker -> Child]
  /\ retired \subseteq Cycle
  /\ run \in [Scope -> [Binding -> UNION {Run(b) : b \in Binding}]]
  /\ \A s \in Scope, b \in Binding : run[s][b] \in Run(b)
  /\ tasks \in Nat
  /\ todo \subseteq Worker
  /\ current \in Cycle \cup {NoCycle}
  /\ phase \in {"serving", "stopping", "returned"}

\* The generation of a worker retires exactly when its last active member
\* stops, exits or fails to start, whichever handler that happens in: a new
\* worker never joins one that is over, and no new one begins beside one that lives.
Generations ==
  \A w \in Worker : child[w].life # "absent" =>
    (child[w].cycle \in retired <=> ActiveMembers(Now, child[w].cycle) = {})

\* Nothing is alive in a generation whose post_stop hooks have begun.
LastWords ==
  \A c \in Cycle, b \in Binding :
    Event[b] = "post_stop" /\ run[c][b].made =>
      c \in retired /\ \A w \in Members(Now, c) : child[w].life = "exited"

\* A process runs only behind the pre_start hooks of its generation and its
\* own, and is ready only behind their start and readiness hooks.
Gated ==
  \A w \in Worker :
    \A s \in {w, child[w].cycle} :
      /\ child[w].life = "running" => Passes(Now, s, "pre_start")
      /\ child[w].ready => Passes(Now, s, "post_start") /\ Passes(Now, s, "readiness")

\* A start, readiness or health hook that counts belongs to a scope in service:
\* those of a worker that stops or has exited, and of a generation without an
\* active member, are cancelled, so that their failure restarts nobody.
ChecksCancelled ==
  \A s \in Scope, b \in Binding :
    Event[b] \notin StopEvents /\ run[s][b].running /\ ~run[s][b].cancelled =>
      IF s \in Worker THEN IsActive(child[s]) ELSE ActiveMembers(Now, s) # {}

\* actionTasks counts the goroutines of hooks, cancelled ones included, so that
\* run() waits for each of them and for no other.
TasksCounted == tasks = Cardinality({x \in Scope \X Binding : run[x[1]][x[2]].running})

\* Retirement ends, hooks or not: the worker goes away.
RetirementEnds == \A w \in Worker :
  (child[w].life # "absent" /\ ~IsActive(child[w])) ~> child[w].life = "absent"

\* Shutdown waits for hooks, but not for ever.
ShutdownReturns == phase = "stopping" ~> phase = "returned"

-----------------------------------------------------------------------------
(* The promise *)

LifeOf(r) ==
  IF r.life \in {"absent", "exited"} THEN r.life
  ELSE IF r.stopping THEN "retiring"
  ELSE IF r.life = "pending" THEN "reserved" ELSE "launched"

\* One app, with room for all its identities.
Promise ==
  INSTANCE WorkerPool WITH
    App <- {"app"}, AppOf <- [w \in Worker |-> "app"],
    MaxWorkers <- [a \in {"app"} |-> Cardinality(Worker)],
    phase <- [w \in Worker |-> LifeOf(child[w])],
    closing <- phase # "serving", over <- phase = "returned"

\* Hooks, however they end and whenever, move a worker forward through its life
\* only: what was told to stop is not launched, what has exited does not return, no
\* hook of a reserved worker launches it during shutdown, and run() is over when
\* every worker is gone.
ImplementsPool == Promise!Spec
=============================================================================
