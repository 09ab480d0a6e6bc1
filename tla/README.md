# A TLA+ model of ooth

ooth supervises worker processes: it keeps listeners open, starts workers when a
connection or a dependency asks for them, grows and shrinks their pools, reloads
its configuration and stops everything in order.  This directory holds a model
of its core, what TLC checks of it and what TLAPS proves about it.

## The system

Nearly all of the program is `src/src/main.go`.  One goroutine, the *manager*,
owns every service and every worker and runs a select loop; the other goroutines
only send it messages.

| Component | State | Operations | Talks to |
|---|---|---|---|
| Manager loop (`run`, `handle`, `tick`, `lifecycle`, `spawn`, `stop`, `restart`, `shutdown`) | `services`, `workers`, per worker flags (pending, ready, stopping, exited, killed, ...), per service demand and backoff | one message, or one 25 ms tick, at a time | everything below |
| Worker process and its protocol (`startProcess`, `signalStop`, `ParseEvent`) | a process with two goroutines: one reads its stdout, one awaits its end | handshake line, request events, stop line on stdin, signal, kill | manager, through `messages` |
| Lifecycle hooks (`appCycle`, `actionScope`, `actionRun`, `phase`, `actionResult`) | runs per scope and event, `actionTasks` | start a hook, take its result, cancel | manager; each run is a goroutine |
| Listeners and poller (`Listener`, `Poller`, `watchListeners`) | one-shot epoll registrations, `rearmAt`, identifiers | arm, report, rearm, close | manager |
| Configuration reload (`Watch`, `apply`) | watcher's `initial`, pending snapshot, restart batch | load, debounce, apply, retry | manager, through `updates` |
| Schedules (`parseSchedule`, `scheduleDue`) | `nextRun`, `scheduled` | due, skip, run | manager |
| Pressure window and resource guard | occupancy integral; last sample | observe, evaluate; sample | manager |
| Process owner (`job_linux.go`) | managed children, cgroup per worker | start, wait, reap, kill, close | manager, awaiting goroutines |
| Process jobs and service control on Windows | job object per worker; service state | the same | manager |
| Loading, validation, templates, identities, actions | none | pure functions and I/O | watcher, manager |

What is hard in it: a worker is described by flags that several handlers change
between ticks; the messages of its two goroutines arrive after the manager has
made up its mind about it; successors start while predecessors retire; hooks and
deadlines decide when a stop is sent and a process killed; dependencies make
services wait for each other at start and, the other way round, at shutdown; and
every decision of a tick is taken from counts that the same tick changes.
`hazards` in PROJECT.json lists these places line by line.

What makes each component correct:

- *manager*: limits of a pool hold at every point of a tick; a retiring worker is
  never taken back and always goes away; nothing is charged to an app for what a
  retiring worker does; demand is never lost; shutdown, in which dependencies wait
  for their dependents, returns with nothing left running.
- *protocol*: the stop line only after a handshake, a kill only after a notice.
- *hooks*: a generation begins and ends with its active members; phases gate what
  follows them; what is retired is not checked any more; the count of running
  actions is exact, so that shutdown waits for all of them and ends.
- *listeners*: all listeners of a snapshot or none of them, and of a refused one no
  permissions either, but for one owner (see "Where an owner is not given back"); a readable
  listener is reported again until somebody accepts; an event that comes late never
  names the listener of another app.
- *reload*: the watcher and the manager agree on the configuration; a change of
  watched files restarts its app, also when its event was lost; a configuration
  that stays is the one that runs in the end.
- *schedules*: no overlap beyond the limit, whatever became of the record the
  executions were started under; every occurrence, none twice, no catching up.
- *process owner*: every child is collected once, and by the right party.

## Modules

| Module | What it is |
|---|---|
| `WorkerPool` | What the supervisor promises of its workers: instances only move forward through their lives, a start finds room, nothing starts after shutdown began, and it is over only when all are gone. |
| `Manager` | The manager goroutine, in detail: an action per handler of the select loop and per step of a tick. |
| `Registry` | What `apply` promises: a snapshot is in force for all apps at once or not at all, waiting connections survive it, demand is never somebody else's. |
| `MCOne`, `MCPair`, `MCHold` | Instances for TLC. |
| `Hooks` | The lifecycle hooks of one app in detail: generations, scopes, runs and their goroutines. |
| `MCHooks` | Its instances for TLC. |
| `HooksProofs` | The inductive invariant of `Hooks` and the theorems. |
| `ProcessOwner` | The children of the supervisor on Linux: start, wait, the reaper, the end of a family, and the kernel they run on. |
| `MCOwner` | Its instance for TLC. |
| `ProcessOwnerProofs` | The inductive invariant of `ProcessOwner` and the theorems. |
| `ManagerProofs` | The inductive invariant of `Manager` and the theorems. |
| `ManagerStepProofs` | The action properties of `Manager`, as theorems. |
| `Listeners` | The inside of `apply` up to the exchange of services, the one-shot registrations and the poller goroutine. |
| `Reload` | `Watch`, the file system watcher, and the manager's branches for updates and retries. |
| `Schedule` | Interval and crontab schedules: parsing of fields, due times, reservations, and executions across configurations. |
| `MCListeners`, `MCReload`, `MCSchedule` | Their instances for TLC. |
| `ListenersProofs`, `ReloadProofs`, `ScheduleProofs` | Their inductive invariants and theorems. |
| `GatedProofs` | That hooks gate what follows them, on top of `HooksProofs`. |

`Manager` is the centre, and the other modules open one thing each that it takes as
given: `Hooks` its oracle for phases, `ProcessOwner` the exit message, `Listeners`
the demand a readable listener sets, `Reload` the restart of an app, `Schedule` an
app whose executions are started by reservation.  `WorkerPool` is promised twice, by `Manager`
with its limits and by `Hooks` with its hooks; `Registry` is the promise of `Listeners`.  `Reload` takes `apply` as one
step with an outcome; `Listeners` and `Schedule` have what happens in it.

### How Manager corresponds to the code

A worker is a member of `Worker`, whose record holds the fields of `process`
that decide anything.  `life` merges `pending`, `exited` and membership of
`manager.workers`; `notice` says what `signalStop` did.  An identity is used
again once the entry, its goroutines and its probe have gone.  `stream` is the
process as the manager can know it: its reader goroutine has a first line to
deliver, then events, then it has seen the end of the output; the exit message
follows.  Because a message changes the model when it is *received*, in the
order of its sender, the channel itself needs no variable: whatever lies in it
has not happened yet for the manager, and nothing else depends on it.

`demand` and `throttled` are `service.demand` and a `retryAt` in the future.

A tick is not atomic in the model: `stage` names its loop, and each iteration
over a worker or a service is one or three actions, in any order, as Go iterates
maps.  The manager goroutine receives nothing before the tick ends, so the
intermediate states are the program's own and invariants are checked in them.

- `Receive...` are the branches of `handle`, `Restart` is `restart`.
- `Tick` and `Shutdown` begin a tick; `TickRetired`, `TickActive` and
  `TickOverdue` are the loop over the workers with `lifecycle`, the kill, the
  watchdogs and the probe; `TickStopping` is the shutdown loop.
- `TickActivation` computes `wanted` and `required`; for each service
  `TickUnavailable` or `TickService` (launch what is reserved), then `NoSpawn`,
  `SpawnLaunched`, `SpawnReserved` or `SpawnFails`, then `TickIdle`.
- `Return` is the end of `run`.

What is abstract:

- *Time*: a deadline that runs may or may not have passed at a tick.  A worker
  may therefore retire for idleness, time out or be killed at any tick the code
  could do it, at some configuration of the durations.
- *Hooks*: a phase with an awaited trigger has or has not passed, chosen anew
  each time it is asked; a failing one restarts any active worker.
- *stdin*: the stop line is taken by the pipe or it is not.
- *Saturation*: a pool of ready workers that report may be found saturated or not.

A handler that asks the outside such questions has an oracle parameter
(`Oracle`), a record with one set per question.

Left out of Manager, besides what the modules below have: `failures` (it only sets the length of a backoff) and
the resource guard (it only forbids growth beyond need).

### How Hooks corresponds to the code

`Hooks` opens the oracle for hooks that `Manager` consults, for the workers of one
app, and leaves the reasons for which workers start and stop to `Manager`:
`StopWorker`, `Exit` and `Spawn` may happen whenever the code allows them.  A
handler passes through several helpers (`phase`, `cancelPhase`, `cancelChecks`,
`lifecycle`, `stop`), each of which changes workers and runs; here they are
operators that take the manager's state as a record and return the next one, under
their names in the code, and an action applies the composition its handler calls.

- `child` is the part of `process` that matters to hooks, `retired` the `retiring`
  flags of `appCycle`, `run` the `actionRun`s by scope and trigger, `tasks` is
  `actionTasks`, `current` is `service.cycle`.
- `Spawn` is `spawn`, `Launch` the loop of `tick` over reserved workers, `Tick`
  its first loop, `Exit` the exit branch of `handle`, `Result` is `actionResult`
  up to its loop over the members of a generation and `Restart` an iteration of
  that loop, in any order; no other message is taken in between (`todo`).
- The iterations of a tick are separate steps between which other handlers may
  run.  The code does not allow that; the safety properties hold even so.
- Identities of workers and generations are used again when no goroutine of a hook
  of the last use runs any more.  `failures` stops at its threshold, beyond which
  the code does not distinguish counts.  `due` says which periodic hooks have
  waited for their interval.

### How ProcessOwner corresponds to the code

Each variable of the kernel maps identifiers to what it knows: whether a process
runs, its parent, its cgroup, the job whose command it is.  `Fork`, `Exit` and
`ParentWaits` are what worker families do; `Exit` adopts orphans, raises SIGCHLD
(one bit: signals coalesce) and reports a cgroup that became empty.

- `Start` and `Register` are the two ends of the critical section of
  `processOwner.Start`: between the fork and the registration the child may end, but
  nobody else may have the lock.
- `Await` is `cmd.Wait`: it frees the identifier without the lock.  `WaitEnters`
  to `WaitLeaves` is the rest of `processOwner.Wait`.
- `reap` is used by three callers: `Enter` (lock and start of reading),
  `ReadChildren` (the kernel's list is only complete if no child was collected
  while it was read), `Inspect` for each child of the list, `Leave`.
- `CloseKills`, `CloseReads` and `ClosePolls` are `processJob.Close`, which holds
  the job's lock; `Kill` needs it.  `Kill` is called by the manager or by the
  goroutine of a hook at any time until the exit was handled.
- `Start` without a cgroup is either the missing root or the fallback after a
  command could only be started outside one; `ungrouped` is both.

Left out: an owner that is not allowed to adopt (then `reap` returns at once and
orphans belong to another process), starts that fail (nothing of them is kept), I/O
errors of `Close` (the manager then shuts down), the removal of the directories,
`Members`, which only reads, and families that move processes to another cgroup.

### How Listeners corresponds to the code

`config` and `listener` are `manager.services` (the fields `config` and `listener`
of each), `listeners` and `nextListener` are the manager's, `bound`, `armed`,
`backlog` and `permission` the kernel's: the address of each open socket, epoll's
interest, connections nobody has accepted, and the owner and mode of socket paths.
`disowned` is a history variable: the paths whose owner a refusal did not give back.

- `Begin` enters `apply`; `Open` and `Permit` are iterations of its first two loops,
  in any order as Go iterates maps, and the second begins when the first is done.
  `Refuse` is any of its error returns with the deferred function (`Refused`): owners and
  modes go back, staged listeners are closed, and if chown or chmod fails for one of these
  paths, together or alone, the supervisor is ending.  `RefuseHalfway` is the return where
  `Identity.socket` has changed the owner, cannot change the mode and cannot give the owner
  back: an ordinary error, and no deferred function for that path.  `Commit` is the rest, which cannot fail.  The poller goes on meanwhile and may
  report a listener that is only staged.
- `Report` is `watchListeners`; its batches of up to 64 events are taken apart, since
  the manager handles them one after the other.  `reported` is what lies in the channel.
  `HandleEvent` is the loop over a message's sockets, with the event of a listener that
  is closed by now; `Rearm` is the loop of `tick` over listeners.
- `Shutdown` and `Return` are `shutdown` and the end of `run`, with the waker that ends
  the poller.
- `LastListener` is `1<<31-1` in the code.

Abstract: time (any tick may find `rearmAt` passed), how many connections wait, and why a
bind, a registration or a permission fails.  `Serve` stands for all a tick does about
demand.  A worker that shuts down the socket it inherited makes an error event
(`Frail`).  User and group of a path are one owner, which one chown changes.  Left out: apps
without listeners other than those that go or come.

### How Reload corresponds to the code

`disk` is what `Load` would return, `known` is `initial` in `Watch`, `restarts` its batch,
`offer` the update it is sending, `pending` and `services` are those of `run`.

- `Record` is `record` for an event of the watcher, `Flush` what follows either timer:
  lost events, `Load`, the new watcher when the roots change, and the decision to send.
  `watcher.Dropped()` is treated alike and shares `Record`; an overflow event does what
  the count of lost ones does.
- `Receive` is the manager's branch for an update, `Retry` that of a tick for a refused
  snapshot.
- `stale` is a history variable: apps that run a process older than the last change of
  its files.  `Forfeited` are those of them that nothing will restart.

Abstract: `apply` is one step; the debounce and the periodic timer fire at any
time the code could; `Load` and the start of the new watcher are one step; whether a rule
matches an event is given (`Watching`).

### How Schedule corresponds to the code

Time is a number of clock ticks, `Minute` of them to a minute; `Calendar` gives the five
values cron looks at for each minute, so that the instance chooses interesting dates.  The
text of an expression comes parsed into items (`ParseSchedule` decides which are
accepted); `CronField`, `Matches`, `NextSlot` and `Advanced` are `cronField`, `matches`,
`next` and the cadence in `scheduleDue`.

- `Tick` is the schedule's part of `tick`: `scheduleDue`, then the start of what is reserved
  or, when a dependency is missing, the stop of what runs.  A tick happens at any time,
  hence as late as one likes.
- `active`, `draining` and `retired` divide the executions under one name by whether their
  record is in service and whether they are stopping.  `Apply` moves them as `apply` does:
  a new record takes over the workers unless the address changes.
- `looked`, `installed` and `fired` are history variables for the properties.

Abstract: names of months and weekdays (numbers here) and zones whose offset is not a
whole number of minutes.

## What is checked

| Run | Instance | Properties |
|---|---|---|
| `pool` | one listening app, 3 identities, `min_workers` 1, `max_workers` 2, ready by its handshake | `Capacity`, `ImplementsPool`, `RetiresForGood`, `IdleKeepsMinimum` |
| `worker` | one app, 2 identities, `max_workers` 1, all watchdogs, an endpoint probe, `pre_start`, check and `pre_stop` hooks, one request identifier, watched files, launches that may fail | `TypeOK`, `Supervised`, `StopProtocol`, `NothingLeft`, `ChargedOnce` |
| `recovery` | one app, 2 identities, minimum and maximum 1, with fairness | `RetirementEnds`, `MinimumRestored` |
| `pair` | a listening app with a `post_stop` hook that requires a virtual one, an identity each, with fairness | `DemandMet`, `ShutdownReturns`, `DemandActivates` |
| `hooks` | two workers, two generations; `pre_start` and `post_stop` of the app, `readiness` of the worker (threshold 2) that restarts it | `Generations`, `LastWords`, `Gated`, `ChecksCancelled`, `TasksCounted`, `ImplementsPool` |
| `farewell` | two workers of one generation with `pre_stop` and `post_stop` of the app, with fairness | `RetirementEnds`, `ShutdownReturns` |
| `owner` | two jobs, three process identifiers | `TypeOK`, `StatusKept`, `FamilyGone` |
| `reap` | one job, three process identifiers, with fairness | `AdoptedCollected`, `CloseReturns` |
| `listeners` | two apps, two socket paths and a port, four snapshots of which one is always refused, three identifiers, with fairness | `TypeOK`, `Registered`, `NeverDeaf`, `Permitted`, `ConnectionNoticed`, `ImplementsRegistry` |
| `reload` | two watched apps, four snapshots of which one is always and one sometimes refused, three sets of roots, with fairness | `Agreement`, `ForfeitedRefused`, `ChangeRestarts`, `Converges` |
| `schedule` | one app; an interval of three ticks with overlap 2, two crontab expressions, one that is refused and none; six minutes of two ticks | `WithinLimit`, `EveryOccurrence` |
| `hold` | a listening app, a virtual one it depends on in parallel, and a listening one that the virtual one requires | `DependencyHeld` is violated |

Two refinements of abstract modules are among the properties.  `ImplementsPool` of `Hooks` maps
a worker to its place in life (`LifeOf`) and gives the pool room for all identities, as limits are
`Manager`'s; it says that hooks only hold a worker back or let it go: none launches a worker
that was told to stop, brings one back, or starts one during shutdown.
`ImplementsRegistry` maps the running state of `Listeners` to one without `applying`: an
app listens where its service does, waiting connections are those of services, and the
owner and mode of a path are what they will be when `apply` has ended otherwise than by
committing (`Settled`).  Opening, permitting and refusing then change nothing, with two
exceptions: a deferred restore that fails is fatal (`Fail`), and `RefuseHalfway` may be a `Disown`,
which gives one path in service the owner the refused snapshot asks for and keeps its mode.
`Commit` is `Apply`: it gives a path whose permissions the snapshot changes what it asks for, and
leaves the others as they are, a disowned one included.

The types of `Hooks`, `Reload` and `Schedule` are proved and not among the runs' invariants.

*Bounds.* The only bound is the number of identities per app, `Free`: a spawn
needs one that is not in use, so at most that many instances of an app exist at
once, retiring ones included.  One more than `max_workers` lets a successor start
beside a retiring predecessor, which is where the counts can go wrong; identities
are reused for ever, so runs are unbounded in time.  In `pair` and `hold` there
is one identity per app: there the questions are about who waits for whom.
Identities are symmetric in `pool` and `worker`, where no liveness is checked.
In `hooks` two workers and two generations are the least that lets a
generation drain while the next begins and a worker join one that is about to end;
both scopes have a trigger, and one failing `pre_start` restarts a whole generation.
A `health` trigger is too much for the same run (it is a periodic check like
`readiness`, without the gate); the theorems cover it.  `farewell` needs one generation, as nothing in it
waits for another.
In `owner` a command, a descendant and one identifier to spare are shared by two
jobs, so that a second command or an orphan may get the identifier of a first
that was collected but not yet unregistered; `reap` has one job, as the jobs meet
only at the lock, and there the orphan.
In `listeners` the identifiers are the bound: three let a service move away and back and
then run out, which the code must survive too.  The snapshots tighten permissions, move
an app to another address, remove one and name another cgroup.  Tightening changes owner and
mode of one path and only the mode of the other, so both halves of a change are seen
apart and one path never is disowned.  In `reload` nothing is
bounded: the batch has an entry per app, and events are sets.  `schedule` ends at
`Horizon` (eleven: six minutes, or three periods of the interval and a late tick), and `MaxExecutions` bounds only what an app may start while it has no schedule;
three exceed every limit of the schedules that may follow.

*Fairness* (`FairSpec`).  The loops of a tick end: the manager goroutine does not
stop in the middle (weak fairness).  Ticks come again and again: Go's select picks
among ready channels at random, so the ticker is served even under a flood of
messages (strong fairness).  `TickSettles` says that some tick finds
`stop_timeout` expired and the hooks of a retiring worker finished: both come,
the first is a fixed instant and every hook has a timeout.  `KilledEnds` is the
operating system's: a killed family ends, and its goroutines report it.  Backoffs
elapse.  In `Hooks`, the result of a hook comes (hooks have timeouts), ticks visit
every worker and stop all of them at shutdown, and a worker that was told to stop
exits, if only because it is killed.  In `ProcessOwner` killed processes end, and
goroutines go on; where they take the lock this is strong fairness, for sync.Mutex
hands it to one that has waited long.  Nothing is assumed of a worker that was not killed: it may never answer,
never become ready and never stop by itself.
In `Listeners` `apply` ends and a fatal error is seen at the top of the loop (weak), and the
one step each listener waits for, being reported, received or armed again, is taken in
the end (strong: between two selects the manager may be inside `apply` and cannot take
it).  A worker is not assumed to accept.  In `Reload` the periodic ticker has its
turn among the events in `Watch`'s select and the manager its update (weak), an event is
delivered (strong), and starting a watcher for new roots and binding a contested address
succeed again and again (strong): without that no retry could help.  The debounce timer
needs no fairness, so a stream of events that keeps resetting it delays nothing for ever.

### A disagreement between code and documentation

The comment at `main.go:2858` says that a virtual activation holds dependencies
while a caller is starting or running, and `src/README.md:358` that every kind of
dependency holds it alive.  `hold` shows the tick that does not: when the caller
of a virtual service is gone, the service still runs until its own idle timeout,
but activates nothing (`wanted` starts from startup apps, minimums, demand and
listening apps).  Its dependency may be stopped for idleness first.  The next
tick then stops the virtual service as "dependency unavailable" and sets its
demand, so that both are started again without anybody having asked.

## What is proved

`ManagerProofs` proves, for every set of apps and identities and every
configuration that satisfies `ManagerAssumption` (the constants have their types,
`min_workers` does not exceed `max_workers`, which is positive, virtual apps have
a control pipe) and `FiniteAssumption`:

- `TypeCorrect`, `SupervisedAlways`, `StopProtocolAlways`, `NothingLeftAlways`
  and `CapacityAlways`: the invariants of the runs;
- `Implements`: `Spec => Promise!Spec`, the refinement of `WorkerPool`.

The properties are not inductive by themselves.  `IInv` adds what they rest on:

- what each record owes its process (`Obeys`): a notice was sent exactly when
  the stop is recorded as sent for a launched worker, which is why the kill that
  follows in the same iteration never precedes the notice; a reservation has no
  handshake, so that one that is launched starts without;
- `Heard`: telemetry is off until the first line was delivered, so that the
  handshake cannot take back what the stop line was sent for;
- `Staged`: service loops run only before shutdown, so that no process is
  launched after it began, and `run` returns drained.

The argument follows the code.  `Follows(w, r, n)` says that record `n` is a
legal successor of `r` while the process stays as it is; `LifecycleFollows` and
`StopFollows` prove it of the two helpers every handler goes through, and
`FollowsOn` composes them.  Then each action is a step in which every record
moves on (`Advances`), a spawn that found room (`Spawns`), or the beginning or
the end of the shutdown: `StepKinds`.  The invariant, the capacity and the
refinement are each one short case split over these.

`ManagerStepProofs` proves the action properties of the same module: `RetiresForGoodAlways`,
`ChargedOnceAlways`, `DemandMetAlways` and
`IdleKeepsMinimumAlways`.  Each proof goes through the few actions that can do what its
property is about (charge an app, drop its demand, retire idle workers).  Two of them need more than
`IInv`.  `RetiresForGood` needs `AllQuiet`, workers that are not active are not ready: `Rests`
says of two records what the property says of a step, and is proved of `lifecycle` and
`stop`; that no second notice is sent is `Obeys` again.  `IdleKeepsMinimum` needs `Counted`:
the idle loop uses a count taken before the spawn of the same tick, which may be too small
and is never too large.

`HooksProofs` proves, for any number of workers, generations and triggers that
`validateActions` accepts (`HooksAssumption`; `FiniteHooks`: there are finitely
many), `TypeCorrect`, `GenerationsAlways`, `LastWordsAlways`,
`ChecksCancelledAlways`, `TasksCountedAlways` and `Implements`.  The invariant `Sound` is a
predicate on states of the manager: each helper has a lemma that it takes sound
states to sound ones, under the condition its callers establish (`PhaseSound`:
checks are asked for only in scopes in service, `post_stop` hooks of a generation
only when it is over), and an action is a composition of them.  `Deactivated` is
the heart of it: stop, exit and a failed launch all end in the same cancellation.
The five properties need each other: `LastWords` holds because a generation that
is over is retiring (`Generations`) and retiring ones get no new members;
`ChecksCancelled` because what runs was made (`Made`), so that cancelling misses
nothing; the type of `tasks` because it counts goroutines (`Counted`).
`Implements` is the refinement of `WorkerPool`.  It goes through the same helpers: each moves
every worker forward or leaves it (`Onward`, which composes by `OnwardOn`), and launches none,
so a handler is an `Advance` of the pool.  Only `startProcess` launches a worker (`Launch`, not
during shutdown: `LaunchSeen`), and `Spawn` is a `Start`, or a stutter when the launch
fails and the new worker is forgotten in the same step (`SpawnStarts`).

`ProcessOwnerProofs` proves, for any number of jobs and identifiers
(`OwnerAssumption`: the names are distinct), `TypeCorrect`, `StatusKeptAlways` and
`FamilyGoneAlways`.  `StatusKept` rests on the registration of every started command
(`Registered`), on the lock, which no reap can have while a command is started but
not registered (`Scanning`, and who holds it in `TypeOK`), and on commands staying
children of the supervisor (`Commands`, `Orphans`): a family's own waits cannot
take them, nor can two jobs wait for the same.  There is a lemma per action, with a
step for each part of the invariant the action can disturb.

`GatedProofs` adds the last invariant of `Hooks`, `GatedAlways`, which is of another kind:
it is about results, not about who runs.  `Firm` says that every worker is behind its
gates, and its core is `Calm`: a run that has passed is not started again, health checks
excepted, so a late result cannot take a pass back.  Asking for hooks and cancelling
them keep all results (`SameResults`), so each helper leaves the gates as they are and only
`Lifecycle` and a launch put a worker behind one, after asking.

`ListenersProofs` proves `TypeCorrect`, `RegisteredAlways`, `NeverDeafAlways`,
`PermittedAlways` and `Implements` for any apps, addresses, snapshots and number of identifiers
(`ListenersAssumption`, and `OneAddressEach`, which `Load` checks).  The invariant has three
parts besides types (`Files`: only a path that exists is changed).  `Ledger` accounts for sockets: identifiers up to `nextListener` are used once
(`Numbered`), an open one is a service's or staged (`Serving`, `Staging`), and no address is
bound twice.  `Watched` needs it because a number that was given twice would have the
event of one listener disarm another.  `Paths` says what is true in the middle of
`apply`: what `finish` would restore is what the running configuration asks for, but for the
owner of a disowned path (`Owned`), and what is there meanwhile what the new one does; so both
ways out are right.  All refusals are one in these proofs (`Refusal`): they differ in what they
leave of the paths, which `RefusalLeaves` says for all of them (`Unrestored`).
`Implements`, the refinement of `Registry`, is where these parts meet: `Ledger` shows that no
socket of a service is touched before `Commit`, `Paths` that the permissions it changes are
the ones the new snapshot asks for.  `RefuseSeen` finds the app that has the path of a
`RefuseHalfway` in service, if any: it is the one that asked for other permissions.  It needs `Standing` besides: nothing is applied after a fatal
error, the first snapshot is applied before any app is in service, and no listener is
left after the shutdown began.

`ReloadProofs` proves `TypeCorrect`, `AgreementAlways` and `ForfeitedRefusedAlways` for
any apps and snapshots (`ReloadAssumption`; `WatchedRoots`: `Load` adds the roots of
every rule).  `ForfeitedRefused` is an action property; it needs that the batch only names
configurations of `known` (`Recent`), that without a refused snapshot those are
the manager's (`Agreement`), that the watcher covers the roots of what `Watch` last loaded
(`Covered`), and that only watched apps can miss a change (`Awaiting`).

`ScheduleProofs` proves, for any apps, configurations, calendar and horizon, under
`ScheduleAssumption` (types; the horizon holds a minute, and the calendar has numbers for
every minute up to it), `ExpressionAssumption` (what the parser of the text delivers) and
`InitialAssumption` (the program starts only with expressions that are accepted):

- `TypeCorrect`, and `WithinLimitAlways` with `ReservedAlways`: a reservation made
  at one tick and started at a later one still has room then, because nothing else starts
  executions of an app with a schedule (`Founded`) and `apply` drops the reservation;
- `MatchesNamed`: the bits of `cronField` agree with crontab's definition by ranges and
  remainders, for every accepted expression and any moment.  The loop that sets bits is a
  recursive function.  `Reached` is what it should set, which solves the recursion
  (`MarksExist`); nothing else does, as there is no least distance from the last number at
  which another solution differs (`MarksUnique`, from the well-foundedness in the library's
  `WellFoundedInduction`);
- `EveryOccurrenceAlways`, an action property.  Its invariant is `Ahead`: what a record waits for
  is the first moment of its schedule after the last look (`First`), on the cadence of the
  installation for an interval and the start of a minute for an expression.  `LateFirst` is the
  arithmetic of `scheduleDue`: a late tick advances by the number of whole periods missed
  plus one, also when the remainder is zero.

Only model-checked: liveness (`RetirementEnds`, `MinimumRestored`, `ShutdownReturns`,
`DemandActivates`, `AdoptedCollected`, `CloseReturns`, `ConnectionNoticed`, `ChangeRestarts`,
`Converges`), as fairness and ENABLED are out of the prover's reach.  Every
invariant and action property that the passing runs check is a theorem.

## Where a change of files is lost

`ForfeitedRefused` has two exceptions, and both are what the code does.

- While `apply` refuses a snapshot that `Load` accepted, `Watch` already records restarts
  under that snapshot, and `run` drops those whose configuration is not the one it runs
  (`main.go:2398-2402`).  An app whose configuration the refused snapshot changes is then not
  restarted for its files until the snapshot is accepted (which restarts it) or
  replaced by one like the old, though `src/README.md:407` says "For a triggered app, all
  current workers receive graceful stop".
- When the roots change, the old watcher is closed with the events it still holds
  (`main.go:1490-1497`), and its count of lost ones is looked at before, not after.

In every other state a change is restarted for: that is `ForfeitedRefused` for every
step and `ChangeRestarts` in the end.

## Where an owner is not given back

`src/README.md:502` says "Identity and mode changes update a reused Unix listener, with
permission rollback if the configuration cannot be applied", and two cases are not like this.

- A deferred restore fails: owner or mode of the path stay, and the supervisor ends
  (`main.go:2450-2455`).
- `Identity.socket` fails at chmod and its own attempt to give the owner back fails too
  (`job_linux.go:286-288`): `apply` returns an ordinary error (`main.go:2499-2501`), the
  program goes on, and the path in service keeps the owner of the refused snapshot.  Nothing
  repairs it until a snapshot is committed that changes the permissions of this path, or moves
  or removes its app: one that asks for what the running configuration asked for is skipped
  (`main.go:2491-2494`).

`Permitted` and `ImplementsRegistry` hold with the second case as their one exception
(`disowned`, `Disown`), and it is no larger: the mode stays, other paths stay, and the exception
ends when a snapshot gives the path its permissions.

## Not modelled

- *Pressure window*: floating-point averages over real time.  `Manager` lets a
  saturated pool grow or not at any tick, so its properties hold whatever the window says,
  and nothing is shown about when it should say so.
- *Resource guard*: reads of system files and percentages; it only defers growth that
  `Manager` may as well not choose.
- *Configuration loading*: YAML, globs, templates and secrets are data processing.  What
  `Load` guarantees to the rest is stated as the assumptions of the modules.
- *Actions and identities*: commands, HTTP, TCP and UDP checks, users and groups are I/O.
- *Windows*: job objects, the service manager's handler and the emulated epoll are calls of
  its API; the manager sees the same operations.
- *The tool that patches the Go toolchain*, tests and examples.
